SPECIFICATION FairProtocolSpec
CONSTANTS
    Agents = {a1, a2}
    Engines = {1, 2}
    Migrations = {m1, m2}
    Rids = {}
    None = None
    InitialEpoch = 1
    MaxStep = 0
    Home <- Spread
    Pairs <- AllPairs
    MaxEpoch = 5
    MaxQueue = 2
    Slots = 1
    MaxFaults = 1
    MaxCrashes = 0
    MaxResets = 0
    MaxOverlaps = 0
INVARIANTS
    ReleaseIsRetryable
PROPERTIES
    EveryMigrateReturns
    CommittedIsSettled
CHECK_DEADLOCK FALSE
