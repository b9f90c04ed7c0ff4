SPECIFICATION ProtocolSpec
CONSTANTS
    Agents = {a1, a2}
    Engines = {1, 2}
    Migrations = {m1, m2}
    Rids = {}
    None = None
    InitialEpoch = 1
    MaxStep = 0
    Home <- AllAtOne
    Pairs <- AllPairs
    MaxEpoch = 5
    MaxQueue = 2
    Slots = 2
    MaxFaults = 1
    MaxCrashes = 1
    MaxResets = 1
    MaxOverlaps = 1
SYMMETRY ProtocolSymmetry
CONSTRAINT TroublesBound
INVARIANTS
    ReservationsReturned
    AbortCleansUp
    RowsStayOwn
    PinsAccountedFor
PROPERTIES
    CommitFindsDestinationReady
    LocksFollowPins
    SourceCopyKept
CHECK_DEADLOCK FALSE
