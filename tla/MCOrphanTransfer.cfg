SPECIFICATION ProtocolSpec
CONSTANTS
    Agents = {a1, a2}
    Engines = {1, 2}
    Migrations = {m1, m2}
    Rids = {}
    None = None
    InitialEpoch = 1
    MaxStep = 0
    Home <- AllAtOne
    Pairs <- AllPairs
    MaxEpoch = 5
    MaxQueue = 2
    Slots = 2
    MaxFaults = 1
    MaxCrashes = 0
    MaxResets = 0
    MaxOverlaps = 0
SYMMETRY ProtocolSymmetry
INVARIANTS
    VisibleRowsAreOwn
CHECK_DEADLOCK FALSE
