SPECIFICATION HandoffSpec
CONSTANTS
    Agents = {a1, p1}
    Engines = {e1, e2}
    Migrations = {m1, m2}
    Rids = {}
    None = None
    InitialEpoch = 1
    MaxStep = 0
    Home <- AllAtOne
    Parked = {p1}
    MaxEpoch = 3
    MaxQueue = 1
    Slots = 2
    MaxFaults = 1
INVARIANTS
    FailedHandoffsAbort
CHECK_DEADLOCK FALSE
