SPECIFICATION StoreSpec
CONSTANTS
    Agents = {a1}
    Engines = {e1, e2}
    Migrations = {m1, m2, m3}
    Rids = {r1, r2}
    None = None
    InitialEpoch = 1
    MaxStep = 2
SYMMETRY StoreSymmetry
INVARIANTS
    StoreTypeOK
    HandoverChain
    CommittedLeaseIsCurrent
    EpochAccounting
    StepAuthorship
PROPERTIES
    ImplementsOwnership
CHECK_DEADLOCK FALSE
