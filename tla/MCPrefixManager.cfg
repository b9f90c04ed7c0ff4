SPECIFICATION PrefixSpec
CONSTANTS
    src = src
    dst = dst
    Engines = {src, dst}
    Pairs <- OnePair
    Agents = {a1}
    Migrations = {m1, m2}
    MaxEpoch = 2
    MaxQueue = 1
    Slots = 2
SYMMETRY PrefixSymmetry
CONSTRAINT LocksBound
INVARIANTS
    PoolAccounting
    PinnedRowsResident
    QueueMatchesTable
PROPERTIES
    ActiveTransfersAdvance
CHECK_DEADLOCK FALSE
