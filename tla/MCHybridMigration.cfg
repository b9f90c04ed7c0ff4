SPECIFICATION HybridFairSpec
CONSTANTS
    a1 = a1
    a3 = a3
    a2 = a2
    t1 = t1
    t2 = t2
    e1 = e1
    e2 = e2
    Agents = {a1, a2, a3}
    Engines = {e1, e2}
    Migrations = {m1, m2}
    Rids = {}
    None = None
    InitialEpoch = 1
    MaxStep = 0
    Tokens = {t1, t2}
    Home <- Homes
    TokensOf <- Prefixes
    MaxFaults = 1
INVARIANTS
    PublishedStateIsOwn
    HandedOverWithState
    CopiesPairUp
PROPERTIES
    EveryMigrateReturns
CHECK_DEADLOCK FALSE
