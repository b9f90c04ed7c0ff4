SPECIFICATION ExecutorSpec
CONSTANTS
    Agents = {a1}
    Engines = {e1, e2}
    Migrations = {m1, m2}
    Rids = {r1, r2}
    None = None
    InitialEpoch = 1
    MaxStep = 2
    Callers = {c1, c2, c3}
    Lengths = {1, 2}
    MaxDeaths = 1
SYMMETRY ExecutorSymmetry
INVARIANTS
    OneTurnAtATime
    ClaimsAreExplained
    ReturnsAreTheStream
PROPERTIES
    FencedTurnsCommitNothing
CHECK_DEADLOCK FALSE
