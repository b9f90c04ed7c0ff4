SPECIFICATION EffectSpec
CONSTANTS
    a1 = a1
    Agents = {a1}
    Engines = {e1, e2}
    None = None
    InitialEpoch = 1
    MaxStep = 0
    Operations = {op1, op2}
    AgentOf <- OfOne
    Callers = {c1, c2, c3}
    MaxLease = 3
SYMMETRY EffectSymmetry
INVARIANTS
    AtMostOnce
    ReturnsWereSubmitted
PROPERTIES
    EffectsMoveForward
CHECK_DEADLOCK FALSE
