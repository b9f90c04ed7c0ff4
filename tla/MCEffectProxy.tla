--------------------------- MODULE MCEffectProxy ---------------------------
\* Three callers race for two operations of one agent whose lease moves once.
EXTENDS EffectProxy, TLC

CONSTANTS a1

OfOne == [op \in Operations |-> a1]

EffectSymmetry ==
    Permutations(Operations) \cup Permutations(Callers) \cup Permutations(Engines)
=============================================================================
