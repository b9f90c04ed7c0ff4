-------------------------- MODULE MCPrefixManager --------------------------
\* The prefix managers of two engines, called in any order.
EXTENDS PrefixManager, TLC

CONSTANTS src, dst     \* the two engines

OnePair == {<<src, dst>>}

PrefixSymmetry == Permutations(Agents) \cup Permutations(Migrations)

\* Bound: a lock_ref stays below 3 (overwritten pins and failed ones raise it above 1).
LocksBound == \A e \in Engines, a \in Agents : locks[e][a] <= 2
=============================================================================
