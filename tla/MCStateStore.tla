---------------------------- MODULE MCStateStore ----------------------------
\* StateStore on a small instance: what TLC needs and nothing else.
EXTENDS StateStore, TLC

StoreSymmetry ==
    Permutations(Agents) \cup Permutations(Engines)
        \cup Permutations(Migrations) \cup Permutations(Rids)
=============================================================================
