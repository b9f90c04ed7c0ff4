------------------------- MODULE MCManagedExecutor -------------------------
\* ManagedExecutor on a small instance.
EXTENDS ManagedExecutor, TLC

ExecutorSymmetry == Permutations(Callers) \cup Permutations(Migrations)
                        \cup Permutations(Engines)
=============================================================================
