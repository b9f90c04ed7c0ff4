--------------------------- MODULE MCTieredHandoff ---------------------------
\* TieredHandoff on a small instance.
EXTENDS TieredHandoff, TLC

\* Every agent starts on the same engine.
AllAtOne == [a \in Agents |-> CHOOSE e \in Engines : TRUE]
=============================================================================
