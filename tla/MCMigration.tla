---------------------------- MODULE MCMigration ----------------------------
\* MigrationProtocol on small instances: engines are 1, 2, ... in sorted order.
EXTENDS MigrationProtocol, TLC

\* Every agent starts on engine 1.
AllAtOne == [a \in Agents |-> 1]

\* The agents are spread over the engines.
Spread == [a \in Agents |-> IF a = CHOOSE b \in Agents : TRUE THEN 1 ELSE 2]

\* Every ordered pair of distinct engines.
AllPairs == {p \in Engines \X Engines : p[1] # p[2]}

ProtocolSymmetry == Permutations(Agents) \cup Permutations(Migrations)

\* Bound: any two of a fault, a crash of the controller, a reset of an engine and a late
\* finalize_destination.
TroublesBound == faults + crashes + resets + overlaps <= 2
=============================================================================
