--------------------------- MODULE MCHybridMigration ---------------------------
\* HybridMigration on a small instance.
EXTENDS HybridMigration, TLC

CONSTANTS a1, a2, a3, t1, t2, e1, e2

\* Two agents move the same way, and a third, with the tokens of one of them, back.
Homes == a1 :> e1 @@ a2 :> e1 @@ a3 :> e2

Prefixes == a1 :> t1 @@ a2 :> t2 @@ a3 :> t1
=============================================================================
