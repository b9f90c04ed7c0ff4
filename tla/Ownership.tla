------------------------------ MODULE Ownership ------------------------------
(***************************************************************************)
(* What the durable authority of AgentShift promises its callers, with no  *)
(* tables and no migrations in it: every agent has one lease, a pair of an *)
(* engine and an epoch; the lease only moves to the next epoch; progress   *)
(* only advances; and a step that an epoch authored keeps that author for  *)
(* ever.  README.md:14-15 states it as "epoch and step fencing prevent the *)
(* source and destination from advancing the same agent".                  *)
(***************************************************************************)
EXTENDS Naturals

CONSTANTS
    Agents,         \* agent identifiers
    Engines,        \* serving engines that can hold a lease
    None,           \* "no engine": the agent has not been registered
    InitialEpoch,   \* the epoch of the first lease
    MaxStep         \* bound: the last step an agent runs

ASSUME OwnershipAssumption ==
    /\ None \notin Engines
    /\ InitialEpoch \in Nat \ {0}
    /\ MaxStep \in Nat

VARIABLES
    lease,      \* agent -> [engine, epoch]
    progress,   \* agent -> last committed step
    author      \* agent -> step -> epoch that authored it, 0 when none did

ownershipVars == <<lease, progress, author>>

Steps == 1..MaxStep

Holds(a) == lease[a].engine # None

OwnershipInit ==
    /\ lease = [a \in Agents |-> [engine |-> None, epoch |-> 0]]
    /\ progress = [a \in Agents |-> 0]
    /\ author = [a \in Agents |-> [s \in Steps |-> 0]]

\* The first lease of an agent.
Grant(a, e) ==
    /\ ~Holds(a)
    /\ lease' = [lease EXCEPT ![a] = [engine |-> e, epoch |-> InitialEpoch]]
    /\ progress' = [progress EXCEPT ![a] = 0]
    /\ UNCHANGED author

\* The lease moves: the next epoch, on whatever engine.
HandOver(a, e) ==
    /\ Holds(a)
    /\ lease' = [lease EXCEPT ![a] = [engine |-> e, epoch |-> lease[a].epoch + 1]]
    /\ UNCHANGED <<progress, author>>

\* The next step is authored by the epoch that holds the lease now.
Author(a) ==
    /\ Holds(a)
    /\ progress[a] + 1 \in Steps
    /\ progress' = [progress EXCEPT ![a] = @ + 1]
    /\ author' = [author EXCEPT ![a][progress[a] + 1] = lease[a].epoch]
    /\ UNCHANGED lease

\* Steps committed without a claim have no recorded author.
Skip(a, s) ==
    /\ Holds(a)
    /\ s > progress[a]
    /\ progress' = [progress EXCEPT ![a] = s]
    /\ UNCHANGED <<lease, author>>

OwnershipNext ==
    \E a \in Agents :
        \/ \E e \in Engines : Grant(a, e) \/ HandOver(a, e)
        \/ Author(a)
        \/ \E s \in Steps : Skip(a, s)

OwnershipSpec == OwnershipInit /\ [][OwnershipNext]_ownershipVars
=============================================================================
