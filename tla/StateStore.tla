----------------------------- MODULE StateStore -----------------------------
(***************************************************************************)
(* agentshift/state/store.py: SQLiteStateStore, the durable authority for  *)
(* ownership, progress and migrations, at the granularity of its           *)
(* transactions.  Every method runs one BEGIN IMMEDIATE transaction, which *)
(* is one atomic action here, except start_migration, which reads the      *)
(* lease before it begins its transaction and is two actions.  Callers are *)
(* any number of threads and processes (connections are thread-local): an  *)
(* action's parameters are the arguments of a call, and a call whose       *)
(* transaction raises StateConflict, StaleLease or KeyError rolls back and *)
(* changes nothing, so it is not a step.                                   *)
(*                                                                         *)
(* Abstracted: token lists, payloads, timestamps and byte counters.  The   *)
(* mailbox and effects tables are in the modules of their callers.         *)
(***************************************************************************)
EXTENDS Naturals, FiniteSets

CONSTANTS
    Agents,         \* agent ids callers register
    Engines,        \* engine ids
    Migrations,     \* migration ids callers draw (uuid4, so each is drawn once)
    Rids,           \* request ids of the turns callers run
    None,           \* an absent agent, engine or request id
    InitialEpoch,   \* owner_epoch callers register an agent with
    MaxStep         \* bound: the last step a caller runs

ASSUME StoreAssumption ==
    /\ None \notin Agents \cup Engines \cup Rids
    /\ InitialEpoch \in Nat \ {0}
    /\ MaxStep \in Nat

VARIABLES
    agents,         \* table agents: agent -> [owner, epoch, step]
    migrations,     \* table migrations: id -> row, state "NONE" when absent
    claims,         \* table step_claims: agent -> step -> row
    starting        \* start_migration calls between the lease check and the INSERT

storeVars == <<agents, migrations, claims, starting>>

-----------------------------------------------------------------------------
(* The tables. *)

Steps == 1..MaxStep

LiveStates == {"PREPARING", "COPYING", "DEST_READY", "COMMITTED"}
DoneStates == {"SOURCE_RELEASED", "RECOVERED", "ABORTED"}
ClaimStates == {"CLAIMED", "COMPLETED", "FAILED", "UNKNOWN"}

AgentRows == [owner : Engines \cup {None}, epoch : Nat, step : Nat]

MigrationRows ==
    [agent : Agents \cup {None}, source : Engines \cup {None},
     destination : Engines \cup {None}, epoch : Nat,
     state : LiveStates \cup DoneStates \cup {"NONE"}]

ClaimRows ==
    [status : ClaimStates \cup {"NONE"}, epoch : Nat, rid : Rids \cup {None}]

NoAgent == [owner |-> None, epoch |-> 0, step |-> 0]

NoMigration ==
    [agent |-> None, source |-> None, destination |-> None, epoch |-> 0,
     state |-> "NONE"]

NoClaim == [status |-> "NONE", epoch |-> 0, rid |-> None]

Registered(a) == agents[a].owner # None

MigrationState(m) == migrations[m].state

\* The rows the unique index one_live_migration_per_agent ranges over.
LiveMigration(m) == MigrationState(m) \in LiveStates

\* Mutant: the unique index forgets COMMITTED.
HasLiveMigrationButCommitted(a) ==
    \E m \in Migrations :
        LiveMigration(m) /\ MigrationState(m) # "COMMITTED" /\ migrations[m].agent = a

HasLiveMigration(a) ==
    \E m \in Migrations : LiveMigration(m) /\ migrations[m].agent = a

StoreInit ==
    /\ agents = [a \in Agents |-> NoAgent]
    /\ migrations = [m \in Migrations |-> NoMigration]
    /\ claims = [a \in Agents |-> [s \in Steps |-> NoClaim]]
    /\ starting = [m \in Migrations |-> NoMigration]

-----------------------------------------------------------------------------
(* Agents and steps. *)

register_agent(a, e) ==
    /\ ~Registered(a)
    /\ agents' = [agents EXCEPT ![a] =
                    [owner |-> e, epoch |-> InitialEpoch, step |-> 0]]
    /\ UNCHANGED <<migrations, claims, starting>>

\* Mutant: commit_step lets the step go back.
commit_step_any(a, s, expected_epoch) ==
    /\ Registered(a)
    /\ agents[a].epoch = expected_epoch
    /\ agents' = [agents EXCEPT ![a].step = s]
    /\ UNCHANGED <<migrations, claims, starting>>

\* Checks the epoch and that the step advances; neither the engine nor a claim.
commit_step(a, s, expected_epoch) ==
    /\ Registered(a)
    /\ agents[a].epoch = expected_epoch
    /\ s > agents[a].step
    /\ agents' = [agents EXCEPT ![a].step = s]
    /\ UNCHANGED <<migrations, claims, starting>>

\* Mutant: a claim that is still held is taken over too.
claim_step_takeover(a, s, owner_engine, owner_epoch, rid) ==
    /\ Registered(a)
    /\ agents[a].owner = owner_engine
    /\ agents[a].epoch = owner_epoch
    /\ s = agents[a].step + 1
    /\ claims[a][s].status # "COMPLETED"
    /\ claims' = [claims EXCEPT ![a][s] =
                    [status |-> "CLAIMED", epoch |-> owner_epoch, rid |-> rid]]
    /\ UNCHANGED <<agents, migrations, starting>>

\* Takes a free step, or takes over a claim that FAILED.
claim_step(a, s, owner_engine, owner_epoch, rid) ==
    /\ Registered(a)
    /\ agents[a].owner = owner_engine
    /\ agents[a].epoch = owner_epoch
    /\ s = agents[a].step + 1
    /\ claims[a][s].status \in {"NONE", "FAILED"}
    /\ claims' = [claims EXCEPT ![a][s] =
                    [status |-> "CLAIMED", epoch |-> owner_epoch, rid |-> rid]]
    /\ UNCHANGED <<agents, migrations, starting>>

\* Mutant: the claim is checked, the agent's own epoch is not.
commit_claimed_step_unfenced(a, s, expected_epoch, rid) ==
    /\ claims[a][s].status = "CLAIMED"
    /\ claims[a][s].rid = rid
    /\ claims[a][s].epoch = expected_epoch
    /\ s = agents[a].step + 1
    /\ agents' = [agents EXCEPT ![a].step = s]
    /\ claims' = [claims EXCEPT ![a][s].status = "COMPLETED"]
    /\ UNCHANGED <<migrations, starting>>

commit_claimed_step(a, s, expected_epoch, rid) ==
    /\ claims[a][s].status = "CLAIMED"
    /\ claims[a][s].rid = rid
    /\ claims[a][s].epoch = expected_epoch
    /\ agents[a].epoch = expected_epoch
    /\ s = agents[a].step + 1
    /\ agents' = [agents EXCEPT ![a].step = s]
    /\ claims' = [claims EXCEPT ![a][s].status = "COMPLETED"]
    /\ UNCHANGED <<migrations, starting>>

\* Mutant: a failed claim takes a migration's state name.
fail_claimed_step_aborted(a, s, rid, outcome_unknown) ==
    /\ claims[a][s].rid = rid
    /\ claims[a][s].status = "CLAIMED"
    /\ claims' = [claims EXCEPT ![a][s].status =
                    IF outcome_unknown THEN "UNKNOWN" ELSE "ABORTED"]
    /\ UNCHANGED <<agents, migrations, starting>>

\* No lease check: a fenced caller may still fail its own claim.
fail_claimed_step(a, s, rid, outcome_unknown) ==
    /\ claims[a][s].rid = rid
    /\ claims[a][s].status = "CLAIMED"
    /\ claims' = [claims EXCEPT ![a][s].status =
                    IF outcome_unknown THEN "UNKNOWN" ELSE "FAILED"]
    /\ UNCHANGED <<agents, migrations, starting>>

-----------------------------------------------------------------------------
(* Migrations. *)

\* assert_lease, outside the transaction that inserts the row.
start_migration_check(m, a, source, destination, epoch) ==
    /\ MigrationState(m) = "NONE"
    /\ starting[m].state = "NONE"
    /\ Registered(a)
    /\ agents[a].owner = source
    /\ agents[a].epoch = epoch
    /\ destination # source
    /\ starting' = [starting EXCEPT ![m] =
                      [agent |-> a, source |-> source, destination |-> destination,
                       epoch |-> epoch, state |-> "PREPARING"]]
    /\ UNCHANGED <<agents, migrations, claims>>

\* The INSERT, refused by the unique index while the agent has a live migration.
start_migration_insert(m) ==
    /\ starting[m].state = "PREPARING"
    /\ \/ /\ ~HasLiveMigration(starting[m].agent)
          /\ migrations' = [migrations EXCEPT ![m] = starting[m]]
       \/ /\ HasLiveMigration(starting[m].agent)
          /\ UNCHANGED migrations
    /\ starting' = [starting EXCEPT ![m] = NoMigration]
    /\ UNCHANGED <<agents, claims>>

\* The compare-and-swaps of MigrationState that the coordinators ask for.
Transitions ==
    {<<"PREPARING", "COPYING">>, <<"COPYING", "DEST_READY">>,
     <<"PREPARING", "ABORTED">>, <<"COPYING", "ABORTED">>,
     <<"DEST_READY", "ABORTED">>, <<"COMMITTED", "SOURCE_RELEASED">>}

transition_migration(m, expected, target) ==
    /\ MigrationState(m) = expected
    /\ migrations' = [migrations EXCEPT ![m].state = target]
    /\ UNCHANGED <<agents, claims, starting>>

\* Mutant: the compare-and-swap of the agent row is an unconditional UPDATE.
commit_migration_unfenced(m) ==
    LET a == migrations[m].agent IN
    /\ MigrationState(m) = "DEST_READY"
    /\ agents' = [agents EXCEPT ![a] =
                    [owner |-> migrations[m].destination,
                     epoch |-> migrations[m].epoch + 1,
                     step |-> agents[a].step]]
    /\ migrations' = [migrations EXCEPT ![m].state = "COMMITTED"]
    /\ UNCHANGED <<claims, starting>>

commit_migration(m) ==
    LET a == migrations[m].agent IN
    /\ MigrationState(m) = "DEST_READY"
    /\ agents[a].owner = migrations[m].source
    /\ agents[a].epoch = migrations[m].epoch
    /\ agents' = [agents EXCEPT ![a] =
                    [owner |-> migrations[m].destination,
                     epoch |-> migrations[m].epoch + 1,
                     step |-> agents[a].step]]
    /\ migrations' = [migrations EXCEPT ![m].state = "COMMITTED"]
    /\ UNCHANGED <<claims, starting>>

\* Mutant: recovery moves the lease by one epoch without writing the state.
recover_committed_migration_again(m, recovery_engine) ==
    LET a == migrations[m].agent IN
    /\ MigrationState(m) \in {"COMMITTED", "SOURCE_RELEASED"}
    /\ agents[a].owner = migrations[m].destination
    /\ agents[a].epoch = migrations[m].epoch + 1
    /\ agents' = [agents EXCEPT ![a] =
                    [owner |-> recovery_engine,
                     epoch |-> migrations[m].epoch + 2,
                     step |-> agents[a].step]]
    /\ UNCHANGED <<migrations, claims, starting>>

\* A migration already RECOVERED returns the agent row and changes nothing.
recover_committed_migration(m, recovery_engine) ==
    LET a == migrations[m].agent IN
    /\ MigrationState(m) \in {"COMMITTED", "SOURCE_RELEASED"}
    /\ agents[a].owner = migrations[m].destination
    /\ agents[a].epoch = migrations[m].epoch + 1
    /\ agents' = [agents EXCEPT ![a] =
                    [owner |-> recovery_engine,
                     epoch |-> migrations[m].epoch + 2,
                     step |-> agents[a].step]]
    /\ migrations' = [migrations EXCEPT ![m].state = "RECOVERED"]
    /\ UNCHANGED <<claims, starting>>

-----------------------------------------------------------------------------
(* Calls.  A caller may hold any lease the agent has had, so the epoch it      *)
(* passes ranges over all of them, and the engine over all engines.            *)

HeldEpochs(a) == InitialEpoch..agents[a].epoch

StepCalls ==
    \E a \in Agents, s \in Steps : \E ep \in HeldEpochs(a) :
        \/ commit_step(a, s, ep)
        \/ \E r \in Rids :
              \/ \E e \in Engines : claim_step(a, s, e, ep, r)
              \/ commit_claimed_step(a, s, ep, r)
              \/ \E unknown \in BOOLEAN : fail_claimed_step(a, s, r, unknown)

MigrationCalls ==
    \E m \in Migrations :
        \/ \E a \in Agents, e, d \in Engines : \E ep \in HeldEpochs(a) :
              start_migration_check(m, a, e, d, ep)
        \/ start_migration_insert(m)
        \/ \E t \in Transitions : transition_migration(m, t[1], t[2])
        \/ commit_migration(m)
        \/ \E e \in Engines : recover_committed_migration(m, e)

StoreNext ==
    \/ \E a \in Agents, e \in Engines : register_agent(a, e)
    \/ StepCalls
    \/ MigrationCalls

StoreSpec == StoreInit /\ [][StoreNext]_storeVars
-----------------------------------------------------------------------------
(* Correctness. *)

HandedOver(m) == MigrationState(m) \in {"COMMITTED", "SOURCE_RELEASED", "RECOVERED"}

\* The last epoch a migration created: its leases are (epoch, LastEpoch].
LastEpoch(m) ==
    migrations[m].epoch
      + (IF MigrationState(m) = "RECOVERED" THEN 2
         ELSE IF HandedOver(m) THEN 1 ELSE 0)

MigrationsOf(a) == {m \in Migrations : migrations[m].agent = a}

\* Types of the three tables and of the calls in flight (store.py:66-131).
StoreTypeOK ==
    /\ agents \in [Agents -> AgentRows]
    /\ migrations \in [Migrations -> MigrationRows]
    /\ claims \in [Agents -> [Steps -> ClaimRows]]
    /\ starting \in [Migrations -> MigrationRows]

\* A row, or a call in flight, names a registered agent, two engines, and an
\* epoch its agent has reached.
RowsWellFormed ==
    \A m \in Migrations : \A row \in {migrations[m], starting[m]} :
        row.state # "NONE" =>
            /\ row.agent \in Agents
            /\ row.source \in Engines
            /\ row.destination \in Engines
            /\ Registered(row.agent)
            /\ row.epoch <= agents[row.agent].epoch

\* At most one live migration per agent, although start_migration reads the lease
\* before its transaction: the unique index of store.py:125-127.
OneLiveMigration ==
    \A m, n \in Migrations :
        LiveMigration(m) /\ LiveMigration(n) /\ migrations[m].agent = migrations[n].agent
            => m = n

\* Ownership is a chain (implementation_plan.md:86, :96-97): no two migrations
\* ever created the same epoch of an agent, so no epoch is handed to two engines,
\* and none is beyond the epoch the agent is at.  Concurrent starts, late commits
\* and recoveries of older migrations must all be refused for this to hold.
HandoverChain ==
    \A m \in Migrations : HandedOver(m) =>
        /\ LastEpoch(m) <= agents[migrations[m].agent].epoch
        /\ \A n \in Migrations \ {m} :
              HandedOver(n) /\ migrations[n].agent = migrations[m].agent =>
                  LastEpoch(m) <= migrations[n].epoch \/ LastEpoch(n) <= migrations[m].epoch

\* A migration that created the agent's current epoch by committing gave it to its
\* destination; until the source is released or the hand-over is recovered that
\* lease cannot be superseded, which is what lets the source keep its pinned copy
\* as the shadow to recover from (implementation_plan.md:89, :96).
CommittedLeaseIsCurrent ==
    \A m \in Migrations :
        LET agent == agents[migrations[m].agent] IN
        /\ MigrationState(m) = "COMMITTED" => agent.epoch = migrations[m].epoch + 1
        /\ /\ MigrationState(m) \in {"COMMITTED", "SOURCE_RELEASED"}
           /\ agent.epoch = migrations[m].epoch + 1
           => agent.owner = migrations[m].destination

\* No hand-over is lost or counted twice: an agent's epoch is its first one plus one
\* per committed migration plus one more per recovered migration.
EpochAccounting ==
    \A a \in Agents : Registered(a) =>
        agents[a].epoch =
            InitialEpoch
              + Cardinality({m \in MigrationsOf(a) : HandedOver(m)})
              + Cardinality({m \in MigrationsOf(a) : MigrationState(m) = "RECOVERED"})

\* Step fencing (README.md:14-15): along the steps of an agent the authoring epochs
\* never go back, so once a new owner has authored a step no step of an older owner
\* follows it, whoever still holds a claim from before the hand-over.
StepAuthorship ==
    \A a \in Agents : \A s \in Steps :
        /\ claims[a][s].status # "NONE" =>
              /\ Registered(a)
              /\ s <= agents[a].step + 1
              /\ claims[a][s].epoch <= agents[a].epoch
        /\ claims[a][s].status = "COMPLETED" =>
              /\ s <= agents[a].step
              /\ \A t \in 1..s : claims[a][t].status = "COMPLETED" =>
                    claims[a][t].epoch <= claims[a][s].epoch

-----------------------------------------------------------------------------
(* The store implements Ownership: the lease is the agent row, and the author *)
(* of a step is the epoch of its COMPLETED claim.                              *)

leaseOf == [a \in Agents |-> [engine |-> agents[a].owner, epoch |-> agents[a].epoch]]

progressOf == [a \in Agents |-> agents[a].step]

authorOf ==
    [a \in Agents |-> [s \in Steps |->
        IF claims[a][s].status = "COMPLETED" THEN claims[a][s].epoch ELSE 0]]

Own == INSTANCE Ownership WITH
    lease <- leaseOf, progress <- progressOf, author <- authorOf

\* Every behaviour of the tables is one of leases that move by one epoch and steps
\* authored once, by the epoch that held the lease.
ImplementsOwnership == Own!OwnershipSpec
=============================================================================
