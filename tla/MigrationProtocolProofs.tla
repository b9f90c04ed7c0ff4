------------------------ MODULE MigrationProtocolProofs ------------------------
(***************************************************************************)
(* Theorems about MigrationProtocol for every set of agents, engines,      *)
(* migrations and pairs, and every bound on the faults.  The argument has  *)
(* three layers.                                                           *)
(*                                                                         *)
(* ProtocolInv says that the three layers of the composition agree: what   *)
(* StateStoreProofs shows of the rows and PrefixManagerProofs of the       *)
(* engines holds here, every call and every reconciliation fits the row of *)
(* its migration, and every transfer record fits the row it was made for.  *)
(* It is inductive by itself, and every action is then one of a few moves  *)
(* (Moves): what it may do to a row, a pin, a record, a call.              *)
(*                                                                         *)
(* The properties follow from the moves and from one strengthening each:   *)
(* PendingUnpinned (no pin waits where a copy will be installed),          *)
(* CopiesInstalled (what a call believes of its copy is so), SourcePins    *)
(* (which pins the source of a live migration may hold), and PinsFit with  *)
(* AcksFit and StartsFit (which migration accounts for which pin).  That   *)
(* rows stay their agent's own needs most: CallsLocked (one call at a time *)
(* per engine), CopiesPaired (a pair never has more waiting sources than   *)
(* destinations), CopiesFit (what meets at the workers is of one call).    *)
(***************************************************************************)
EXTENDS MigrationProtocol, StateStoreProofs, SequenceTheorems

\* The prefix managers with what is proved of them.
PMP == INSTANCE PrefixManagerProofs

-----------------------------------------------------------------------------
(* The inductive invariant. *)

\* The store: what StateStoreProofs shows of it, and what the coordinator adds.
RowsInv ==
    /\ StoreInv
    /\ CountInv
    /\ starting = [m \in Migrations |-> NoMigration]
    /\ \A a \in Agents : Registered(a)
    /\ \A m \in Migrations : MigrationState(m) # "NONE" =>
          /\ migrations[m].epoch >= InitialEpoch
          /\ <<migrations[m].source, migrations[m].destination>> \in Pairs

\* The migrate calls past the INSERT.
HoldsRow(m) ==
    task[m].pc \in {"pin", "group", "startDestination", "startSource", "wait",
                    "release", "cleanup", "commit"}

\* A call and the row of its migration agree.
TaskFits(m) ==
    LET t == task[m]
        row == migrations[m]
    IN
    /\ t.pc \in {"idle", "lock1", "lock2"} => row.state = "NONE"
    /\ t.pc \in {"lock1", "lock2"} =>
          t.agent \in Agents /\ <<t.source, t.destination>> \in Pairs
    /\ HoldsRow(m) => /\ row.agent = t.agent /\ row.epoch = t.epoch
                      /\ row.source = t.source /\ row.destination = t.destination
    /\ t.pc \in {"pin", "group"} => row.state = "PREPARING"
    /\ t.pc \in {"startDestination", "startSource", "wait", "release", "cleanup"} =>
          row.state = "COPYING"
    /\ t.pc = "commit" => row.state = "DEST_READY"
    /\ t.pc = "release" => t.failed
    /\ t.pc \in {"lock1", "lock2", "pin", "group", "startDestination", "startSource"} =>
          t.src = "wait" /\ t.dst = "wait" /\ ~t.failed

TasksFit == \A m \in Migrations : TaskFits(m)

\* A reconciliation runs alone, over migrations that nobody else can move.
ReconcileFits ==
    reconcile.pc # "idle" =>
        /\ \A m \in Migrations : ~Running(m)
        /\ reconcile.todo \subseteq Unfinished
        /\ reconcile.pc # "next" => reconcile.m \in Unfinished \ reconcile.todo
        /\ reconcile.pc \in {"poll", "cleanup"} => MigrationState(reconcile.m) = "COPYING"

\* A transfer record belongs to the migration whose id it is under.
RecordFits(e, m) ==
    LET t == transfers[e][m]
        row == migrations[m]
    IN
    t.state # "NONE" =>
        /\ row.state \notin {"NONE", "PREPARING"}
        /\ task[m].pc # "startDestination"
        /\ t.agent = row.agent
        /\ t.pair = <<row.source, row.destination>>
        /\ \/ /\ t.role = "source" /\ e = row.source /\ t.epoch = row.epoch
              /\ t.state # "COPY_DONE"
           \/ t.role = "destination" /\ e = row.destination /\ t.epoch = row.epoch + 1

RecordsFit == \A e \in Engines, m \in Migrations : RecordFits(e, m)

\* No pin of the agent where its copy is going to be installed.
PendingUnpinned ==
    \A m \in Migrations :
        LET row == migrations[m] IN
        row.state = "COPYING" /\ PM!ActiveTransfer(row.destination, m) =>
            prefixes[row.destination][row.agent] = 0

DestinationPinned(m) ==
    prefixes[migrations[m].destination][migrations[m].agent] = migrations[m].epoch + 1

\* Where a task believes that its copy is installed, it is.
CopiesInstalled ==
    resets = 0 => \A m \in Migrations :
        LET t == task[m] IN
        \/ t.pc = "commit"
        \/ t.pc = "cleanup" /\ ~t.failed
        \/ t.pc = "wait" /\ t.dst = "done" /\ ~t.failed
        \/ /\ t.pc \in {"startDestination", "startSource", "wait"}
           /\ PM!TransferState(migrations[m].destination, m) = "COMPLETE"
        => DestinationPinned(m)

\* The pin of the source copy, once the migration has taken it.
SourcePins ==
    \A m \in Migrations :
        LET row == migrations[m]
            p == prefixes[row.source][row.agent]
        IN
        /\ task[m].pc = "group" \/ row.state \in {"COPYING", "DEST_READY"} =>
              p \in {0, row.epoch}
        /\ row.state = "COMMITTED" =>
              /\ p \in {0, row.epoch, row.epoch + 2}
              /\ p = row.epoch + 2 /\ crashes = 0 => recovering[m] # None

\* An acknowledgement in progress is of the migration whose source it is at, and has
\* released that source.
AcksFit ==
    \A e \in Engines : acking[e] # None =>
        LET row == migrations[acking[e]] IN
        /\ HandedOver(acking[e]) /\ row.source = e
        /\ row.state = "COMMITTED" /\ faults = 0 => prefixes[e][row.agent] = 0

\* The lease a migration started from, while it is undecided: it is still held, or it
\* was a hand-over to the source that has been recovered since.
StartedFrom(m) ==
    LET row == migrations[m]
        agent == agents[row.agent]
    IN
    \/ agent.owner = row.source /\ agent.epoch = row.epoch
    \/ \E n \in MigrationsOf(row.agent) :
          /\ MigrationState(n) = "RECOVERED"
          /\ migrations[n].destination = row.source
          /\ migrations[n].epoch + 1 = row.epoch

StartsFit == \A m \in Unfinished : StartedFrom(m)

\* The pins that a migration accounts for.
AccountsFor(m, e, p) ==
    LET row == migrations[m]
        t == task[m]
    IN
    \/ e = row.source /\ p = row.epoch /\ (LiveMigration(m) \/ row.state = "RECOVERED")
    \/ e = row.source /\ p = row.epoch + 2 /\ row.state \in {"COMMITTED", "RECOVERED"}
    \/ /\ e = row.destination /\ p = row.epoch + 1
       /\ \/ row.state \in {"DEST_READY", "COMMITTED", "RECOVERED"}
          \/ /\ row.state = "COPYING"
             /\ \/ ~Running(m)
                \/ t.pc \in {"wait", "release"}
                \/ t.pc = "cleanup" /\ ~t.failed

\* A pin of an agent is of its lease, or one of its migrations accounts for it.
PinFits(e, a, p) ==
    \/ e = agents[a].owner /\ p = agents[a].epoch
    \/ \E m \in MigrationsOf(a) : AccountsFor(m, e, p)

PinsFit ==
    faults = 0 => \A e \in Engines, a \in Agents :
        prefixes[e][a] # 0 => PinFits(e, a, prefixes[e][a])

-----------------------------------------------------------------------------
(* The engines of the protocol are those of PrefixManagerProofs. *)

\* The constants satisfy what PrefixManagerProofs assumes of them.
LEMMA ManagersAssumed ==
    /\ PMP!IsFiniteSet(Agents) /\ PMP!IsFiniteSet(Migrations)
    /\ Pairs \subseteq {p \in Engines \X Engines : p[1] # p[2]}
    /\ MaxEpoch \in Nat
    /\ MaxQueue \in Nat \ {0}
    /\ Slots \in Nat
<1>1. \A S : IsFiniteSet(S) <=> PMP!IsFiniteSet(S)
  BY DEF IsFiniteSet, PMP!IsFiniteSet
<1>2. QED
  BY <1>1, ProtocolAssumption

\* Two instances of one module with the same substitution define the same actions.
LEMMA SameManagers ==
    /\ PM!PrefixInit <=> PMP!PrefixInit
    /\ PM!PrefixNext <=> PMP!PrefixNext
    /\ PM!prefixVars = PMP!prefixVars
    /\ PM!PoolAccounting <=> PMP!PoolAccounting
<1>1. PM!PrefixInit <=> PMP!PrefixInit
  BY DEF PM!PrefixInit, PMP!PrefixInit, PM!NoTransfer, PMP!NoTransfer
<1>2. PM!PrefixNext <=> PMP!PrefixNext
  BY DEF PM!PrefixNext, PM!PinCalls, PM!TransferCalls, PM!EngineEvents, PM!Workers,
     PM!pin, PM!pin_fails, PM!PinAllowed, PM!release, PM!ReleaseAllowed, PM!rebind, PM!RebindAllowed,
     PM!start_transfer, PM!StartAllowed, PM!StartChecks, PM!SameTransfer, PM!AllocatesRow,
     PM!start_transfer_full, PM!poll_transfer, PM!PollAllowed, PM!install, PM!install_fails,
     PM!cleanup_transfer, PM!CleanupAllowed, PM!worker_take, PM!Working, PM!copy_kv,
     PM!AtWorker, PM!copy_fails, PM!flush_cache, PM!engine_restart, PM!ResetsTables, PM!ResetsPool,
     PM!EmptyEngine, PM!prefill, PM!evict, PM!init_transfer_group, PM!InitGroupAllowed,
     PM!Epochs, PM!NoTransfer, PM!TransferState, PM!Pinned, PM!Resident, PM!Reserved,
     PM!Evictable, PM!ActiveTransfer, PM!ActiveStates, PM!TerminalStates, PM!pinVars,
     PM!poolVars, PM!transferVars,
     PMP!PrefixNext, PMP!PinCalls, PMP!TransferCalls, PMP!EngineEvents, PMP!Workers,
     PMP!pin, PMP!pin_fails, PMP!PinAllowed, PMP!release, PMP!ReleaseAllowed, PMP!rebind, PMP!RebindAllowed,
     PMP!start_transfer, PMP!StartAllowed, PMP!StartChecks, PMP!SameTransfer, PMP!AllocatesRow,
     PMP!start_transfer_full, PMP!poll_transfer, PMP!PollAllowed, PMP!install, PMP!install_fails,
     PMP!cleanup_transfer, PMP!CleanupAllowed, PMP!worker_take, PMP!Working, PMP!copy_kv,
     PMP!AtWorker, PMP!copy_fails, PMP!flush_cache, PMP!engine_restart, PMP!ResetsTables, PMP!ResetsPool,
     PMP!EmptyEngine, PMP!prefill, PMP!evict, PMP!init_transfer_group, PMP!InitGroupAllowed,
     PMP!Epochs, PMP!NoTransfer, PMP!TransferState, PMP!Pinned, PMP!Resident, PMP!Reserved,
     PMP!Evictable, PMP!ActiveTransfer, PMP!ActiveStates, PMP!TerminalStates, PMP!pinVars,
     PMP!poolVars, PMP!transferVars
<1>3. PM!prefixVars = PMP!prefixVars
  BY DEF PM!prefixVars, PMP!prefixVars
<1>4. PM!PoolAccounting <=> PMP!PoolAccounting
  <2>1. \A S : PM!Cardinality(S) = PMP!Cardinality(S)
    BY DEF PM!Cardinality, PMP!Cardinality
  <2>2. QED
    BY <2>1 DEF PM!PoolAccounting, PMP!PoolAccounting, PM!Resident, PMP!Resident,
                PM!Reserved, PMP!Reserved
<1>5. QED
  BY <1>1, <1>2, <1>3, <1>4

\* What a step of the managers keeps.
LEMMA ManagersKeepInv ==
    ASSUME PMP!PrefixInv, PM!PrefixNext \/ UNCHANGED engineVars
    PROVE  PMP!PrefixInv'
<1>1. PMP!PrefixInv /\ [PMP!PrefixNext]_(PMP!prefixVars) => PMP!PrefixInv'
  BY PMP!PrefixInvStep, ManagersAssumed
<1>2. UNCHANGED engineVars => UNCHANGED PMP!prefixVars
  BY DEF engineVars, PMP!prefixVars
<1>3. QED
  BY <1>1, <1>2, SameManagers

\* The types that PrefixInv includes.
LEMMA ManagersTyped ==
    ASSUME PMP!PrefixInv
    PROVE  /\ prefixes \in [Engines -> [Agents -> 0..MaxEpoch]]
           /\ locks \in [Engines -> [Agents -> Nat]]
           /\ cache \in [Engines -> [Agents -> {"own", "other", "absent"}]]
           /\ transfers \in [Engines -> [Migrations -> PM!Transfers]]
           /\ groups \in [Engines -> SUBSET Pairs]
           /\ \A e \in Engines, a \in Agents : prefixes[e][a] # 0 => cache[e][a] # "absent"
<1>1. PM!Transfers = PMP!Transfers
  BY DEF PM!Transfers, PMP!Transfers, PM!ActiveStates, PMP!ActiveStates,
     PM!TerminalStates, PMP!TerminalStates, PM!Contents, PMP!Contents
<1>2. cache \in [Engines -> [Agents -> {"own", "other", "absent"}]]
  BY DEF PMP!PrefixInv, PMP!Typed, PMP!Contents
<1>3. QED
  BY <1>1, <1>2 DEF PMP!PrefixInv, PMP!Typed, PMP!PinnedRowsResident, PMP!Pinned, PMP!Resident

-----------------------------------------------------------------------------
(* What a step may do to the rows of the store. *)

\* The row of a call that holds its second lock is inserted.
Inserts(m) ==
    LET t == task[m] IN
    /\ t.pc = "lock2"
    /\ agents[t.agent].owner = t.source
    /\ ~HasLiveMigration(t.agent)
    /\ migrations' = [migrations EXCEPT ![m] =
          [agent |-> t.agent, source |-> t.source, destination |-> t.destination,
           epoch |-> agents[t.agent].epoch, state |-> "PREPARING"]]
    /\ UNCHANGED <<agents, claims, starting>>

\* A migration is aborted by its call, or by a reconciliation that has released the
\* destination.
Aborts(m) ==
    /\ m \in Unfinished
    /\ transition_migration(m, MigrationState(m), "ABORTED")
    /\ \/ task[m].pc \in {"pin", "group", "startDestination", "startSource"}
       \/ task[m].pc = "cleanup" /\ task[m].failed
       \/ /\ reconcile.pc = "release" /\ reconcile.m = m
          /\ prefixes'[migrations[m].destination][migrations[m].agent]
                # migrations[m].epoch + 1

RowMoves(m) ==
    \/ Inserts(m)
    \/ /\ transition_migration(m, "PREPARING", "COPYING")
       /\ task[m].pc = "group" /\ task'[m].pc = "startDestination"
    \/ /\ transition_migration(m, "COPYING", "DEST_READY")
       /\ task[m].pc = "cleanup" /\ ~task[m].failed /\ task'[m].pc = "commit"
    \/ Aborts(m)
    \/ transition_migration(m, "COMMITTED", "SOURCE_RELEASED") /\ \E e \in Engines : acking[e] = m
    \/ commit_migration(m) /\ task[m].pc = "commit"
    \/ \E e \in Engines : recover_committed_migration(m, e)

StoreMove == UNCHANGED storeVars \/ \E m \in Migrations : RowMoves(m)

\* Rows keep what they are about, and none goes back to PREPARING.
RowsAdvance ==
    \A m \in Migrations : MigrationState(m) # "NONE" =>
        /\ migrations'[m].agent = migrations[m].agent
        /\ migrations'[m].source = migrations[m].source
        /\ migrations'[m].destination = migrations[m].destination
        /\ migrations'[m].epoch = migrations[m].epoch
        /\ MigrationState(m)' # "NONE"
        /\ MigrationState(m)' = "PREPARING" => MigrationState(m) = "PREPARING"

\* Apart from the INSERT, a step of the protocol that writes to the store is one of
\* its calls.
LEMMA StoreMovesAreCalls ==
    ASSUME NEW m \in Migrations, RowMoves(m)
    PROVE  Inserts(m) \/ (MigrationCalls /\ UNCHANGED starting)
<1>1. CASE Inserts(m)
  BY <1>1
<1>2. ASSUME NEW t \in Transitions, transition_migration(m, t[1], t[2])
      PROVE  MigrationCalls /\ UNCHANGED starting
  BY <1>2 DEF MigrationCalls, transition_migration
<1>3. ASSUME NEW e \in Engines, recover_committed_migration(m, e)
      PROVE  MigrationCalls /\ UNCHANGED starting
  BY <1>3 DEF MigrationCalls, recover_committed_migration
<1>4. CASE commit_migration(m)
  BY <1>4 DEF MigrationCalls, commit_migration
<1>5. CASE Aborts(m)
  <2>1. <<MigrationState(m), "ABORTED">> \in Transitions
    BY <1>5 DEF Aborts, Unfinished, Transitions
  <2>2. QED
    BY <1>5, <1>2, <2>1 DEF Aborts
<1>6. /\ <<"PREPARING", "COPYING">> \in Transitions
      /\ <<"COPYING", "DEST_READY">> \in Transitions
      /\ <<"COMMITTED", "SOURCE_RELEASED">> \in Transitions
  BY DEF Transitions
<1>7. CASE transition_migration(m, "PREPARING", "COPYING")
  BY <1>2, <1>6, <1>7
<1>8. CASE transition_migration(m, "COPYING", "DEST_READY")
  BY <1>2, <1>6, <1>8
<1>9. CASE transition_migration(m, "COMMITTED", "SOURCE_RELEASED")
  BY <1>2, <1>6, <1>9
<1>10. QED
  BY <1>1, <1>3, <1>4, <1>5, <1>7, <1>8, <1>9 DEF RowMoves

\* A row never forgets its migration.
LEMMA RowsOnlyAdvance ==
    ASSUME RowsInv, TasksFit, StoreMove
    PROVE  RowsAdvance
<1>0. \A m \in Migrations : migrations[m] \in MigrationRows
  BY DEF RowsInv, StoreInv, StoreTypeOK
<1>1. CASE UNCHANGED storeVars
  BY <1>1 DEF storeVars, RowsAdvance, MigrationState
<1>2. ASSUME NEW m \in Migrations, Inserts(m)
      PROVE  RowsAdvance
  <2>1. MigrationState(m) = "NONE"
    BY <1>2 DEF Inserts, TasksFit, TaskFits, MigrationState
  <2>2. \A n \in Migrations : n # m => migrations'[n] = migrations[n]
    BY <1>2 DEF Inserts, RowsInv, StoreInv, StoreTypeOK
  <2>3. QED
    BY <2>1, <2>2 DEF RowsAdvance, MigrationState
<1>3. ASSUME NEW m \in Migrations,
             NEW state \in {"COPYING", "DEST_READY", "COMMITTED", "SOURCE_RELEASED",
                             "RECOVERED", "ABORTED"},
             migrations' = [migrations EXCEPT ![m].state = state]
      PROVE  RowsAdvance
  BY <1>3 DEF RowsInv, StoreInv, StoreTypeOK, MigrationRows, RowsAdvance, MigrationState
<1>4. ASSUME NEW m \in Migrations, RowMoves(m), ~Inserts(m)
      PROVE  RowsAdvance
  <2>1. \E state \in {"COPYING", "DEST_READY", "COMMITTED", "SOURCE_RELEASED",
                       "RECOVERED", "ABORTED"} :
           migrations' = [migrations EXCEPT ![m].state = state]
    BY <1>4 DEF RowMoves, Aborts, transition_migration, commit_migration,
                recover_committed_migration
  <2>2. QED
    BY <2>1, <1>3
<1>5. QED
  BY <1>1, <1>2, <1>4 DEF StoreMove

\* The INSERT of a call whose agent has no live migration keeps StoreInv.
LEMMA InsertKeepsInv ==
    ASSUME RowsInv, TasksFit, NEW m \in Migrations, Inserts(m)
    PROVE  StoreInv' /\ CountInv'
<1> DEFINE t == task[m]
           row == [agent |-> t.agent, source |-> t.source, destination |-> t.destination,
                   epoch |-> agents[t.agent].epoch, state |-> "PREPARING"]
<1>1. /\ t.pc = "lock2" /\ ~HasLiveMigration(t.agent)
      /\ migrations' = [migrations EXCEPT ![m] = row]
      /\ UNCHANGED <<agents, claims, starting>>
  BY DEF Inserts
<1>2. /\ t.agent \in Agents /\ t.source \in Engines /\ t.destination \in Engines
      /\ migrations[m].state = "NONE"
  BY <1>1, ProtocolAssumption DEF TasksFit, TaskFits
<1>3. Registered(t.agent) /\ agents[t.agent].epoch \in Nat
  BY <1>2 DEF RowsInv, StoreInv, StoreTypeOK, AgentRows
<1>4. row \in MigrationRows
  BY <1>2, <1>3 DEF MigrationRows, LiveStates
<1> HIDE DEF t
<1>5. InsertsRow(m, row)
  BY <1>1, <1>2, <1>3, <1>4 DEF InsertsRow, MigrationState
<1>6. QED
  BY <1>5, InsertKeepsStore DEF RowsInv

\* Every step keeps what is known of the store.
LEMMA RowsInvStep ==
    ASSUME RowsInv, TasksFit, StoreMove
    PROVE  RowsInv'
<1>1. StoreInv' /\ CountInv' /\ UNCHANGED starting
  <2>1. StoreInv /\ CountInv /\ StartingIsNew
    BY DEF RowsInv, StartingIsNew, NoMigration
  <2>2. CASE UNCHANGED storeVars \/ (MigrationCalls /\ UNCHANGED starting)
    BY <2>1, <2>2, StoreInvStep, CountInvStep DEF StoreNext, storeVars
  <2>3. ASSUME NEW m \in Migrations, Inserts(m)
        PROVE  StoreInv' /\ CountInv' /\ UNCHANGED starting
    BY <2>3, InsertKeepsInv DEF Inserts
  <2>4. QED
    BY <2>2, <2>3, StoreMovesAreCalls DEF StoreMove
<1>2. \A a \in Agents : Registered(a)'
  <2>1. CASE agents' = agents
    BY <2>1 DEF RowsInv, Registered
  <2>2. CASE MigrationCalls
    BY <2>2, AgentRowsAdvance DEF RowsInv, StoreNext, RowAdvances
  <2>3. QED
    BY <2>1, <2>2, StoreMovesAreCalls DEF StoreMove, Inserts, storeVars
<1>3. ASSUME NEW m \in Migrations, MigrationState(m)' # "NONE"
      PROVE  /\ migrations'[m].epoch >= InitialEpoch
             /\ <<migrations'[m].source, migrations'[m].destination>> \in Pairs
  <2>1. CASE MigrationState(m) # "NONE"
    BY <2>1, RowsOnlyAdvance DEF RowsInv, RowsAdvance
  <2>2. CASE MigrationState(m) = "NONE"
    <3>1. Inserts(m)
      <4>1. PICK n \in Migrations : RowMoves(n)
        BY <1>3, <2>2 DEF StoreMove, storeVars, MigrationState
      <4>2. CASE Inserts(n)
        BY <1>3, <2>2, <4>2 DEF Inserts, RowsInv, StoreInv, StoreTypeOK, MigrationState
      <4>3. CASE ~Inserts(n)
        <5>1. MigrationState(n) # "NONE"
          BY <4>1, <4>3 DEF RowMoves, Aborts, Unfinished, transition_migration,
                            commit_migration, recover_committed_migration
        <5>2. migrations'[m] = migrations[m]
          BY <2>2, <4>1, <4>3, <5>1
             DEF RowMoves, Aborts, transition_migration, commit_migration,
                 recover_committed_migration, RowsInv, StoreInv, StoreTypeOK
        <5>3. QED
          BY <1>3, <2>2, <5>2 DEF MigrationState
      <4>4. QED
        BY <4>2, <4>3
    <3>2. /\ task[m].agent \in Agents
          /\ <<task[m].source, task[m].destination>> \in Pairs
      BY <3>1 DEF Inserts, TasksFit, TaskFits
    <3>3. /\ migrations'[m].source = task[m].source
          /\ migrations'[m].destination = task[m].destination
          /\ migrations'[m].epoch = agents[task[m].agent].epoch
      BY <3>1 DEF Inserts, RowsInv, StoreInv, StoreTypeOK
    <3>4. agents[task[m].agent].epoch >= InitialEpoch
      <4>1. PICK a \in Agents : a = task[m].agent
        BY <3>2
      <4>2. agents[a].epoch = InitialEpoch + Cardinality(HandoversOf(a))
                                 + Cardinality(RecoveriesOf(a))
        BY DEF RowsInv, CountInv, EpochAccounting, HandoversOf, RecoveriesOf
      <4>3. Cardinality(HandoversOf(a)) \in Nat /\ Cardinality(RecoveriesOf(a)) \in Nat
        BY RecoveriesAreHandovers DEF RowsInv, CountInv
      <4>4. QED
        BY <4>1, <4>2, <4>3, StoreAssumption
    <3>5. QED
      BY <3>2, <3>3, <3>4
  <2>3. QED
    BY <2>1, <2>2
<1>4. QED
  BY <1>1, <1>2, <1>3 DEF RowsInv

\* The epochs that the protocol passes to the engines are within the bound: an agent's
\* epoch is reached by its hand-overs, at most two per migration.
LEMMA EpochsBounded ==
    ASSUME RowsInv
    PROVE  /\ \A a \in Agents : agents[a].epoch \in InitialEpoch..MaxEpoch
           /\ \A m \in Migrations : MigrationState(m) # "NONE" =>
                 /\ migrations[m].agent \in Agents
                 /\ migrations[m].epoch \in 1..MaxEpoch
                 /\ MigrationState(m) \in {"PREPARING", "COPYING", "DEST_READY",
                                           "COMMITTED", "SOURCE_RELEASED"} =>
                       migrations[m].epoch + 1 \in 1..MaxEpoch
                 /\ MigrationState(m) = "COMMITTED" => migrations[m].epoch + 2 \in 1..MaxEpoch
<1>0. /\ InitialEpoch \in Nat \ {0} /\ MaxEpoch \in Nat /\ Cardinality(Migrations) \in Nat
      /\ MaxEpoch >= InitialEpoch + 2 * Cardinality(Migrations)
  BY StoreAssumption, ProtocolAssumption, FS_CardinalityType
<1>1. ASSUME NEW a \in Agents
      PROVE  /\ agents[a].epoch = InitialEpoch + Cardinality(HandoversOf(a))
                                     + Cardinality(RecoveriesOf(a))
             /\ Cardinality(HandoversOf(a)) \in 0..Cardinality(Migrations)
             /\ Cardinality(RecoveriesOf(a)) \in 0..Cardinality(Migrations)
             /\ \A m \in Migrations \ RecoveriesOf(a) :
                   Cardinality(RecoveriesOf(a)) <= Cardinality(Migrations) - 1
             /\ \A m \in Migrations \ HandoversOf(a) :
                   Cardinality(HandoversOf(a)) <= Cardinality(Migrations) - 1
  <2>1. \A S \in SUBSET Migrations : /\ Cardinality(S) \in 0..Cardinality(Migrations)
                                     /\ \A m \in Migrations \ S :
                                           Cardinality(S) <= Cardinality(Migrations) - 1
    <3> SUFFICES ASSUME NEW S \in SUBSET Migrations
                 PROVE  /\ Cardinality(S) \in 0..Cardinality(Migrations)
                        /\ \A m \in Migrations \ S :
                              Cardinality(S) <= Cardinality(Migrations) - 1
      OBVIOUS
    <3>1. IsFiniteSet(Migrations)
      BY ProtocolAssumption
    <3>2. IsFiniteSet(S) /\ Cardinality(S) \in Nat /\ Cardinality(S) <= Cardinality(Migrations)
      BY <3>1, FS_Subset, FS_CardinalityType
    <3>3. ASSUME NEW m \in Migrations \ S
          PROVE  Cardinality(S) <= Cardinality(Migrations) - 1
      <4>1. S \cup {m} \subseteq Migrations
        OBVIOUS
      <4>2. Cardinality(S \cup {m}) <= Cardinality(Migrations)
        BY <3>1, <4>1, FS_Subset
      <4>3. Cardinality(S \cup {m}) = Cardinality(S) + 1
        BY <3>2, FS_AddElement
      <4>4. QED
        BY <1>0, <3>2, <4>2, <4>3
    <3>4. QED
      BY <1>0, <3>2, <3>3
  <2>2. HandoversOf(a) \subseteq Migrations /\ RecoveriesOf(a) \subseteq Migrations
    BY DEF HandoversOf, RecoveriesOf, MigrationsOf
  <2>3. agents[a].epoch = InitialEpoch + Cardinality(HandoversOf(a))
                             + Cardinality(RecoveriesOf(a))
    BY DEF RowsInv, CountInv, EpochAccounting, HandoversOf, RecoveriesOf
  <2>4. QED
    BY <2>1, <2>2, <2>3
<1>2. \A a \in Agents : agents[a].epoch \in InitialEpoch..MaxEpoch
  <2> TAKE a \in Agents
  <2>1. QED
    BY <1>0, <1>1
<1>3. ASSUME NEW m \in Migrations, MigrationState(m) # "NONE"
      PROVE  /\ migrations[m].agent \in Agents
             /\ migrations[m].epoch \in 1..MaxEpoch
             /\ MigrationState(m) \in {"PREPARING", "COPYING", "DEST_READY",
                                       "COMMITTED", "SOURCE_RELEASED"} =>
                   migrations[m].epoch + 1 \in 1..MaxEpoch
             /\ MigrationState(m) = "COMMITTED" => migrations[m].epoch + 2 \in 1..MaxEpoch
  <2>1. PICK a \in Agents : a = migrations[m].agent
    BY <1>3 DEF RowsInv, StoreInv, RowsWellFormed, MigrationState
  <2>2. /\ migrations[m].epoch <= agents[a].epoch
        /\ migrations[m].epoch \in Nat /\ migrations[m].epoch >= InitialEpoch
    BY <1>3, <2>1 DEF RowsInv, StoreInv, RowsWellFormed, StoreTypeOK, MigrationRows, MigrationState
  <2>3. HandedOver(m) => LastEpoch(m) <= agents[a].epoch
    BY <2>1 DEF RowsInv, StoreInv, HandoverChain
  <2>4. MigrationState(m) \in {"PREPARING", "COPYING", "DEST_READY"} => m \notin HandoversOf(a)
    BY DEF HandoversOf, HandedOver
  <2>5. MigrationState(m) \in {"PREPARING", "COPYING", "DEST_READY"} =>
           migrations[m].epoch + 1 \in 1..MaxEpoch
    BY <1>0, <1>1, <2>2, <2>4
  <2>6. MigrationState(m) \in {"COMMITTED", "SOURCE_RELEASED"} =>
           /\ migrations[m].epoch + 1 <= agents[a].epoch
           /\ m \notin RecoveriesOf(a)
    BY <2>3 DEF HandedOver, LastEpoch, RecoveriesOf
  <2>7. MigrationState(m) \in {"COMMITTED", "SOURCE_RELEASED"} =>
           migrations[m].epoch + 2 \in 1..MaxEpoch
    BY <1>0, <1>1, <2>2, <2>6
  <2>8. QED
    BY <1>0, <1>2, <2>1, <2>2, <2>5, <2>7
<1>4. QED
  BY <1>2, <1>3

-----------------------------------------------------------------------------
(* What a step may do to the pins, the transfer records and the calls. *)

\* The pin and the lock of agent a on engine e are written, and no other.
WritesPin(e, a, epoch, held) ==
    /\ prefixes'[e][a] = epoch
    /\ locks'[e][a] = held
    /\ \A x \in Engines, b \in Agents : x # e \/ b # a =>
          prefixes'[x][b] = prefixes[x][b] /\ locks'[x][b] = locks[x][b]

TakesPin(m) ==
    LET row == migrations[m]
        p == prefixes[row.source][row.agent]
        held == locks[row.source][row.agent]
    IN
    /\ task[m].pc = "pin"
    /\ p \in {0, row.epoch}
    /\ WritesPin(row.source, row.agent, row.epoch, IF p = 0 THEN held + 1 ELSE held)

Installs(m) ==
    LET row == migrations[m]
        d == row.destination
    IN
    /\ row.state = "COPYING"
    /\ task[m].pc = "wait" \/ ~Running(m)
    /\ transfers[d][m].state = "COPY_DONE"
    /\ WritesPin(d, row.agent, row.epoch + 1, locks[d][row.agent] + 1)
    /\ transfers'[d][m].state = "COMPLETE"

DropsDestination(m) ==
    LET row == migrations[m]
        d == row.destination
    IN
    /\ \/ m \in Unfinished /\ task[m].pc = "release"
       \/ m \in Unfinished /\ reconcile.pc = "release" /\ reconcile.m = m
       \/ /\ row.state = "SOURCE_RELEASED"
          /\ HasLiveMigration(row.agent) => overlaps' > overlaps
    /\ prefixes[d][row.agent] = row.epoch + 1
    /\ WritesPin(d, row.agent, 0, locks[d][row.agent] - 1)

DropsSource(m) ==
    LET row == migrations[m]
        s == row.source
    IN
    /\ row.state = "COMMITTED"
    /\ prefixes[s][row.agent] = row.epoch
    /\ WritesPin(s, row.agent, 0, locks[s][row.agent] - 1)
    /\ acking'[s] = m \/ faults' > faults

Rebinds(m) ==
    LET row == migrations[m]
        s == row.source
    IN
    /\ row.state = "COMMITTED"
    /\ prefixes[s][row.agent] \in {row.epoch, row.epoch + 2}
    /\ WritesPin(s, row.agent, row.epoch + 2, locks[s][row.agent])
    /\ recovering'[m] # None

Restarts(e) ==
    /\ resets' = resets + 1
    /\ \A x \in Engines, a \in Agents :
          IF x = e THEN prefixes'[x][a] = 0 /\ locks'[x][a] = 0
          ELSE prefixes'[x][a] = prefixes[x][a] /\ locks'[x][a] = locks[x][a]

\* A pin or an install takes the lock and fails to register what it pinned.
LeavesLock ==
    /\ faults' = faults + 1
    /\ \E e \in Engines, a \in Agents : WritesPin(e, a, prefixes[e][a], locks[e][a] + 1)

PinMove ==
    \/ UNCHANGED <<prefixes, locks>>
    \/ LeavesLock
    \/ \E m \in Migrations :
          TakesPin(m) \/ Installs(m) \/ DropsDestination(m) \/ DropsSource(m) \/ Rebinds(m)
    \/ \E e \in Engines : Restarts(e)

\* A record is created by the call of its migration, on the side it asks.
StartsRecord(e, m) ==
    LET row == migrations[m]
        u == transfers'[e][m]
    IN
    /\ transfers[e][m].state = "NONE" /\ u.state = "QUEUED"
    /\ u.agent = row.agent /\ u.pair = <<row.source, row.destination>>
    /\ task'[m].pc # "startDestination"
    /\ \/ /\ task[m].pc = "startDestination" /\ u.role = "destination"
          /\ e = row.destination /\ u.epoch = row.epoch + 1
          /\ prefixes[e][row.agent] = 0
       \/ /\ task[m].pc = "startSource" /\ u.role = "source"
          /\ e = row.source /\ u.epoch = row.epoch

\* It keeps what it is about, and a destination's completes by being installed.
Proceeds(e, m) ==
    LET t == transfers[e][m]
        u == transfers'[e][m]
    IN
    /\ t.state # "NONE"
    /\ u.role = t.role /\ u.agent = t.agent /\ u.epoch = t.epoch /\ u.pair = t.pair
    /\ u.state \in {"QUEUED", "COPYING", "COPY_DONE"} =>
          t.state \in {"QUEUED", "COPYING", "COPY_DONE"}
    /\ u.state = "COPY_DONE" => t.role = "destination"
    /\ u.state = "COMPLETE" /\ t.role = "destination" => t.state = "COMPLETE" \/ Installs(m)

RecordMove(e, m) ==
    \/ transfers'[e][m] = transfers[e][m]
    \/ transfers'[e][m].state = "NONE"
    \/ StartsRecord(e, m)
    \/ Proceeds(e, m)

\* A call from which the pin of an installed copy will not be forgotten.
KeepsCopy(t) ==
    \/ t.pc \in ReturnedStates
    \/ t.pc \in {"wait", "release"}
    \/ t.pc = "cleanup" /\ ~t.failed

\* A call that believes that its copy is installed.
Believes(t) ==
    \/ t.pc = "cleanup" /\ ~t.failed
    \/ t.pc = "wait" /\ t.dst = "done" /\ ~t.failed

TaskMove(m) ==
    LET t == task[m]
        u == task'[m]
        row == migrations[m]
    IN
    /\ u.pc = "group" =>
          \/ t.pc = "group"
          \/ t.pc = "pin" /\ prefixes'[row.source][row.agent] = row.epoch
    /\ u.pc = "startDestination" => t.pc \in {"group", "startDestination"}
    /\ u.pc \in {"startSource", "wait"} => t.pc \in {"startDestination", "startSource", "wait"}
    /\ u.pc = "commit" => t.pc = "commit" \/ (t.pc = "cleanup" /\ ~t.failed)
    /\ Believes(u) =>
          \/ Believes(t)
          \/ t.pc = "wait" /\ transfers'[row.destination][m].state = "COMPLETE"
    /\ KeepsCopy(t) =>
          \/ KeepsCopy(u)
          \/ t.pc = "idle"
          \/ u.pc = "commit"
          \/ /\ t.pc = "release"
             /\ faults' # 0 \/ prefixes'[row.destination][row.agent] # row.epoch + 1

\* Recoveries and acknowledgements begin and end; the budgets are spent.
CallsMove ==
    /\ \A m \in Migrations : recovering[m] # None /\ recovering'[m] = None =>
          crashes' # 0 \/ MigrationState(m)' # "COMMITTED"
    /\ \A e \in Engines : acking'[e] # None =>
          \/ acking'[e] = acking[e]
          \/ LET row == migrations[acking'[e]] IN
             row.state = "COMMITTED" /\ row.source = e /\ prefixes'[e][row.agent] = 0
    /\ faults' \in {faults, faults + 1}
    /\ crashes' \in {crashes, crashes + 1}
    /\ resets' \in {resets, resets + 1}
    /\ overlaps' \in {overlaps, overlaps + 1}

Moves ==
    /\ StoreMove
    /\ PinMove
    /\ \A e \in Engines, m \in Migrations : RecordMove(e, m)
    /\ \A m \in Migrations : TaskMove(m)
    /\ CallsMove

\* Types of the controller's state.
ControllerTyped ==
    /\ task \in [Migrations -> Calls]
    /\ engineLock \in [Engines -> Migrations \cup {None}]
    /\ established \subseteq Pairs
    /\ acking \in [Engines -> Migrations \cup {None}]
    /\ recovering \in [Migrations -> Engines \cup {None}]
    /\ reconcile \in Reconciliations
    /\ faults \in Nat /\ crashes \in Nat /\ resets \in Nat /\ overlaps \in Nat

\* The three layers agree on which migrations are under way.
ProtocolInv ==
    /\ RowsInv
    /\ ControllerTyped
    /\ TasksFit
    /\ ReconcileFits
    /\ PMP!PrefixInv
    /\ RecordsFit

\* What has to be shown of each action.
KeepsControl ==
    /\ Moves
    /\ ControllerTyped'
    /\ TasksFit'
    /\ ReconcileFits'
    /\ PM!PrefixNext \/ UNCHANGED engineVars

-----------------------------------------------------------------------------
(* Frames. *)

\* A step that leaves the engines alone.
LEMMA EnginesRest ==
    ASSUME UNCHANGED engineVars
    PROVE  /\ PinMove
           /\ \A e \in Engines, m \in Migrations : RecordMove(e, m)
BY DEF engineVars, PinMove, RecordMove

\* A call that does not move.
LEMMA TaskRests == ASSUME NEW m \in Migrations, task'[m] = task[m] PROVE TaskMove(m)
BY DEF TaskMove, KeepsCopy, Believes, ReturnedStates

\* A step that moves one call and one row keeps the fit of the others.
LEMMA OthersFit ==
    ASSUME TasksFit, NEW m \in Migrations,
           \A n \in Migrations \ {m} : task'[n] = task[n] /\ migrations'[n] = migrations[n],
           TaskFits(m)'
    PROVE  TasksFit'
BY DEF TasksFit, TaskFits, HoldsRow

\* A call that runs keeps reconciliations away.
LEMMA RunningKeepsIdle ==
    ASSUME ReconcileFits, NEW m \in Migrations, Running(m), UNCHANGED reconcile
    PROVE  ReconcileFits'
BY DEF ReconcileFits

\* A step that moves no call and no unfinished migration.
LEMMA ReconcileKept ==
    ASSUME ReconcileFits, ControllerTyped, UNCHANGED <<task, reconcile>>,
           \A m \in Unfinished : MigrationState(m)' = MigrationState(m)
    PROVE  ReconcileFits'
<1>1. Unfinished \subseteq Unfinished'
  BY DEF Unfinished
<1>2. \A m \in Migrations : Running(m)' <=> Running(m)
  BY DEF Running
<1>3. reconcile.pc # "idle" => (reconcile.pc # "next" => reconcile.m \in Unfinished)
  BY DEF ReconcileFits
<1>4. QED
  BY <1>1, <1>2, <1>3 DEF ReconcileFits

-----------------------------------------------------------------------------
(* What the calls to the managers do. *)

\* Nothing of the engines but their pins, their rows or their groups is written.
KeepsRecords == UNCHANGED transfers

\* The record of m on engine e is written, and no other.
WritesRecord(e, m) ==
    \A x \in Engines, n \in Migrations : x # e \/ n # m =>
        transfers'[x][n] = transfers[x][n]

\* A pin is taken, or is held for that epoch already.
LEMMA PinEffect ==
    ASSUME PMP!PrefixInv, NEW e \in Engines, NEW a \in Agents, NEW epoch \in 1..MaxEpoch,
           PM!pin(e, a, epoch)
    PROVE  /\ PM!PrefixNext
           /\ KeepsRecords
           /\ prefixes[e][a] \in {0, epoch}
           /\ WritesPin(e, a, epoch, IF prefixes[e][a] = 0 THEN locks[e][a] + 1
                                                           ELSE locks[e][a])
<1>1. PM!PrefixNext
  BY DEF PM!PrefixNext, PM!PinCalls, PM!Epochs
<1>2. QED
  BY <1>1, ManagersTyped
     DEF PM!pin, PM!PinAllowed, PM!Pinned, PM!transferVars, KeepsRecords, WritesPin

\* A pin that fails leaves its lock.
LEMMA PinFailsEffect ==
    ASSUME PMP!PrefixInv, NEW e \in Engines, NEW a \in Agents, PM!pin_fails(e, a)
    PROVE  /\ PM!PrefixNext
           /\ KeepsRecords
           /\ WritesPin(e, a, prefixes[e][a], locks[e][a] + 1)
<1>0. /\ InitialEpoch \in Nat \ {0} /\ MaxEpoch \in Nat /\ Cardinality(Migrations) \in Nat
      /\ MaxEpoch >= InitialEpoch + 2 * Cardinality(Migrations)
  BY StoreAssumption, ProtocolAssumption, FS_CardinalityType
<1>1. 1 \in PM!Epochs
  BY <1>0 DEF PM!Epochs
<1>2. PM!PrefixNext
  BY <1>1 DEF PM!PrefixNext, PM!PinCalls
<1>3. QED
  BY <1>2, ManagersTyped DEF PM!pin_fails, PM!transferVars, KeepsRecords, WritesPin

\* A release leaves no pin of the agent; it raises on a pin of another epoch.
LEMMA ReleaseEffect ==
    ASSUME PMP!PrefixInv, NEW e \in Engines, NEW a \in Agents, NEW epoch \in 1..MaxEpoch,
           NEW evicts \in BOOLEAN, PM!release(e, a, epoch, evicts, TRUE)
    PROVE  /\ PM!PrefixNext
           /\ KeepsRecords
           /\ prefixes'[e][a] = 0
           /\ \/ UNCHANGED <<prefixes, locks>>
              \/ prefixes[e][a] = epoch /\ WritesPin(e, a, 0, locks[e][a] - 1)
<1>1. PM!PrefixNext
  BY DEF PM!PrefixNext, PM!PinCalls, PM!Epochs
<1>2. QED
  BY <1>1, ManagersTyped
     DEF PM!release, PM!ReleaseAllowed, PM!Pinned, PM!transferVars, PM!pinVars, KeepsRecords,
         WritesPin

\* A rebind renames the pin of the expected epoch, or finds it renamed.
LEMMA RebindEffect ==
    ASSUME PMP!PrefixInv, NEW e \in Engines, NEW a \in Agents, NEW old \in 1..MaxEpoch,
           NEW new \in 1..MaxEpoch, PM!rebind(e, a, old, new)
    PROVE  /\ PM!PrefixNext
           /\ KeepsRecords
           /\ prefixes[e][a] \in {old, new}
           /\ WritesPin(e, a, new, locks[e][a])
<1>1. PM!PrefixNext
  BY DEF PM!PrefixNext, PM!PinCalls, PM!Epochs
<1>2. QED
  BY <1>1, ManagersTyped
     DEF PM!rebind, PM!RebindAllowed, PM!Pinned, PM!transferVars, KeepsRecords, WritesPin

\* A group is made, and nothing else.
LEMMA GroupEffect ==
    ASSUME NEW p \in Pairs, PM!init_transfer_group(p[1], p[2])
    PROVE  PM!PrefixNext /\ KeepsRecords /\ UNCHANGED <<prefixes, locks>>
BY DEF PM!PrefixNext, PM!init_transfer_group, PM!transferVars, PM!pinVars, KeepsRecords

\* A transfer is started, or has been already.
LEMMA StartEffect ==
    ASSUME PMP!PrefixInv, NEW e \in Engines, NEW role \in {"source", "destination"},
           NEW m \in Migrations, NEW a \in Agents, NEW epoch \in 1..MaxEpoch,
           NEW pair \in Pairs, pair[IF role = "source" THEN 1 ELSE 2] = e,
           PM!start_transfer(e, role, m, a, epoch, pair)
    PROVE  /\ PM!PrefixNext
           /\ UNCHANGED <<prefixes, locks>>
           /\ \/ KeepsRecords
              \/ /\ WritesRecord(e, m)
                 /\ transfers[e][m].state = "NONE"
                 /\ role = "destination" => prefixes[e][a] = 0
                 /\ transfers'[e][m].state = "QUEUED"
                 /\ transfers'[e][m].role = role
                 /\ transfers'[e][m].agent = a
                 /\ transfers'[e][m].epoch = epoch
                 /\ transfers'[e][m].pair = pair
<1>1. PM!PrefixNext
  BY DEF PM!PrefixNext, PM!TransferCalls, PM!Epochs
<1>2. UNCHANGED <<prefixes, locks>>
  BY DEF PM!start_transfer, PM!pinVars
<1>3. CASE PM!TransferState(e, m) # "NONE"
  BY <1>1, <1>2, <1>3 DEF PM!start_transfer, PM!transferVars, KeepsRecords
<1>4. CASE PM!TransferState(e, m) = "NONE"
  <2> DEFINE t == [state |-> "QUEUED", role |-> role, agent |-> a, epoch |-> epoch,
                   pair |-> pair, rows |-> IF role = "destination" THEN "blank" ELSE "none"]
  <2>1. transfers' = [transfers EXCEPT ![e][m] = t]
    BY <1>4 DEF PM!start_transfer
  <2>2. WritesRecord(e, m) /\ transfers'[e][m] = t
    BY <2>1, ManagersTyped DEF WritesRecord
  <2>3. role = "destination" => prefixes[e][a] = 0
    BY <1>4 DEF PM!start_transfer, PM!StartAllowed, PM!StartChecks, PM!Pinned
  <2>4. QED
    BY <1>1, <1>2, <1>4, <2>2, <2>3 DEF PM!TransferState
<1>5. QED
  BY <1>3, <1>4

\* A refused start may evict, and nothing else.
LEMMA FullEffect ==
    ASSUME NEW e \in Engines, NEW m \in Migrations, NEW a \in Agents,
           NEW epoch \in 1..MaxEpoch, NEW pair \in Pairs, pair[2] = e,
           PM!start_transfer_full(e, m, a, epoch, pair)
    PROVE  PM!PrefixNext /\ KeepsRecords /\ UNCHANGED <<prefixes, locks>>
BY DEF PM!PrefixNext, PM!TransferCalls, PM!Epochs, PM!start_transfer_full, PM!transferVars,
       PM!pinVars, KeepsRecords

\* A poll installs a copy that is done, and writes nothing else.
LEMMA PollEffect ==
    ASSUME PMP!PrefixInv, NEW e \in Engines, NEW m \in Migrations,
           transfers[e][m].agent \in Agents, PM!poll_transfer(e, m)
    PROVE  LET t == transfers[e][m] IN
           /\ PM!PrefixNext
           /\ IF t.state = "COPY_DONE"
              THEN /\ WritesRecord(e, m)
                   /\ transfers'[e][m] = [t EXCEPT !.state = "COMPLETE", !.rows = "none"]
                   /\ WritesPin(e, t.agent, t.epoch, locks[e][t.agent] + 1)
              ELSE KeepsRecords /\ UNCHANGED <<prefixes, locks>>
<1>1. PM!PrefixNext
  BY DEF PM!PrefixNext, PM!TransferCalls
<1>2. CASE PM!TransferState(e, m) # "COPY_DONE"
  BY <1>1, <1>2 DEF PM!poll_transfer, PM!pinVars, PM!TransferState, KeepsRecords
<1>3. CASE PM!TransferState(e, m) = "COPY_DONE"
  <2> DEFINE t == transfers[e][m]
  <2>1. /\ locks' = [locks EXCEPT ![e][t.agent] = @ + 1]
        /\ prefixes' = [prefixes EXCEPT ![e][t.agent] = t.epoch]
        /\ transfers' = [transfers EXCEPT
               ![e][m] = [@ EXCEPT !.state = "COMPLETE", !.rows = "none"]]
    BY <1>3 DEF PM!poll_transfer, PM!install
  <2>2. WritesPin(e, t.agent, t.epoch, locks[e][t.agent] + 1)
    BY <2>1, ManagersTyped DEF WritesPin
  <2>3. WritesRecord(e, m) /\ transfers'[e][m] = [t EXCEPT !.state = "COMPLETE", !.rows = "none"]
    BY <2>1, ManagersTyped DEF WritesRecord
  <2>4. QED
    BY <1>1, <1>3, <2>2, <2>3 DEF PM!TransferState
<1>4. QED
  BY <1>2, <1>3

\* An install that fails leaves no pin, but it may leave its lock.
LEMMA InstallFailsEffect ==
    ASSUME PMP!PrefixInv, NEW e \in Engines, NEW m \in Migrations,
           transfers[e][m].agent \in Agents, PM!install_fails(e, m)
    PROVE  LET a == transfers[e][m].agent IN
           /\ PM!PrefixNext
           /\ UNCHANGED <<prefixes, locks>> \/ WritesPin(e, a, prefixes[e][a], locks[e][a] + 1)
           /\ WritesRecord(e, m)
           /\ transfers[e][m].state = "COPY_DONE"
           /\ transfers'[e][m] = [transfers[e][m] EXCEPT !.state = "FAILED", !.rows = "none"]
<1>1. PM!PrefixNext
  BY DEF PM!PrefixNext, PM!TransferCalls
<1>2. /\ WritesRecord(e, m)
      /\ transfers[e][m].state = "COPY_DONE"
      /\ transfers'[e][m] = [transfers[e][m] EXCEPT !.state = "FAILED", !.rows = "none"]
  BY ManagersTyped DEF PM!install_fails, PM!TransferState, WritesRecord
<1>3. PICK a \in Agents : a = transfers[e][m].agent
  OBVIOUS
<1>4. /\ prefixes' = prefixes
      /\ locks' = locks \/ locks' = [locks EXCEPT ![e][a] = @ + 1]
  BY <1>3 DEF PM!install_fails
<1>5. UNCHANGED <<prefixes, locks>> \/ WritesPin(e, a, prefixes[e][a], locks[e][a] + 1)
  BY <1>4, ManagersTyped DEF WritesPin
<1>6. QED
  BY <1>1, <1>2, <1>3, <1>5

\* A cleanup drops a record that is over.
LEMMA CleanupEffect ==
    ASSUME PMP!PrefixInv, NEW e \in Engines, NEW m \in Migrations, PM!cleanup_transfer(e, m)
    PROVE  /\ PM!PrefixNext
           /\ UNCHANGED <<prefixes, locks>>
           /\ WritesRecord(e, m)
           /\ transfers'[e][m].state = "NONE"
<1>1. PM!PrefixNext
  BY DEF PM!PrefixNext, PM!TransferCalls
<1>2. QED
  BY <1>1, ManagersTyped
     DEF PM!cleanup_transfer, PM!NoTransfer, PM!pinVars, WritesRecord

\* The worker takes a record that was waiting.
LEMMA TakeEffect ==
    ASSUME PMP!PrefixInv, NEW e \in Engines, PM!worker_take(e)
    PROVE  /\ PM!PrefixNext
           /\ UNCHANGED <<prefixes, locks>>
           /\ \E m \in Migrations :
                 /\ WritesRecord(e, m)
                 /\ transfers[e][m].state = "QUEUED"
                 /\ transfers'[e][m] = [transfers[e][m] EXCEPT !.state = "COPYING"]
<1> DEFINE m == Head(queue[e])
<1>1. PM!PrefixNext
  BY DEF PM!PrefixNext, PM!Workers
<1>2. queue[e] \in Seq(Migrations) /\ queue[e] # <<>>
  BY DEF PMP!PrefixInv, PMP!Typed, PM!worker_take
<1>3. 1 \in DOMAIN queue[e] /\ m = queue[e][1] /\ m \in Migrations
  BY <1>2
<1>4. transfers[e][m].state = "QUEUED"
  BY <1>3 DEF PMP!PrefixInv, PMP!QueueIsSound, PMP!QueueIsSoundAt, PMP!TransferState
<1>5. transfers' = [transfers EXCEPT ![e][m].state = "COPYING"] /\ UNCHANGED <<prefixes, locks>>
  BY DEF PM!worker_take, PM!pinVars
<1> HIDE DEF m
<1>6. QED
  BY <1>1, <1>3, <1>4, <1>5, ManagersTyped DEF WritesRecord

\* The two workers of a pair finish a copy together.
Copies(s, d, m, n) ==
    /\ PM!PrefixNext
    /\ UNCHANGED <<prefixes, locks>>
    /\ transfers[s][m].state = "COPYING" /\ transfers[s][m].role = "source"
    /\ transfers[d][n].state = "COPYING" /\ transfers[d][n].role = "destination"
    /\ \A x \in Engines, k \in Migrations :
          \/ transfers'[x][k] = transfers[x][k]
          \/ /\ x = s /\ k = m
             /\ transfers'[x][k] = [transfers[x][k] EXCEPT !.state = "COMPLETE"]
          \/ /\ x = d /\ k = n
             /\ \E rows \in {"own", "other"} :
                   transfers'[x][k] = [transfers[x][k] EXCEPT !.state = "COPY_DONE",
                                                              !.rows = rows]

\* A copy moves the two records that the workers of a pair are at.
LEMMA CopyEffect ==
    ASSUME PMP!PrefixInv, NEW p \in Pairs, NEW m \in Migrations, NEW n \in Migrations,
           PM!copy_kv(p[1], p[2], m, n)
    PROVE  Copies(p[1], p[2], m, n)
<1> DEFINE s == p[1]
           d == p[2]
           rows == IF /\ transfers[s][m].agent = transfers[d][n].agent
                      /\ cache[s][transfers[s][m].agent] = "own"
                   THEN "own" ELSE "other"
<1>1. PM!PrefixNext
  BY DEF PM!PrefixNext, PM!Workers
<1>2. s \in Engines /\ d \in Engines /\ s # d
  BY ProtocolAssumption
<1>3. /\ transfers[s][m].state = "COPYING" /\ transfers[s][m].role = "source"
      /\ transfers[d][n].state = "COPYING" /\ transfers[d][n].role = "destination"
      /\ UNCHANGED <<prefixes, locks>>
      /\ transfers' = [transfers EXCEPT ![s][m].state = "COMPLETE",
             ![d][n] = [@ EXCEPT !.state = "COPY_DONE", !.rows = rows]]
  BY DEF PM!copy_kv, PM!AtWorker, PM!TransferState, PM!pinVars
<1>4. rows \in {"own", "other"}
  OBVIOUS
<1> HIDE DEF s, d, rows
<1>5. \A x \in Engines, k \in Migrations :
         \/ transfers'[x][k] = transfers[x][k]
         \/ /\ x = s /\ k = m
            /\ transfers'[x][k] = [transfers[x][k] EXCEPT !.state = "COMPLETE"]
         \/ /\ x = d /\ k = n
            /\ transfers'[x][k] = [transfers[x][k] EXCEPT !.state = "COPY_DONE", !.rows = rows]
  BY <1>2, <1>3, ManagersTyped
<1>6. QED
  BY <1>1, <1>3, <1>4, <1>5 DEF s, d, Copies

\* A copy fails.
LEMMA CopyFailsEffect ==
    ASSUME PMP!PrefixInv, NEW e \in Engines, NEW m \in Migrations, PM!copy_fails(e, m)
    PROVE  /\ PM!PrefixNext
           /\ UNCHANGED <<prefixes, locks>>
           /\ WritesRecord(e, m)
           /\ transfers[e][m].state = "COPYING"
           /\ transfers'[e][m] = [transfers[e][m] EXCEPT !.state = "FAILED"]
<1>1. PM!PrefixNext
  BY DEF PM!PrefixNext, PM!Workers
<1>2. QED
  BY <1>1, ManagersTyped
     DEF PM!copy_fails, PM!TransferState, PM!pinVars, WritesRecord

\* A restart forgets the pins and the records of one engine, and so does a flush.
LEMMA RestartEffect ==
    ASSUME PMP!PrefixInv, NEW e \in Engines, PM!engine_restart(e) \/ PM!flush_cache(e)
    PROVE  /\ PM!PrefixNext
           /\ \A x \in Engines, a \in Agents :
                 IF x = e THEN prefixes'[x][a] = 0 /\ locks'[x][a] = 0
                 ELSE prefixes'[x][a] = prefixes[x][a] /\ locks'[x][a] = locks[x][a]
           /\ \A x \in Engines, m \in Migrations :
                 IF x = e THEN transfers'[x][m].state = "NONE"
                 ELSE transfers'[x][m] = transfers[x][m]
<1>1. PM!PrefixNext
  BY DEF PM!PrefixNext, PM!EngineEvents
<1>2. QED
  BY <1>1, ManagersTyped DEF PM!engine_restart, PM!flush_cache, PM!ResetsTables,
     PM!ResetsPool, PM!NoTransfer

\* Prefills and evictions leave pins and records alone.
LEMMA TrafficEffect ==
    ASSUME NEW e \in Engines, NEW a \in Agents, PM!prefill(e, a) \/ PM!evict(e, a)
    PROVE  PM!PrefixNext /\ KeepsRecords /\ UNCHANGED <<prefixes, locks>>
BY DEF PM!PrefixNext, PM!EngineEvents, PM!prefill, PM!evict, PM!transferVars, PM!pinVars,
       KeepsRecords

-----------------------------------------------------------------------------
(* The steps of a migrate call. *)

\* The engines execute a call, or nothing.
MovesEngines ==
    /\ PinMove
    /\ \A e \in Engines, m \in Migrations : RecordMove(e, m)
    /\ PM!PrefixNext \/ UNCHANGED engineVars

\* One call moves, and perhaps its row.
MovesTask(m) ==
    /\ StoreMove
    /\ \A n \in Migrations \ {m} : task'[n] = task[n] /\ migrations'[n] = migrations[n]
    /\ TaskMove(m)
    /\ TaskFits(m)'
    /\ task' \in [Migrations -> Calls]
    /\ engineLock' \in [Engines -> Migrations \cup {None}]

\* No call at all moves the engines as allowed.
LEMMA EnginesUnmoved == ASSUME UNCHANGED engineVars PROVE MovesEngines
BY EnginesRest DEF MovesEngines

\* A call that keeps the records moves none of them.
LEMMA RecordsUnmoved ==
    ASSUME KeepsRecords PROVE \A e \in Engines, m \in Migrations : RecordMove(e, m)
BY DEF KeepsRecords, RecordMove

\* What is left to show of a step of a call.
LEMMA TaskStepKeeps ==
    ASSUME ProtocolInv, NEW m \in Migrations, Running(m), TaskStep, MovesTask(m),
           MovesEngines, faults' \in {faults, faults + 1}, established' \subseteq Pairs
    PROVE  KeepsControl
<1>1. \A n \in Migrations : TaskMove(n)
  BY TaskRests DEF MovesTask
<1>2. CallsMove
  BY DEF TaskStep, CallsMove
<1>3. ControllerTyped'
  BY DEF ProtocolInv, ControllerTyped, MovesTask, TaskStep
<1>4. TasksFit'
  BY OthersFit DEF ProtocolInv, MovesTask
<1>5. ReconcileFits'
  BY RunningKeepsIdle DEF ProtocolInv, TaskStep
<1>6. QED
  BY <1>1, <1>2, <1>3, <1>4, <1>5 DEF KeepsControl, Moves, MovesTask, MovesEngines

\* The row of a call past the INSERT.
LEMMA RowOfCall ==
    ASSUME ProtocolInv, NEW m \in Migrations, HoldsRow(m)
    PROVE  LET t == task[m]
               row == migrations[m]
           IN
           /\ Running(m)
           /\ m \in Unfinished
           /\ t \in Calls /\ row \in MigrationRows
           /\ t.agent = row.agent /\ t.epoch = row.epoch
           /\ t.source = row.source /\ t.destination = row.destination
           /\ row.agent \in Agents /\ row.source \in Engines /\ row.destination \in Engines
           /\ row.epoch \in 1..MaxEpoch /\ row.epoch + 1 \in 1..MaxEpoch
           /\ <<row.source, row.destination>> \in Pairs
<1>1. TaskFits(m) /\ RowsInv /\ task[m] \in Calls
  BY DEF ProtocolInv, TasksFit, ControllerTyped
<1>2. Running(m) /\ m \in Unfinished /\ MigrationState(m) # "NONE"
  BY <1>1 DEF HoldsRow, TaskFits, Running, ReturnedStates, Unfinished, MigrationState
<1>3. <<migrations[m].source, migrations[m].destination>> \in Pairs
  BY <1>1, <1>2 DEF RowsInv
<1>4. migrations[m] \in MigrationRows
  BY <1>1 DEF RowsInv, StoreInv, StoreTypeOK
<1>5. QED
  BY <1>1, <1>2, <1>3, <1>4, EpochsBounded, ProtocolAssumption DEF TaskFits, Unfinished

\* A call goes on within the same phase of its migration.
LEMMA GotoMoves ==
    ASSUME ProtocolInv, NEW m \in Migrations, HoldsRow(m), NEW pc, Goto(m, pc),
           LET t == task[m]
               row == migrations[m]
           IN
           \/ /\ t.pc = "pin" /\ pc = "group"
              /\ prefixes'[row.source][row.agent] = row.epoch
           \/ t.pc = "startDestination" /\ pc = "startSource"
           \/ t.pc = "startSource" /\ pc = "wait"
           \/ t.pc = "wait" /\ pc = "wait"
           \/ /\ t.pc = "release" /\ pc = "cleanup"
              /\ faults' # 0 \/ prefixes'[row.destination][row.agent] # row.epoch + 1
    PROVE  MovesTask(m)
<1>1. TaskFits(m) /\ task \in [Migrations -> Calls]
  BY DEF ProtocolInv, TasksFit, ControllerTyped
<1>2. /\ task' = [task EXCEPT ![m].pc = pc]
      /\ UNCHANGED <<agents, migrations, claims, starting, engineLock>>
  BY DEF Goto, storeVars
<1>3. /\ task'[m] = [task[m] EXCEPT !.pc = pc]
      /\ \A n \in Migrations \ {m} : task'[n] = task[n]
      /\ task' \in [Migrations -> Calls]
  BY <1>1, <1>2 DEF Calls
<1>4. TaskFits(m)'
  BY <1>1, <1>2, <1>3 DEF TaskFits, HoldsRow, Calls
<1>5. TaskMove(m)
  BY <1>1, <1>3 DEF TaskFits, TaskMove, Believes, KeepsCopy, ReturnedStates, Calls
<1>6. QED
  BY <1>2, <1>3, <1>4, <1>5 DEF MovesTask, StoreMove, storeVars, ProtocolInv, ControllerTyped

\* A call raises: it aborts its migration, unless the copy was ready or there is no row.
LEMMA RaiseMoves ==
    ASSUME ProtocolInv, NEW m \in Migrations, Raise(m),
           \/ task[m].pc \in {"lock2", "pin", "group", "startDestination", "startSource",
                              "commit"}
           \/ task[m].pc = "cleanup" /\ task[m].failed
    PROVE  MovesTask(m)
<1>1. TaskFits(m) /\ task \in [Migrations -> Calls] /\ migrations[m] \in MigrationRows
  BY DEF ProtocolInv, TasksFit, ControllerTyped, RowsInv, StoreInv, StoreTypeOK
<1>2. /\ task'[m] = [task[m] EXCEPT !.pc = "failed"]
      /\ \A n \in Migrations \ {m} : task'[n] = task[n]
      /\ task' \in [Migrations -> Calls]
      /\ engineLock' \in [Engines -> Migrations \cup {None}]
  BY <1>1 DEF Raise, Unlocked, Calls, ReturnedStates, ProtocolInv, ControllerTyped
<1>3. TaskFits(m)'
  BY <1>1, <1>2 DEF TaskFits, HoldsRow, Calls
<1>4. TaskMove(m)
  BY <1>1, <1>2 DEF TaskMove, Believes, KeepsCopy, ReturnedStates, Calls
<1>5. StoreMove /\ \A n \in Migrations \ {m} : migrations'[n] = migrations[n]
  <2>1. CASE MigrationState(m) \in {"PREPARING", "COPYING"}
    <3>1. transition_migration(m, MigrationState(m), "ABORTED")
      BY <2>1 DEF Raise
    <3>2. \/ task[m].pc \in {"pin", "group", "startDestination", "startSource"}
          \/ task[m].pc = "cleanup" /\ task[m].failed
      BY <1>1, <2>1 DEF TaskFits, MigrationState
    <3>3. Aborts(m)
      BY <2>1, <3>1, <3>2 DEF Aborts, Unfinished
    <3>4. \A n \in Migrations \ {m} : migrations'[n] = migrations[n]
      BY <3>1 DEF transition_migration, ProtocolInv, RowsInv, StoreInv, StoreTypeOK
    <3>5. QED
      BY <3>3, <3>4 DEF StoreMove, RowMoves
  <2>2. CASE MigrationState(m) \notin {"PREPARING", "COPYING"}
    BY <2>2 DEF Raise, StoreMove, storeVars
  <2>3. QED
    BY <2>1, <2>2
<1>6. QED
  BY <1>2, <1>3, <1>4, <1>5 DEF MovesTask

\* What a control RPC may come to.
LEMMA RpcOutcomes ==
    ASSUME NEW allowed, NEW call, NEW answered, NEW raised,
           Rpc(allowed, call, answered, raised), faults \in Nat
    PROVE  /\ faults' \in {faults, faults + 1}
           /\ \/ call /\ answered
              \/ UNCHANGED engineVars /\ raised /\ (~allowed \/ faults' # 0)
              \/ call /\ raised /\ faults' # 0
BY DEF Rpc

\* A new call starts without locks and without a row.
LEMMA MigrateKeeps ==
    ASSUME ProtocolInv, NEW m \in Migrations, NEW a \in Agents, NEW d \in Engines,
           migrate(m, a, d)
    PROVE  KeepsControl
<1> DEFINE t == [Idle EXCEPT !.pc = "lock1", !.agent = a, !.source = agents[a].owner,
                             !.destination = d]
<1>1. /\ task[m].pc = "idle" /\ reconcile.pc = "idle"
      /\ <<agents[a].owner, d>> \in Pairs
      /\ task' = [task EXCEPT ![m] = t]
      /\ UNCHANGED <<storeVars, engineVars, engineLock, established, acking, recovering,
                     reconcile, budgetVars>>
  BY DEF migrate
<1>2. t \in Calls
  <2>1. agents[a].owner \in Engines /\ 0 \in 0..MaxEpoch
    <3>1. MaxEpoch \in Nat /\ Pairs \subseteq Engines \X Engines
      BY ProtocolAssumption
    <3>2. <<agents[a].owner, d>> \in Engines \X Engines
      BY <1>1, <3>1
    <3>3. QED
      BY <3>1, <3>2
  <2>2. Idle \in Calls
    BY <2>1 DEF Idle, Calls, ReturnedStates
  <2>3. QED
    BY <2>1, <2>2 DEF Calls
<1>3. /\ task'[m] = t /\ \A n \in Migrations \ {m} : task'[n] = task[n]
      /\ task' \in [Migrations -> Calls]
  BY <1>1, <1>2 DEF ProtocolInv, ControllerTyped
<1>4. /\ t.pc = "lock1" /\ t.agent = a /\ <<t.source, t.destination>> \in Pairs
      /\ t.src = "wait" /\ t.dst = "wait" /\ ~t.failed
  BY <1>1 DEF Idle
<1> HIDE DEF t
<1>5. migrations[m].state = "NONE"
  BY <1>1 DEF ProtocolInv, TasksFit, TaskFits
<1>6. TaskFits(m)'
  BY <1>1, <1>3, <1>4, <1>5 DEF TaskFits, HoldsRow, storeVars
<1>7. \A n \in Migrations : TaskMove(n)
  BY <1>1, <1>3, <1>4, TaskRests DEF TaskMove, Believes
<1>8. TasksFit'
  BY <1>1, <1>3, <1>6, OthersFit DEF ProtocolInv, storeVars
<1>9. StoreMove /\ PinMove /\ (\A e \in Engines, n \in Migrations : RecordMove(e, n))
  BY <1>1, EnginesRest DEF StoreMove
<1>10. CallsMove /\ ControllerTyped' /\ ReconcileFits'
  BY <1>1, <1>3
     DEF ProtocolInv, ControllerTyped, CallsMove, ReconcileFits, budgetVars
<1>11. QED
  BY <1>1, <1>7, <1>8, <1>9, <1>10 DEF KeepsControl, Moves

\* The first lock changes nothing but the call.
LEMMA FirstLockKeeps ==
    ASSUME ProtocolInv, NEW m \in Migrations, acquire_first_lock(m)
    PROVE  KeepsControl
<1>1. /\ task[m].pc = "lock1"
      /\ engineLock' = [engineLock EXCEPT ![First(m)] = m]
      /\ task' = [task EXCEPT ![m].pc = "lock2"]
      /\ UNCHANGED <<storeVars, engineVars, established, acking, recovering, reconcile,
                     budgetVars>>
  BY DEF acquire_first_lock
<1>2. /\ TaskFits(m) /\ task \in [Migrations -> Calls]
      /\ engineLock \in [Engines -> Migrations \cup {None}]
  BY DEF ProtocolInv, TasksFit, ControllerTyped
<1>3. /\ task'[m] = [task[m] EXCEPT !.pc = "lock2"]
      /\ \A n \in Migrations \ {m} : task'[n] = task[n]
      /\ task' \in [Migrations -> Calls]
      /\ engineLock' \in [Engines -> Migrations \cup {None}]
  BY <1>1, <1>2, ZenonT(60) DEF Calls
<1>4. TaskFits(m)'
  BY <1>1, <1>2, <1>3 DEF TaskFits, HoldsRow, storeVars, Calls
<1>5. TaskMove(m)
  BY <1>1, <1>2, <1>3 DEF TaskMove, Believes, KeepsCopy, ReturnedStates, Calls
<1>6. MovesTask(m)
  BY <1>1, <1>3, <1>4, <1>5 DEF MovesTask, StoreMove, storeVars
<1>7. Running(m) /\ TaskStep /\ MovesEngines /\ faults' = faults /\ established' \subseteq Pairs
  BY <1>1, EnginesUnmoved
     DEF Running, ReturnedStates, TaskStep, budgetVars, ProtocolInv, ControllerTyped
<1>8. QED
  BY <1>6, <1>7, TaskStepKeeps

\* With the second lock a call inserts its row, starts again, or raises.
LEMMA SecondLockKeeps ==
    ASSUME ProtocolInv, NEW m \in Migrations, acquire_second_lock(m)
    PROVE  KeepsControl
<1> DEFINE a == task[m].agent
           owner == agents[a].owner
<1>1. /\ task[m].pc = "lock2"
      /\ UNCHANGED <<engineVars, established, acking, recovering, reconcile, budgetVars>>
  BY DEF acquire_second_lock
<1>2. /\ TaskFits(m) /\ task \in [Migrations -> Calls] /\ task[m] \in Calls
      /\ engineLock \in [Engines -> Migrations \cup {None}]
      /\ migrations[m].state = "NONE"
      /\ a \in Agents /\ <<task[m].source, task[m].destination>> \in Pairs
  BY <1>1 DEF ProtocolInv, TasksFit, TaskFits, ControllerTyped
<1>3. Registered(a) /\ agents[a] \in AgentRows /\ owner \in Engines
      /\ agents[a].epoch \in 0..MaxEpoch
  <2>1. Registered(a) /\ agents[a] \in AgentRows
    BY <1>2 DEF ProtocolInv, RowsInv, StoreInv, StoreTypeOK
  <2>2. agents[a].epoch \in InitialEpoch..MaxEpoch
    BY <1>2, EpochsBounded DEF ProtocolInv
  <2>3. QED
    BY <2>1, <2>2, StoreAssumption DEF Registered, AgentRows
<1>4. Running(m) /\ TaskStep /\ MovesEngines /\ faults' = faults /\ established' \subseteq Pairs
  BY <1>1, EnginesUnmoved
     DEF Running, ReturnedStates, TaskStep, budgetVars, ProtocolInv, ControllerTyped
<1>5. CASE owner # task[m].source
  <2> DEFINE pc == IF owner = task[m].destination THEN "failed" ELSE "lock1"
  <2>1. /\ task' = [task EXCEPT ![m] = [@ EXCEPT !.pc = pc, !.source = owner]]
        /\ engineLock' = Unlocked(m)
        /\ UNCHANGED storeVars
    BY <1>5 DEF acquire_second_lock
  <2>2. /\ task'[m] = [task[m] EXCEPT !.pc = pc, !.source = owner]
        /\ \A n \in Migrations \ {m} : task'[n] = task[n]
        /\ task' \in [Migrations -> Calls]
        /\ engineLock' \in [Engines -> Migrations \cup {None}]
    BY <2>1, <1>2, <1>3 DEF Unlocked, Calls, ReturnedStates
  <2>3. pc = "lock1" => <<owner, task[m].destination>> \in Pairs
    BY <1>2, <1>3, ProtocolAssumption
  <2>4. pc \in {"failed", "lock1"}
    OBVIOUS
  <2> HIDE DEF pc
  <2>5. TaskFits(m)'
    BY <1>1, <1>2, <2>1, <2>2, <2>3, <2>4 DEF TaskFits, HoldsRow, storeVars, Calls
  <2>6. TaskMove(m)
    BY <1>1, <1>2, <2>2, <2>4 DEF TaskMove, Believes, KeepsCopy, ReturnedStates, Calls
  <2>7. MovesTask(m)
    BY <2>1, <2>2, <2>5, <2>6 DEF MovesTask, StoreMove, storeVars
  <2>8. QED
    BY <1>4, <2>7, TaskStepKeeps
<1>6. CASE owner = task[m].source /\ HasLiveMigration(a)
  <2>1. MovesTask(m)
    BY <1>1, <1>6, RaiseMoves DEF acquire_second_lock
  <2>2. QED
    BY <1>4, <2>1, TaskStepKeeps
<1>7. CASE owner = task[m].source /\ ~HasLiveMigration(a)
  <2> DEFINE row == [agent |-> a, source |-> owner, destination |-> task[m].destination,
                     epoch |-> agents[a].epoch, state |-> "PREPARING"]
  <2>1. /\ migrations' = [migrations EXCEPT ![m] = row]
        /\ engineLock' = [engineLock EXCEPT ![Second(m)] = m]
        /\ task' = [task EXCEPT ![m] = [@ EXCEPT !.pc = "pin", !.epoch = agents[a].epoch]]
        /\ UNCHANGED <<agents, claims, starting>>
    BY <1>7 DEF acquire_second_lock
  <2>2. /\ task'[m] = [task[m] EXCEPT !.pc = "pin", !.epoch = agents[a].epoch]
        /\ \A n \in Migrations \ {m} : task'[n] = task[n]
        /\ task' \in [Migrations -> Calls]
        /\ engineLock' \in [Engines -> Migrations \cup {None}]
    BY <2>1, <1>2, <1>3 DEF Calls
  <2>3. /\ migrations'[m] = row
        /\ \A n \in Migrations \ {m} : migrations'[n] = migrations[n]
    BY <2>1 DEF ProtocolInv, RowsInv, StoreInv, StoreTypeOK
  <2>4. TaskFits(m)'
    BY <1>1, <1>2, <1>7, <2>2, <2>3 DEF TaskFits, HoldsRow, Calls
  <2>5. TaskMove(m)
    BY <1>1, <1>2, <2>2 DEF TaskMove, Believes, KeepsCopy, ReturnedStates, Calls
  <2>6. Inserts(m)
    BY <1>1, <1>7, <2>1 DEF Inserts
  <2>7. MovesTask(m)
    BY <2>2, <2>3, <2>4, <2>5, <2>6 DEF MovesTask, StoreMove, RowMoves
  <2>8. QED
    BY <1>4, <2>7, TaskStepKeeps
<1>8. QED
  BY <1>5, <1>6, <1>7

\* A pin that raises aborts a migration that is still PREPARING.
LEMMA PinSourceKeeps ==
    ASSUME ProtocolInv, NEW m \in Migrations, pin_source(m)
    PROVE  KeepsControl
<1> DEFINE s == migrations[m].source
           a == migrations[m].agent
           epoch == migrations[m].epoch
           call == PM!pin(s, a, epoch)
<1>1. task[m].pc = "pin" /\ HoldsRow(m)
  BY DEF pin_source, HoldsRow
<1>2. /\ Running(m) /\ s \in Engines /\ a \in Agents /\ epoch \in 1..MaxEpoch
      /\ task[m].source = s /\ task[m].agent = a /\ task[m].epoch = epoch
  BY <1>1, RowOfCall
<1>3. /\ \/ Rpc(PM!PinAllowed(s, a, epoch), call, Goto(m, "group"), Raise(m))
         \/ PinFails(s, a) /\ Raise(m)
      /\ TaskStep /\ established' \subseteq Pairs
  BY <1>2 DEF pin_source, ProtocolInv, ControllerTyped
<1> HIDE DEF call
<1>4. /\ faults' \in {faults, faults + 1}
      /\ \/ call /\ Goto(m, "group")
         \/ (UNCHANGED engineVars \/ call \/ PinFails(s, a)) /\ Raise(m)
  BY <1>3 DEF Rpc, PinFails
<1>5. ASSUME call
      PROVE  MovesEngines /\ prefixes'[s][a] = epoch
  <2>1. /\ PM!PrefixNext /\ KeepsRecords /\ prefixes[s][a] \in {0, epoch}
        /\ WritesPin(s, a, epoch, IF prefixes[s][a] = 0 THEN locks[s][a] + 1 ELSE locks[s][a])
    BY <1>2, <1>5, PinEffect DEF call, ProtocolInv
  <2>2. TakesPin(m)
    BY <1>1, <2>1 DEF TakesPin
  <2>3. QED
    BY <2>1, <2>2, RecordsUnmoved DEF MovesEngines, PinMove, WritesPin
<1>6. PinFails(s, a) => MovesEngines
  <2>1. PinFails(s, a) => /\ PM!PrefixNext /\ KeepsRecords /\ faults' = faults + 1
                          /\ WritesPin(s, a, prefixes[s][a], locks[s][a] + 1)
    BY <1>2, PinFailsEffect DEF PinFails, ProtocolInv
  <2>2. QED
    BY <1>2, <2>1, RecordsUnmoved DEF MovesEngines, PinMove, LeavesLock
<1>7. MovesEngines
  BY <1>4, <1>5, <1>6, EnginesUnmoved
<1>8. MovesTask(m)
  BY <1>1, <1>4, <1>5, GotoMoves, RaiseMoves
<1>9. QED
  BY <1>2, <1>3, <1>4, <1>7, <1>8, TaskStepKeeps

\* The copy is declared begun once the group is there.
LEMMA EnsureGroupKeeps ==
    ASSUME ProtocolInv, NEW m \in Migrations, ensure_group(m)
    PROVE  KeepsControl
<1> DEFINE pair == <<migrations[m].source, migrations[m].destination>>
           call == PM!init_transfer_group(pair[1], pair[2])
<1>1. task[m].pc = "group" /\ HoldsRow(m)
  BY DEF ensure_group, HoldsRow
<1>2. /\ Running(m) /\ pair \in Pairs
      /\ pair = <<task[m].source, task[m].destination>>
  BY <1>1, RowOfCall
<1>3. ASSUME StartCopying(m)
      PROVE  MovesTask(m)
  <2>1. /\ TaskFits(m) /\ task \in [Migrations -> Calls] /\ migrations[m] \in MigrationRows
        /\ migrations \in [Migrations -> MigrationRows]
        /\ engineLock \in [Engines -> Migrations \cup {None}]
    BY DEF ProtocolInv, TasksFit, ControllerTyped, RowsInv, StoreInv, StoreTypeOK
  <2>2. /\ transition_migration(m, "PREPARING", "COPYING") /\ engineLock' = engineLock
        /\ task' = [task EXCEPT ![m].pc = "startDestination"]
    BY <1>3 DEF StartCopying
  <2>3. /\ task'[m] = [task[m] EXCEPT !.pc = "startDestination"]
        /\ \A n \in Migrations \ {m} : task'[n] = task[n]
        /\ task' \in [Migrations -> Calls]
    BY <2>1, <2>2 DEF Calls
  <2>4. /\ migrations'[m] = [migrations[m] EXCEPT !.state = "COPYING"]
        /\ \A n \in Migrations \ {m} : migrations'[n] = migrations[n]
    BY <2>1, <2>2 DEF transition_migration
  <2>5. TaskFits(m)'
    BY <1>1, <2>1, <2>3, <2>4 DEF TaskFits, HoldsRow, Calls, MigrationRows
  <2>6. TaskMove(m)
    BY <1>1, <2>1, <2>3 DEF TaskMove, Believes, KeepsCopy, ReturnedStates, Calls
  <2>7. StoreMove
    BY <1>1, <2>1, <2>2, <2>3 DEF StoreMove, RowMoves, Calls
  <2>8. QED
    BY <2>1, <2>2, <2>3, <2>4, <2>5, <2>6, <2>7 DEF MovesTask
<1>4. CASE pair \in established
  <2>1. /\ StartCopying(m)
        /\ UNCHANGED <<engineVars, established, faults>> /\ TaskStep
    BY <1>2, <1>4 DEF ensure_group
  <2>2. established' \subseteq Pairs /\ MovesEngines
    BY <2>1, EnginesUnmoved DEF ProtocolInv, ControllerTyped
  <2>3. QED
    BY <1>2, <1>3, <2>1, <2>2, TaskStepKeeps
<1>5. CASE pair \notin established
  <2>1. /\ Rpc(PM!InitGroupAllowed(pair[1], pair[2]), call,
               StartCopying(m) /\ established' = established \cup {pair},
               Raise(m) /\ UNCHANGED established)
        /\ TaskStep
    BY <1>2, <1>5 DEF ensure_group
  <2> HIDE DEF call
  <2>2. /\ faults' \in {faults, faults + 1}
        /\ \/ call /\ StartCopying(m) /\ established' = established \cup {pair}
           \/ (UNCHANGED engineVars \/ call) /\ Raise(m) /\ UNCHANGED established
    BY <2>1 DEF Rpc
  <2>3. call => MovesEngines
    BY <1>2, GroupEffect, RecordsUnmoved DEF call, MovesEngines, PinMove
  <2>4. MovesEngines
    BY <2>2, <2>3, EnginesUnmoved
  <2>5. MovesTask(m)
    BY <1>1, <1>3, <2>2, RaiseMoves
  <2>6. established' \subseteq Pairs
    BY <1>2, <2>2 DEF ProtocolInv, ControllerTyped
  <2>7. QED
    BY <1>2, <2>1, <2>2, <2>4, <2>5, <2>6, TaskStepKeeps
<1>6. QED
  BY <1>4, <1>5

\* The destination creates its record, refuses to, or evicts in vain.
LEMMA StartDestinationKeeps ==
    ASSUME ProtocolInv, NEW m \in Migrations, start_destination(m)
    PROVE  KeepsControl
<1> DEFINE row == migrations[m]
           d == row.destination
           pair == <<row.source, row.destination>>
           call == PM!start_transfer(d, "destination", m, row.agent, row.epoch + 1, pair)
           full == PM!start_transfer_full(d, m, row.agent, row.epoch + 1, pair)
<1>1. task[m].pc = "startDestination" /\ HoldsRow(m)
  BY DEF start_destination, HoldsRow
<1>2. /\ Running(m) /\ pair \in Pairs /\ d \in Engines /\ row.agent \in Agents
      /\ row.epoch + 1 \in 1..MaxEpoch
      /\ row.source = task[m].source /\ d = task[m].destination
      /\ row.agent = task[m].agent /\ row.epoch = task[m].epoch
  BY <1>1, RowOfCall
<1>3. /\ \/ Rpc(PM!StartAllowed(d, "destination", m, row.agent, row.epoch + 1, pair), call,
                Goto(m, "startSource"), Raise(m))
         \/ full /\ Raise(m) /\ UNCHANGED faults
      /\ TaskStep /\ established' \subseteq Pairs
  BY <1>2 DEF start_destination, ProtocolInv, ControllerTyped
<1> HIDE DEF call, full
<1>4. /\ faults' \in {faults, faults + 1}
      /\ UNCHANGED engineVars \/ call \/ full
      /\ Goto(m, "startSource") \/ Raise(m)
  BY <1>3, RpcOutcomes DEF ProtocolInv, ControllerTyped
<1>5. MovesTask(m)
  BY <1>1, <1>4, GotoMoves, RaiseMoves
<1>6. call => MovesEngines
  <2> SUFFICES ASSUME call PROVE MovesEngines
    OBVIOUS
  <2>1. /\ PM!PrefixNext /\ UNCHANGED <<prefixes, locks>>
        /\ \/ KeepsRecords
           \/ /\ WritesRecord(d, m)
              /\ transfers[d][m].state = "NONE"
              /\ prefixes[d][row.agent] = 0
              /\ transfers'[d][m].state = "QUEUED"
              /\ transfers'[d][m].role = "destination"
              /\ transfers'[d][m].agent = row.agent
              /\ transfers'[d][m].epoch = row.epoch + 1
              /\ transfers'[d][m].pair = pair
    <3>1. pair[IF "destination" = "source" THEN 1 ELSE 2] = d
      OBVIOUS
    <3>2. QED
      BY <1>2, <3>1, StartEffect DEF call, ProtocolInv
  <2>2. task'[m].pc # "startDestination"
    BY <1>4 DEF Goto, Raise, ProtocolInv, ControllerTyped, Calls
  <2>3. CASE KeepsRecords
    BY <2>1, <2>3, RecordsUnmoved DEF MovesEngines, PinMove
  <2>4. CASE WritesRecord(d, m) /\ ~KeepsRecords
    <3>1. StartsRecord(d, m)
      BY <1>1, <2>1, <2>2, <2>4 DEF StartsRecord
    <3>2. QED
      BY <2>1, <2>4, <3>1 DEF MovesEngines, PinMove, RecordMove, WritesRecord
  <2>5. QED
    BY <2>1, <2>3, <2>4
<1>7. full => MovesEngines
  <2>1. pair[2] = d
    OBVIOUS
  <2>2. QED
    BY <1>2, <2>1, FullEffect, RecordsUnmoved DEF full, MovesEngines, PinMove
<1>8. QED
  BY <1>2, <1>3, <1>4, <1>5, <1>6, <1>7, EnginesUnmoved, TaskStepKeeps

\* The source creates its record, or the migration is aborted.
LEMMA StartSourceKeeps ==
    ASSUME ProtocolInv, NEW m \in Migrations, start_source(m)
    PROVE  KeepsControl
<1> DEFINE row == migrations[m]
           s == row.source
           pair == <<row.source, row.destination>>
           call == PM!start_transfer(s, "source", m, row.agent, row.epoch, pair)
<1>1. task[m].pc = "startSource" /\ HoldsRow(m)
  BY DEF start_source, HoldsRow
<1>2. /\ Running(m) /\ pair \in Pairs /\ s \in Engines /\ row.agent \in Agents
      /\ row.epoch \in 1..MaxEpoch
      /\ s = task[m].source /\ row.destination = task[m].destination
      /\ row.agent = task[m].agent /\ row.epoch = task[m].epoch
  BY <1>1, RowOfCall
<1>3. /\ Rpc(PM!StartAllowed(s, "source", m, row.agent, row.epoch, pair), call,
             Goto(m, "wait"), Raise(m))
      /\ TaskStep /\ established' \subseteq Pairs
  BY <1>2 DEF start_source, ProtocolInv, ControllerTyped
<1> HIDE DEF call
<1>4. /\ faults' \in {faults, faults + 1}
      /\ UNCHANGED engineVars \/ call
      /\ Goto(m, "wait") \/ Raise(m)
  BY <1>3, RpcOutcomes DEF ProtocolInv, ControllerTyped
<1>5. MovesTask(m)
  BY <1>1, <1>4, GotoMoves, RaiseMoves
<1>6. call => MovesEngines
  <2> SUFFICES ASSUME call PROVE MovesEngines
    OBVIOUS
  <2>1. /\ PM!PrefixNext /\ UNCHANGED <<prefixes, locks>>
        /\ \/ KeepsRecords
           \/ /\ WritesRecord(s, m)
              /\ transfers[s][m].state = "NONE"
              /\ transfers'[s][m].state = "QUEUED"
              /\ transfers'[s][m].role = "source"
              /\ transfers'[s][m].agent = row.agent
              /\ transfers'[s][m].epoch = row.epoch
              /\ transfers'[s][m].pair = pair
    <3>1. pair[IF "source" = "source" THEN 1 ELSE 2] = s
      OBVIOUS
    <3>2. QED
      BY <1>2, <3>1, StartEffect DEF call, ProtocolInv
  <2>2. task'[m].pc # "startDestination"
    BY <1>4 DEF Goto, Raise, ProtocolInv, ControllerTyped, Calls
  <2>3. CASE KeepsRecords
    BY <2>1, <2>3, RecordsUnmoved DEF MovesEngines, PinMove
  <2>4. CASE WritesRecord(s, m) /\ ~KeepsRecords
    <3>1. StartsRecord(s, m)
      BY <1>1, <2>1, <2>2, <2>4 DEF StartsRecord
    <3>2. QED
      BY <2>1, <2>4, <3>1 DEF MovesEngines, PinMove, RecordMove, WritesRecord
  <2>5. QED
    BY <2>1, <2>3, <2>4
<1>7. QED
  BY <1>2, <1>3, <1>4, <1>5, <1>6, EnginesUnmoved, TaskStepKeeps

\* Either engine of a running call is an engine of its migration.
LEMMA SideOfCall ==
    ASSUME ProtocolInv, NEW m \in Migrations, HoldsRow(m), NEW side \in {"src", "dst"}
    PROVE  LET e == Side(m, side) IN
           /\ e \in Engines
           /\ e = IF side = "src" THEN migrations[m].source ELSE migrations[m].destination
BY RowOfCall DEF Side

\* A poll of a transfer that only its migration's call or a reconciliation makes.
LEMMA PollMoves ==
    ASSUME ProtocolInv, NEW m \in Migrations, NEW e \in Engines, MigrationState(m) = "COPYING",
           task[m].pc = "wait" \/ ~Running(m), PM!poll_transfer(e, m)
    PROVE  /\ MovesEngines
           /\ PM!PolledState(e, m) = "COMPLETE" => transfers'[e][m].state = "COMPLETE"
<1> DEFINE t == transfers[e][m]
           row == migrations[m]
<1>1. t.state # "NONE" /\ RecordFits(e, m) /\ t \in PM!Transfers /\ row.agent \in Agents
  BY EpochsBounded, ManagersTyped
     DEF PM!poll_transfer, PM!PollAllowed, PM!TransferState, ProtocolInv, RecordsFit
<1>2. /\ t.agent = row.agent
      /\ t.state = "COPY_DONE" =>
            t.role = "destination" /\ e = row.destination /\ t.epoch = row.epoch + 1
  BY <1>1 DEF RecordFits
<1>3. /\ PM!PrefixNext
      /\ IF t.state = "COPY_DONE"
         THEN /\ WritesRecord(e, m)
              /\ transfers'[e][m] = [t EXCEPT !.state = "COMPLETE", !.rows = "none"]
              /\ WritesPin(e, t.agent, t.epoch, locks[e][t.agent] + 1)
         ELSE KeepsRecords /\ UNCHANGED <<prefixes, locks>>
  BY <1>1, <1>2, PollEffect DEF ProtocolInv
<1>4. CASE t.state = "COPY_DONE"
  <2>1. /\ transfers'[e][m].state = "COMPLETE" /\ transfers'[e][m].role = t.role
        /\ transfers'[e][m].agent = t.agent /\ transfers'[e][m].epoch = t.epoch
        /\ transfers'[e][m].pair = t.pair
    BY <1>1, <1>3, <1>4 DEF PM!Transfers
  <2>2. Installs(m)
    BY <1>2, <1>3, <1>4, <2>1 DEF Installs, MigrationState
  <2>3. Proceeds(e, m)
    BY <1>4, <2>1, <2>2 DEF Proceeds
  <2>4. \A x \in Engines, n \in Migrations : RecordMove(x, n)
    BY <1>3, <1>4, <2>3 DEF WritesRecord, RecordMove
  <2>5. QED
    BY <1>3, <2>1, <2>2, <2>4 DEF MovesEngines, PinMove
<1>5. CASE t.state # "COPY_DONE"
  BY <1>3, <1>5, RecordsUnmoved
     DEF MovesEngines, PinMove, PM!PolledState, PM!TransferState, KeepsRecords
<1>6. QED
  BY <1>4, <1>5

\* An install that fails fails its transfer and pins nothing.
LEMMA InstallFailsMoves ==
    ASSUME ProtocolInv, NEW m \in Migrations, NEW e \in Engines, InstallFails(e, m)
    PROVE  MovesEngines
<1> DEFINE t == transfers[e][m]
           a == t.agent
<1>1. t.state = "COPY_DONE" /\ PM!install_fails(e, m) /\ faults' = faults + 1
  BY DEF InstallFails, PM!install_fails, PM!TransferState
<1>2. t \in PM!Transfers /\ RecordFits(e, m)
  BY ManagersTyped DEF ProtocolInv, RecordsFit
<1>3. a \in Agents
  <2>1. MigrationState(m) # "NONE" /\ a = migrations[m].agent
    BY <1>1, <1>2 DEF RecordFits, MigrationState
  <2>2. QED
    BY <2>1, EpochsBounded DEF ProtocolInv
<1>4. /\ PM!PrefixNext /\ WritesRecord(e, m)
      /\ UNCHANGED <<prefixes, locks>> \/ WritesPin(e, a, prefixes[e][a], locks[e][a] + 1)
      /\ transfers'[e][m] = [t EXCEPT !.state = "FAILED", !.rows = "none"]
  BY <1>1, <1>3, InstallFailsEffect DEF ProtocolInv
<1>5. Proceeds(e, m)
  BY <1>1, <1>2, <1>4 DEF Proceeds, PM!Transfers
<1> HIDE DEF a
<1>6. PinMove
  BY <1>1, <1>3, <1>4 DEF PinMove, LeavesLock
<1>7. QED
  BY <1>4, <1>5, <1>6 DEF MovesEngines, WritesRecord, RecordMove

\* One of the two waiters of a call ends.
LEMMA WaitedMoves ==
    ASSUME ProtocolInv, NEW m \in Migrations, NEW side \in {"src", "dst"}, NEW ok \in BOOLEAN,
           task[m].pc = "wait", task[m][side] = "wait", Waited(m, side, ok),
           ok /\ side = "dst" => transfers'[migrations[m].destination][m].state = "COMPLETE"
    PROVE  MovesTask(m)
<1> DEFINE t == task[m]
           failed == t.failed \/ ~ok
           u == task'[m]
<1>1. /\ TaskFits(m) /\ task \in [Migrations -> Calls] /\ t \in Calls
      /\ engineLock' \in [Engines -> Migrations \cup {None}]
      /\ UNCHANGED <<agents, migrations, claims, starting>>
  BY DEF ProtocolInv, TasksFit, ControllerTyped, Waited, storeVars
<1>2. failed \in BOOLEAN /\ t.failed \in BOOLEAN
  BY <1>1 DEF Calls
<1>3. /\ \A n \in Migrations \ {m} : task'[n] = task[n]
      /\ task' \in [Migrations -> Calls]
      /\ \/ /\ t[Other(side)] = "wait"
            /\ u = [t EXCEPT ![side] = "done", !.failed = failed]
         \/ /\ t[Other(side)] # "wait"
            /\ u = [t EXCEPT !.src = "wait", !.dst = "wait", !.failed = failed,
                             !.pc = IF failed THEN "release" ELSE "cleanup"]
  <2>1. CASE t[Other(side)] = "wait"
    <3>1. task' = [task EXCEPT ![m] = [@ EXCEPT ![side] = "done", !.failed = failed]]
      BY <2>1 DEF Waited
    <3>2. [t EXCEPT ![side] = "done", !.failed = failed] \in Calls
      <4>1. CASE side = "src"
        BY <1>1, <1>2, <4>1 DEF Calls
      <4>2. CASE side = "dst"
        BY <1>1, <1>2, <4>2 DEF Calls
      <4>3. QED
        BY <4>1, <4>2
    <3>3. QED
      BY <1>1, <2>1, <3>1, <3>2
  <2>2. CASE t[Other(side)] # "wait"
    <3>1. task' = [task EXCEPT ![m] =
                     [@ EXCEPT !.src = "wait", !.dst = "wait", !.failed = failed,
                               !.pc = IF failed THEN "release" ELSE "cleanup"]]
      BY <2>2 DEF Waited
    <3>2. [t EXCEPT !.src = "wait", !.dst = "wait", !.failed = failed,
                    !.pc = IF failed THEN "release" ELSE "cleanup"] \in Calls
      BY <1>1, <1>2 DEF Calls
    <3>3. QED
      BY <1>1, <2>2, <3>1, <3>2
  <2>3. QED
    BY <2>1, <2>2
<1>4. /\ u.agent = t.agent /\ u.epoch = t.epoch /\ u.source = t.source
      /\ u.destination = t.destination /\ u.failed = failed
      /\ \/ u.pc = "wait" /\ t[Other(side)] = "wait" /\ u[Other(side)] = "wait"
         \/ /\ t[Other(side)] # "wait" /\ u.pc = IF failed THEN "release" ELSE "cleanup"
  <2>1. CASE side = "src"
    BY <1>1, <1>3, <2>1, ZenonT(60) DEF Calls, Other
  <2>2. CASE side = "dst"
    BY <1>1, <1>3, <2>2, ZenonT(60) DEF Calls, Other
  <2>3. QED
    BY <2>1, <2>2
<1> HIDE DEF u, t, failed
<1>5. TaskFits(m)'
  BY <1>1, <1>4 DEF TaskFits, HoldsRow, u, t
<1>6. TaskMove(m)
  <2>1. u.pc \in {"wait", "release", "cleanup"} /\ (u.pc = "cleanup" => ~u.failed)
    BY <1>4
  <2>2. Believes(u) =>
           Believes(t) \/ transfers'[migrations[m].destination][m].state = "COMPLETE"
    <3>1. SUFFICES ASSUME Believes(u), side = "src" \/ ~ok
                   PROVE  Believes(t)
      OBVIOUS
    <3>2. ok /\ ~t.failed /\ side = "src" /\ Other(side) = "dst"
      BY <1>2, <1>4, <3>1, <2>1 DEF Believes, failed, Other
    <3>3. t.dst # "wait"
      BY <1>4, <3>1, <3>2 DEF Believes
    <3>4. t.dst = "done" /\ t.pc = "wait"
      BY <1>1, <3>3 DEF Calls, t
    <3>5. QED
      BY <3>2, <3>4 DEF Believes
  <2>3. QED
    BY <2>1, <2>2 DEF TaskMove, KeepsCopy, u, t
<1>7. QED
  BY <1>1, <1>3, <1>5, <1>6 DEF MovesTask, StoreMove, storeVars

\* A poll learns that its side is complete, waits on, or fails the migration.
LEMMA WaitKeeps ==
    ASSUME ProtocolInv, NEW m \in Migrations, NEW side \in {"src", "dst"},
           wait_for_transfer(m, side)
    PROVE  KeepsControl
<1> DEFINE e == Side(m, side)
           call == PM!poll_transfer(e, m)
<1>1. task[m].pc = "wait" /\ task[m][side] = "wait" /\ HoldsRow(m)
  BY DEF wait_for_transfer, HoldsRow
<1>2. /\ Running(m) /\ e \in Engines /\ MigrationState(m) = "COPYING"
      /\ side = "dst" => e = migrations[m].destination
  BY <1>1, RowOfCall, SideOfCall DEF ProtocolInv, TasksFit, TaskFits, MigrationState
<1>3. /\ \/ Rpc(PM!PollAllowed(e, m), call,
                IF PM!PolledState(e, m) = "COMPLETE" THEN Waited(m, side, TRUE)
                                                     ELSE Goto(m, "wait"),
                Waited(m, side, FALSE))
         \/ InstallFails(e, m) /\ Waited(m, side, FALSE)
      /\ TaskStep /\ established' \subseteq Pairs
  BY DEF wait_for_transfer, ProtocolInv, ControllerTyped
<1>4. call => /\ MovesEngines
              /\ PM!PolledState(e, m) = "COMPLETE" => transfers'[e][m].state = "COMPLETE"
  BY <1>1, <1>2, PollMoves
<1>5. InstallFails(e, m) => MovesEngines
  BY <1>2, InstallFailsMoves
<1> HIDE DEF call, e
<1>6. /\ faults' \in {faults, faults + 1}
      /\ UNCHANGED engineVars \/ call \/ InstallFails(e, m)
      /\ \/ Waited(m, side, FALSE)
         \/ Goto(m, "wait")
         \/ call /\ PM!PolledState(e, m) = "COMPLETE" /\ Waited(m, side, TRUE)
  BY <1>3 DEF Rpc, InstallFails
<1>7. MovesTask(m)
  <2>1. CASE Goto(m, "wait")
    BY <1>1, <2>1, GotoMoves
  <2>2. CASE Waited(m, side, FALSE)
    BY <1>1, <2>2, WaitedMoves
  <2>3. CASE call /\ PM!PolledState(e, m) = "COMPLETE" /\ Waited(m, side, TRUE)
    BY <1>1, <1>2, <1>4, <2>3, WaitedMoves
  <2>4. QED
    BY <1>6, <2>1, <2>2, <2>3
<1>8. QED
  BY <1>2, <1>3, <1>4, <1>5, <1>6, <1>7, EnginesUnmoved, TaskStepKeeps

\* A deadline fails the migration and touches no engine.
LEMMA TimeoutKeeps ==
    ASSUME ProtocolInv, NEW m \in Migrations, NEW side \in {"src", "dst"},
           transfer_timeout(m, side)
    PROVE  KeepsControl
<1>1. /\ task[m].pc = "wait" /\ task[m][side] = "wait" /\ HoldsRow(m)
      /\ Waited(m, side, FALSE) /\ TaskStep
      /\ UNCHANGED <<engineVars, established, faults>>
  BY DEF transfer_timeout, HoldsRow
<1>2. MovesTask(m) /\ Running(m)
  BY <1>1, WaitedMoves, RowOfCall
<1>3. established' \subseteq Pairs /\ MovesEngines
  BY <1>1, EnginesUnmoved DEF ProtocolInv, ControllerTyped
<1>4. QED
  BY <1>1, <1>2, <1>3, TaskStepKeeps

\* A release at the destination of an unfinished migration, by its call or by a
\* reconciliation.
LEMMA DestinationReleaseMoves ==
    ASSUME ProtocolInv, NEW m \in Migrations, m \in Unfinished,
           task[m].pc = "release" \/ (reconcile.pc = "release" /\ reconcile.m = m),
           LET row == migrations[m] IN
           PM!release(row.destination, row.agent, row.epoch + 1, TRUE, TRUE)
    PROVE  MovesEngines /\ prefixes'[migrations[m].destination][migrations[m].agent] = 0
<1> DEFINE row == migrations[m]
           d == row.destination
           a == row.agent
<1>1. d \in Engines /\ a \in Agents /\ row.epoch + 1 \in 1..MaxEpoch
  <2>1. RowsInv /\ MigrationState(m) \in {"PREPARING", "COPYING", "DEST_READY"}
    BY DEF ProtocolInv, Unfinished
  <2>2. <<row.source, row.destination>> \in Pairs
    BY <2>1 DEF RowsInv
  <2>3. QED
    BY <2>1, <2>2, EpochsBounded, ProtocolAssumption
<1>2. /\ PM!PrefixNext /\ KeepsRecords /\ prefixes'[d][a] = 0
      /\ \/ UNCHANGED <<prefixes, locks>>
         \/ prefixes[d][a] = row.epoch + 1 /\ WritesPin(d, a, 0, locks[d][a] - 1)
  BY <1>1, ReleaseEffect, ZenonT(60) DEF ProtocolInv
<1>3. PinMove
  BY <1>2 DEF PinMove, DropsDestination
<1>4. QED
  BY <1>2, <1>3, RecordsUnmoved DEF MovesEngines

\* A failed call drops the pin of its copy, unless the release is lost.
LEMMA ReleaseDestinationKeeps ==
    ASSUME ProtocolInv, NEW m \in Migrations, release_destination(m)
    PROVE  KeepsControl
<1> DEFINE row == migrations[m]
           d == row.destination
           allowed == PM!ReleaseAllowed(d, row.agent, row.epoch + 1, TRUE)
           call == PM!release(d, row.agent, row.epoch + 1, TRUE, TRUE)
<1>1. task[m].pc = "release" /\ HoldsRow(m)
  BY DEF release_destination, HoldsRow
<1>2. /\ Running(m) /\ m \in Unfinished /\ row.epoch + 1 \in 1..MaxEpoch
      /\ d = task[m].destination /\ row.agent = task[m].agent /\ row.epoch = task[m].epoch
  BY <1>1, RowOfCall
<1>3. /\ Rpc(allowed, call, Goto(m, "cleanup"), Goto(m, "cleanup"))
      /\ TaskStep /\ established' \subseteq Pairs
  BY <1>2 DEF release_destination, ProtocolInv, ControllerTyped
<1>4. call => MovesEngines /\ prefixes'[d][row.agent] = 0
  BY <1>1, <1>2, DestinationReleaseMoves
<1>5. ~allowed /\ UNCHANGED engineVars => prefixes'[d][row.agent] # row.epoch + 1
  BY DEF PM!ReleaseAllowed, engineVars
<1> HIDE DEF call, allowed
<1>6. /\ faults' \in {faults, faults + 1}
      /\ \/ call
         \/ UNCHANGED engineVars /\ (~allowed \/ faults' # 0)
      /\ Goto(m, "cleanup")
  BY <1>3 DEF Rpc, ProtocolInv, ControllerTyped
<1>7. faults' # 0 \/ prefixes'[d][row.agent] # row.epoch + 1
  BY <1>2, <1>4, <1>5, <1>6
<1>8. MovesTask(m)
  BY <1>1, <1>6, <1>7, GotoMoves
<1>9. QED
  BY <1>2, <1>3, <1>4, <1>6, <1>8, EnginesUnmoved, TaskStepKeeps

\* A cleanup of a transfer changes no pin.
LEMMA CleanupMoves ==
    ASSUME ProtocolInv, NEW m \in Migrations, NEW e \in Engines, PM!cleanup_transfer(e, m)
    PROVE  MovesEngines
<1>1. /\ PM!PrefixNext /\ UNCHANGED <<prefixes, locks>> /\ WritesRecord(e, m)
      /\ transfers'[e][m].state = "NONE"
  BY CleanupEffect DEF ProtocolInv
<1>2. QED
  BY <1>1 DEF MovesEngines, PinMove, WritesRecord, RecordMove

\* After its last cleanup a call declares the copy ready, or aborts.
LEMMA CleanupKeeps ==
    ASSUME ProtocolInv, NEW m \in Migrations, NEW side \in {"src", "dst"},
           cleanup_transfer(m, side)
    PROVE  KeepsControl
<1> DEFINE e == Side(m, side)
           call == PM!cleanup_transfer(e, m)
<1>1. task[m].pc = "cleanup" /\ HoldsRow(m)
  BY DEF cleanup_transfer, HoldsRow
<1>2. Running(m) /\ e \in Engines
  BY <1>1, RowOfCall, SideOfCall
<1>3. /\ Rpc(PM!CleanupAllowed(e, m), call, CleanedUp(m, side), CleanedUp(m, side))
      /\ TaskStep /\ established' \subseteq Pairs
  BY DEF cleanup_transfer, ProtocolInv, ControllerTyped
<1>4. call => MovesEngines
  BY <1>2, CleanupMoves
<1> HIDE DEF call, e
<1>5. /\ faults' \in {faults, faults + 1} /\ (call \/ UNCHANGED engineVars)
      /\ CleanedUp(m, side)
  BY <1>3 DEF Rpc
<1>6. /\ TaskFits(m) /\ task \in [Migrations -> Calls] /\ migrations[m] \in MigrationRows
      /\ migrations \in [Migrations -> MigrationRows] /\ task[m] \in Calls
      /\ engineLock \in [Engines -> Migrations \cup {None}]
  BY DEF ProtocolInv, TasksFit, ControllerTyped, RowsInv, StoreInv, StoreTypeOK
<1>7. MovesTask(m)
  <2>1. CASE task[m][Other(side)] = "wait"
    <3>1. /\ task' = [task EXCEPT ![m][side] = "done"]
          /\ UNCHANGED <<agents, migrations, claims, starting, engineLock>>
      BY <1>5, <2>1 DEF CleanedUp, storeVars
    <3>2. /\ task'[m] = [task[m] EXCEPT ![side] = "done"]
          /\ \A n \in Migrations \ {m} : task'[n] = task[n]
          /\ task' \in [Migrations -> Calls]
          /\ task'[m].pc = task[m].pc /\ task'[m].agent = task[m].agent
          /\ task'[m].epoch = task[m].epoch /\ task'[m].source = task[m].source
          /\ task'[m].destination = task[m].destination
          /\ task'[m].failed = task[m].failed
      <4>1. CASE side = "src"
        BY <1>6, <3>1, <4>1 DEF Calls
      <4>2. CASE side = "dst"
        BY <1>6, <3>1, <4>2 DEF Calls
      <4>3. QED
        BY <4>1, <4>2
    <3>3. TaskFits(m)'
      BY <1>1, <1>6, <3>1, <3>2 DEF TaskFits, HoldsRow
    <3>4. TaskMove(m)
      BY <1>1, <3>2 DEF TaskMove, Believes, KeepsCopy, ReturnedStates
    <3>5. QED
      BY <1>6, <3>1, <3>2, <3>3, <3>4 DEF MovesTask, StoreMove, storeVars
  <2>2. CASE task[m][Other(side)] # "wait" /\ task[m].failed
    BY <1>1, <1>5, <2>2, RaiseMoves DEF CleanedUp
  <2>3. CASE task[m][Other(side)] # "wait" /\ ~task[m].failed
    <3>1. /\ transition_migration(m, "COPYING", "DEST_READY") /\ engineLock' = engineLock
          /\ task' = [task EXCEPT ![m].pc = "commit"]
      BY <1>5, <2>3 DEF CleanedUp
    <3>2. /\ task'[m] = [task[m] EXCEPT !.pc = "commit"]
          /\ \A n \in Migrations \ {m} : task'[n] = task[n]
          /\ task' \in [Migrations -> Calls]
      BY <1>6, <3>1 DEF Calls
    <3>3. /\ migrations'[m] = [migrations[m] EXCEPT !.state = "DEST_READY"]
          /\ \A n \in Migrations \ {m} : migrations'[n] = migrations[n]
      BY <1>6, <3>1 DEF transition_migration
    <3>4. TaskFits(m)'
      BY <1>1, <1>6, <3>2, <3>3 DEF TaskFits, HoldsRow, Calls, MigrationRows
    <3>5. TaskMove(m)
      BY <1>1, <1>6, <2>3, <3>2 DEF TaskMove, Believes, KeepsCopy, ReturnedStates, Calls
    <3>6. StoreMove
      BY <1>1, <1>6, <2>3, <3>1, <3>2 DEF StoreMove, RowMoves, Calls
    <3>7. QED
      BY <1>6, <3>1, <3>2, <3>3, <3>4, <3>5, <3>6 DEF MovesTask
  <2>4. QED
    BY <2>1, <2>2, <2>3
<1>8. QED
  BY <1>2, <1>3, <1>4, <1>5, <1>7, EnginesUnmoved, TaskStepKeeps

\* A commit hands the agent over, or raises.
LEMMA CommitKeeps ==
    ASSUME ProtocolInv, NEW m \in Migrations, commit(m)
    PROVE  KeepsControl
<1>1. /\ task[m].pc = "commit" /\ HoldsRow(m) /\ TaskStep
      /\ UNCHANGED <<engineVars, established, faults>>
  BY DEF commit, HoldsRow
<1>2. Running(m) /\ MovesEngines /\ established' \subseteq Pairs
  BY <1>1, RowOfCall, EnginesUnmoved DEF ProtocolInv, ControllerTyped
<1>3. /\ TaskFits(m) /\ task \in [Migrations -> Calls] /\ migrations[m] \in MigrationRows
      /\ migrations \in [Migrations -> MigrationRows]
      /\ engineLock \in [Engines -> Migrations \cup {None}]
  BY DEF ProtocolInv, TasksFit, ControllerTyped, RowsInv, StoreInv, StoreTypeOK
<1>4. CASE commit_migration(m) /\ engineLock' = Unlocked(m)
           /\ task' = [task EXCEPT ![m].pc = "done"]
  <2>1. /\ task'[m] = [task[m] EXCEPT !.pc = "done"]
        /\ \A n \in Migrations \ {m} : task'[n] = task[n]
        /\ task' \in [Migrations -> Calls]
        /\ engineLock' \in [Engines -> Migrations \cup {None}]
        /\ task'[m].pc = "done"
    <3>1. [task[m] EXCEPT !.pc = "done"] \in Calls
      BY <1>3 DEF Calls, ReturnedStates
    <3>2. engineLock' \in [Engines -> Migrations \cup {None}]
      BY <1>3, <1>4 DEF Unlocked
    <3>3. /\ task'[m] = [task[m] EXCEPT !.pc = "done"]
          /\ \A n \in Migrations \ {m} : task'[n] = task[n]
          /\ task' \in [Migrations -> Calls]
      BY <1>3, <1>4, <3>1
    <3>4. task'[m].pc = "done"
      BY <1>3, <3>3 DEF Calls
    <3>5. QED
      BY <3>2, <3>3, <3>4
  <2>2. \A n \in Migrations \ {m} : migrations'[n] = migrations[n]
    BY <1>3, <1>4 DEF commit_migration
  <2>3. TaskFits(m)'
    BY <2>1 DEF TaskFits, HoldsRow
  <2>4. TaskMove(m)
    BY <1>1, <2>1 DEF TaskMove, Believes, KeepsCopy, ReturnedStates
  <2>5. MovesTask(m)
    BY <1>1, <1>4, <2>1, <2>2, <2>3, <2>4 DEF MovesTask, StoreMove, RowMoves
  <2>6. QED
    BY <1>1, <1>2, <2>5, TaskStepKeeps
<1>5. CASE Raise(m)
  BY <1>1, <1>2, <1>5, RaiseMoves, TaskStepKeeps
<1>6. QED
  BY <1>4, <1>5 DEF commit

-----------------------------------------------------------------------------
(* The steps after a commit. *)

\* Only rows that have been handed over move, and no call of migrate.
LEMMA LaterStepKeeps ==
    ASSUME ProtocolInv, UNCHANGED <<task, engineLock, established, reconcile>>,
           StoreMove,
           \A m \in Migrations : \/ migrations'[m] = migrations[m]
                                 \/ MigrationState(m) \in {"COMMITTED", "SOURCE_RELEASED"},
           MovesEngines, CallsMove,
           acking' \in [Engines -> Migrations \cup {None}],
           recovering' \in [Migrations -> Engines \cup {None}]
    PROVE  KeepsControl
<1>1. \A m \in Migrations : TaskMove(m)
  BY TaskRests
<1>2. TasksFit'
  <2> SUFFICES ASSUME NEW m \in Migrations PROVE TaskFits(m)'
    BY DEF TasksFit
  <2>1. TaskFits(m) /\ task[m] \in Calls
    BY DEF ProtocolInv, TasksFit, ControllerTyped
  <2>2. CASE migrations'[m] = migrations[m]
    BY <2>1, <2>2 DEF TaskFits, HoldsRow
  <2>3. CASE MigrationState(m) \in {"COMMITTED", "SOURCE_RELEASED"}
    <3>1. task[m].pc \in ReturnedStates \ {"idle"}
      BY <2>1, <2>3 DEF TaskFits, MigrationState, Calls
    <3>2. QED
      BY <3>1 DEF TaskFits, HoldsRow, ReturnedStates
  <2>4. QED
    BY <2>2, <2>3
<1>3. ReconcileFits'
  <2>1. \A m \in Unfinished : MigrationState(m)' = MigrationState(m)
    BY DEF Unfinished, MigrationState
  <2>2. QED
    BY <2>1, ReconcileKept DEF ProtocolInv
<1>4. ControllerTyped'
  BY DEF ProtocolInv, ControllerTyped, CallsMove
<1>5. QED
  BY <1>1, <1>2, <1>3, <1>4 DEF KeepsControl, Moves, MovesEngines

\* What is known of a migration that was handed over.
LEMMA RowLater ==
    ASSUME ProtocolInv, NEW m \in Migrations, MigrationState(m) \in {"COMMITTED", "SOURCE_RELEASED"}
    PROVE  LET row == migrations[m] IN
           /\ row.agent \in Agents /\ row.source \in Engines /\ row.destination \in Engines
           /\ row.epoch \in 1..MaxEpoch /\ row.epoch + 1 \in 1..MaxEpoch
           /\ MigrationState(m) = "COMMITTED" => row.epoch + 2 \in 1..MaxEpoch
<1>1. RowsInv
  BY DEF ProtocolInv
<1>2. <<migrations[m].source, migrations[m].destination>> \in Pairs
  BY <1>1 DEF RowsInv
<1>3. QED
  BY <1>1, <1>2, EpochsBounded, ProtocolAssumption

\* An acknowledgement drops the pin at the source that was handed over.
LEMMA AcknowledgeKeeps ==
    ASSUME ProtocolInv, NEW m \in Migrations, acknowledge_destination(m)
    PROVE  KeepsControl
<1> DEFINE row == migrations[m]
           s == row.source
           a == row.agent
           call == PM!release(s, a, row.epoch, TRUE, TRUE)
           answered == acking' = [acking EXCEPT ![s] = m]
<1>1. /\ row.state = "COMMITTED"
      /\ Rpc(PM!ReleaseAllowed(s, a, row.epoch, TRUE), call, answered, UNCHANGED acking)
      /\ UNCHANGED <<storeVars, task, engineLock, established, recovering, reconcile,
                     crashes, resets, overlaps>>
  BY DEF acknowledge_destination
<1>2. a \in Agents /\ s \in Engines /\ row.epoch \in 1..MaxEpoch
  BY <1>1, RowLater DEF MigrationState
<1>3. acking \in [Engines -> Migrations \cup {None}] /\ faults \in Nat
  BY DEF ProtocolInv, ControllerTyped
<1>4. call => /\ PM!PrefixNext /\ KeepsRecords /\ prefixes'[s][a] = 0
              /\ \/ UNCHANGED <<prefixes, locks>>
                 \/ prefixes[s][a] = row.epoch /\ WritesPin(s, a, 0, locks[s][a] - 1)
  BY <1>2, ReleaseEffect DEF ProtocolInv
<1> HIDE DEF call
<1>5. /\ faults' \in {faults, faults + 1}
      /\ \/ call /\ answered
         \/ (UNCHANGED engineVars \/ (call /\ faults' > faults)) /\ UNCHANGED acking
  <2> HIDE DEF answered
  <2>1. Rpc(PM!ReleaseAllowed(s, a, row.epoch, TRUE), call, answered, UNCHANGED acking)
    BY <1>1
  <2>2. \/ call /\ answered /\ faults' = faults
        \/ UNCHANGED engineVars /\ UNCHANGED acking /\ faults' \in {faults, faults + 1}
        \/ call /\ UNCHANGED acking /\ faults' = faults + 1
    BY <2>1 DEF Rpc
  <2>3. faults' = faults + 1 => faults' > faults
    BY <1>3
  <2>4. QED
    BY <2>2, <2>3
<1>6. answered => /\ acking' \in [Engines -> Migrations \cup {None}] /\ acking'[s] = m
                  /\ \A e \in Engines : e # s => acking'[e] = acking[e]
  BY <1>2, <1>3
<1> HIDE DEF answered
<1>7. MovesEngines
  <2>1. CASE call
    <3>1. DropsSource(m) \/ UNCHANGED <<prefixes, locks>>
      BY <1>1, <1>4, <1>5, <1>6, <1>3, <2>1 DEF DropsSource, engineVars
    <3>2. QED
      BY <1>4, <2>1, <3>1, RecordsUnmoved DEF MovesEngines, PinMove
  <2>2. CASE UNCHANGED engineVars
    BY <2>2, EnginesUnmoved
  <2>3. QED
    BY <1>5, <2>1, <2>2
<1>8. CallsMove
  BY <1>1, <1>3, <1>4, <1>5, <1>6 DEF CallsMove
<1>9. QED
  BY <1>1, <1>3, <1>5, <1>6, <1>7, <1>8, LaterStepKeeps
     DEF StoreMove, storeVars, ProtocolInv, ControllerTyped

\* The store is told of a release after the source has answered it.
LEMMA ReleasedKeeps ==
    ASSUME ProtocolInv, NEW m \in Migrations, source_released(m)
    PROVE  KeepsControl
<1>1. /\ \E e \in Engines : acking[e] = m
      /\ \/ transition_migration(m, "COMMITTED", "SOURCE_RELEASED")
         \/ UNCHANGED storeVars
      /\ acking' = [acking EXCEPT ![migrations[m].source] = None]
      /\ UNCHANGED <<engineVars, task, engineLock, established, recovering, reconcile,
                     budgetVars>>
  BY DEF source_released
<1>2. StoreMove
  BY <1>1 DEF StoreMove, RowMoves
<1>3. \A n \in Migrations : \/ migrations'[n] = migrations[n]
                            \/ MigrationState(n) = "COMMITTED"
  BY <1>1 DEF transition_migration, storeVars, ProtocolInv, RowsInv, StoreInv, StoreTypeOK
<1>4. acking' \in [Engines -> Migrations \cup {None}]
  BY <1>1 DEF ProtocolInv, ControllerTyped
<1>5. CallsMove
  BY <1>1 DEF CallsMove, budgetVars, ProtocolInv, ControllerTyped
<1>6. MovesEngines
  BY <1>1, EnginesUnmoved
<1>7. QED
  BY <1>1, <1>2, <1>3, <1>4, <1>5, <1>6, LaterStepKeeps DEF ProtocolInv, ControllerTyped

\* A finalized migration may drop the pin at its destination.
LEMMA FinalizeKeeps ==
    ASSUME ProtocolInv, NEW m \in Migrations, NEW keep \in BOOLEAN,
           finalize_destination(m, keep)
    PROVE  KeepsControl
<1> DEFINE row == migrations[m]
           d == row.destination
           a == row.agent
           call == PM!release(d, a, row.epoch + 1, ~keep, TRUE)
<1>1. /\ row.state = "SOURCE_RELEASED"
      /\ overlaps' \in {overlaps, overlaps + 1}
      /\ HasLiveMigration(a) => overlaps' = overlaps + 1
      /\ Rpc(PM!ReleaseAllowed(d, a, row.epoch + 1, TRUE), call, TRUE, TRUE)
      /\ UNCHANGED <<storeVars, controllerVars, crashes, resets>>
  BY DEF finalize_destination
<1>2. a \in Agents /\ d \in Engines /\ row.epoch + 1 \in 1..MaxEpoch
  BY <1>1, RowLater DEF MigrationState
<1>3. call => /\ PM!PrefixNext /\ KeepsRecords
              /\ \/ UNCHANGED <<prefixes, locks>>
                 \/ prefixes[d][a] = row.epoch + 1 /\ WritesPin(d, a, 0, locks[d][a] - 1)
  <2>1. call => \/ PM!release(d, a, row.epoch + 1, TRUE, TRUE)
                 \/ PM!release(d, a, row.epoch + 1, FALSE, TRUE)
    BY DEF PM!release
  <2> HIDE DEF call, d, a, row
  <2>2. PMP!PrefixInv
    BY DEF ProtocolInv
  <2>3. CASE PM!release(d, a, row.epoch + 1, TRUE, TRUE)
    BY <1>2, <2>2, <2>3, ReleaseEffect
  <2>4. CASE PM!release(d, a, row.epoch + 1, FALSE, TRUE)
    BY <1>2, <2>2, <2>4, ReleaseEffect
  <2>5. QED
    BY <2>1, <2>3, <2>4
<1> HIDE DEF call
<1>4. faults' \in {faults, faults + 1} /\ (UNCHANGED engineVars \/ call)
  BY <1>1 DEF Rpc
<1>5. call => MovesEngines
  <2>1. HasLiveMigration(a) => overlaps' > overlaps
    BY <1>1 DEF ProtocolInv, ControllerTyped
  <2>2. QED
    BY <1>1, <1>3, <2>1, RecordsUnmoved DEF MovesEngines, PinMove, DropsDestination
<1>6. MovesEngines
  BY <1>4, <1>5, EnginesUnmoved
<1>7. CallsMove
  BY <1>1, <1>4 DEF CallsMove, controllerVars
<1>8. QED
  BY <1>1, <1>6, <1>7, LaterStepKeeps
     DEF StoreMove, storeVars, controllerVars, ProtocolInv, ControllerTyped

\* A recovery to the source rebinds its shadow first.
LEMMA RecoverKeeps ==
    ASSUME ProtocolInv, NEW m \in Migrations, NEW e \in Engines,
           recover_destination_failure(m, e)
    PROVE  KeepsControl
<1> DEFINE row == migrations[m]
           s == row.source
           a == row.agent
           call == PM!rebind(s, a, row.epoch, row.epoch + 2)
<1>1. /\ MigrationState(m) \in {"COMMITTED", "SOURCE_RELEASED"}
      /\ \/ /\ row.state = "COMMITTED"
            /\ Rpc(PM!RebindAllowed(s, a, row.epoch, row.epoch + 2), call, TRUE, TRUE)
         \/ UNCHANGED <<engineVars, faults>>
      /\ recovering' = [recovering EXCEPT ![m] = e]
      /\ UNCHANGED <<storeVars, task, engineLock, established, acking, reconcile,
                     crashes, resets, overlaps>>
  BY DEF recover_destination_failure, MigrationState
<1>2. /\ a \in Agents /\ s \in Engines /\ row.epoch \in 1..MaxEpoch
      /\ row.state = "COMMITTED" => row.epoch + 2 \in 1..MaxEpoch
  BY <1>1, RowLater DEF MigrationState
<1>3. recovering' \in [Migrations -> Engines \cup {None}] /\ recovering'[m] # None
      /\ \A n \in Migrations : n # m => recovering'[n] = recovering[n]
  BY <1>1, StoreAssumption DEF ProtocolInv, ControllerTyped
<1>4. row.state = "COMMITTED" /\ call =>
         /\ PM!PrefixNext /\ KeepsRecords
         /\ prefixes[s][a] \in {row.epoch, row.epoch + 2}
         /\ WritesPin(s, a, row.epoch + 2, locks[s][a])
  BY <1>2, RebindEffect DEF ProtocolInv
<1> HIDE DEF call
<1>5. /\ faults' \in {faults, faults + 1}
      /\ UNCHANGED engineVars \/ (row.state = "COMMITTED" /\ call)
  BY <1>1 DEF Rpc
<1>6. row.state = "COMMITTED" /\ call => MovesEngines
  BY <1>3, <1>4, RecordsUnmoved DEF MovesEngines, PinMove, Rebinds
<1>7. MovesEngines
  BY <1>5, <1>6, EnginesUnmoved
<1>8. CallsMove
  BY <1>1, <1>3, <1>5 DEF CallsMove
<1>9. QED
  BY <1>1, <1>3, <1>7, <1>8, LaterStepKeeps
     DEF StoreMove, storeVars, ProtocolInv, ControllerTyped

\* A recovery that the store refuses finds its migration recovered or superseded: a
\* committed one always holds its lease.
LEMMA RecoveredKeeps ==
    ASSUME ProtocolInv, NEW m \in Migrations, recovered(m)
    PROVE  KeepsControl
<1>1. /\ recovering[m] # None
      /\ \/ recover_committed_migration(m, recovering[m])
         \/ ~CanRecover(m) /\ UNCHANGED storeVars
      /\ recovering' = [recovering EXCEPT ![m] = None]
      /\ UNCHANGED <<engineVars, task, engineLock, established, acking, reconcile,
                     budgetVars>>
  BY DEF recovered
<1>2. /\ recovering \in [Migrations -> Engines \cup {None}]
      /\ migrations \in [Migrations -> MigrationRows]
      /\ acking \in [Engines -> Migrations \cup {None}]
  BY DEF ProtocolInv, ControllerTyped, RowsInv, StoreInv, StoreTypeOK
<1>3. recovering[m] \in Engines
  BY <1>1, <1>2
<1>4. StoreMove
  BY <1>1, <1>3 DEF StoreMove, RowMoves
<1>5. \A n \in Migrations : \/ migrations'[n] = migrations[n]
                            \/ MigrationState(n) \in {"COMMITTED", "SOURCE_RELEASED"}
  BY <1>1, <1>2 DEF recover_committed_migration, storeVars
<1>6. MigrationState(m)' # "COMMITTED"
  <2>1. CASE recover_committed_migration(m, recovering[m])
    BY <1>2, <2>1 DEF recover_committed_migration, MigrationState, MigrationRows
  <2>2. CASE ~CanRecover(m) /\ UNCHANGED storeVars
    BY <2>2 DEF CanRecover, ProtocolInv, RowsInv, StoreInv, CommittedLeaseIsCurrent,
                MigrationState, storeVars
  <2>3. QED
    BY <1>1, <2>1, <2>2
<1>7. /\ recovering' \in [Migrations -> Engines \cup {None}]
      /\ \A n \in Migrations : n # m => recovering'[n] = recovering[n]
  BY <1>1, <1>2
<1>8. CallsMove
  BY <1>1, <1>6, <1>7 DEF CallsMove, budgetVars
<1>9. QED
  BY <1>1, <1>2, <1>4, <1>5, <1>7, <1>8, EnginesUnmoved, LaterStepKeeps

-----------------------------------------------------------------------------
(* Restart of the controller. *)

\* A crash ends every call and writes nothing.
LEMMA CrashKeeps == ASSUME ProtocolInv, controller_crash PROVE KeepsControl
<1>1. /\ crashes' = crashes + 1
      /\ task' = [m \in Migrations |->
                    IF Running(m) THEN [task[m] EXCEPT !.pc = "failed"] ELSE task[m]]
      /\ engineLock' = [e \in Engines |-> None] /\ established' = {}
      /\ acking' = [e \in Engines |-> None] /\ recovering' = [m \in Migrations |-> None]
      /\ reconcile' = NotReconciling
      /\ UNCHANGED <<storeVars, engineVars, faults, resets, overlaps>>
  BY DEF controller_crash
<1>2. ControllerTyped
  BY DEF ProtocolInv
<1>3. ASSUME NEW m \in Migrations
      PROVE  /\ task'[m] \in Calls
             /\ \/ task'[m] = task[m] /\ task[m].pc \in ReturnedStates
                \/ task'[m].pc = "failed"
  BY <1>1, <1>2, ZenonT(60) DEF ControllerTyped, Calls, ReturnedStates, Running
<1>4. TasksFit'
  <2> SUFFICES ASSUME NEW m \in Migrations PROVE TaskFits(m)'
    BY DEF TasksFit
  <2>1. CASE task'[m] = task[m] /\ task[m].pc \in ReturnedStates
    BY <1>1, <2>1 DEF TaskFits, HoldsRow, ReturnedStates, ProtocolInv, TasksFit, storeVars
  <2>2. CASE task'[m].pc = "failed"
    BY <2>2 DEF TaskFits, HoldsRow
  <2>3. QED
    BY <1>3, <2>1, <2>2
<1>5. \A m \in Migrations : TaskMove(m)
  <2> TAKE m \in Migrations
  <2>1. CASE task'[m] = task[m]
    BY <2>1, TaskRests
  <2>2. CASE task'[m].pc = "failed"
    BY <2>2 DEF TaskMove, Believes, KeepsCopy, ReturnedStates
  <2>3. QED
    BY <1>3, <2>1, <2>2
<1>6. ControllerTyped'
  <2>1. NotReconciling \in Reconciliations
    BY DEF NotReconciling, Reconciliations
  <2>2. task' \in [Migrations -> Calls]
    BY <1>1, <1>3
  <2>3. QED
    BY <1>1, <1>2, <2>1, <2>2 DEF ControllerTyped
<1>7. CallsMove
  BY <1>1, <1>2 DEF CallsMove, ControllerTyped
<1>8. ReconcileFits'
  BY <1>1 DEF ReconcileFits, NotReconciling
<1>9. StoreMove
  BY <1>1 DEF StoreMove
<1>10. QED
  BY <1>1, <1>4, <1>5, <1>6, <1>7, <1>8, <1>9, EnginesUnmoved
     DEF KeepsControl, Moves, MovesEngines

\* What is left to show of a step of a reconciliation.
LEMMA ReconcileStepKeeps ==
    ASSUME ProtocolInv, ReconcileStep, StoreMove, TasksFit', MovesEngines,
           faults' \in {faults, faults + 1}, reconcile' \in Reconciliations, ReconcileFits'
    PROVE  KeepsControl
<1>1. \A m \in Migrations : TaskMove(m)
  BY TaskRests DEF ReconcileStep
<1>2. CallsMove
  BY DEF ReconcileStep, CallsMove
<1>3. ControllerTyped'
  BY DEF ProtocolInv, ControllerTyped, ReconcileStep
<1>4. QED
  BY <1>1, <1>2, <1>3 DEF KeepsControl, Moves, MovesEngines

\* A reconciliation that leaves the store alone moves no migration.
LEMMA StoreRests ==
    ASSUME ProtocolInv, UNCHANGED storeVars, ReconcileStep
    PROVE  /\ StoreMove /\ TasksFit'
           /\ Unfinished' = Unfinished
           /\ \A m \in Migrations : /\ Running(m)' <=> Running(m)
                                    /\ MigrationState(m)' = MigrationState(m)
BY DEF storeVars, ReconcileStep, ProtocolInv, StoreMove, TasksFit, TaskFits, HoldsRow,
       Unfinished, Running, MigrationState

\* A reconciliation starts when no call is running.
LEMMA ReconcileStartKeeps ==
    ASSUME ProtocolInv, reconcile_after_restart PROVE KeepsControl
<1>1. /\ \A m \in Migrations : ~Running(m)
      /\ reconcile' = [NotReconciling EXCEPT !.pc = "next", !.todo = Unfinished]
      /\ UNCHANGED <<storeVars, engineVars, faults>> /\ ReconcileStep
  BY DEF reconcile_after_restart
<1>2. Unfinished \subseteq Migrations
  BY DEF Unfinished
<1>3. NotReconciling \in Reconciliations
  BY DEF NotReconciling, Reconciliations
<1>4. /\ reconcile' \in Reconciliations
      /\ reconcile'.pc = "next" /\ reconcile'.todo = Unfinished
  BY <1>1, <1>2, <1>3 DEF Reconciliations
<1>5. StoreMove /\ TasksFit' /\ ReconcileFits'
  BY <1>1, <1>4, StoreRests DEF ReconcileFits
<1>6. QED
  BY <1>1, <1>4, <1>5, EnginesUnmoved, ReconcileStepKeeps

\* It goes through the migrations that were left unfinished.
LEMMA ReconcileNextKeeps ==
    ASSUME ProtocolInv, reconcile_next PROVE KeepsControl
<1>1. /\ reconcile.pc = "next"
      /\ UNCHANGED <<storeVars, engineVars, faults>> /\ ReconcileStep
  BY DEF reconcile_next
<1>2. /\ \A m \in Migrations : ~Running(m)
      /\ reconcile.todo \subseteq Unfinished /\ reconcile.todo \subseteq Migrations
      /\ Unfinished \subseteq Migrations
  BY <1>1 DEF ProtocolInv, ReconcileFits, Unfinished
<1>3. NotReconciling \in Reconciliations
  BY DEF NotReconciling, Reconciliations
<1>4. CASE reconcile' = NotReconciling
  <2>1. ReconcileFits'
    BY <1>4 DEF ReconcileFits, NotReconciling
  <2>2. QED
    BY <1>1, <1>3, <1>4, <2>1, StoreRests, EnginesUnmoved, ReconcileStepKeeps
<1>5. ASSUME NEW m \in reconcile.todo,
             reconcile' =
               [NotReconciling EXCEPT
                  !.pc = IF MigrationState(m) = "COPYING" THEN "poll" ELSE "release",
                  !.m = m, !.todo = reconcile.todo \ {m}]
      PROVE  KeepsControl
  <2>1. m \in Migrations /\ reconcile.todo \ {m} \subseteq Migrations
    BY <1>2
  <2>2. /\ reconcile' \in Reconciliations
        /\ reconcile'.pc = (IF MigrationState(m) = "COPYING" THEN "poll" ELSE "release")
        /\ reconcile'.m = m /\ reconcile'.todo = reconcile.todo \ {m}
    BY <1>3, <1>5, <2>1 DEF Reconciliations
  <2>3. ReconcileFits'
    BY <1>1, <1>2, <2>1, <2>2, StoreRests DEF ReconcileFits
  <2>4. QED
    BY <1>1, <2>2, <2>3, StoreRests, EnginesUnmoved, ReconcileStepKeeps
<1>6. QED
  BY <1>4, <1>5 DEF reconcile_next

\* The migration a reconciliation is at.
LEMMA ReconciledRow ==
    ASSUME ProtocolInv, reconcile.pc \in {"poll", "cleanup", "release"}
    PROVE  LET m == reconcile.m IN
           /\ m \in Migrations /\ m \in Unfinished \ reconcile.todo
           /\ \A n \in Migrations : ~Running(n)
           /\ \A side \in {"src", "dst"} : ReconciledSide(side) \in Engines
           /\ reconcile.pc \in {"poll", "cleanup"} => MigrationState(m) = "COPYING"
<1>1. /\ reconcile.m \in Unfinished \ reconcile.todo
      /\ \A n \in Migrations : ~Running(n)
      /\ reconcile.pc \in {"poll", "cleanup"} => MigrationState(reconcile.m) = "COPYING"
  BY DEF ProtocolInv, ReconcileFits
<1>2. reconcile.m \in Migrations /\ MigrationState(reconcile.m) # "NONE"
  BY <1>1 DEF Unfinished
<1>3. <<migrations[reconcile.m].source, migrations[reconcile.m].destination>> \in Pairs
  BY <1>2 DEF ProtocolInv, RowsInv
<1>4. QED
  BY <1>1, <1>2, <1>3, ProtocolAssumption DEF ReconciledSide

\* A reconciliation that stays at its migration, or goes on with the next.
LEMMA ReconcileStays ==
    ASSUME ProtocolInv, reconcile.pc \in {"poll", "cleanup", "release"}, UNCHANGED storeVars,
           ReconcileStep, reconcile'.todo = reconcile.todo,
           \/ reconcile'.pc = "next"
           \/ /\ reconcile'.m = reconcile.m
              /\ reconcile'.pc \in {"poll", "cleanup"} => reconcile.pc \in {"poll", "cleanup"}
    PROVE  ReconcileFits'
BY ReconciledRow, StoreRests DEF ProtocolInv, ReconcileFits

\* It polls both sides of a migration that was copying.
LEMMA ReconcileStatusKeeps ==
    ASSUME ProtocolInv, NEW side \in {"src", "dst"}, reconcile_status(side)
    PROVE  KeepsControl
<1> DEFINE e == ReconciledSide(side)
           m == reconcile.m
           call == PM!poll_transfer(e, m)
<1>1. /\ reconcile.pc = "poll" /\ UNCHANGED storeVars /\ ReconcileStep
      /\ \/ Rpc(PM!PollAllowed(e, m), call,
                StatusGathered(side, PM!PolledState(e, m) # "COMPLETE"),
                StatusGathered(side, FALSE))
         \/ InstallFails(e, m) /\ StatusGathered(side, FALSE)
  BY DEF reconcile_status
<1>2. /\ m \in Migrations /\ ~Running(m) /\ e \in Engines /\ MigrationState(m) = "COPYING"
  BY <1>1, ReconciledRow
<1>3. call \/ InstallFails(e, m) => MovesEngines
  BY <1>2, PollMoves, InstallFailsMoves
<1> HIDE DEF call, e, m
<1>4. /\ faults' \in {faults, faults + 1}
      /\ UNCHANGED engineVars \/ call \/ InstallFails(e, m)
      /\ \E copying \in BOOLEAN : StatusGathered(side, copying)
  BY <1>1 DEF Rpc, InstallFails
<1>5. reconcile \in Reconciliations
  BY DEF ProtocolInv, ControllerTyped
<1>6. /\ reconcile' \in Reconciliations /\ reconcile'.todo = reconcile.todo
      /\ reconcile'.m = reconcile.m /\ reconcile'.pc \in {"poll", "next", "cleanup"}
  <2>1. PICK copying \in BOOLEAN : StatusGathered(side, copying)
    BY <1>4
  <2> DEFINE any == reconcile.copying \/ copying
  <2>2. any \in BOOLEAN
    BY <1>5 DEF Reconciliations
  <2>3. reconcile' =
          IF reconcile[Other(side)] = "wait"
          THEN [reconcile EXCEPT ![side] = "done", !.copying = any]
          ELSE [reconcile EXCEPT !.src = "wait", !.dst = "wait", !.copying = FALSE,
                                 !.pc = IF any THEN "next" ELSE "cleanup"]
    BY <2>1 DEF StatusGathered
  <2> HIDE DEF any
  <2>4. CASE side = "src"
    BY <1>1, <1>5, <2>2, <2>3, <2>4 DEF Reconciliations
  <2>5. CASE side = "dst"
    BY <1>1, <1>5, <2>2, <2>3, <2>5 DEF Reconciliations
  <2>6. QED
    BY <2>4, <2>5
<1>7. ReconcileFits'
  BY <1>1, <1>6, ReconcileStays
<1>8. QED
  BY <1>1, <1>3, <1>4, <1>6, <1>7, StoreRests, EnginesUnmoved, ReconcileStepKeeps

\* It cleans up both sides.
LEMMA ReconcileCleanupKeeps ==
    ASSUME ProtocolInv, NEW side \in {"src", "dst"}, reconcile_cleanup(side)
    PROVE  KeepsControl
<1> DEFINE e == ReconciledSide(side)
           m == reconcile.m
           call == PM!cleanup_transfer(e, m)
<1>1. /\ reconcile.pc = "cleanup" /\ UNCHANGED storeVars /\ ReconcileStep
      /\ Rpc(PM!CleanupAllowed(e, m), call, CleanupGathered(side), CleanupGathered(side))
  BY DEF reconcile_cleanup
<1>2. m \in Migrations /\ e \in Engines
  BY <1>1, ReconciledRow
<1>3. call => MovesEngines
  BY <1>2, CleanupMoves
<1> HIDE DEF call, e, m
<1>4. /\ faults' \in {faults, faults + 1}
      /\ UNCHANGED engineVars \/ call
      /\ CleanupGathered(side)
  BY <1>1 DEF Rpc
<1>5. reconcile \in Reconciliations
  BY DEF ProtocolInv, ControllerTyped
<1>6. /\ reconcile' \in Reconciliations /\ reconcile'.todo = reconcile.todo
      /\ reconcile'.m = reconcile.m /\ reconcile'.pc \in {"cleanup", "release"}
  <2>1. CASE side = "src"
    BY <1>1, <1>4, <1>5, <2>1 DEF CleanupGathered, Reconciliations
  <2>2. CASE side = "dst"
    BY <1>1, <1>4, <1>5, <2>2 DEF CleanupGathered, Reconciliations
  <2>3. QED
    BY <2>1, <2>2
<1>7. ReconcileFits'
  BY <1>1, <1>6, ReconcileStays
<1>8. QED
  BY <1>1, <1>3, <1>4, <1>6, <1>7, StoreRests, EnginesUnmoved, ReconcileStepKeeps

\* It aborts a migration after its destination has answered the release.
LEMMA ReconcileAbortKeeps ==
    ASSUME ProtocolInv, reconcile_abort PROVE KeepsControl
<1> DEFINE m == reconcile.m
           row == migrations[m]
           call == PM!release(row.destination, row.agent, row.epoch + 1, TRUE, TRUE)
           aborts == /\ transition_migration(m, row.state, "ABORTED")
                     /\ reconcile' = [reconcile EXCEPT !.pc = "next"]
           gives_up == UNCHANGED storeVars /\ reconcile' = NotReconciling
<1>1. /\ reconcile.pc = "release" /\ ReconcileStep
      /\ Rpc(PM!ReleaseAllowed(row.destination, row.agent, row.epoch + 1, TRUE), call,
             aborts, gives_up)
  BY DEF reconcile_abort
<1>2. /\ m \in Migrations /\ m \in Unfinished \ reconcile.todo
      /\ \A n \in Migrations : ~Running(n)
  BY <1>1, ReconciledRow
<1>3. call => MovesEngines /\ prefixes'[row.destination][row.agent] = 0
  BY <1>1, <1>2, DestinationReleaseMoves
<1>4. row \in MigrationRows /\ migrations \in [Migrations -> MigrationRows]
  BY <1>2 DEF ProtocolInv, RowsInv, StoreInv, StoreTypeOK
<1>5. reconcile \in Reconciliations /\ NotReconciling \in Reconciliations
  BY DEF ProtocolInv, ControllerTyped, NotReconciling, Reconciliations
<1> HIDE DEF call, aborts, gives_up
<1>6. /\ faults' \in {faults, faults + 1}
      /\ \/ call /\ aborts
         \/ (UNCHANGED engineVars \/ call) /\ gives_up
  BY <1>1 DEF Rpc
<1>7. CASE call /\ aborts
  <2>1. /\ transition_migration(m, MigrationState(m), "ABORTED")
        /\ reconcile' = [reconcile EXCEPT !.pc = "next"]
    BY <1>7 DEF aborts, MigrationState
  <2>2. prefixes'[row.destination][row.agent] # row.epoch + 1
    BY <1>3, <1>4, <1>7 DEF MigrationRows
  <2>3. StoreMove
    BY <1>1, <1>2, <2>1, <2>2 DEF StoreMove, RowMoves, Aborts
  <2>4. /\ reconcile' \in Reconciliations /\ reconcile'.pc = "next"
        /\ reconcile'.todo = reconcile.todo
    BY <1>5, <2>1 DEF Reconciliations
  <2>5. /\ MigrationState(m)' = "ABORTED"
        /\ \A n \in Migrations \ {m} : migrations'[n] = migrations[n]
    BY <1>2, <1>4, <2>1 DEF transition_migration, MigrationState, MigrationRows
  <2>6. ReconcileFits'
    <3>1. reconcile.todo \subseteq Unfinished'
      BY <1>1, <1>2, <2>5 DEF ProtocolInv, ReconcileFits, Unfinished, MigrationState
    <3>2. \A n \in Migrations : ~Running(n)'
      BY <1>1, <1>2 DEF ReconcileStep, Running
    <3>3. QED
      BY <2>4, <3>1, <3>2 DEF ReconcileFits
  <2>7. TasksFit'
    <3>1. task[m].pc \in ReturnedStates \ {"idle"}
      BY <1>2 DEF Running, ReturnedStates, Unfinished, MigrationState, ProtocolInv, TasksFit,
                  TaskFits
    <3>2. task' = task /\ TasksFit
      BY <1>1 DEF ReconcileStep, ProtocolInv
    <3>3. PICK k \in Migrations : k = m
      BY <1>2
    <3>4. \A n \in Migrations \ {k} : task'[n] = task[n] /\ migrations'[n] = migrations[n]
      BY <2>5, <3>2, <3>3
    <3>5. TaskFits(k)'
      BY <3>1, <3>2, <3>3 DEF TaskFits, HoldsRow, ReturnedStates
    <3>6. QED
      BY <3>2, <3>4, <3>5, OthersFit
  <2>8. QED
    BY <1>1, <1>3, <1>6, <1>7, <2>3, <2>4, <2>6, <2>7, ReconcileStepKeeps
<1>8. CASE (UNCHANGED engineVars \/ call) /\ gives_up
  <2>1. UNCHANGED storeVars /\ reconcile' = NotReconciling
    BY <1>8 DEF gives_up
  <2>2. ReconcileFits'
    BY <2>1 DEF ReconcileFits, NotReconciling
  <2>3. QED
    BY <1>1, <1>3, <1>5, <1>6, <1>8, <2>1, <2>2, StoreRests, EnginesUnmoved,
       ReconcileStepKeeps
<1>9. QED
  BY <1>6, <1>7, <1>8

-----------------------------------------------------------------------------
(* Engines. *)

\* The transfer workers move records and touch no pin.
LEMMA WorkersKeep == ASSUME ProtocolInv, TransferWorkers PROVE KeepsControl
<1>1. PMP!PrefixInv /\ transfers \in [Engines -> [Migrations -> PM!Transfers]]
  BY ManagersTyped DEF ProtocolInv
<1>2. ASSUME NEW e \in Engines, PM!worker_take(e)
      PROVE  MovesEngines
  <2>1. /\ PM!PrefixNext /\ UNCHANGED <<prefixes, locks>>
        /\ \E m \in Migrations :
              /\ WritesRecord(e, m)
              /\ transfers[e][m].state = "QUEUED"
              /\ transfers'[e][m] = [transfers[e][m] EXCEPT !.state = "COPYING"]
    BY <1>1, <1>2, TakeEffect
  <2>2. PICK m \in Migrations :
              /\ WritesRecord(e, m)
              /\ transfers[e][m].state = "QUEUED"
              /\ transfers'[e][m] = [transfers[e][m] EXCEPT !.state = "COPYING"]
    BY <2>1
  <2>3. Proceeds(e, m)
    BY <1>1, <2>2 DEF Proceeds, PM!Transfers
  <2>4. QED
    BY <2>1, <2>2, <2>3 DEF MovesEngines, PinMove, WritesRecord, RecordMove
<1>3. ASSUME NEW p \in Pairs, NEW m \in Migrations, NEW n \in Migrations,
             PM!copy_kv(p[1], p[2], m, n)
      PROVE  MovesEngines
  <2> DEFINE s == p[1]
             d == p[2]
  <2>1. Copies(s, d, m, n)
    BY <1>1, <1>3, CopyEffect
  <2> HIDE DEF s, d
  <2>2. \A x \in Engines, k \in Migrations : RecordMove(x, k)
    <3> SUFFICES ASSUME NEW x \in Engines, NEW k \in Migrations,
                        transfers'[x][k] # transfers[x][k]
                 PROVE  Proceeds(x, k)
      BY DEF RecordMove
    <3>1. transfers[x][k] \in PM!Transfers
      BY <1>1
    <3>2. \/ /\ transfers[x][k].state = "COPYING" /\ transfers[x][k].role = "source"
             /\ transfers'[x][k] = [transfers[x][k] EXCEPT !.state = "COMPLETE"]
          \/ /\ transfers[x][k].state = "COPYING" /\ transfers[x][k].role = "destination"
             /\ \E rows \in {"own", "other"} :
                   transfers'[x][k] = [transfers[x][k] EXCEPT !.state = "COPY_DONE",
                                                              !.rows = rows]
      BY <2>1 DEF Copies
    <3>3. QED
      BY <3>1, <3>2 DEF Proceeds, PM!Transfers
  <2>3. QED
    BY <2>1, <2>2 DEF MovesEngines, PinMove, Copies
<1>4. /\ MovesEngines
      /\ UNCHANGED <<storeVars, controllerVars, budgetVars>>
  BY <1>2, <1>3 DEF TransferWorkers
<1>5. CallsMove
  BY <1>4 DEF CallsMove, controllerVars, budgetVars
<1>6. QED
  BY <1>4, <1>5, LaterStepKeeps
     DEF StoreMove, storeVars, controllerVars, ProtocolInv, ControllerTyped

\* Turns and evictions touch neither pins nor records.
LEMMA TrafficKeeps == ASSUME ProtocolInv, Traffic PROVE KeepsControl
<1>1. PICK a \in Agents : PM!prefill(agents[a].owner, a) \/ \E e \in Engines : PM!evict(e, a)
  BY DEF Traffic
<1>2. agents[a].owner \in Engines
  BY DEF ProtocolInv, RowsInv, Registered, StoreInv, StoreTypeOK, AgentRows
<1>3. MovesEngines
  BY <1>1, <1>2, TrafficEffect, RecordsUnmoved DEF MovesEngines, PinMove
<1>4. UNCHANGED <<storeVars, controllerVars, budgetVars>>
  BY DEF Traffic
<1>5. CallsMove
  BY <1>4 DEF CallsMove, controllerVars, budgetVars
<1>6. QED
  BY <1>3, <1>4, <1>5, LaterStepKeeps
     DEF StoreMove, storeVars, controllerVars, ProtocolInv, ControllerTyped

\* A copy that fails, and an engine that dies or is flushed.
LEMMA EngineFaultsKeep == ASSUME ProtocolInv, EngineFaults PROVE KeepsControl
<1>1. PMP!PrefixInv /\ transfers \in [Engines -> [Migrations -> PM!Transfers]]
  BY ManagersTyped DEF ProtocolInv
<1>2. ASSUME NEW e \in Engines, NEW m \in Migrations, PM!copy_fails(e, m)
      PROVE  MovesEngines
  <2>1. /\ PM!PrefixNext /\ UNCHANGED <<prefixes, locks>> /\ WritesRecord(e, m)
        /\ transfers[e][m].state = "COPYING"
        /\ transfers'[e][m] = [transfers[e][m] EXCEPT !.state = "FAILED"]
    BY <1>1, <1>2, CopyFailsEffect
  <2>2. Proceeds(e, m)
    BY <1>1, <2>1 DEF Proceeds, PM!Transfers
  <2>3. QED
    BY <2>1, <2>2 DEF MovesEngines, PinMove, WritesRecord, RecordMove
<1>3. ASSUME NEW e \in Engines, PM!engine_restart(e) \/ PM!flush_cache(e),
             resets' = resets + 1
      PROVE  MovesEngines
  <2>1. /\ PM!PrefixNext
        /\ \A x \in Engines, a \in Agents :
              IF x = e THEN prefixes'[x][a] = 0 /\ locks'[x][a] = 0
              ELSE prefixes'[x][a] = prefixes[x][a] /\ locks'[x][a] = locks[x][a]
        /\ \A x \in Engines, m \in Migrations :
              IF x = e THEN transfers'[x][m].state = "NONE"
              ELSE transfers'[x][m] = transfers[x][m]
    BY <1>1, <1>3, RestartEffect
  <2>2. Restarts(e)
    BY <1>3, <2>1 DEF Restarts
  <2>3. \A x \in Engines, m \in Migrations : RecordMove(x, m)
    BY <2>1 DEF RecordMove
  <2>4. QED
    BY <2>1, <2>2, <2>3 DEF MovesEngines, PinMove
<1>4. /\ MovesEngines
      /\ UNCHANGED <<storeVars, controllerVars, crashes>>
      /\ faults' \in {faults, faults + 1}
      /\ resets' \in {resets, resets + 1} /\ overlaps' = overlaps
  BY <1>2, <1>3 DEF EngineFaults
<1>5. CallsMove
  BY <1>4 DEF CallsMove, controllerVars
<1>6. QED
  BY <1>4, <1>5, LaterStepKeeps
     DEF StoreMove, storeVars, controllerVars, ProtocolInv, ControllerTyped

-----------------------------------------------------------------------------
(* The invariant is inductive. *)

\* A record belongs to the migration that started it: its call is past the start, and
\* rows keep what they are about.
LEMMA RecordsFitStep ==
    ASSUME ProtocolInv, Moves, TasksFit' PROVE RecordsFit'
<1> SUFFICES ASSUME NEW e \in Engines, NEW m \in Migrations PROVE RecordFits(e, m)'
  BY DEF RecordsFit
<1> DEFINE t == transfers[e][m]
           u == transfers'[e][m]
           row == migrations[m]
<1>1. /\ RecordFits(e, m) /\ RowsAdvance /\ RecordMove(e, m) /\ TaskMove(m)
      /\ TaskFits(m)
  BY RowsOnlyAdvance DEF ProtocolInv, Moves, RecordsFit, TasksFit
<1>2. CASE u.state = "NONE"
  BY <1>2 DEF RecordFits
<1>3. CASE StartsRecord(e, m)
  <2>1. MigrationState(m) = "COPYING"
    BY <1>1, <1>3 DEF StartsRecord, TaskFits, MigrationState
  <2>2. /\ migrations'[m].agent = row.agent /\ migrations'[m].epoch = row.epoch
        /\ migrations'[m].source = row.source
        /\ migrations'[m].destination = row.destination
        /\ MigrationState(m)' \notin {"NONE", "PREPARING"}
    BY <1>1, <2>1 DEF RowsAdvance
  <2>3. QED
    BY <1>3, <2>2 DEF StartsRecord, RecordFits, MigrationState
<1>4. CASE u = t \/ Proceeds(e, m)
  <2>1. SUFFICES ASSUME u.state # "NONE" PROVE RecordFits(e, m)'
    BY <1>2
  <2>2. /\ t.state # "NONE" /\ u.role = t.role /\ u.agent = t.agent
        /\ u.epoch = t.epoch /\ u.pair = t.pair
        /\ u.state = "COPY_DONE" => t.state = "COPY_DONE" \/ t.role = "destination"
    BY <1>4, <2>1 DEF Proceeds
  <2>3. MigrationState(m) \notin {"NONE", "PREPARING"} /\ task[m].pc # "startDestination"
    BY <1>1, <2>2 DEF RecordFits, MigrationState
  <2>4. /\ migrations'[m].agent = row.agent /\ migrations'[m].epoch = row.epoch
        /\ migrations'[m].source = row.source
        /\ migrations'[m].destination = row.destination
        /\ MigrationState(m)' \notin {"NONE", "PREPARING"}
    BY <1>1, <2>3 DEF RowsAdvance
  <2>5. task'[m].pc # "startDestination"
    BY <1>1, <2>3 DEF TaskMove, TaskFits, MigrationState
  <2>6. QED
    BY <1>1, <2>2, <2>4, <2>5 DEF RecordFits, MigrationState
<1>5. QED
  BY <1>1, <1>2, <1>3, <1>4 DEF RecordMove

\* Every step of the protocol is one of the moves.
LEMMA StepKeepsControl ==
    ASSUME ProtocolInv, ProtocolNext PROVE KeepsControl
<1>1. ASSUME NEW m \in Migrations, NEW a \in Agents, NEW d \in Engines, migrate(m, a, d)
      PROVE  KeepsControl
  BY <1>1, MigrateKeeps
<1>2. ASSUME NEW m \in Migrations, MigrateStep(m)
      PROVE  KeepsControl
  <2>1. ASSUME NEW side \in {"src", "dst"},
               \/ wait_for_transfer(m, side)
               \/ transfer_timeout(m, side)
               \/ cleanup_transfer(m, side)
        PROVE  KeepsControl
    BY <2>1, WaitKeeps, TimeoutKeeps, CleanupKeeps
  <2>2. QED
    BY <1>2, <2>1, FirstLockKeeps, SecondLockKeeps, PinSourceKeeps, EnsureGroupKeeps,
       StartDestinationKeeps, StartSourceKeeps, ReleaseDestinationKeeps, CommitKeeps
       DEF MigrateStep
<1>3. ASSUME NEW m \in Migrations, AfterCommit(m)
      PROVE  KeepsControl
  BY <1>3, AcknowledgeKeeps, ReleasedKeeps, FinalizeKeeps, RecoverKeeps, RecoveredKeeps
     DEF AfterCommit
<1>4. CASE Reconciling
  BY <1>4, ReconcileStartKeeps, ReconcileNextKeeps, ReconcileStatusKeeps,
     ReconcileCleanupKeeps, ReconcileAbortKeeps DEF Reconciling
<1>5. QED
  BY <1>1, <1>2, <1>3, <1>4, CrashKeeps, WorkersKeep, TrafficKeeps, EngineFaultsKeep
     DEF ProtocolNext

\* The steps that do nothing.
LEMMA StutterKeepsControl ==
    ASSUME ProtocolInv, UNCHANGED protocolVars PROVE KeepsControl
<1>1. UNCHANGED <<storeVars, engineVars, controllerVars, budgetVars>>
  BY DEF protocolVars
<1>2. CallsMove
  BY <1>1 DEF CallsMove, controllerVars, budgetVars
<1>3. QED
  BY <1>1, <1>2, EnginesUnmoved, LaterStepKeeps
     DEF StoreMove, storeVars, controllerVars, ProtocolInv, ControllerTyped

\* The invariant holds before any call is made.
LEMMA ProtocolInvInit == ProtocolInit => ProtocolInv
<1> SUFFICES ASSUME ProtocolInit PROVE ProtocolInv
  OBVIOUS
<1>1. /\ agents = [a \in Agents |-> [owner |-> Home[a], epoch |-> InitialEpoch, step |-> 0]]
      /\ migrations = [m \in Migrations |-> NoMigration]
      /\ claims = [a \in Agents |-> [s \in Steps |-> NoClaim]]
      /\ starting = [m \in Migrations |-> NoMigration]
  BY DEF ProtocolInit
<1>2. \A m \in Migrations : migrations[m] = NoMigration /\ MigrationState(m) = "NONE"
  BY <1>1 DEF MigrationState, NoMigration
<1>3. RowsInv
  <2>1. \A a \in Agents : Registered(a) /\ agents[a] \in AgentRows
    BY <1>1, StoreAssumption, ProtocolAssumption DEF Registered, AgentRows
  <2>2. StoreTypeOK
    <3>1. NoMigration \in MigrationRows /\ NoClaim \in ClaimRows
      BY DEF NoMigration, MigrationRows, NoClaim, ClaimRows
    <3>2. QED
      BY <1>1, <2>1, <3>1 DEF StoreTypeOK
  <2>3. StoreInv
    BY <1>1, <1>2, <2>2
       DEF StoreInv, RowsWellFormed, OneLiveMigration, LiveMigration, LiveStates,
           HandoverChain, HandedOver, CommittedLeaseIsCurrent, NoMigration
  <2>4. CountInv
    <3>1. ASSUME NEW a \in Agents PROVE HandoversOf(a) = {} /\ RecoveriesOf(a) = {}
      BY <1>2 DEF HandoversOf, RecoveriesOf, MigrationsOf, HandedOver
    <3>2. \A a \in Agents : /\ agents[a].epoch = InitialEpoch
                            /\ IsFiniteSet(HandoversOf(a))
                            /\ Cardinality(HandoversOf(a)) = 0
                            /\ Cardinality(RecoveriesOf(a)) = 0
      BY <1>1, <3>1, FS_EmptySet
    <3>3. EpochAccounting
      BY <3>2, StoreAssumption DEF EpochAccounting, HandoversOf, RecoveriesOf
    <3>4. QED
      BY <3>2, <3>3 DEF CountInv
  <2>5. QED
    BY <1>1, <1>2, <2>1, <2>3, <2>4, StoreAssumption DEF RowsInv
<1>4. ControllerTyped
  <2>1. MaxEpoch \in Nat
    BY ProtocolAssumption
  <2>2. Idle \in Calls /\ NotReconciling \in Reconciliations
    BY <2>1 DEF Idle, Calls, ReturnedStates, NotReconciling, Reconciliations
  <2>3. QED
    BY <2>2 DEF ProtocolInit, ControllerTyped
<1>5. TasksFit
  BY <1>2 DEF ProtocolInit, TasksFit, TaskFits, HoldsRow, Idle, NoMigration
<1>6. ReconcileFits
  BY DEF ProtocolInit, ReconcileFits, NotReconciling
<1>7. PMP!PrefixInv
  BY SameManagers, ManagersAssumed, PMP!PrefixInvInit DEF ProtocolInit
<1>8. RecordsFit
  BY DEF ProtocolInit, PM!PrefixInit, PM!NoTransfer, RecordsFit, RecordFits
<1>9. QED
  BY <1>3, <1>4, <1>5, <1>6, <1>7, <1>8 DEF ProtocolInv

\* Every step is one of the moves, and the moves keep the invariant.
LEMMA ProtocolInvStep ==
    ASSUME ProtocolInv, [ProtocolNext]_protocolVars
    PROVE  ProtocolInv' /\ KeepsControl
<1>1. KeepsControl
  BY StepKeepsControl, StutterKeepsControl
<1>2. RowsInv'
  BY <1>1, RowsInvStep DEF ProtocolInv, KeepsControl, Moves
<1>3. PMP!PrefixInv'
  BY <1>1, ManagersKeepInv DEF ProtocolInv, KeepsControl
<1>4. RecordsFit'
  BY <1>1, RecordsFitStep DEF KeepsControl
<1>5. QED
  BY <1>1, <1>2, <1>3, <1>4 DEF ProtocolInv, KeepsControl

\* Every reachable state of the composition satisfies the invariant.
THEOREM ProtocolInvariant == ProtocolSpec => []ProtocolInv
<1>1. ProtocolInv /\ [ProtocolNext]_protocolVars => ProtocolInv'
  BY ProtocolInvStep
<1>2. QED
  BY <1>1, ProtocolInvInit, PTL DEF ProtocolSpec

\* Types of the composition: those of the store and of the managers hold whatever the
\* coordinator does with them, and those of its calls hold at every interruption.
THEOREM ProtocolTypesHold == ProtocolSpec => []ProtocolTypeOK
<1>1. ProtocolInv => StoreTypeOK /\ ControllerTyped
  BY DEF ProtocolInv, RowsInv, StoreInv
<1>2. ProtocolInv => PM!PrefixTypeOK
  <2> SUFFICES ASSUME PMP!PrefixInv PROVE PM!PrefixTypeOK
    BY DEF ProtocolInv
  <2>1. ASSUME NEW e \in Engines PROVE free[e] \in 0..Slots
    <3>1. free[e] + PMP!Cardinality(PMP!Residents(e)) + PMP!Cardinality(PMP!Reserved(e)) = Slots
      BY DEF PMP!PrefixInv, PMP!PoolAccounting, PMP!Residents
    <3>2. free[e] \in Nat
      BY DEF PMP!PrefixInv, PMP!Typed
    <3>3. /\ PMP!Cardinality(PMP!Residents(e)) \in Nat
          /\ PMP!Cardinality(PMP!Reserved(e)) \in Nat
      BY PMP!Counts, ManagersAssumed
    <3>4. QED
      BY <3>1, <3>2, <3>3, ProtocolAssumption
  <2>2. /\ free \in [Engines -> 0..Slots]
        /\ queue \in [Engines -> Seq(Migrations)]
    BY <2>1 DEF PMP!PrefixInv, PMP!Typed
  <2>3. QED
    BY <2>2, ManagersTyped DEF PM!PrefixTypeOK, PM!Contents
<1>3. ProtocolInv => ProtocolTypeOK
  BY <1>1, <1>2 DEF ProtocolTypeOK, ControllerTyped
<1>4. QED
  BY <1>3, ProtocolInvariant, PTL

\* The composition drives the engines only as PrefixSpec allows: epochs, pairs and sides
\* are always within what the managers are verified for.
THEOREM ProtocolDrivesManagers == ProtocolSpec => PM!PrefixSpec
<1>1. ProtocolInit => PM!PrefixInit
  BY DEF ProtocolInit
<1>2. ProtocolInv /\ [ProtocolNext]_protocolVars => [PM!PrefixNext]_(PM!prefixVars)
  <2> SUFFICES ASSUME ProtocolInv, [ProtocolNext]_protocolVars
               PROVE  PM!PrefixNext \/ UNCHANGED PM!prefixVars
    OBVIOUS
  <2>1. PM!PrefixNext \/ UNCHANGED engineVars
    BY ProtocolInvStep DEF KeepsControl
  <2>2. QED
    BY <2>1 DEF engineVars, PM!prefixVars
<1>3. QED
  BY <1>1, <1>2, ProtocolInvariant, PTL DEF ProtocolSpec, PM!PrefixSpec

\* The leases of the composition are those the store promises: one live migration per
\* agent, hand-overs that form a chain and are each counted once, and a committed
\* migration whose destination holds the agent.
THEOREM ProtocolKeepsLeases ==
    ProtocolSpec => [](/\ OneLiveMigration
                       /\ HandoverChain
                       /\ EpochAccounting
                       /\ CommittedLeaseIsCurrent)
<1>1. ProtocolInv => /\ OneLiveMigration
                     /\ HandoverChain
                     /\ EpochAccounting
                     /\ CommittedLeaseIsCurrent
  BY DEF ProtocolInv, RowsInv, StoreInv, CountInv
<1>2. QED
  BY <1>1, ProtocolInvariant, PTL

-----------------------------------------------------------------------------
(* Who writes a pin, and who moves a row. *)

\* A pin changes only at the source or the destination of a migration of its agent.
LEMMA PinChanges ==
    ASSUME ProtocolInv, PinMove, NEW e \in Engines, NEW a \in Agents
    PROVE  \/ prefixes'[e][a] = prefixes[e][a] /\ locks'[e][a] = locks[e][a]
           \/ /\ prefixes'[e][a] = prefixes[e][a] /\ locks'[e][a] = locks[e][a] + 1
              /\ faults' = faults + 1
           \/ prefixes'[e][a] = 0 /\ locks'[e][a] = 0 /\ resets' # resets
           \/ \E m \in MigrationsOf(a) :
                 \/ e = migrations[m].source /\ (TakesPin(m) \/ DropsSource(m) \/ Rebinds(m))
                 \/ e = migrations[m].destination /\ (Installs(m) \/ DropsDestination(m))
<1>1. CASE UNCHANGED <<prefixes, locks>>
  BY <1>1
<1>2. ASSUME NEW x \in Engines, Restarts(x)
      PROVE  \/ prefixes'[e][a] = prefixes[e][a] /\ locks'[e][a] = locks[e][a]
             \/ prefixes'[e][a] = 0 /\ locks'[e][a] = 0 /\ resets' # resets
  BY <1>2 DEF Restarts, ProtocolInv, ControllerTyped
<1>3. ASSUME NEW m \in Migrations,
             TakesPin(m) \/ Installs(m) \/ DropsDestination(m) \/ DropsSource(m) \/ Rebinds(m)
      PROVE  \/ prefixes'[e][a] = prefixes[e][a] /\ locks'[e][a] = locks[e][a]
             \/ /\ migrations[m].agent = a
                /\ \/ /\ e = migrations[m].source
                      /\ TakesPin(m) \/ DropsSource(m) \/ Rebinds(m)
                   \/ e = migrations[m].destination /\ (Installs(m) \/ DropsDestination(m))
  <2>1. ASSUME NEW x, NEW epoch, NEW held, WritesPin(x, migrations[m].agent, epoch, held)
        PROVE  \/ prefixes'[e][a] = prefixes[e][a] /\ locks'[e][a] = locks[e][a]
               \/ migrations[m].agent = a /\ e = x
    BY <2>1 DEF WritesPin
  <2>2. CASE TakesPin(m)
    BY <2>1, <2>2 DEF TakesPin
  <2>3. CASE Installs(m)
    BY <2>1, <2>3 DEF Installs
  <2>4. CASE DropsDestination(m)
    BY <2>1, <2>4 DEF DropsDestination
  <2>5. CASE DropsSource(m)
    BY <2>1, <2>5 DEF DropsSource
  <2>6. CASE Rebinds(m)
    BY <2>1, <2>6 DEF Rebinds
  <2>7. QED
    BY <1>3, <2>2, <2>3, <2>4, <2>5, <2>6
<1>4. CASE LeavesLock
  BY <1>4 DEF LeavesLock, WritesPin
<1>5. QED
  BY <1>1, <1>2, <1>3, <1>4 DEF PinMove, MigrationsOf

\* The live migration of an agent is the only one.
LEMMA OnlyLive ==
    ASSUME ProtocolInv, NEW m \in Migrations, NEW n \in Migrations,
           migrations[m].agent = migrations[n].agent, LiveMigration(m), LiveMigration(n)
    PROVE  m = n
BY DEF ProtocolInv, RowsInv, StoreInv, OneLiveMigration

\* A row in use names two engines, and is what it was.
LEMMA RowInUse ==
    ASSUME ProtocolInv, StoreMove, NEW m \in Migrations, MigrationState(m) # "NONE"
    PROVE  LET row == migrations[m]
               new == migrations'[m]
           IN
           /\ row.agent \in Agents /\ row.source \in Engines /\ row.destination \in Engines
           /\ row.source # row.destination /\ row.epoch \in 1..MaxEpoch
           /\ row \in MigrationRows
           /\ new.agent = row.agent /\ new.source = row.source
           /\ new.destination = row.destination /\ new.epoch = row.epoch
           /\ new.state # "NONE" /\ (new.state = "PREPARING" => row.state = "PREPARING")
<1>1. RowsInv /\ RowsAdvance
  BY RowsOnlyAdvance DEF ProtocolInv
<1>2. <<migrations[m].source, migrations[m].destination>> \in Pairs
  BY <1>1 DEF RowsInv
<1>3. migrations[m] \in MigrationRows
  BY <1>1 DEF RowsInv, StoreInv, StoreTypeOK
<1>4. QED
  BY <1>1, <1>2, <1>3, EpochsBounded, ProtocolAssumption DEF RowsAdvance, MigrationState

\* The state a row goes to, and who takes it there.
StateMoves(m) ==
    LET from == MigrationState(m)
        to == MigrationState(m)'
    IN
    \/ to = from
    \/ Inserts(m) /\ from = "NONE" /\ to = "PREPARING"
    \/ /\ from = "PREPARING" /\ to = "COPYING"
       /\ task[m].pc = "group" /\ task'[m].pc = "startDestination"
    \/ /\ from = "COPYING" /\ to = "DEST_READY"
       /\ task[m].pc = "cleanup" /\ ~task[m].failed /\ task'[m].pc = "commit"
    \/ Aborts(m) /\ to = "ABORTED"
    \/ /\ from = "COMMITTED" /\ to = "SOURCE_RELEASED" /\ agents' = agents
       /\ \E e \in Engines : acking[e] = m
    \/ commit_migration(m) /\ task[m].pc = "commit" /\ from = "DEST_READY" /\ to = "COMMITTED"
    \/ from \in {"COMMITTED", "SOURCE_RELEASED"} /\ to = "RECOVERED"

\* Each of these moves is one of the store moves of the calls.
LEMMA RowsMove ==
    ASSUME ProtocolInv, StoreMove, NEW m \in Migrations
    PROVE  StateMoves(m)
<1>1. migrations \in [Migrations -> MigrationRows] /\ TaskFits(m)
  BY DEF ProtocolInv, RowsInv, StoreInv, StoreTypeOK, TasksFit
<1>2. CASE UNCHANGED storeVars
  BY <1>2 DEF StateMoves, storeVars, MigrationState
<1>3. ASSUME NEW n \in Migrations, RowMoves(n), n # m
      PROVE  MigrationState(m)' = MigrationState(m)
  BY <1>1, <1>3
     DEF RowMoves, Inserts, Aborts, transition_migration, commit_migration,
         recover_committed_migration, MigrationState
<1>4. CASE RowMoves(m)
  <2>1. CASE Inserts(m)
    BY <1>1, <2>1 DEF Inserts, TaskFits, StateMoves, MigrationState
  <2>2. ASSUME NEW from, NEW to, transition_migration(m, from, to)
        PROVE  MigrationState(m) = from /\ MigrationState(m)' = to /\ agents' = agents
    BY <1>1, <2>2 DEF transition_migration, MigrationState, MigrationRows
  <2>3. CASE Aborts(m)
    BY <2>2, <2>3 DEF Aborts, StateMoves
  <2>4. CASE commit_migration(m) /\ task[m].pc = "commit"
    BY <1>1, <2>4 DEF commit_migration, StateMoves, MigrationState, MigrationRows
  <2>5. ASSUME NEW e \in Engines, recover_committed_migration(m, e)
        PROVE  StateMoves(m)
    BY <1>1, <2>5 DEF recover_committed_migration, StateMoves, MigrationState, MigrationRows
  <2>6. CASE /\ transition_migration(m, "PREPARING", "COPYING")
             /\ task[m].pc = "group" /\ task'[m].pc = "startDestination"
    BY <2>2, <2>6 DEF StateMoves
  <2>7. CASE /\ transition_migration(m, "COPYING", "DEST_READY")
             /\ task[m].pc = "cleanup" /\ ~task[m].failed /\ task'[m].pc = "commit"
    BY <2>2, <2>7 DEF StateMoves
  <2>8. CASE /\ transition_migration(m, "COMMITTED", "SOURCE_RELEASED")
             /\ \E e \in Engines : acking[e] = m
    BY <2>2, <2>8 DEF StateMoves
  <2>9. QED
    BY <1>4, <2>1, <2>3, <2>4, <2>5, <2>6, <2>7, <2>8 DEF RowMoves
<1>5. QED
  BY <1>2, <1>3, <1>4 DEF StoreMove, StateMoves

-----------------------------------------------------------------------------
(* Pins and locks. *)

\* The row of a pin that is written is in use; of one that is not dropped, live.
LEMMA PinWriters ==
    ASSUME ProtocolInv, NEW m \in Migrations,
           TakesPin(m) \/ Installs(m) \/ DropsDestination(m) \/ DropsSource(m) \/ Rebinds(m)
    PROVE  /\ MigrationState(m) # "NONE"
           /\ TakesPin(m) => MigrationState(m) = "PREPARING"
           /\ Installs(m) => MigrationState(m) = "COPYING"
           /\ DropsSource(m) \/ Rebinds(m) => MigrationState(m) = "COMMITTED"
<1>1. TaskFits(m)
  BY DEF ProtocolInv, TasksFit
<1>2. QED
  BY <1>1 DEF TakesPin, Installs, DropsDestination, DropsSource, Rebinds, TaskFits, Unfinished,
              MigrationState

\* A pin is written over another only by its own call or by a rebind.
LEMMA LocksStep ==
    ASSUME ProtocolInv, Moves, PendingUnpinned, NEW e \in Engines, NEW a \in Agents
    PROVE  \/ locks'[e][a] + PinLocks(e, a) = locks[e][a] + PinLocks(e, a)'
           \/ /\ faults' > faults
              /\ prefixes'[e][a] = prefixes[e][a]
              /\ locks'[e][a] = locks[e][a] + 1
           \/ resets' > resets /\ prefixes'[e][a] = 0 /\ locks'[e][a] = 0
<1> DEFINE p == prefixes[e][a]
           q == prefixes'[e][a]
           held == locks[e][a]
           now == locks'[e][a]
<1>1. held \in Nat /\ p \in 0..MaxEpoch
  BY ManagersTyped DEF ProtocolInv
<1>2. ASSUME NEW m \in MigrationsOf(a),
             \/ e = migrations[m].source /\ (TakesPin(m) \/ DropsSource(m) \/ Rebinds(m))
             \/ e = migrations[m].destination /\ (Installs(m) \/ DropsDestination(m))
      PROVE  \/ p = 0 /\ q # 0 /\ now = held + 1
             \/ p # 0 /\ q = 0 /\ now = held - 1
             \/ p # 0 /\ q # 0 /\ now = held
  <2>1. m \in Migrations /\ migrations[m].agent = a
    BY DEF MigrationsOf
  <2>2. migrations[m].epoch \in 1..MaxEpoch
    BY <1>2, <2>1, PinWriters, RowInUse DEF Moves
  <2>3. migrations[m].epoch # 0 /\ migrations[m].epoch + 1 # 0 /\ migrations[m].epoch + 2 # 0
    BY <2>2, ProtocolAssumption
  <2>4. CASE e = migrations[m].source /\ TakesPin(m)
    BY <2>1, <2>3, <2>4 DEF TakesPin, WritesPin
  <2>5. CASE e = migrations[m].source /\ (DropsSource(m) \/ Rebinds(m))
    BY <2>1, <2>3, <2>5 DEF DropsSource, Rebinds, WritesPin
  <2>6. CASE e = migrations[m].destination /\ Installs(m)
    <3>1. p = 0
      BY <2>1, <2>6 DEF Installs, PendingUnpinned, PM!ActiveTransfer, PM!TransferState,
                        PM!ActiveStates
    <3>2. QED
      BY <2>1, <2>3, <2>6, <3>1 DEF Installs, WritesPin
  <2>7. CASE e = migrations[m].destination /\ DropsDestination(m)
    BY <2>1, <2>3, <2>7 DEF DropsDestination, WritesPin
  <2>8. QED
    BY <1>2, <2>4, <2>5, <2>6, <2>7
<1>3. \/ q = p /\ now = held
      \/ q = p /\ now = held + 1 /\ faults' = faults + 1
      \/ q = 0 /\ now = 0 /\ resets' # resets
      \/ p = 0 /\ q # 0 /\ now = held + 1
      \/ p # 0 /\ q = 0 /\ now = held - 1
      \/ p # 0 /\ q # 0 /\ now = held
  BY <1>2, PinChanges DEF Moves
<1>4. /\ faults' = faults + 1 => faults' > faults
      /\ resets' # resets => resets' > resets
  BY DEF Moves, CallsMove, ProtocolInv, ControllerTyped
<1>5. /\ PinLocks(e, a) = IF p # 0 THEN 1 ELSE 0
      /\ PinLocks(e, a)' = IF q # 0 THEN 1 ELSE 0
  BY DEF PinLocks
<1> HIDE DEF p, q, held, now
<1>6. held \in Nat
  BY <1>1
<1>7. CASE \/ q = p /\ now = held
           \/ p = 0 /\ q # 0 /\ now = held + 1
           \/ p # 0 /\ q = 0 /\ now = held - 1
           \/ p # 0 /\ q # 0 /\ now = held
  <2>1. now + PinLocks(e, a) = held + PinLocks(e, a)'
    BY <1>5, <1>6, <1>7
  <2>2. QED
    BY <2>1 DEF held, now
<1>8. CASE \/ q = p /\ now = held + 1 /\ faults' = faults + 1
           \/ q = 0 /\ now = 0 /\ resets' # resets
  BY <1>4, <1>8 DEF p, q, held, now
<1>9. QED
  BY <1>3, <1>7, <1>8

\* Nobody pins the destination of a copy that is not installed yet.
LEMMA PendingStep ==
    ASSUME ProtocolInv, Moves, PendingUnpinned
    PROVE  PendingUnpinned'
<1> SUFFICES ASSUME NEW m \in Migrations, MigrationState(m)' = "COPYING",
                    transfers'[migrations'[m].destination][m].state
                       \in {"QUEUED", "COPYING", "COPY_DONE"}
             PROVE  prefixes'[migrations'[m].destination][migrations'[m].agent] = 0
  BY DEF PendingUnpinned, PM!ActiveTransfer, PM!TransferState, PM!ActiveStates, MigrationState
<1> DEFINE row == migrations[m]
           d == row.destination
<1>1. MigrationState(m) \in {"PREPARING", "COPYING"}
  BY RowsMove DEF StateMoves, Moves
<1>2. /\ row.agent \in Agents /\ row.source # d /\ d \in Engines
      /\ migrations'[m].agent = row.agent /\ migrations'[m].destination = d
  BY <1>1, RowInUse DEF Moves
<1>3. RecordFits(d, m) /\ RecordMove(d, m) /\ TaskFits(m)
  BY <1>2 DEF ProtocolInv, RecordsFit, TasksFit, Moves
<1>4. MigrationState(m) = "COPYING"
  <2>1. SUFFICES ASSUME MigrationState(m) = "PREPARING" PROVE FALSE
    BY <1>1
  <2>2. transfers[d][m].state = "NONE"
    BY <1>3, <2>1 DEF RecordFits, MigrationState
  <2>3. StartsRecord(d, m)
    BY <1>2, <1>3, <2>2 DEF RecordMove, Proceeds
  <2>4. QED
    BY <1>3, <2>1, <2>3 DEF StartsRecord, TaskFits, MigrationState
<1>5. prefixes[d][row.agent] = 0
  <2>1. CASE StartsRecord(d, m)
    BY <1>2, <2>1 DEF StartsRecord
  <2>2. CASE transfers'[d][m] = transfers[d][m] \/ Proceeds(d, m)
    <3>1. transfers[d][m].state \in {"QUEUED", "COPYING", "COPY_DONE"}
      BY <1>2, <2>2 DEF Proceeds
    <3>2. QED
      BY <1>4, <3>1 DEF PendingUnpinned, PM!ActiveTransfer, PM!TransferState, PM!ActiveStates,
                        MigrationState
  <2>3. QED
    BY <1>2, <1>3, <2>1, <2>2 DEF RecordMove
<1>6. ASSUME NEW n \in MigrationsOf(row.agent),
             \/ d = migrations[n].source /\ (TakesPin(n) \/ DropsSource(n) \/ Rebinds(n))
             \/ d = migrations[n].destination /\ (Installs(n) \/ DropsDestination(n))
      PROVE  prefixes'[d][row.agent] = 0
  <2>1. n \in Migrations /\ migrations[n].agent = row.agent
    BY DEF MigrationsOf
  <2>2. CASE DropsDestination(n) /\ d = migrations[n].destination
    BY <2>1, <2>2 DEF DropsDestination, WritesPin
  <2>3. CASE TakesPin(n) \/ DropsSource(n) \/ Rebinds(n) \/ Installs(n)
    <3>1. MigrationState(n) \in {"PREPARING", "COMMITTED", "COPYING"}
      BY <2>1, <2>3, PinWriters
    <3>2. n = m
      BY <1>4, <2>1, <3>1, OnlyLive DEF LiveMigration, LiveStates
    <3>3. Installs(m)
      BY <1>4, <2>3, <3>2, PinWriters
    <3>4. QED
      BY <1>2, <3>3 DEF Installs
  <2>4. QED
    BY <1>6, <2>2, <2>3
<1>7. QED
  BY <1>2, <1>5, <1>6, PinChanges DEF Moves

\* A prefix is locked and unlocked as its pin comes and goes, but for the locks that a
\* failed pin or install leaves (LocksFollowPins): two installs, or an install and a pin,
\* never meet on one engine, since they would belong to two live migrations of one agent.
THEOREM LocksAreHeldByPins == ProtocolSpec => LocksFollowPins
<1> DEFINE Inv == ProtocolInv /\ PendingUnpinned
<1>1. ProtocolInit => Inv
  BY ProtocolInvInit DEF ProtocolInit, NoMigration, PendingUnpinned
<1>2. Inv /\ [ProtocolNext]_protocolVars => Inv'
  BY ProtocolInvStep, PendingStep DEF KeepsControl
<1>3. Inv /\ [ProtocolNext]_protocolVars =>
        [\A e \in Engines, a \in Agents :
           \/ locks'[e][a] + PinLocks(e, a) = locks[e][a] + PinLocks(e, a)'
           \/ /\ faults' > faults
              /\ prefixes'[e][a] = prefixes[e][a]
              /\ locks'[e][a] = locks[e][a] + 1
           \/ resets' > resets /\ prefixes'[e][a] = 0 /\ locks'[e][a] = 0]_protocolVars
  BY ProtocolInvStep, LocksStep DEF KeepsControl
<1>4. QED
  BY <1>1, <1>2, <1>3, PTL DEF ProtocolSpec, LocksFollowPins

-----------------------------------------------------------------------------
(* The leases that migrations start from. *)

\* A lease changes in the hand-over of a migration or in its recovery.
LEMMA LeaseMoves ==
    ASSUME ProtocolInv, StoreMove, NEW a \in Agents
    PROVE  \/ agents'[a] = agents[a]
           \/ \E n \in MigrationsOf(a) :
                 /\ MigrationState(n) = "DEST_READY" /\ MigrationState(n)' = "COMMITTED"
                 /\ agents[a].owner = migrations[n].source
                 /\ agents[a].epoch = migrations[n].epoch
           \/ \E n \in MigrationsOf(a) :
                 /\ MigrationState(n)' = "RECOVERED"
                 /\ agents[a].owner = migrations[n].destination
                 /\ agents[a].epoch = migrations[n].epoch + 1
<1>1. migrations \in [Migrations -> MigrationRows] /\ agents \in [Agents -> AgentRows]
  BY DEF ProtocolInv, RowsInv, StoreInv, StoreTypeOK
<1>2. ASSUME agents' # agents
      PROVE  \E n \in Migrations :
                commit_migration(n) \/ \E e \in Engines : recover_committed_migration(n, e)
  BY <1>2 DEF StoreMove, storeVars, RowMoves, Inserts, Aborts, transition_migration
<1>3. ASSUME NEW n \in Migrations, commit_migration(n), agents'[a] # agents[a]
      PROVE  /\ migrations[n].agent = a
             /\ MigrationState(n) = "DEST_READY" /\ MigrationState(n)' = "COMMITTED"
             /\ agents[a].owner = migrations[n].source
             /\ agents[a].epoch = migrations[n].epoch
  BY <1>1, <1>3 DEF commit_migration, MigrationState, MigrationRows
<1>4. ASSUME NEW n \in Migrations, NEW e \in Engines, recover_committed_migration(n, e),
             agents'[a] # agents[a]
      PROVE  /\ migrations[n].agent = a
             /\ MigrationState(n)' = "RECOVERED"
             /\ agents[a].owner = migrations[n].destination
             /\ agents[a].epoch = migrations[n].epoch + 1
  BY <1>1, <1>4 DEF recover_committed_migration, MigrationState, MigrationRows
<1>5. QED
  BY <1>2, <1>3, <1>4 DEF MigrationsOf

\* A migration that was handed over stays so, and one that was recovered stays that.
LEMMA HandoversStay ==
    ASSUME ProtocolInv, StoreMove, NEW m \in Migrations
    PROVE  /\ HandedOver(m) => HandedOver(m)'
           /\ MigrationState(m) = "RECOVERED" => MigrationState(m)' = "RECOVERED"
           /\ HandedOver(m) /\ MigrationState(m)' = "COMMITTED" =>
                 MigrationState(m) = "COMMITTED"
BY RowsMove DEF StateMoves, HandedOver, Aborts, Unfinished

\* The lease a migration started from is held until it commits, unless it was one that a
\* late recovery of an earlier hand-over has taken back.
LEMMA StartsStep ==
    ASSUME ProtocolInv, Moves, StartsFit PROVE StartsFit'
<1> SUFFICES ASSUME NEW m \in Migrations,
                    MigrationState(m)' \in {"PREPARING", "COPYING", "DEST_READY"}
             PROVE  StartedFrom(m)'
  BY DEF StartsFit, Unfinished
<1>1. StateMoves(m)
  BY RowsMove DEF Moves
<1>2. CASE Inserts(m)
  BY <1>2 DEF Inserts, StartedFrom, TasksFit, TaskFits, ProtocolInv, RowsInv, StoreInv,
              StoreTypeOK
<1>3. CASE ~Inserts(m)
  <2>1. m \in Unfinished
    BY <1>1, <1>3 DEF StateMoves, Aborts, Unfinished
  <2>2. /\ migrations'[m].agent = migrations[m].agent /\ migrations[m].agent \in Agents
        /\ migrations'[m].source = migrations[m].source
        /\ migrations'[m].epoch = migrations[m].epoch
    BY <2>1, RowInUse DEF Moves, Unfinished
  <2>3. PICK a \in Agents : a = migrations[m].agent
    BY <2>2
  <2>4. ASSUME NEW n \in MigrationsOf(a), MigrationState(n)' = "RECOVERED",
               migrations[n].destination = migrations[m].source,
               migrations[n].epoch + 1 = migrations[m].epoch
        PROVE  StartedFrom(m)'
    <3>1. n \in Migrations /\ MigrationState(n) # "NONE"
      BY <2>4, RowsMove DEF MigrationsOf, Moves, StateMoves, Aborts, Unfinished
    <3>2. /\ migrations'[n].agent = a
          /\ migrations'[n].destination = migrations[n].destination
          /\ migrations'[n].epoch = migrations[n].epoch
      BY <3>1, RowInUse DEF MigrationsOf, Moves
    <3>3. QED
      BY <2>2, <2>3, <2>4, <3>1, <3>2 DEF StartedFrom, MigrationsOf
  <2>5. CASE \E n \in MigrationsOf(a) :
               /\ MigrationState(n) = "RECOVERED"
               /\ migrations[n].destination = migrations[m].source
               /\ migrations[n].epoch + 1 = migrations[m].epoch
    BY <2>4, <2>5, HandoversStay DEF MigrationsOf, Moves
  <2>6. CASE agents[a].owner = migrations[m].source /\ agents[a].epoch = migrations[m].epoch
    <3>1. CASE agents'[a] = agents[a]
      BY <2>2, <2>3, <2>6, <3>1 DEF StartedFrom
    <3>2. ASSUME NEW n \in MigrationsOf(a), MigrationState(n) = "DEST_READY",
                 MigrationState(n)' = "COMMITTED"
          PROVE  FALSE
      <4>1. n \in Migrations /\ migrations[n].agent = migrations[m].agent
        BY <2>3 DEF MigrationsOf
      <4>2. n = m
        BY <2>1, <3>2, <4>1, OnlyLive DEF LiveMigration, LiveStates, Unfinished
      <4>3. QED
        BY <3>2, <4>2
    <3>3. ASSUME NEW n \in MigrationsOf(a), MigrationState(n)' = "RECOVERED",
                 agents[a].owner = migrations[n].destination,
                 agents[a].epoch = migrations[n].epoch + 1
          PROVE  StartedFrom(m)'
      BY <2>4, <2>6, <3>3
    <3>4. QED
      BY <3>1, <3>2, <3>3, LeaseMoves DEF Moves
  <2>7. QED
    BY <2>1, <2>3, <2>5, <2>6 DEF StartsFit, StartedFrom
<1>4. QED
  BY <1>2, <1>3

\* A migration does not start from an epoch that was handed over.
LEMMA EpochIsUnused ==
    ASSUME ProtocolInv, NEW m \in Migrations, MigrationState(m) # "NONE", StartedFrom(m),
           NEW n \in Migrations, MigrationState(n) = "SOURCE_RELEASED",
           migrations[n].agent = migrations[m].agent
    PROVE  migrations[n].epoch # migrations[m].epoch
<1> DEFINE a == migrations[m].agent
<1>1. HandoverChain /\ HandedOver(n) /\ LastEpoch(n) = migrations[n].epoch + 1
  BY DEF ProtocolInv, RowsInv, StoreInv, HandedOver, LastEpoch
<1>2. /\ migrations[n].epoch \in Nat /\ migrations[m].epoch \in Nat
      /\ \A k \in Migrations : migrations[k].epoch \in Nat
  BY DEF ProtocolInv, RowsInv, StoreInv, StoreTypeOK, MigrationRows
<1>3. CASE agents[a].epoch = migrations[m].epoch
  <2>1. migrations[n].epoch + 1 <= migrations[m].epoch
    BY <1>1, <1>3 DEF HandoverChain
  <2>2. QED
    BY <1>2, <2>1
<1>4. ASSUME NEW k \in MigrationsOf(a), MigrationState(k) = "RECOVERED",
             migrations[k].epoch + 1 = migrations[m].epoch
      PROVE  migrations[n].epoch # migrations[m].epoch
  <2>1. k \in Migrations /\ k # n /\ migrations[k].agent = migrations[n].agent
    BY <1>4 DEF MigrationsOf
  <2>2. HandedOver(k) /\ LastEpoch(k) = migrations[k].epoch + 2
    BY <1>4 DEF HandedOver, LastEpoch
  <2>3. \/ migrations[n].epoch + 1 <= migrations[k].epoch
        \/ migrations[k].epoch + 2 <= migrations[n].epoch
    BY <1>1, <2>1, <2>2 DEF HandoverChain
  <2>4. QED
    BY <1>2, <1>4, <2>1, <2>3
<1>5. QED
  BY <1>3, <1>4 DEF StartedFrom

-----------------------------------------------------------------------------
(* Commits. *)

\* A running call keeps the pin at its destination: only its own cleanup could drop it, since
\* no earlier migration installed one for that epoch.
LEMMA CopyStaysPinned ==
    ASSUME ProtocolInv, StartsFit, Moves, resets' = resets, NEW m \in Migrations,
           task[m].pc \in {"startDestination", "startSource", "wait", "cleanup", "commit"},
           DestinationPinned(m) \/ Installs(m)
    PROVE  DestinationPinned(m)'
<1> DEFINE row == migrations[m]
           d == row.destination
<1>1. MigrationState(m) \in {"COPYING", "DEST_READY"} /\ Running(m)
  BY DEF ProtocolInv, TasksFit, TaskFits, MigrationState, Running, ReturnedStates
<1>2. /\ row.agent \in Agents /\ row.source # d /\ d \in Engines
      /\ migrations'[m].agent = row.agent /\ migrations'[m].destination = d
      /\ migrations'[m].epoch = row.epoch
  BY <1>1, RowInUse DEF Moves
<1>3. CASE Installs(m)
  BY <1>2, <1>3 DEF Installs, WritesPin, DestinationPinned
<1>4. CASE DestinationPinned(m) /\ ~Installs(m)
  <2>1. ASSUME NEW n \in MigrationsOf(row.agent),
               \/ d = migrations[n].source /\ (TakesPin(n) \/ DropsSource(n) \/ Rebinds(n))
               \/ d = migrations[n].destination /\ (Installs(n) \/ DropsDestination(n))
        PROVE  FALSE
    <3>1. n \in Migrations /\ migrations[n].agent = row.agent
      BY DEF MigrationsOf
    <3>2. CASE DropsDestination(n) /\ d = migrations[n].destination
      <4>1. MigrationState(n) # "SOURCE_RELEASED"
        <5>1. migrations[n].epoch + 1 = row.epoch + 1
          BY <1>4, <3>1, <3>2 DEF DropsDestination, DestinationPinned
        <5>2. migrations[n].epoch \in Nat /\ row.epoch \in Nat
          BY <3>1 DEF ProtocolInv, RowsInv, StoreInv, StoreTypeOK, MigrationRows
        <5>3. migrations[n].epoch = row.epoch
          BY <5>1, <5>2
        <5>4. StartedFrom(m)
          BY <1>1 DEF StartsFit, Unfinished
        <5>5. QED
          BY <1>1, <3>1, <5>3, <5>4, EpochIsUnused
      <4>2. ~(reconcile.pc = "release")
        BY <1>1 DEF ProtocolInv, ReconcileFits
      <4>3. n \in Unfinished /\ task[n].pc = "release"
        BY <3>2, <4>1, <4>2 DEF DropsDestination, MigrationState
      <4>4. n = m
        BY <1>1, <3>1, <4>3, OnlyLive DEF LiveMigration, LiveStates, Unfinished
      <4>5. QED
        BY <4>3, <4>4
    <3>3. CASE TakesPin(n) \/ DropsSource(n) \/ Rebinds(n) \/ Installs(n)
      <4>1. MigrationState(n) \in {"PREPARING", "COMMITTED", "COPYING"}
        BY <3>1, <3>3, PinWriters
      <4>2. n = m
        BY <1>1, <3>1, <4>1, OnlyLive DEF LiveMigration, LiveStates
      <4>3. QED
        BY <1>1, <1>4, <3>3, <4>2, PinWriters
    <3>4. QED
      BY <2>1, <3>2, <3>3
  <2>2. prefixes'[d][row.agent] = prefixes[d][row.agent]
    BY <1>2, <2>1, PinChanges DEF Moves
  <2>3. QED
    BY <1>2, <1>4, <2>2 DEF DestinationPinned
<1>5. QED
  BY <1>3, <1>4

\* A call learns that its copy is installed from the poll that installs it, or from one
\* that finds it installed.
LEMMA CopiesStep ==
    ASSUME ProtocolInv, ProtocolInv', StartsFit, Moves, CopiesInstalled
    PROVE  CopiesInstalled'
<1> SUFFICES ASSUME resets' = 0, NEW m \in Migrations,
                    LET u == task'[m] IN
                    \/ u.pc = "commit"
                    \/ u.pc = "cleanup" /\ ~u.failed
                    \/ u.pc = "wait" /\ u.dst = "done" /\ ~u.failed
                    \/ /\ u.pc \in {"startDestination", "startSource", "wait"}
                       /\ transfers'[migrations'[m].destination][m].state = "COMPLETE"
             PROVE  DestinationPinned(m)'
  BY DEF CopiesInstalled, PM!TransferState
<1> DEFINE t == task[m]
           u == task'[m]
           d == migrations[m].destination
<1>1. resets = 0 /\ TaskMove(m) /\ TaskFits(m)
  BY DEF ProtocolInv, ControllerTyped, TasksFit, Moves, CallsMove
<1>2. t.pc \in {"group", "startDestination", "startSource", "wait", "cleanup", "commit"}
  BY <1>1 DEF TaskMove, Believes
<1>3. MigrationState(m) # "NONE"
  BY <1>1, <1>2 DEF TaskFits, MigrationState
<1>4. /\ migrations'[m].destination = d /\ d \in Engines
      /\ migrations[m].source # d
  BY <1>3, RowInUse DEF Moves
<1>5. CASE t.pc = "commit" \/ Believes(t)
  <2>1. DestinationPinned(m)
    BY <1>1, <1>5 DEF CopiesInstalled, Believes
  <2>2. QED
    BY <1>1, <1>5, <2>1, CopyStaysPinned DEF Believes
<1>6. CASE ~(t.pc = "commit") /\ ~Believes(t)
  <2>1. transfers'[d][m].state = "COMPLETE"
    BY <1>1, <1>4, <1>6 DEF TaskMove, Believes
  <2>2. /\ RecordFits(d, m) /\ RecordMove(d, m)
    BY <1>4 DEF ProtocolInv, RecordsFit, Moves
  <2>3. transfers[d][m].state # "NONE"
    BY <2>1, <2>2 DEF RecordMove, StartsRecord, Proceeds
  <2>4. transfers[d][m].role = "destination"
    BY <1>4, <2>2, <2>3 DEF RecordFits
  <2>5. transfers[d][m].state = "COMPLETE" \/ Installs(m)
    BY <2>1, <2>2, <2>4 DEF RecordMove, StartsRecord, Proceeds
  <2>6. t.pc \in {"startDestination", "startSource", "wait"}
    <3>1. t.pc # "group"
      BY <1>1, <2>2, <2>3 DEF RecordFits, TaskFits
    <3>2. t.pc = "cleanup" => t.failed
      BY <1>6 DEF Believes
    <3>3. QED
      BY <1>1, <1>2, <1>6, <3>1, <3>2 DEF TaskMove, Believes
  <2>7. DestinationPinned(m) \/ Installs(m)
    BY <1>1, <2>5, <2>6 DEF CopiesInstalled, PM!TransferState
  <2>8. QED
    BY <1>1, <2>6, <2>7, CopyStaysPinned
<1>7. QED
  BY <1>5, <1>6

\* As long as no engine dies, ownership moves only to an engine that has installed the
\* prefix and pinned it for the new epoch (CommitFindsDestinationReady): what a call has
\* been told of its copy stays true until it commits.
THEOREM CommitsFindTheCopy == ProtocolSpec => CommitFindsDestinationReady
<1> DEFINE Inv == ProtocolInv /\ StartsFit /\ CopiesInstalled
<1>1. ProtocolInit => Inv
  <2>1. ProtocolInit => StartsFit
    BY DEF ProtocolInit, NoMigration, StartsFit, Unfinished, MigrationState
  <2>2. QED
    BY <2>1, ProtocolInvInit DEF ProtocolInit, Idle, CopiesInstalled
<1>2. Inv /\ [ProtocolNext]_protocolVars => Inv'
  BY ProtocolInvStep, StartsStep, CopiesStep DEF KeepsControl
<1>3. Inv /\ [ProtocolNext]_protocolVars =>
        [\A m \in Migrations :
           LET row == migrations[m] IN
           MigrationState(m) # "COMMITTED" /\ MigrationState(m)' = "COMMITTED" /\ resets = 0
             => /\ prefixes[row.destination][row.agent] = row.epoch + 1
                /\ cache[row.destination][row.agent] # "absent"]_protocolVars
  <2> SUFFICES ASSUME Inv, [ProtocolNext]_protocolVars, NEW m \in Migrations,
                      MigrationState(m) # "COMMITTED", MigrationState(m)' = "COMMITTED",
                      resets = 0
               PROVE  /\ prefixes[migrations[m].destination][migrations[m].agent]
                            = migrations[m].epoch + 1
                      /\ cache[migrations[m].destination][migrations[m].agent] # "absent"
    OBVIOUS
  <2>1. Moves
    BY ProtocolInvStep DEF KeepsControl
  <2>2. task[m].pc = "commit" /\ MigrationState(m) = "DEST_READY"
    BY <2>1, RowsMove DEF Moves, StateMoves
  <2>3. DestinationPinned(m)
    BY <2>2 DEF CopiesInstalled
  <2>4. /\ migrations[m].agent \in Agents /\ migrations[m].destination \in Engines
        /\ migrations[m].epoch \in 1..MaxEpoch
    BY <2>1, <2>2, RowInUse DEF Moves
  <2>5. PMP!PrefixInv
    BY DEF ProtocolInv
  <2>6. migrations[m].epoch + 1 # 0
    BY <2>4, ProtocolAssumption
  <2>7. QED
    BY <2>3, <2>4, <2>5, <2>6, ManagersTyped DEF DestinationPinned
<1>4. QED
  BY <1>1, <1>2, <1>3, PTL DEF ProtocolSpec, CommitFindsDestinationReady

-----------------------------------------------------------------------------
(* The source copy. *)

\* While a migration lives, the pin at its source is written by its own calls, or dropped
\* by a late end of the migration that installed it there.
LEMMA SourcePinMoves ==
    ASSUME ProtocolInv, Moves, NEW m \in Migrations, LiveMigration(m)
    PROVE  LET row == migrations[m]
               p == prefixes[row.source][row.agent]
               q == prefixes'[row.source][row.agent]
           IN
           \/ q = p
           \/ q = 0 /\ (resets' # resets \/ overlaps' > overlaps)
           \/ q = row.epoch /\ TakesPin(m)
           \/ q = 0 /\ DropsSource(m)
           \/ q = row.epoch + 2 /\ Rebinds(m)
<1> DEFINE row == migrations[m]
           s == row.source
<1>1. MigrationState(m) # "NONE"
  BY DEF LiveMigration, LiveStates
<1>2. row.agent \in Agents /\ s \in Engines /\ s # row.destination
  BY <1>1, RowInUse DEF Moves
<1>3. ASSUME NEW n \in MigrationsOf(row.agent),
             \/ s = migrations[n].source /\ (TakesPin(n) \/ DropsSource(n) \/ Rebinds(n))
             \/ s = migrations[n].destination /\ (Installs(n) \/ DropsDestination(n))
      PROVE  \/ n = m /\ (TakesPin(m) \/ DropsSource(m) \/ Rebinds(m))
             \/ prefixes'[s][row.agent] = 0 /\ overlaps' > overlaps
  <2>1. n \in Migrations /\ migrations[n].agent = row.agent
    BY DEF MigrationsOf
  <2>2. CASE TakesPin(n) \/ DropsSource(n) \/ Rebinds(n) \/ Installs(n)
    <3>1. MigrationState(n) \in {"PREPARING", "COMMITTED", "COPYING"}
      BY <2>1, <2>2, PinWriters
    <3>2. n = m
      BY <2>1, <3>1, OnlyLive DEF LiveMigration, LiveStates
    <3>3. QED
      BY <1>2, <1>3, <3>2
  <2>3. CASE DropsDestination(n) /\ s = migrations[n].destination
    <3>1. HasLiveMigration(migrations[n].agent)
      BY <2>1 DEF HasLiveMigration
    <3>2. n \in Unfinished \/ overlaps' > overlaps
      BY <2>3, <3>1 DEF DropsDestination
    <3>3. n \in Unfinished => n = m
      BY <2>1, OnlyLive DEF LiveMigration, LiveStates, Unfinished
    <3>4. prefixes'[s][row.agent] = 0
      BY <2>1, <2>3 DEF DropsDestination, WritesPin
    <3>5. QED
      BY <1>2, <2>3, <3>2, <3>3, <3>4
  <2>4. QED
    BY <1>3, <2>2, <2>3
<1> DEFINE q == prefixes'[s][row.agent]
<1>4. TakesPin(m) \/ DropsSource(m) \/ Rebinds(m) =>
         \/ q = row.epoch /\ TakesPin(m)
         \/ q = 0 /\ DropsSource(m)
         \/ q = row.epoch + 2 /\ Rebinds(m)
  BY DEF TakesPin, DropsSource, Rebinds, WritesPin
<1>5. \/ q = prefixes[s][row.agent]
      \/ q = 0 /\ (resets' # resets \/ overlaps' > overlaps)
      \/ TakesPin(m) \/ DropsSource(m) \/ Rebinds(m)
  BY <1>2, <1>3, PinChanges DEF Moves
<1>6. QED
  BY <1>4, <1>5

\* The source copy stays pinned from the copy to the acknowledgement, unless its engine is
\* reset or the migration that brought the agent there is finalized late (SourceCopyKept):
\* neither the agent's other migrations nor the end of one that failed drops it.
THEOREM SourceStaysPinned == ProtocolSpec => SourceCopyKept
<1>1. ProtocolInv /\ [ProtocolNext]_protocolVars =>
        [\A m \in Migrations :
           SourceCopyLost(m) => resets' > resets \/ overlaps' > overlaps]_protocolVars
  <2> SUFFICES ASSUME ProtocolInv, [ProtocolNext]_protocolVars, NEW m \in Migrations,
                      SourceCopyLost(m)
               PROVE  resets' > resets \/ overlaps' > overlaps
    OBVIOUS
  <2> DEFINE row == migrations[m]
             p == prefixes[row.source][row.agent]
             q == prefixes'[row.source][row.agent]
  <2>1. Moves
    BY ProtocolInvStep DEF KeepsControl
  <2>2. /\ row.state \in {"COPYING", "DEST_READY", "COMMITTED"}
        /\ p = row.epoch /\ q \notin {row.epoch, row.epoch + 2}
        /\ ~(row.state = "COMMITTED" /\ (acking'[row.source] = m \/ faults' > faults))
    BY DEF SourceCopyLost
  <2>3. LiveMigration(m)
    BY <2>2 DEF LiveMigration, LiveStates, MigrationState
  <2>4. ~DropsSource(m)
    BY <2>2 DEF DropsSource
  <2>5. resets' # resets \/ overlaps' > overlaps
    BY <2>1, <2>2, <2>3, <2>4, SourcePinMoves
  <2>6. resets' # resets => resets' > resets
    BY <2>1 DEF Moves, CallsMove, ProtocolInv, ControllerTyped
  <2>7. QED
    BY <2>5, <2>6
<1>2. QED
  BY <1>1, ProtocolInvariant, PTL DEF ProtocolSpec, SourceCopyKept

\* The pin that a migration took is at its epoch until it commits, and a rebind that the
\* store has not heard of yet belongs to a recovery in progress.
LEMMA SourcePinsStep ==
    ASSUME ProtocolInv, ProtocolInv', Moves, SourcePins
    PROVE  SourcePins'
<1> SUFFICES ASSUME NEW m \in Migrations,
                    \/ task'[m].pc = "group"
                    \/ MigrationState(m)' \in {"COPYING", "DEST_READY", "COMMITTED"}
             PROVE  LET new == migrations'[m]
                        q == prefixes'[new.source][new.agent]
                    IN
                    /\ task'[m].pc = "group" \/ new.state \in {"COPYING", "DEST_READY"} =>
                          q \in {0, new.epoch}
                    /\ new.state = "COMMITTED" =>
                          /\ q \in {0, new.epoch, new.epoch + 2}
                          /\ q = new.epoch + 2 /\ crashes' = 0 => recovering'[m] # None
  BY DEF SourcePins, MigrationState
<1> DEFINE row == migrations[m]
           p == prefixes[row.source][row.agent]
           q == prefixes'[row.source][row.agent]
           from == MigrationState(m)
           to == MigrationState(m)'
<1>1. StateMoves(m) /\ TaskMove(m) /\ TaskFits(m) /\ TaskFits(m)'
  BY RowsMove DEF ProtocolInv, TasksFit, Moves
<1>2. /\ task'[m].pc = "group" => to = "PREPARING"
      /\ task[m].pc \in {"pin", "group"} => from = "PREPARING"
  BY <1>1 DEF TaskFits, MigrationState
<1>3. /\ task'[m].pc = "group" =>
           /\ from = "PREPARING"
           /\ task[m].pc = "group" \/ q = row.epoch
      /\ to = "COPYING" =>
           from = "COPYING" \/ (from = "PREPARING" /\ task[m].pc = "group")
      /\ to = "DEST_READY" => from \in {"COPYING", "DEST_READY"}
      /\ to = "COMMITTED" => from \in {"DEST_READY", "COMMITTED"}
  BY <1>1, <1>2 DEF StateMoves, Aborts, TaskMove
<1>4. from \in {"PREPARING", "COPYING", "DEST_READY", "COMMITTED"}
  BY <1>3
<1>5. /\ row.epoch \in Nat /\ migrations'[m].source = row.source
      /\ migrations'[m].agent = row.agent /\ migrations'[m].epoch = row.epoch
  BY <1>4, RowInUse, ProtocolAssumption DEF Moves
<1>6. \/ q = p
      \/ q = 0
      \/ q = row.epoch /\ from = "PREPARING"
      \/ q = row.epoch + 2 /\ from = "COMMITTED" /\ recovering'[m] # None
  <2>1. LiveMigration(m)
    BY <1>4 DEF LiveMigration, LiveStates
  <2>2. Rebinds(m) => recovering'[m] # None
    BY DEF Rebinds
  <2>3. QED
    BY <2>1, <2>2, SourcePinMoves, PinWriters
<1>7. /\ task[m].pc = "group" \/ from \in {"COPYING", "DEST_READY"} => p \in {0, row.epoch}
      /\ from = "COMMITTED" => /\ p \in {0, row.epoch, row.epoch + 2}
                               /\ p = row.epoch + 2 /\ crashes = 0 => recovering[m] # None
  BY DEF SourcePins, MigrationState
<1>8. /\ recovering[m] # None /\ recovering'[m] = None => crashes' # 0 \/ to # "COMMITTED"
      /\ crashes' = 0 => crashes = 0
  BY DEF Moves, CallsMove, ProtocolInv, ControllerTyped
<1>9. row.epoch # row.epoch + 2 /\ 0 # row.epoch + 2
  BY <1>5
<1>10. task'[m].pc = "group" \/ to \in {"COPYING", "DEST_READY"} => q \in {0, row.epoch}
  BY <1>3, <1>6, <1>7
<1>11. to = "COMMITTED" => /\ q \in {0, row.epoch, row.epoch + 2}
                           /\ q = row.epoch + 2 /\ crashes' = 0 => recovering'[m] # None
  BY <1>3, <1>6, <1>7, <1>8, <1>9
<1>12. QED
  BY <1>5, <1>10, <1>11 DEF MigrationState

\* A lost acknowledgement can be retried (ReleaseIsRetryable): as long as the controller
\* has not crashed inside a recovery, the source of a committed migration would accept
\* the release.  MCHalfRecovery shows what a crash there does.
THEOREM AcknowledgementsCanBeRetried == ProtocolSpec => [](crashes = 0 => ReleaseIsRetryable)
<1> DEFINE Inv == ProtocolInv /\ SourcePins
<1>1. ProtocolInit => Inv
  BY ProtocolInvInit DEF ProtocolInit, Idle, NoMigration, SourcePins
<1>2. Inv /\ [ProtocolNext]_protocolVars => Inv'
  BY ProtocolInvStep, SourcePinsStep DEF KeepsControl
<1>3. Inv => (crashes = 0 => ReleaseIsRetryable)
  BY DEF SourcePins, ReleaseIsRetryable
<1>4. QED
  BY <1>1, <1>2, <1>3, PTL DEF ProtocolSpec

-----------------------------------------------------------------------------
(* Every pin is accounted for. *)

\* The acknowledgements in progress.
LEMMA AcksStep ==
    ASSUME ProtocolInv, ProtocolInv', Moves, AcksFit PROVE AcksFit'
<1> SUFFICES ASSUME NEW e \in Engines, acking'[e] # None,
                    NEW m, m = acking'[e]
             PROVE  /\ HandedOver(m)' /\ migrations'[m].source = e
                    /\ migrations'[m].state = "COMMITTED" /\ faults' = 0 =>
                          prefixes'[e][migrations'[m].agent] = 0
  BY DEF AcksFit
<1>1. \/ acking[e] = m
      \/ /\ migrations[m].state = "COMMITTED" /\ migrations[m].source = e
         /\ prefixes'[e][migrations[m].agent] = 0
  BY DEF Moves, CallsMove
<1>2. m \in Migrations /\ HandedOver(m) /\ migrations[m].source = e
  <2>1. CASE acking[e] = m
    BY <2>1 DEF AcksFit, ProtocolInv, ControllerTyped
  <2>2. CASE acking[e] # m
    <3>1. HandedOver(m) /\ migrations[m].source = e
      BY <1>1, <2>2 DEF HandedOver, MigrationState
    <3>2. m \in Migrations
      BY DEF ProtocolInv, ControllerTyped
    <3>3. QED
      BY <3>1, <3>2
  <2>3. QED
    BY <2>1, <2>2
<1>3. /\ migrations'[m].source = e /\ migrations'[m].agent = migrations[m].agent
      /\ HandedOver(m)'
      /\ migrations'[m].state = "COMMITTED" => migrations[m].state = "COMMITTED"
      /\ migrations[m].epoch \in 1..MaxEpoch
  BY <1>2, RowInUse, HandoversStay DEF Moves, HandedOver, MigrationState
<1>4. ASSUME migrations'[m].state = "COMMITTED", faults' = 0, acking[e] = m
      PROVE  prefixes'[e][migrations[m].agent] = 0
  <2>1. migrations[m].state = "COMMITTED" /\ faults = 0
    BY <1>3, <1>4 DEF Moves, CallsMove, ProtocolInv, ControllerTyped
  <2>2. prefixes[e][migrations[m].agent] = 0
    BY <1>4, <2>1 DEF AcksFit
  <2>3. LiveMigration(m)
    BY <2>1 DEF LiveMigration, LiveStates, MigrationState
  <2>4. ~TakesPin(m)
    BY <1>2, <2>1, PinWriters DEF MigrationState
  <2>5. 0 \notin {migrations[m].epoch, migrations[m].epoch + 2}
    BY <1>3, ProtocolAssumption
  <2>6. ~Rebinds(m)
    BY <1>2, <2>2, <2>5 DEF Rebinds
  <2>7. QED
    BY <1>2, <2>2, <2>3, <2>4, <2>6, SourcePinMoves
<1>5. QED
  BY <1>1, <1>3, <1>4

\* A pin that a step writes is accounted for by the row as the step finds it.
LEMMA WrittenPinsFit ==
    ASSUME ProtocolInv, Moves, PinsFit, faults = 0, NEW e \in Engines, NEW a \in Agents,
           NEW q, q = prefixes'[e][a], q # 0
    PROVE  PinFits(e, a, q)
<1>1. CASE prefixes'[e][a] = prefixes[e][a]
  BY <1>1 DEF PinsFit
<1>2. ASSUME NEW n \in MigrationsOf(a),
             \/ e = migrations[n].source /\ (TakesPin(n) \/ DropsSource(n) \/ Rebinds(n))
             \/ e = migrations[n].destination /\ (Installs(n) \/ DropsDestination(n))
      PROVE  AccountsFor(n, e, q)
  <2>1. n \in Migrations /\ migrations[n].agent = a
    BY DEF MigrationsOf
  <2>2. CASE e = migrations[n].source /\ TakesPin(n)
    <3>1. LiveMigration(n) /\ q = migrations[n].epoch
      BY <2>1, <2>2, PinWriters DEF TakesPin, WritesPin, LiveMigration, LiveStates
    <3>2. QED
      BY <2>2, <3>1 DEF AccountsFor
  <2>3. CASE e = migrations[n].source /\ (DropsSource(n) \/ Rebinds(n))
    <3>1. migrations[n].state = "COMMITTED" /\ q = migrations[n].epoch + 2
      BY <2>1, <2>3 DEF DropsSource, Rebinds, WritesPin
    <3>2. QED
      BY <2>3, <3>1 DEF AccountsFor
  <2>4. CASE e = migrations[n].destination /\ (Installs(n) \/ DropsDestination(n))
    <3>1. Installs(n) /\ q = migrations[n].epoch + 1
      BY <2>1, <2>4 DEF Installs, DropsDestination, WritesPin
    <3>2. QED
      BY <2>4, <3>1 DEF Installs, AccountsFor
  <2>5. QED
    BY <1>2, <2>2, <2>3, <2>4
<1>3. QED
  BY <1>1, <1>2, PinChanges DEF PinFits, Moves

\* The pin of a lease stays accounted for when the lease is handed over or recovered.
LEMMA LeasePinsFit ==
    ASSUME ProtocolInv, Moves, NEW e \in Engines, NEW a \in Agents, NEW q,
           e = agents[a].owner, q = agents[a].epoch
    PROVE  PinFits(e, a, q)'
<1>1. CASE agents'[a] = agents[a]
  BY <1>1 DEF PinFits
<1>2. ASSUME NEW n \in MigrationsOf(a),
             \/ /\ MigrationState(n) = "DEST_READY" /\ MigrationState(n)' = "COMMITTED"
                /\ agents[a].owner = migrations[n].source
                /\ agents[a].epoch = migrations[n].epoch
             \/ /\ MigrationState(n)' = "RECOVERED"
                /\ agents[a].owner = migrations[n].destination
                /\ agents[a].epoch = migrations[n].epoch + 1
      PROVE  n \in MigrationsOf(a)' /\ AccountsFor(n, e, q)'
  <2>1. n \in Migrations /\ MigrationState(n) # "NONE"
    BY <1>2, RowsMove DEF MigrationsOf, Moves, StateMoves, Aborts, Unfinished
  <2>2. /\ migrations'[n].agent = a /\ migrations'[n].source = migrations[n].source
        /\ migrations'[n].destination = migrations[n].destination
        /\ migrations'[n].epoch = migrations[n].epoch
    BY <2>1, RowInUse DEF MigrationsOf, Moves
  <2>3. QED
    BY <1>2, <2>1, <2>2
       DEF MigrationsOf, AccountsFor, LiveMigration, LiveStates, MigrationState
<1>3. QED
  BY <1>1, <1>2, LeaseMoves DEF PinFits, Moves

\* The pin at the source of a migration stays accounted for: an abort leaves it to the
\* lease the migration started from, and an acknowledgement has released it.
LEMMA SourcePinsFit ==
    ASSUME ProtocolInv, Moves, AcksFit, StartsFit, faults = 0,
           NEW m \in Migrations, MigrationState(m) # "NONE",
           NEW s, s = migrations[m].source, NEW a, a = migrations[m].agent,
           NEW q, q = prefixes'[s][a], q # 0,
           \/ q = migrations[m].epoch /\ (LiveMigration(m) \/ MigrationState(m) = "RECOVERED")
           \/ q = migrations[m].epoch + 2 /\ MigrationState(m) \in {"COMMITTED", "RECOVERED"}
    PROVE  PinFits(s, a, q)'
<1> DEFINE row == migrations[m]
           from == MigrationState(m)
           to == MigrationState(m)'
<1>1. /\ a \in Agents /\ s \in Engines /\ row.epoch \in 1..MaxEpoch
      /\ migrations'[m].agent = a /\ migrations'[m].source = s
      /\ migrations'[m].epoch = row.epoch
  BY RowInUse DEF Moves
<1>2. m \in MigrationsOf(a) /\ m \in MigrationsOf(a)'
  BY <1>1 DEF MigrationsOf
<1>3. StateMoves(m)
  BY RowsMove DEF Moves
<1>4. CASE \/ q = row.epoch /\ to \in {"PREPARING", "COPYING", "DEST_READY", "COMMITTED",
                                         "RECOVERED"}
           \/ q = row.epoch + 2 /\ to \in {"COMMITTED", "RECOVERED"}
  <2>1. AccountsFor(m, s, q)'
    BY <1>1, <1>4 DEF AccountsFor, LiveMigration, LiveStates, MigrationState
  <2>2. QED
    BY <1>2, <2>1 DEF PinFits
<1>5. CASE Aborts(m)
  <2>1. q = row.epoch /\ m \in Unfinished /\ agents' = agents
    BY <1>5 DEF Aborts, Unfinished, transition_migration
  <2>2. StartedFrom(m)
    BY <2>1 DEF StartsFit
  <2>3. CASE agents[a].owner = s /\ agents[a].epoch = row.epoch
    BY <1>1, <2>1, <2>3, LeasePinsFit
  <2>4. ASSUME NEW n \in MigrationsOf(a), MigrationState(n) = "RECOVERED",
               migrations[n].destination = s, migrations[n].epoch + 1 = row.epoch
        PROVE  PinFits(s, a, q)'
    <3>1. n \in Migrations /\ MigrationState(n)' = "RECOVERED"
      BY <2>4, HandoversStay DEF MigrationsOf, Moves
    <3>2. /\ migrations'[n].agent = a /\ migrations'[n].destination = s
          /\ migrations'[n].epoch + 1 = q
      BY <2>1, <2>4, <3>1, RowInUse DEF MigrationsOf, Moves
    <3>3. n \in MigrationsOf(a)' /\ AccountsFor(n, s, q)'
      BY <3>1, <3>2 DEF MigrationsOf, AccountsFor, MigrationState
    <3>4. QED
      BY <3>3 DEF PinFits
  <2>5. QED
    BY <2>2, <2>3, <2>4 DEF StartedFrom
<1>6. CASE from = "COMMITTED" /\ to = "SOURCE_RELEASED" /\ \E x \in Engines : acking[x] = m
  <2>1. PICK x \in Engines : acking[x] = m
    BY <1>6
  <2>2. m # None
    BY ProtocolAssumption
  <2>3. s = x /\ prefixes[s][a] = 0
    BY <1>6, <2>1, <2>2 DEF AcksFit, MigrationState
  <2>4. LiveMigration(m) /\ ~TakesPin(m)
    BY <1>6, PinWriters DEF LiveMigration, LiveStates
  <2>5. 0 \notin {row.epoch, row.epoch + 2}
    BY <1>1, ProtocolAssumption
  <2>6. ~Rebinds(m)
    BY <2>3, <2>5 DEF Rebinds
  <2>7. q = 0
    BY <2>3, <2>4, <2>6, SourcePinMoves
  <2>8. QED
    BY <2>7
<1>7. ~Inserts(m)
  BY DEF Inserts, TasksFit, TaskFits, ProtocolInv, MigrationState
<1>8. QED
  BY <1>3, <1>4, <1>5, <1>6, <1>7 DEF StateMoves, LiveMigration, LiveStates

\* The pin at the destination of a migration stays accounted for: it is not aborted
\* before its destination has dropped the pin, and it leaves the pin to its lease.
LEMMA DestinationPinsFit ==
    ASSUME ProtocolInv, ProtocolInv', Moves, faults' = 0, NEW m \in Migrations,
           NEW d, d = migrations[m].destination, NEW a, a = migrations[m].agent,
           NEW q, q = prefixes'[d][a], q = migrations[m].epoch + 1,
           \/ MigrationState(m) \in {"DEST_READY", "COMMITTED", "RECOVERED"}
           \/ MigrationState(m) = "COPYING" /\ KeepsCopy(task[m])
    PROVE  PinFits(d, a, q)'
<1> DEFINE row == migrations[m]
           from == MigrationState(m)
           to == MigrationState(m)'
<1>1. /\ a \in Agents /\ d \in Engines /\ row.epoch \in 1..MaxEpoch
      /\ migrations'[m].agent = a /\ migrations'[m].destination = d
      /\ migrations'[m].epoch = row.epoch
  BY RowInUse DEF Moves
<1>2. m \in MigrationsOf(a)'
  BY <1>1 DEF MigrationsOf
<1>3. StateMoves(m) /\ TaskFits(m) /\ TaskFits(m)' /\ TaskMove(m)
  BY RowsMove DEF ProtocolInv, TasksFit, Moves
<1>4. CASE to \in {"DEST_READY", "COMMITTED", "RECOVERED"}
  <2>1. AccountsFor(m, d, q)'
    BY <1>1, <1>4 DEF AccountsFor, MigrationState
  <2>2. QED
    BY <1>2, <2>1 DEF PinFits
<1>5. CASE to = "COPYING" /\ from = "COPYING"
  <2>1. KeepsCopy(task'[m])
    BY <1>1, <1>3, <1>5 DEF TaskMove, TaskFits, MigrationState
  <2>2. AccountsFor(m, d, q)'
    BY <1>1, <1>5, <2>1 DEF AccountsFor, KeepsCopy, Running, MigrationState
  <2>3. QED
    BY <1>2, <2>2 DEF PinFits
<1>6. CASE to = "ABORTED" /\ Aborts(m)
  <2>1. m \in Unfinished /\ prefixes'[d][a] = row.epoch + 1
    BY <1>6 DEF Aborts
  <2>2. from \in {"COPYING", "DEST_READY"}
    BY <2>1 DEF Unfinished
  <2>3. ~(task[m].pc \in {"pin", "group", "startDestination", "startSource"})
    BY <1>3, <2>2 DEF TaskFits, KeepsCopy, ReturnedStates, MigrationState
  <2>4. ~(task[m].pc = "cleanup" /\ task[m].failed)
    BY <1>3, <2>2 DEF TaskFits, KeepsCopy, ReturnedStates, MigrationState
  <2>5. QED
    BY <1>6, <2>1, <2>3, <2>4 DEF Aborts
<1>7. CASE from = "COMMITTED" /\ to = "SOURCE_RELEASED"
  <2>1. agents[a].owner = d /\ agents[a].epoch = q
    BY <1>7 DEF ProtocolInv, RowsInv, StoreInv, CommittedLeaseIsCurrent
  <2>2. QED
    BY <1>1, <2>1, LeasePinsFit
<1>8. QED
  BY <1>3, <1>4, <1>5, <1>6, <1>7 DEF StateMoves, Aborts, Unfinished

\* Every pin stays accounted for.
LEMMA PinsStep ==
    ASSUME ProtocolInv, ProtocolInv', Moves, AcksFit, StartsFit, PinsFit
    PROVE  PinsFit'
<1> SUFFICES ASSUME faults' = 0, NEW e \in Engines, NEW a \in Agents,
                    NEW q, q = prefixes'[e][a], q # 0
             PROVE  PinFits(e, a, q)'
  BY DEF PinsFit, PinFits, AccountsFor
<1>1. faults = 0
  BY DEF Moves, CallsMove, ProtocolInv, ControllerTyped
<1>2. PinFits(e, a, q)
  BY <1>1, WrittenPinsFit
<1>3. CASE e = agents[a].owner /\ q = agents[a].epoch
  BY <1>3, LeasePinsFit
<1>4. ASSUME NEW m \in MigrationsOf(a), AccountsFor(m, e, q)
      PROVE  PinFits(e, a, q)'
  <2>1. m \in Migrations /\ migrations[m].agent = a
    BY DEF MigrationsOf
  <2>2. CASE \/ e = migrations[m].source /\ q = migrations[m].epoch
                /\ (LiveMigration(m) \/ MigrationState(m) = "RECOVERED")
             \/ e = migrations[m].source /\ q = migrations[m].epoch + 2
                /\ MigrationState(m) \in {"COMMITTED", "RECOVERED"}
    <3>1. MigrationState(m) # "NONE"
      BY <2>2 DEF LiveMigration, LiveStates
    <3>2. QED
      BY <1>1, <2>1, <2>2, <3>1, SourcePinsFit
  <2>3. CASE /\ e = migrations[m].destination /\ q = migrations[m].epoch + 1
             /\ \/ MigrationState(m) \in {"DEST_READY", "COMMITTED", "RECOVERED"}
                \/ MigrationState(m) = "COPYING" /\ KeepsCopy(task[m])
    BY <2>1, <2>3, DestinationPinsFit
  <2>4. QED
    BY <1>4, <2>2, <2>3 DEF AccountsFor, KeepsCopy, Running, MigrationState
<1>5. QED
  BY <1>2, <1>3, <1>4 DEF PinFits

\* Every pin belongs to a lease that is held, may come to be held, or was recovered from
\* (PinsAccountedFor), as long as no release is lost: no abort, acknowledgement, crash,
\* reconciliation or recovery leaves a pin that no later call could release or use.
THEOREM NoPinIsForgotten == ProtocolSpec => []PinsAccountedFor
<1> DEFINE Inv == ProtocolInv /\ AcksFit /\ StartsFit /\ PinsFit
<1>1. ProtocolInit => Inv
  <2>1. ProtocolInit => AcksFit
    BY DEF ProtocolInit, AcksFit
  <2>2. ProtocolInit => StartsFit
    BY DEF ProtocolInit, NoMigration, StartsFit, Unfinished, MigrationState
  <2>3. ProtocolInit => PinsFit
    BY DEF ProtocolInit, PM!PrefixInit, PinsFit
  <2>4. QED
    BY <2>1, <2>2, <2>3, ProtocolInvInit
<1>2. Inv /\ [ProtocolNext]_protocolVars => Inv'
  BY ProtocolInvStep, AcksStep, StartsStep, PinsStep DEF KeepsControl
<1>3. Inv => PinsAccountedFor
  <2> SUFFICES ASSUME PinsFit, faults = 0, NEW e \in Engines, NEW a \in Agents,
                      prefixes[e][a] # 0
               PROVE  \/ e = agents[a].owner /\ prefixes[e][a] = agents[a].epoch
                      \/ \E m \in MigrationsOf(a) :
                            /\ LiveMigration(m) \/ MigrationState(m) = "RECOVERED"
                            /\ \/ /\ e = migrations[m].destination
                                  /\ prefixes[e][a] = migrations[m].epoch + 1
                               \/ /\ e = migrations[m].source
                                  /\ prefixes[e][a] \in {migrations[m].epoch,
                                                         migrations[m].epoch + 2}
    BY DEF PinsAccountedFor
  <2>1. PinFits(e, a, prefixes[e][a])
    BY DEF PinsFit
  <2>2. QED
    BY <2>1 DEF PinFits, AccountsFor, LiveMigration, LiveStates, MigrationState
<1>4. QED
  BY <1>1, <1>2, <1>3, PTL DEF ProtocolSpec

-----------------------------------------------------------------------------
(* Rows stay own: the engine locks pair up what the untagged messages cannot. *)

Quiet == faults = 0 /\ crashes = 0 /\ resets = 0 /\ overlaps = 0

\* A call holds the locks it has awaited.
CallLocked(m) ==
    /\ task[m].pc = "lock2" => engineLock[First(m)] = m
    /\ HoldsRow(m) => /\ engineLock[task[m].source] = m
                      /\ engineLock[task[m].destination] = m

CallsLocked == \A m \in Migrations : CallLocked(m)

\* The records of a pair that wait for a copy at one of its engines.
PendingAt(e, role, p) ==
    {m \in Migrations : /\ transfers[e][m].state \in {"QUEUED", "COPYING"}
                        /\ transfers[e][m].role = role
                        /\ transfers[e][m].pair = p}

Sources(p) == PendingAt(p[1], "source", p)
Destinations(p) == PendingAt(p[2], "destination", p)

PairOf(m) == <<migrations[m].source, migrations[m].destination>>

\* No source of a pair waits without a destination: an abandoned call may leave a
\* destination behind, and a later source is then matched with that one.
CopiesPaired ==
    \A p \in Pairs :
        /\ Cardinality(Sources(p)) <= Cardinality(Destinations(p))
        /\ \A m \in Migrations : task[m].pc = "startSource" /\ PairOf(m) = p =>
              Cardinality(Sources(p)) < Cardinality(Destinations(p))

\* The record of a call is the last of its engine.
LastAt(e, m) ==
    LET state == transfers[e][m].state IN
    /\ state \in {"QUEUED", "COPYING", "COPY_DONE", "COMPLETE"}
    /\ state = "QUEUED" => queue[e] # <<>> /\ queue[e][Len(queue[e])] = m
    /\ state # "QUEUED" =>
          /\ queue[e] = <<>>
          /\ \A n \in Migrations \ {m} : transfers[e][n].state # "COPYING"

\* What a call knows of its copy while it may still install it.
CopyFits(m) ==
    LET row == migrations[m]
        pc == task[m].pc
    IN
    /\ row.state = "COPYING" \/ pc = "group" => prefixes[row.source][row.agent] = row.epoch
    /\ row.state = "COPYING" => Running(m)
    /\ pc \in {"startSource", "wait"} =>
          /\ LastAt(row.destination, m)
          /\ transfers[row.destination][m].state = "COPY_DONE" =>
                transfers[row.destination][m].rows = "own"
    /\ pc = "startSource" => transfers[row.source][m].state = "NONE"
    /\ pc = "wait" => LastAt(row.source, m)

CopiesFit ==
    Quiet => VisibleRowsAreOwn /\ CopiesPaired /\ \A m \in Migrations : CopyFits(m)

-----------------------------------------------------------------------------
(* What a step may do to the locks. *)

\* A call goes on with its locks, or ends and gives them back.
GoesOn(m) ==
    /\ HoldsRow(m) /\ HoldsRow(m)'
    /\ engineLock' = engineLock
    /\ \A n \in Migrations \ {m} : task'[n] = task[n]
    /\ task'[m].source = task[m].source /\ task'[m].destination = task[m].destination

Ends(m) ==
    /\ engineLock' = Unlocked(m)
    /\ \A n \in Migrations \ {m} : task'[n] = task[n]
    /\ task'[m].pc \in ReturnedStates
    /\ MigrationState(m)' # "COPYING"

CallStep(m) == GoesOn(m) \/ Ends(m)

\* The lock of a call is not taken from it by another.
LEMMA CallStepLocks ==
    ASSUME ProtocolInv, CallsLocked, NEW m \in Migrations, CallStep(m)
    PROVE  CallsLocked'
<1> SUFFICES ASSUME NEW n \in Migrations PROVE CallLocked(n)'
  BY DEF CallsLocked
<1>1. /\ CallLocked(n)
      /\ engineLock \in [Engines -> Migrations \cup {None}]
      /\ task[n] \in Calls /\ TaskFits(n)
  BY DEF CallsLocked, ProtocolInv, ControllerTyped, TasksFit
<1>2. task[n].pc = "lock2" \/ HoldsRow(n) =>
         task[n].source \in Engines /\ task[n].destination \in Engines
  <2>1. CASE HoldsRow(n)
    BY <2>1, RowOfCall
  <2>2. CASE task[n].pc = "lock2"
    BY <1>1, <2>2, ProtocolAssumption DEF TaskFits
  <2>3. QED
    BY <2>1, <2>2
<1>3. CASE n = m
  BY <1>1, <1>3 DEF CallStep, GoesOn, Ends, CallLocked, HoldsRow, ReturnedStates
<1>4. CASE n # m
  <2>1. task'[n] = task[n]
    BY <1>4 DEF CallStep, GoesOn, Ends
  <2>2. ASSUME NEW e \in Engines, engineLock[e] = n PROVE engineLock'[e] = n
    BY <1>4, <2>2 DEF CallStep, GoesOn, Ends, Unlocked
  <2>3. First(n)' = First(n) /\ (HoldsRow(n)' <=> HoldsRow(n))
    BY <2>1 DEF First, HoldsRow
  <2>4. First(n) \in {task[n].source, task[n].destination}
    BY DEF First
  <2>5. QED
    BY <1>1, <1>2, <2>1, <2>2, <2>3, <2>4 DEF CallLocked
<1>5. QED
  BY <1>3, <1>4

\* Nor by one that takes a lock.
LEMMA AcquisitionsLock ==
    ASSUME ProtocolInv, CallsLocked, NEW m \in Migrations,
           \/ \E a \in Agents, d \in Engines : migrate(m, a, d)
           \/ acquire_first_lock(m)
           \/ acquire_second_lock(m)
    PROVE  /\ CallsLocked'
           /\ task'[m].pc \notin {"startSource", "wait"}
           /\ \A n \in Migrations \ {m} : task'[n] = task[n]
           /\ Running(m) /\ ~Running(m)' => MigrationState(m)' # "COPYING"
<1> DEFINE t == task[m]
<1>1. /\ engineLock \in [Engines -> Migrations \cup {None}]
      /\ task \in [Migrations -> Calls] /\ TaskFits(m) /\ CallLocked(m)
  BY DEF CallsLocked, ProtocolInv, ControllerTyped, TasksFit
<1>2. None \notin Migrations
  BY ProtocolAssumption
<1>3. /\ \A n \in Migrations \ {m} : task'[n] = task[n]
      /\ \A e \in Engines : engineLock[e] \notin {None, m} => engineLock'[e] = engineLock[e]
      /\ CallLocked(m)'
      /\ task'[m].pc \notin {"startSource", "wait"}
      /\ Running(m) /\ ~Running(m)' => MigrationState(m)' # "COPYING"
  <2>1. CASE \E a \in Agents, d \in Engines : migrate(m, a, d)
    <3>1. PICK u \in [pc : {"lock1"}, agent : Agents, source : Engines, destination : Engines,
                      epoch : {0}, src : {"wait"}, dst : {"wait"}, failed : {FALSE}] :
             task' = [task EXCEPT ![m] = u] /\ UNCHANGED engineLock
      <4>1. PICK a \in Agents, d \in Engines : migrate(m, a, d)
        BY <2>1
      <4>2. agents[a].owner \in Engines
        BY DEF ProtocolInv, RowsInv, Registered, StoreInv, StoreTypeOK, AgentRows
      <4>3. QED
        BY <4>1, <4>2 DEF migrate, Idle
    <3>2. task'[m] = u /\ u.pc = "lock1" /\ engineLock' = engineLock
      BY <1>1, <3>1
    <3>3. Running(m)'
      BY <3>2 DEF Running, ReturnedStates
    <3>4. QED
      BY <1>1, <3>1, <3>2, <3>3 DEF CallLocked, HoldsRow
  <2>2. CASE acquire_first_lock(m)
    <3>1. /\ t.pc = "lock1" /\ engineLock[First(m)] = None
          /\ engineLock' = [engineLock EXCEPT ![First(m)] = m]
          /\ task' = [task EXCEPT ![m].pc = "lock2"]
      BY <2>2 DEF acquire_first_lock, LockFree
    <3>2. /\ task'[m] = [t EXCEPT !.pc = "lock2"] /\ task'[m].pc = "lock2"
          /\ task'[m].source = t.source /\ task'[m].destination = t.destination
      BY <1>1, <3>1 DEF Calls
    <3>3. First(m)' = First(m) /\ First(m) \in Engines
      BY <1>1, <3>1, <3>2, ProtocolAssumption DEF First, TaskFits
    <3>4. Running(m)' /\ CallLocked(m)'
      BY <1>1, <3>1, <3>2, <3>3 DEF Running, ReturnedStates, CallLocked, HoldsRow
    <3>5. QED
      BY <1>1, <3>1, <3>2, <3>4
  <2>3. CASE acquire_second_lock(m)
    <3>1. t.pc = "lock2" /\ engineLock[Second(m)] = None /\ MigrationState(m) = "NONE"
      BY <1>1, <2>3 DEF acquire_second_lock, LockFree, TaskFits, MigrationState
    <3>2. engineLock[First(m)] = m /\ t.source \in Engines /\ t.destination \in Engines
      BY <1>1, <3>1, ProtocolAssumption DEF CallLocked, TaskFits
    <3>3. CASE /\ task' = [task EXCEPT ![m] =
                      [@ EXCEPT !.pc = IF agents[t.agent].owner = t.destination
                                       THEN "failed" ELSE "lock1",
                                !.source = agents[t.agent].owner]]
               /\ engineLock' = Unlocked(m)
               /\ UNCHANGED storeVars
      <4>1. task'[m].pc \in {"failed", "lock1"} /\ MigrationState(m)' = "NONE"
        BY <1>1, <3>1, <3>3 DEF Calls, storeVars, MigrationState
      <4>2. QED
        BY <1>1, <3>3, <4>1 DEF Unlocked, CallLocked, HoldsRow
    <3>4. CASE Raise(m)
      <4>1. /\ task'[m].pc = "failed" /\ MigrationState(m)' = "NONE"
            /\ engineLock' = Unlocked(m) /\ task' = [task EXCEPT ![m].pc = "failed"]
        BY <1>1, <3>1, <3>4 DEF Raise, Calls, storeVars, MigrationState
      <4>2. QED
        BY <1>1, <4>1 DEF Unlocked, CallLocked, HoldsRow
    <3>5. CASE /\ engineLock' = [engineLock EXCEPT ![Second(m)] = m]
               /\ task' = [task EXCEPT ![m] =
                      [@ EXCEPT !.pc = "pin", !.epoch = agents[t.agent].epoch]]
      <4>1. /\ task'[m].pc = "pin"
            /\ task'[m].source = t.source /\ task'[m].destination = t.destination
        BY <1>1, <3>5 DEF Calls
      <4>2. /\ {First(m), Second(m)} = {t.source, t.destination}
        BY DEF First, Second
      <4>3. engineLock'[First(m)] = m /\ engineLock'[Second(m)] = m
        BY <1>1, <1>2, <3>1, <3>2, <3>5, <4>2
      <4>4. CallLocked(m)' /\ Running(m)'
        BY <4>1, <4>2, <4>3 DEF CallLocked, HoldsRow, Running, ReturnedStates
      <4>5. QED
        BY <1>1, <3>1, <3>5, <4>1, <4>4
    <3>6. QED
      BY <2>3, <3>3, <3>4, <3>5 DEF acquire_second_lock
  <2>4. QED
    BY <2>1, <2>2, <2>3
<1>4. ASSUME NEW n \in Migrations \ {m} PROVE CallLocked(n)'
  <2>1. /\ CallLocked(n) /\ task'[n] = task[n] /\ TaskFits(n)
    BY <1>3 DEF CallsLocked, ProtocolInv, TasksFit
  <2>2. task[n].pc = "lock2" \/ HoldsRow(n) =>
           task[n].source \in Engines /\ task[n].destination \in Engines
    <3>1. CASE HoldsRow(n)
      BY <3>1, RowOfCall
    <3>2. CASE task[n].pc = "lock2"
      BY <2>1, <3>2, ProtocolAssumption DEF TaskFits
    <3>3. QED
      BY <3>1, <3>2
  <2>3. First(n)' = First(n) /\ (HoldsRow(n)' <=> HoldsRow(n))
    BY <2>1 DEF First, HoldsRow
  <2>4. First(n) \in {task[n].source, task[n].destination}
    BY DEF First
  <2>5. QED
    BY <1>2, <1>3, <2>1, <2>2, <2>3, <2>4 DEF CallLocked
<1>5. QED
  BY <1>3, <1>4 DEF CallsLocked

-----------------------------------------------------------------------------
(* What a step may do to the copies, as long as nothing is lost and nothing dies. *)

\* No row of another prefix becomes visible.
SameRows ==
    \A e \in Engines, a \in Agents : cache'[e][a] = "other" => cache[e][a] = "other"

SameCopies == UNCHANGED <<transfers, queue>> /\ SameRows

\* No call comes to wait for a copy.
NoneStarts ==
    \A m \in Migrations :
        task'[m].pc \in {"startSource", "wait"} => task[m].pc = task'[m].pc

\* A call starts one side of its copy.
Enqueues(e, m, role) ==
    LET u == transfers'[e][m] IN
    /\ \/ /\ role = "destination" /\ e = migrations[m].destination
          /\ task[m].pc = "startDestination" /\ task'[m].pc = "startSource"
       \/ /\ role = "source" /\ e = migrations[m].source
          /\ task[m].pc = "startSource" /\ task'[m].pc = "wait"
    /\ \A n \in Migrations \ {m} : task'[n] = task[n]
    /\ WritesRecord(e, m)
    /\ transfers[e][m].state = "NONE"
    /\ u.state = "QUEUED" /\ u.role = role /\ u.pair = PairOf(m)
    /\ queue'[e] = Append(queue[e], m)
    /\ \A x \in Engines \ {e} : queue'[x] = queue[x]
    /\ SameRows

\* A worker takes the oldest record.
Dequeues(e) ==
    LET m == Head(queue[e]) IN
    /\ queue[e] # <<>>
    /\ \A n \in Migrations : transfers[e][n].state # "COPYING"
    /\ WritesRecord(e, m)
    /\ transfers'[e][m] = [transfers[e][m] EXCEPT !.state = "COPYING"]
    /\ queue'[e] = Tail(queue[e])
    /\ \A x \in Engines \ {e} : queue'[x] = queue[x]
    /\ SameRows

\* The workers of a pair finish a copy.
Matches(p, m, n) ==
    LET s == p[1]
        d == p[2]
        a == transfers[s][m].agent
        u == transfers'[d][n]
    IN
    /\ transfers[s][m].state = "COPYING" /\ transfers[s][m].role = "source"
    /\ transfers[d][n].state = "COPYING" /\ transfers[d][n].role = "destination"
    /\ transfers[s][m].pair = p /\ transfers[d][n].pair = p
    /\ transfers'[s][m].state = "COMPLETE"
    /\ u.state = "COPY_DONE"
    /\ a = transfers[d][n].agent /\ cache[s][a] = "own" => u.rows = "own"
    /\ \A x \in Engines, k \in Migrations : <<x, k>> \notin {<<s, m>>, <<d, n>>} =>
          transfers'[x][k] = transfers[x][k]
    /\ UNCHANGED queue /\ SameRows

\* A call installs its copy.
InstallsCopy(m) ==
    LET d == migrations[m].destination IN
    /\ task[m].pc = "wait"
    /\ WritesRecord(d, m)
    /\ transfers[d][m].state = "COPY_DONE" /\ transfers'[d][m].state = "COMPLETE"
    /\ transfers[d][m].rows = "own" => SameRows
    /\ UNCHANGED queue

\* A call, or a reconciliation, drops a record that is over.
DropsRecord(e, m) ==
    /\ task[m].pc \notin {"startSource", "wait"}
    /\ WritesRecord(e, m)
    /\ transfers[e][m].state \in {"COMPLETE", "FAILED"} /\ transfers'[e][m].state = "NONE"
    /\ UNCHANGED queue /\ SameRows

CopyMove ==
    \/ SameCopies
    \/ \E e \in Engines : Dequeues(e)
    \/ \E p \in Pairs, m, n \in Migrations : Matches(p, m, n)
    \/ \E m \in Migrations : InstallsCopy(m)
    \/ \E e \in Engines, m \in Migrations : DropsRecord(e, m)

CopyStep ==
    \/ NoneStarts /\ CopyMove
    \/ \E e \in Engines, m \in Migrations, role \in {"source", "destination"} :
          Enqueues(e, m, role)

\* Of the rows of one engine only an agent's own is written, or one is evicted.
LEMMA RowsWritten ==
    ASSUME PMP!PrefixInv, NEW e \in Engines, NEW a \in Agents, NEW row,
           cache' = [cache EXCEPT ![e][a] = row], row # "other"
    PROVE  SameRows
BY ManagersTyped DEF SameRows

\* The calls that move no transfer.
LEMMA PinCallsKeepCopies ==
    ASSUME PMP!PrefixInv, NEW e \in Engines, NEW a \in Agents,
           \/ \E epoch : PM!pin(e, a, epoch)
           \/ \E epoch, evicts, missing : PM!release(e, a, epoch, evicts, missing)
           \/ \E old, new : PM!rebind(e, a, old, new)
           \/ \E f \in Engines : PM!init_transfer_group(e, f)
           \/ \E m, epoch, pair : PM!start_transfer_full(e, m, a, epoch, pair)
           \/ PM!prefill(e, a)
           \/ PM!evict(e, a)
    PROVE  SameCopies
<1>1. /\ UNCHANGED <<transfers, queue>>
      /\ \/ UNCHANGED cache
         \/ \E b \in Agents, row \in {"own", "absent"} : cache' = [cache EXCEPT ![e][b] = row]
  BY DEF PM!pin, PM!release, PM!rebind, PM!init_transfer_group, PM!start_transfer_full,
         PM!prefill, PM!evict, PM!Evictable, PM!poolVars, PM!transferVars
<1>2. SameRows
  BY <1>1, RowsWritten DEF SameRows
<1>3. QED
  BY <1>1, <1>2 DEF SameCopies

\* A start that is accepted.
LEMMA StartEnqueues ==
    ASSUME PMP!PrefixInv, NEW e \in Engines, NEW role \in {"source", "destination"},
           NEW m \in Migrations, NEW a \in Agents, NEW epoch, NEW pair,
           transfers[e][m].state = "NONE",
           PM!start_transfer(e, role, m, a, epoch, pair)
    PROVE  /\ WritesRecord(e, m)
           /\ transfers'[e][m].state = "QUEUED" /\ transfers'[e][m].role = role
           /\ transfers'[e][m].pair = pair
           /\ queue'[e] = Append(queue[e], m)
           /\ \A x \in Engines \ {e} : queue'[x] = queue[x]
           /\ SameRows
<1> DEFINE t == [state |-> "QUEUED", role |-> role, agent |-> a, epoch |-> epoch,
                 pair |-> pair, rows |-> IF role = "destination" THEN "blank" ELSE "none"]
<1>1. /\ transfers' = [transfers EXCEPT ![e][m] = t]
      /\ t.state = "QUEUED" /\ t.role = role /\ t.pair = pair
  BY DEF PM!start_transfer, PM!TransferState
<1> HIDE DEF t
<1>2. /\ queue' = [queue EXCEPT ![e] = Append(@, m)]
      /\ \/ UNCHANGED cache
         \/ \E b \in Agents, row \in {"own", "absent"} : cache' = [cache EXCEPT ![e][b] = row]
  BY DEF PM!start_transfer, PM!TransferState, PM!AllocatesRow, PM!Evictable, PM!poolVars
<1>3. SameRows
  BY <1>2, RowsWritten DEF SameRows
<1>4. WritesRecord(e, m) /\ transfers'[e][m] = t
  BY <1>1, ManagersTyped DEF WritesRecord
<1>5. queue \in [Engines -> Seq(Migrations)]
  BY DEF PMP!PrefixInv, PMP!Typed
<1>6. QED
  BY <1>1, <1>2, <1>3, <1>4, <1>5

\* The worker's get.
LEMMA TakeDequeues ==
    ASSUME PMP!PrefixInv, NEW e \in Engines, PM!worker_take(e)
    PROVE  Dequeues(e)
<1> DEFINE m == Head(queue[e])
<1>1. queue \in [Engines -> Seq(Migrations)]
  BY DEF PMP!PrefixInv, PMP!Typed
<1>2. queue[e] # <<>> /\ m \in Migrations
  BY <1>1 DEF PM!worker_take
<1>3. /\ transfers' = [transfers EXCEPT ![e][m].state = "COPYING"]
      /\ queue' = [queue EXCEPT ![e] = Tail(@)]
      /\ UNCHANGED cache
      /\ \A n \in Migrations : transfers[e][n].state # "COPYING"
  BY DEF PM!worker_take, PM!poolVars, PM!Working, PM!TransferState
<1> HIDE DEF m
<1>4. /\ WritesRecord(e, m)
      /\ transfers'[e][m] = [transfers[e][m] EXCEPT !.state = "COPYING"]
  BY <1>2, <1>3, ManagersTyped DEF WritesRecord
<1>5. /\ queue'[e] = Tail(queue[e])
      /\ \A x \in Engines \ {e} : queue'[x] = queue[x]
  BY <1>1, <1>3
<1>6. SameRows
  BY <1>3 DEF SameRows
<1>7. QED
  BY <1>2, <1>3, <1>4, <1>5, <1>6 DEF Dequeues, m

\* The copy itself.
LEMMA CopyPairs ==
    ASSUME PMP!PrefixInv, NEW p \in Pairs, NEW m \in Migrations, NEW n \in Migrations,
           PM!copy_kv(p[1], p[2], m, n)
    PROVE  Matches(p, m, n)
<1> DEFINE s == p[1]
           d == p[2]
           rows == IF /\ transfers[s][m].agent = transfers[d][n].agent
                      /\ cache[s][transfers[s][m].agent] = "own"
                   THEN "own" ELSE "other"
<1>1. s \in Engines /\ d \in Engines /\ s # d /\ p = <<s, d>>
  BY ProtocolAssumption
<1>2. /\ transfers[s][m].state = "COPYING" /\ transfers[s][m].role = "source"
      /\ transfers[d][n].state = "COPYING" /\ transfers[d][n].role = "destination"
      /\ transfers[s][m].pair = p /\ transfers[d][n].pair = p
      /\ UNCHANGED <<queue, cache>>
  BY <1>1 DEF PM!copy_kv, PM!AtWorker, PM!TransferState, PM!poolVars
<1>3. transfers' = [transfers EXCEPT ![s][m].state = "COMPLETE",
             ![d][n] = [@ EXCEPT !.state = "COPY_DONE", !.rows = rows]]
  BY DEF PM!copy_kv
<1>4. /\ transfers[s][m] \in PM!Transfers /\ transfers[d][n] \in PM!Transfers
      /\ transfers \in [Engines -> [Migrations -> PM!Transfers]]
  BY <1>1, ManagersTyped
<1>5. SameRows
  BY <1>2 DEF SameRows
<1> HIDE DEF s, d, rows
<1>6. /\ transfers'[s][m] = [transfers[s][m] EXCEPT !.state = "COMPLETE"]
      /\ transfers'[d][n] = [transfers[d][n] EXCEPT !.state = "COPY_DONE", !.rows = rows]
      /\ \A x \in Engines, k \in Migrations : <<x, k>> \notin {<<s, m>>, <<d, n>>} =>
            transfers'[x][k] = transfers[x][k]
  BY <1>1, <1>3, <1>4
<1>7. /\ transfers'[s][m].state = "COMPLETE"
      /\ transfers'[d][n].state = "COPY_DONE" /\ transfers'[d][n].rows = rows
  BY <1>4, <1>6 DEF PM!Transfers
<1>8. QED
  BY <1>2, <1>5, <1>6, <1>7 DEF s, d, rows, Matches

\* A poll installs the rows of its record, or moves nothing.
LEMMA PollInstalls ==
    ASSUME PMP!PrefixInv, NEW e \in Engines, NEW m \in Migrations,
           transfers[e][m].agent \in Agents, PM!poll_transfer(e, m)
    PROVE  LET t == transfers[e][m] IN
           \/ SameCopies
           \/ /\ t.state = "COPY_DONE" /\ transfers'[e][m].state = "COMPLETE"
              /\ WritesRecord(e, m)
              /\ t.rows = "own" => SameRows
              /\ UNCHANGED queue
<1> DEFINE t == transfers[e][m]
<1>1. CASE t.state # "COPY_DONE"
  BY <1>1 DEF PM!poll_transfer, PM!TransferState, PM!poolVars, SameCopies, SameRows
<1>2. CASE t.state = "COPY_DONE"
  <2>1. UNCHANGED cache \/ cache' = [cache EXCEPT ![e][t.agent] = t.rows]
    BY <1>2 DEF PM!poll_transfer, PM!TransferState, PM!install
  <2>2. t.rows = "own" => SameRows
    BY <2>1, RowsWritten DEF SameRows
  <2>3. WritesRecord(e, m) /\ transfers'[e][m] = [t EXCEPT !.state = "COMPLETE", !.rows = "none"]
    BY <1>2, PollEffect
  <2>4. t \in PM!Transfers
    BY ManagersTyped
  <2>5. transfers'[e][m].state = "COMPLETE"
    BY <2>3, <2>4 DEF PM!Transfers
  <2>6. QED
    BY <1>2, <2>2, <2>3, <2>5 DEF PM!poll_transfer
<1>3. QED
  BY <1>1, <1>2

\* A cleanup drops one record.
LEMMA CleanupDrops ==
    ASSUME PMP!PrefixInv, NEW e \in Engines, NEW m \in Migrations, PM!cleanup_transfer(e, m),
           task[m].pc \notin {"startSource", "wait"}
    PROVE  DropsRecord(e, m)
<1>1. /\ WritesRecord(e, m) /\ transfers'[e][m].state = "NONE"
  BY CleanupEffect
<1>2. UNCHANGED <<queue, cache>> /\ transfers[e][m].state \in {"COMPLETE", "FAILED"}
  BY DEF PM!cleanup_transfer, PM!CleanupAllowed, PM!TransferState, PM!TerminalStates
<1>3. QED
  BY <1>1, <1>2 DEF DropsRecord, SameRows

-----------------------------------------------------------------------------
(* What each action does to the locks and to the copies. *)

\* A step in which no RPC is lost and nothing fails or dies.
CallMoves(m) == CallStep(m) /\ (faults' = 0 => CopyStep)

\* The engines rest.
LEMMA CopiesRest == ASSUME UNCHANGED engineVars PROVE SameCopies
BY DEF engineVars, SameCopies, SameRows

\* A call that raises ends.
LEMMA RaiseEnds ==
    ASSUME ProtocolInv, NEW m \in Migrations, Raise(m)
    PROVE  Ends(m) /\ NoneStarts
<1>1. /\ task \in [Migrations -> Calls] /\ migrations \in [Migrations -> MigrationRows]
  BY DEF ProtocolInv, ControllerTyped, RowsInv, StoreInv, StoreTypeOK
<1>2. /\ task' = [task EXCEPT ![m].pc = "failed"] /\ engineLock' = Unlocked(m)
  BY DEF Raise
<1>3. /\ \A n \in Migrations \ {m} : task'[n] = task[n]
      /\ task'[m].pc = "failed"
  BY <1>1, <1>2 DEF Calls
<1>4. MigrationState(m)' # "COPYING"
  <2>1. CASE MigrationState(m) \in {"PREPARING", "COPYING"}
    BY <1>1, <2>1 DEF Raise, transition_migration, MigrationState, MigrationRows
  <2>2. CASE MigrationState(m) \notin {"PREPARING", "COPYING"}
    BY <2>2 DEF Raise, storeVars, MigrationState
  <2>3. QED
    BY <2>1, <2>2
<1>5. QED
  BY <1>2, <1>3, <1>4 DEF Ends, NoneStarts, ReturnedStates

\* A call that goes on in another state keeps its locks.
LEMMA MovedGoesOn ==
    ASSUME ProtocolInv, NEW m \in Migrations, HoldsRow(m),
           NEW pc \in {"pin", "group", "startDestination", "startSource", "wait",
                       "release", "cleanup", "commit"},
           task' = [task EXCEPT ![m].pc = pc], UNCHANGED engineLock
    PROVE  /\ GoesOn(m) /\ task'[m].pc = pc
           /\ pc \notin {"startSource", "wait"} \/ task[m].pc = pc => NoneStarts
<1>1. task \in [Migrations -> Calls]
  BY DEF ProtocolInv, ControllerTyped
<1>2. /\ \A n \in Migrations \ {m} : task'[n] = task[n]
      /\ task'[m] = [task[m] EXCEPT !.pc = pc] /\ task'[m].pc = pc
      /\ task'[m].source = task[m].source /\ task'[m].destination = task[m].destination
  BY <1>1 DEF Calls
<1>3. HoldsRow(m)'
  BY <1>2 DEF HoldsRow
<1>4. QED
  BY <1>2, <1>3 DEF GoesOn, NoneStarts

\* The pin: one RPC of the owner.
LEMMA PinSourceMoves ==
    ASSUME ProtocolInv, NEW m \in Migrations, pin_source(m)
    PROVE  CallMoves(m)
<1> DEFINE t == task[m]
           call == PM!pin(t.source, t.agent, t.epoch)
<1>1. HoldsRow(m)
  BY DEF pin_source, HoldsRow
<1>2. t.source \in Engines /\ t.agent \in Agents
  BY <1>1, RowOfCall
<1>3. \/ Rpc(PM!PinAllowed(t.source, t.agent, t.epoch), call, Goto(m, "group"), Raise(m))
      \/ PinFails(t.source, t.agent) /\ Raise(m)
  BY DEF pin_source
<1>4. call => SameCopies
  BY <1>2, PinCallsKeepCopies DEF ProtocolInv
<1> HIDE DEF call
<1>5. /\ Goto(m, "group") \/ Raise(m)
      /\ call \/ UNCHANGED engineVars \/ PinFails(t.source, t.agent)
  BY <1>3 DEF Rpc
<1>6. SameCopies
  <2>1. PinFails(t.source, t.agent) => SameCopies
    BY DEF PinFails, PM!pin_fails, PM!poolVars, PM!transferVars, SameCopies, SameRows
  <2>2. QED
    BY <1>4, <1>5, <2>1, CopiesRest
<1>7. Goto(m, "group") => GoesOn(m) /\ NoneStarts
  BY <1>1, MovedGoesOn DEF Goto
<1>8. QED
  BY <1>5, <1>6, <1>7, RaiseEnds DEF CallMoves, CallStep, CopyStep, CopyMove

\* The group: none, or one rendezvous.
LEMMA EnsureGroupMoves ==
    ASSUME ProtocolInv, NEW m \in Migrations, ensure_group(m)
    PROVE  CallMoves(m)
<1> DEFINE pair == <<task[m].source, task[m].destination>>
           call == PM!init_transfer_group(pair[1], pair[2])
           answered == StartCopying(m) /\ established' = established \cup {pair}
           raised == Raise(m) /\ UNCHANGED established
<1>1. HoldsRow(m)
  BY DEF ensure_group, HoldsRow
<1>2. pair[1] \in Engines /\ pair[2] \in Engines /\ Agents # {}
  BY <1>1, RowOfCall
<1>3. \/ StartCopying(m) /\ UNCHANGED engineVars
      \/ Rpc(PM!InitGroupAllowed(pair[1], pair[2]), call, answered, raised)
  BY DEF ensure_group
<1>4. call => SameCopies
  BY <1>2, PinCallsKeepCopies DEF ProtocolInv
<1> HIDE DEF call
<1>5. /\ StartCopying(m) \/ Raise(m)
      /\ call \/ UNCHANGED engineVars
  <2>1. CASE Rpc(PM!InitGroupAllowed(pair[1], pair[2]), call, answered, raised)
    <3> HIDE DEF answered, raised
    <3>1. answered \/ raised
      BY <2>1, RpcOutcomes DEF ProtocolInv, ControllerTyped
    <3>2. call \/ UNCHANGED engineVars
      BY <2>1, RpcOutcomes DEF ProtocolInv, ControllerTyped
    <3>3. QED
      BY <3>1, <3>2 DEF answered, raised
  <2>2. QED
    BY <1>3, <2>1
<1>6. SameCopies
  BY <1>4, <1>5, CopiesRest
<1>7. StartCopying(m) => GoesOn(m) /\ NoneStarts
  BY <1>1, MovedGoesOn DEF StartCopying
<1>8. QED
  BY <1>5, <1>6, <1>7, RaiseEnds DEF CallMoves, CallStep, CopyStep, CopyMove

\* The destination's transfer: its record is the first of its migration.
LEMMA StartDestinationMoves ==
    ASSUME ProtocolInv, NEW m \in Migrations, start_destination(m)
    PROVE  CallMoves(m)
<1> DEFINE t == task[m]
           d == t.destination
           pair == <<t.source, t.destination>>
           call == PM!start_transfer(d, "destination", m, t.agent, t.epoch + 1, pair)
           full == PM!start_transfer_full(d, m, t.agent, t.epoch + 1, pair)
<1>1. t.pc = "startDestination" /\ HoldsRow(m)
  BY DEF start_destination, HoldsRow
<1>2. /\ d \in Engines /\ t.agent \in Agents
      /\ d = migrations[m].destination /\ pair = PairOf(m)
  BY <1>1, RowOfCall DEF PairOf
<1>3. transfers[d][m].state = "NONE"
  BY <1>1, <1>2 DEF ProtocolInv, RecordsFit, RecordFits
<1>4. full => SameCopies
  BY <1>2, PinCallsKeepCopies DEF ProtocolInv
<1>5. call => /\ WritesRecord(d, m)
              /\ transfers'[d][m].state = "QUEUED" /\ transfers'[d][m].role = "destination"
              /\ transfers'[d][m].pair = pair
              /\ queue'[d] = Append(queue[d], m)
              /\ \A x \in Engines \ {d} : queue'[x] = queue[x]
              /\ SameRows
  BY <1>2, <1>3, StartEnqueues DEF ProtocolInv
<1>6. \/ Rpc(PM!StartAllowed(d, "destination", m, t.agent, t.epoch + 1, pair), call,
             Goto(m, "startSource"), Raise(m))
      \/ full /\ Raise(m)
  BY DEF start_destination
<1> HIDE DEF call, full
<1>7. /\ Goto(m, "startSource") \/ Raise(m)
      /\ \/ faults' # 0
         \/ call /\ Goto(m, "startSource")
         \/ (full \/ UNCHANGED engineVars) /\ Raise(m)
  BY <1>6, RpcOutcomes DEF ProtocolInv, ControllerTyped
<1>8. Goto(m, "startSource") => GoesOn(m) /\ task'[m].pc = "startSource"
  BY <1>1, MovedGoesOn DEF Goto
<1>9. CASE call /\ Goto(m, "startSource")
  <2>1. Enqueues(d, m, "destination")
    BY <1>1, <1>2, <1>3, <1>5, <1>8, <1>9 DEF Enqueues, GoesOn
  <2>2. QED
    BY <1>2, <1>8, <1>9, <2>1 DEF CallMoves, CallStep, CopyStep
<1>10. CASE (full \/ UNCHANGED engineVars) /\ Raise(m)
  BY <1>4, <1>10, RaiseEnds, CopiesRest DEF CallMoves, CallStep, CopyStep, CopyMove
<1>11. CASE faults' # 0
  BY <1>7, <1>8, <1>11, RaiseEnds DEF CallMoves, CallStep
<1>12. QED
  BY <1>7, <1>9, <1>10, <1>11

\* The source's transfer, of which there is no record before.
LEMMA StartSourceMoves ==
    ASSUME ProtocolInv, NEW m \in Migrations, start_source(m)
    PROVE  /\ CallStep(m)
           /\ transfers[migrations[m].source][m].state = "NONE" => CallMoves(m)
<1> DEFINE t == task[m]
           s == t.source
           pair == <<t.source, t.destination>>
           call == PM!start_transfer(s, "source", m, t.agent, t.epoch, pair)
<1>1. t.pc = "startSource" /\ HoldsRow(m)
  BY DEF start_source, HoldsRow
<1>2. /\ s \in Engines /\ t.agent \in Agents
      /\ s = migrations[m].source /\ pair = PairOf(m)
  BY <1>1, RowOfCall DEF PairOf
<1>3. call /\ transfers[s][m].state = "NONE" =>
              /\ WritesRecord(s, m)
              /\ transfers'[s][m].state = "QUEUED" /\ transfers'[s][m].role = "source"
              /\ transfers'[s][m].pair = pair
              /\ queue'[s] = Append(queue[s], m)
              /\ \A x \in Engines \ {s} : queue'[x] = queue[x]
              /\ SameRows
  BY <1>2, StartEnqueues DEF ProtocolInv
<1>4. Rpc(PM!StartAllowed(s, "source", m, t.agent, t.epoch, pair), call,
          Goto(m, "wait"), Raise(m))
  BY DEF start_source
<1> HIDE DEF call
<1>5. /\ Goto(m, "wait") \/ Raise(m)
      /\ \/ faults' # 0
         \/ call /\ Goto(m, "wait")
         \/ UNCHANGED engineVars /\ Raise(m)
  BY <1>4, RpcOutcomes DEF ProtocolInv, ControllerTyped
<1>6. Goto(m, "wait") => GoesOn(m) /\ task'[m].pc = "wait"
  BY <1>1, MovedGoesOn DEF Goto
<1>7. CallStep(m)
  BY <1>5, <1>6, RaiseEnds DEF CallStep
<1>8. ASSUME transfers[s][m].state = "NONE", faults' = 0 PROVE CopyStep
  <2>1. CASE call /\ Goto(m, "wait")
    <3>1. Enqueues(s, m, "source")
      BY <1>1, <1>2, <1>3, <1>6, <1>8, <2>1 DEF Enqueues, GoesOn
    <3>2. QED
      BY <1>2, <3>1 DEF CopyStep
  <2>2. CASE UNCHANGED engineVars /\ Raise(m)
    BY <2>2, RaiseEnds, CopiesRest DEF CopyStep, CopyMove
  <2>3. QED
    BY <1>5, <1>8, <2>1, <2>2
<1>9. QED
  BY <1>2, <1>7, <1>8 DEF CallMoves

\* A waiter that ends, whatever it was told.
LEMMA WaitedGoesOn ==
    ASSUME ProtocolInv, NEW m \in Migrations, task[m].pc = "wait",
           NEW side \in {"src", "dst"}, NEW ok \in BOOLEAN, Waited(m, side, ok)
    PROVE  GoesOn(m) /\ NoneStarts
<1>1. task \in [Migrations -> Calls] /\ HoldsRow(m)
  BY DEF ProtocolInv, ControllerTyped, HoldsRow
<1>2. PICK t : t = task[m] /\ t \in Calls
  BY <1>1
<1>3. PICK failed \in BOOLEAN : failed = (t.failed \/ ~ok)
  BY <1>2 DEF Calls
<1>4. \/ task' = [task EXCEPT ![m] = [t EXCEPT ![side] = "done", !.failed = failed]]
      \/ task' = [task EXCEPT ![m] =
                    [t EXCEPT !.src = "wait", !.dst = "wait", !.failed = failed,
                              !.pc = IF failed THEN "release" ELSE "cleanup"]]
  BY <1>2, <1>3 DEF Waited
<1>5. \A n \in Migrations \ {m} : task'[n] = task[n]
  BY <1>1, <1>4
<1>6. \/ task'[m] = [t EXCEPT ![side] = "done", !.failed = failed]
      \/ task'[m] = [t EXCEPT !.src = "wait", !.dst = "wait", !.failed = failed,
                              !.pc = IF failed THEN "release" ELSE "cleanup"]
  BY <1>1, <1>4
<1>7. /\ task'[m].pc \in {"wait", "release", "cleanup"}
      /\ task'[m].source = t.source /\ task'[m].destination = t.destination
  <2>1. CASE side = "src"
    BY <1>2, <1>6, <2>1 DEF Calls
  <2>2. CASE side = "dst"
    BY <1>2, <1>6, <2>2 DEF Calls
  <2>3. QED
    BY <2>1, <2>2
<1>8. HoldsRow(m)' /\ UNCHANGED engineLock
  BY <1>7 DEF HoldsRow, Waited
<1>9. QED
  BY <1>1, <1>2, <1>5, <1>7, <1>8 DEF GoesOn, NoneStarts

\* A poll of a waiter, or its end.
LEMMA WaitCallMoves ==
    ASSUME ProtocolInv, NEW m \in Migrations, NEW side \in {"src", "dst"},
           wait_for_transfer(m, side) \/ transfer_timeout(m, side)
    PROVE  CallMoves(m)
<1> DEFINE e == Side(m, side)
           call == PM!poll_transfer(e, m)
           done == PM!PolledState(e, m) = "COMPLETE"
           answered == IF done THEN Waited(m, side, TRUE) ELSE Goto(m, "wait")
<1>1. task[m].pc = "wait" /\ HoldsRow(m)
  BY DEF wait_for_transfer, transfer_timeout, HoldsRow
<1>2. e \in Engines /\ migrations[m].agent \in Agents
  BY <1>1, SideOfCall, RowOfCall
<1>3. \/ Rpc(PM!PollAllowed(e, m), call, answered, Waited(m, side, FALSE))
      \/ InstallFails(e, m) /\ Waited(m, side, FALSE)
      \/ UNCHANGED engineVars /\ Waited(m, side, FALSE)
  BY DEF wait_for_transfer, transfer_timeout
<1>4. call => SameCopies \/ InstallsCopy(m)
  <2> SUFFICES ASSUME call PROVE SameCopies \/ InstallsCopy(m)
    OBVIOUS
  <2>1. RecordFits(e, m) /\ transfers[e][m].state # "NONE"
    BY <1>2 DEF ProtocolInv, RecordsFit, PM!poll_transfer, PM!PollAllowed, PM!TransferState
  <2>2. transfers[e][m].agent \in Agents
    BY <1>2, <2>1 DEF RecordFits
  <2>3. transfers[e][m].state = "COPY_DONE" => e = migrations[m].destination
    BY <2>1 DEF RecordFits
  <2>4. QED
    BY <1>1, <1>2, <2>2, <2>3, PollInstalls DEF ProtocolInv, InstallsCopy
<1>5. Waited(m, side, FALSE) \/ answered => GoesOn(m) /\ NoneStarts
  BY <1>1, WaitedGoesOn, MovedGoesOn DEF Goto
<1> HIDE DEF call, answered
<1>6. /\ Waited(m, side, FALSE) \/ answered
      /\ call \/ UNCHANGED engineVars \/ faults' # 0
  <2>1. faults \in Nat
    BY DEF ProtocolInv, ControllerTyped
  <2>2. CASE Rpc(PM!PollAllowed(e, m), call, answered, Waited(m, side, FALSE))
    BY <2>2 DEF Rpc
  <2>3. CASE InstallFails(e, m) /\ Waited(m, side, FALSE)
    <3>1. faults' # 0
      BY <2>1, <2>3 DEF InstallFails
    <3>2. QED
      BY <2>3, <3>1
  <2>4. CASE UNCHANGED engineVars /\ Waited(m, side, FALSE)
    BY <2>4
  <2>5. QED
    BY <1>3, <2>2, <2>3, <2>4
<1>7. faults' = 0 => CopyMove
  BY <1>4, <1>6, CopiesRest DEF CopyMove
<1>8. QED
  BY <1>5, <1>6, <1>7 DEF CallMoves, CallStep, CopyStep

\* The release of the destination after a wait that failed.
LEMMA ReleaseDestinationMoves ==
    ASSUME ProtocolInv, NEW m \in Migrations, release_destination(m)
    PROVE  CallMoves(m)
<1> DEFINE t == task[m]
           call == PM!release(t.destination, t.agent, t.epoch + 1, TRUE, TRUE)
           goes == Goto(m, "cleanup")
<1>1. HoldsRow(m)
  BY DEF release_destination, HoldsRow
<1>2. t.destination \in Engines /\ t.agent \in Agents
  BY <1>1, RowOfCall
<1>3. Rpc(PM!ReleaseAllowed(t.destination, t.agent, t.epoch + 1, TRUE), call,
          goes, goes)
  BY DEF release_destination
<1>4. call => SameCopies
  BY <1>2, PinCallsKeepCopies DEF ProtocolInv
<1> HIDE DEF call, goes
<1>5. goes /\ (call \/ UNCHANGED engineVars)
  BY <1>3 DEF Rpc
<1>6. GoesOn(m) /\ NoneStarts
  BY <1>1, <1>5, MovedGoesOn DEF Goto, goes
<1>7. QED
  BY <1>4, <1>5, <1>6, CopiesRest DEF CallMoves, CallStep, CopyStep, CopyMove

\* The cleanup of one side, and what follows the second.
LEMMA CleanupCallMoves ==
    ASSUME ProtocolInv, NEW m \in Migrations, NEW side \in {"src", "dst"},
           cleanup_transfer(m, side)
    PROVE  CallMoves(m)
<1> DEFINE e == Side(m, side)
           call == PM!cleanup_transfer(e, m)
<1>1. task[m].pc = "cleanup" /\ HoldsRow(m) /\ task \in [Migrations -> Calls]
  BY DEF cleanup_transfer, HoldsRow, ProtocolInv, ControllerTyped
<1>2. e \in Engines
  BY <1>1, SideOfCall
<1>3. Rpc(PM!CleanupAllowed(e, m), call, CleanedUp(m, side), CleanedUp(m, side))
  BY DEF cleanup_transfer
<1>4. call => DropsRecord(e, m)
  BY <1>1, <1>2, CleanupDrops DEF ProtocolInv
<1> HIDE DEF call
<1>5. CleanedUp(m, side) /\ (call \/ UNCHANGED engineVars)
  BY <1>3, RpcOutcomes DEF ProtocolInv, ControllerTyped
<1>6. CallStep(m) /\ NoneStarts
  <2>1. CASE task' = [task EXCEPT ![m][side] = "done"] /\ UNCHANGED engineLock
    <3>1. \A n \in Migrations \ {m} : task'[n] = task[n]
      BY <1>1, <2>1
    <3>2. /\ task'[m].pc = "cleanup" /\ task'[m].source = task[m].source
          /\ task'[m].destination = task[m].destination
      <4>1. CASE side = "src"
        BY <1>1, <2>1, <4>1 DEF Calls
      <4>2. CASE side = "dst"
        BY <1>1, <2>1, <4>2 DEF Calls
      <4>3. QED
        BY <4>1, <4>2
    <3>3. HoldsRow(m)'
      BY <3>2 DEF HoldsRow
    <3>4. QED
      BY <1>1, <2>1, <3>1, <3>2, <3>3 DEF CallStep, GoesOn, NoneStarts
  <2>2. CASE Raise(m)
    BY <2>2, RaiseEnds DEF CallStep
  <2>3. CASE task' = [task EXCEPT ![m].pc = "commit"] /\ UNCHANGED engineLock
    BY <1>1, <2>3, MovedGoesOn DEF CallStep
  <2>4. QED
    BY <1>5, <2>1, <2>2, <2>3 DEF CleanedUp
<1>7. QED
  BY <1>2, <1>4, <1>5, <1>6, CopiesRest DEF CallMoves, CopyStep, CopyMove

\* The commit ends the call.
LEMMA CommitMoves ==
    ASSUME ProtocolInv, NEW m \in Migrations, commit(m)
    PROVE  CallMoves(m)
<1>1. /\ UNCHANGED engineVars
      /\ \/ Raise(m)
         \/ /\ commit_migration(m) /\ engineLock' = Unlocked(m)
            /\ task' = [task EXCEPT ![m].pc = "done"]
  BY DEF commit
<1>2. CASE Raise(m)
  BY <1>1, <1>2, RaiseEnds, CopiesRest DEF CallMoves, CallStep, CopyStep, CopyMove
<1>3. CASE /\ commit_migration(m) /\ engineLock' = Unlocked(m)
           /\ task' = [task EXCEPT ![m].pc = "done"]
  <2>1. task \in [Migrations -> Calls] /\ migrations \in [Migrations -> MigrationRows]
    BY DEF ProtocolInv, ControllerTyped, RowsInv, StoreInv, StoreTypeOK
  <2>2. /\ \A n \in Migrations \ {m} : task'[n] = task[n]
        /\ task'[m].pc = "done"
    BY <1>3, <2>1 DEF Calls
  <2>3. MigrationState(m)' # "COPYING"
    BY <1>3, <2>1 DEF commit_migration, MigrationState, MigrationRows
  <2>4. Ends(m) /\ NoneStarts
    BY <1>3, <2>2, <2>3 DEF Ends, NoneStarts, ReturnedStates
  <2>5. QED
    BY <1>1, <2>4, CopiesRest DEF CallMoves, CallStep, CopyStep, CopyMove
<1>4. QED
  BY <1>1, <1>2, <1>3

-----------------------------------------------------------------------------
(* What every step does to the locks and to the copies. *)

\* No call ends while its migration is copying.
CallsEnd ==
    \A m \in Migrations : Running(m) /\ ~Running(m)' => MigrationState(m)' # "COPYING"

\* The steps that move no call.
LEMMA OthersLeaveCalls ==
    ASSUME \/ \E m \in Migrations : AfterCommit(m)
           \/ Reconciling \/ TransferWorkers \/ Traffic \/ EngineFaults
           \/ UNCHANGED protocolVars
    PROVE  UNCHANGED <<task, engineLock>>
<1>1. ASSUME NEW m \in Migrations, AfterCommit(m)
      PROVE  UNCHANGED <<task, engineLock>>
  BY <1>1 DEF AfterCommit, acknowledge_destination, source_released, finalize_destination,
              recover_destination_failure, recovered, controllerVars
<1>2. CASE Reconciling
  BY <1>2 DEF Reconciling, reconcile_after_restart, reconcile_next, reconcile_status,
              reconcile_cleanup, reconcile_abort, ReconcileStep
<1>3. CASE TransferWorkers \/ Traffic \/ EngineFaults \/ UNCHANGED protocolVars
  BY <1>3 DEF TransferWorkers, Traffic, EngineFaults, protocolVars, controllerVars
<1>4. QED
  BY <1>1, <1>2, <1>3

\* The steps of one call.
LEMMA MigrateStepMoves ==
    ASSUME ProtocolInv, NEW m \in Migrations, MigrateStep(m)
    PROVE  \/ acquire_first_lock(m)
           \/ acquire_second_lock(m)
           \/ start_source(m)
           \/ CallMoves(m)
<1>1. ASSUME NEW side \in {"src", "dst"},
             \/ wait_for_transfer(m, side)
             \/ transfer_timeout(m, side)
             \/ cleanup_transfer(m, side)
      PROVE  CallMoves(m)
  BY <1>1, WaitCallMoves, CleanupCallMoves
<1>2. QED
  BY <1>1, PinSourceMoves, EnsureGroupMoves, StartDestinationMoves, ReleaseDestinationMoves,
     CommitMoves DEF MigrateStep

\* Every call keeps the locks it has awaited until it ends, or the controller does.
LEMMA LocksHeldStep ==
    ASSUME ProtocolInv, CallsLocked, [ProtocolNext]_protocolVars
    PROVE  CallsLocked'
<1>1. CASE UNCHANGED <<task, engineLock>>
  BY <1>1 DEF CallsLocked, CallLocked, First, HoldsRow
<1>2. CASE controller_crash
  <2>1. \A m \in Migrations : task'[m].pc \in ReturnedStates
    <3> SUFFICES ASSUME NEW m \in Migrations PROVE task'[m].pc \in ReturnedStates
      OBVIOUS
    <3>1. task[m] \in Calls
      BY DEF ProtocolInv, ControllerTyped
    <3>2. QED
      BY <1>2, <3>1 DEF controller_crash, Running, ReturnedStates, Calls
  <2>2. QED
    BY <2>1 DEF CallsLocked, CallLocked, HoldsRow, ReturnedStates
<1>3. ASSUME NEW m \in Migrations, NEW a \in Agents, NEW d \in Engines, migrate(m, a, d)
      PROVE  CallsLocked'
  BY <1>3, AcquisitionsLock
<1>4. ASSUME NEW m \in Migrations, MigrateStep(m)
      PROVE  CallsLocked'
  BY <1>4, MigrateStepMoves, AcquisitionsLock, StartSourceMoves, CallStepLocks DEF CallMoves
<1>5. QED
  BY <1>1, <1>2, <1>3, <1>4, OthersLeaveCalls DEF ProtocolNext

\* What follows a commit moves pins only.
LEMMA AfterCommitKeepsCopies ==
    ASSUME ProtocolInv, NEW m \in Migrations, AfterCommit(m)
    PROVE  SameCopies
<1> DEFINE row == migrations[m]
<1>1. ASSUME MigrationState(m) \in {"COMMITTED", "SOURCE_RELEASED"},
             NEW e \in {row.source, row.destination}, NEW epoch, NEW evicts,
             PM!release(e, row.agent, epoch, evicts, TRUE)
      PROVE  SameCopies
  BY <1>1, RowLater, PinCallsKeepCopies DEF ProtocolInv
<1>2. ASSUME MigrationState(m) = "COMMITTED", NEW epoch, NEW new,
             PM!rebind(row.source, row.agent, epoch, new)
      PROVE  SameCopies
  BY <1>2, RowLater, PinCallsKeepCopies DEF ProtocolInv
<1>3. CASE acknowledge_destination(m)
  <2> DEFINE call == PM!release(row.source, row.agent, row.epoch, TRUE, TRUE)
             answered == acking' = [acking EXCEPT ![row.source] = m]
  <2>1. MigrationState(m) = "COMMITTED"
    BY <1>3 DEF acknowledge_destination, MigrationState
  <2>2. Rpc(PM!ReleaseAllowed(row.source, row.agent, row.epoch, TRUE), call, answered,
            UNCHANGED acking)
    BY <1>3 DEF acknowledge_destination
  <2>3. call => SameCopies
    BY <1>1, <2>1
  <2> HIDE DEF call, answered
  <2>4. call \/ UNCHANGED engineVars
    BY <2>2 DEF Rpc
  <2>5. QED
    BY <2>3, <2>4, CopiesRest
<1>4. ASSUME NEW keep \in BOOLEAN, finalize_destination(m, keep)
      PROVE  SameCopies
  <2> DEFINE call == PM!release(row.destination, row.agent, row.epoch + 1, ~keep, TRUE)
  <2>1. MigrationState(m) = "SOURCE_RELEASED"
    BY <1>4 DEF finalize_destination, MigrationState
  <2>2. Rpc(PM!ReleaseAllowed(row.destination, row.agent, row.epoch + 1, TRUE), call,
            TRUE, TRUE)
    BY <1>4 DEF finalize_destination
  <2>3. call => SameCopies
    BY <1>1, <2>1
  <2> HIDE DEF call
  <2>4. call \/ UNCHANGED engineVars
    BY <2>2 DEF Rpc
  <2>5. QED
    BY <2>3, <2>4, CopiesRest
<1>5. ASSUME NEW e \in Engines, recover_destination_failure(m, e)
      PROVE  SameCopies
  <2> DEFINE call == PM!rebind(row.source, row.agent, row.epoch, row.epoch + 2)
  <2>1. \/ /\ MigrationState(m) = "COMMITTED"
           /\ Rpc(PM!RebindAllowed(row.source, row.agent, row.epoch, row.epoch + 2), call,
                  TRUE, TRUE)
        \/ UNCHANGED engineVars
    BY <1>5 DEF recover_destination_failure, MigrationState
  <2>2. MigrationState(m) = "COMMITTED" /\ call => SameCopies
    BY <1>2
  <2> HIDE DEF call
  <2>3. (MigrationState(m) = "COMMITTED" /\ call) \/ UNCHANGED engineVars
    BY <2>1 DEF Rpc
  <2>4. QED
    BY <2>2, <2>3, CopiesRest
<1>6. CASE source_released(m) \/ recovered(m)
  BY <1>6, CopiesRest DEF source_released, recovered
<1>7. QED
  BY <1>3, <1>4, <1>5, <1>6 DEF AfterCommit

\* A reconciliation finds nothing copying unless a call or the controller has died.
LEMMA ReconcilingKeepsCopies ==
    ASSUME ProtocolInv, CopiesFit, Quiet, Reconciling
    PROVE  SameCopies
<1>1. CASE reconcile_after_restart \/ reconcile_next
  BY <1>1, CopiesRest DEF reconcile_after_restart, reconcile_next
<1>2. reconcile.pc \notin {"poll", "cleanup"}
  <2> SUFFICES ASSUME reconcile.pc \in {"poll", "cleanup"} PROVE FALSE
    OBVIOUS
  <2>1. /\ reconcile.m \in Migrations /\ ~Running(reconcile.m)
        /\ MigrationState(reconcile.m) = "COPYING"
    BY ReconciledRow
  <2>2. QED
    BY <2>1 DEF CopiesFit, CopyFits, MigrationState
<1>3. CASE reconcile_abort
  <2> DEFINE m == reconcile.m
             row == migrations[m]
             call == PM!release(row.destination, row.agent, row.epoch + 1, TRUE, TRUE)
             aborts == /\ transition_migration(m, row.state, "ABORTED")
                       /\ reconcile' = [reconcile EXCEPT !.pc = "next"]
             gives_up == UNCHANGED storeVars /\ reconcile' = NotReconciling
  <2>1. /\ reconcile.pc = "release"
        /\ Rpc(PM!ReleaseAllowed(row.destination, row.agent, row.epoch + 1, TRUE), call,
               aborts, gives_up)
    BY <1>3 DEF reconcile_abort
  <2>2. m \in Migrations /\ m \in Unfinished
    BY <2>1, ReconciledRow
  <2>3. row.destination \in Engines /\ row.agent \in Agents
    BY <2>2, EpochsBounded, ProtocolAssumption
       DEF ProtocolInv, RowsInv, Unfinished, MigrationState
  <2>4. call => SameCopies
    BY <2>3, PinCallsKeepCopies DEF ProtocolInv
  <2> HIDE DEF call, aborts, gives_up
  <2>5. call \/ UNCHANGED engineVars
    BY <2>1 DEF Rpc
  <2>6. QED
    BY <2>4, <2>5, CopiesRest
<1>4. QED
  BY <1>1, <1>2, <1>3 DEF Reconciling, reconcile_status, reconcile_cleanup

\* The workers.
LEMMA WorkersMoveCopies ==
    ASSUME ProtocolInv, TransferWorkers
    PROVE  CopyMove
BY TakeDequeues, CopyPairs DEF TransferWorkers, CopyMove, ProtocolInv

\* Turns and evictions.
LEMMA TrafficKeepsCopies ==
    ASSUME ProtocolInv, Traffic
    PROVE  SameCopies
<1>1. PICK a \in Agents : PM!prefill(agents[a].owner, a) \/ \E e \in Engines : PM!evict(e, a)
  BY DEF Traffic
<1>2. agents[a].owner \in Engines
  BY DEF ProtocolInv, RowsInv, Registered, StoreInv, StoreTypeOK, AgentRows
<1>3. QED
  BY <1>1, <1>2, PinCallsKeepCopies DEF ProtocolInv

\* A step in which nothing is lost and nothing dies moves the copies as CopyStep says.
LEMMA StepCopies ==
    ASSUME ProtocolInv, CallsLocked, CopiesFit, Quiet, Quiet', [ProtocolNext]_protocolVars
    PROVE  CopyStep /\ CallsEnd
<1>1. CASE UNCHANGED <<task, engineLock>> /\ CopyMove
  BY <1>1 DEF CopyStep, NoneStarts, CallsEnd, Running
<1>2. ASSUME NEW m \in Migrations, CallStep(m)
      PROVE  CallsEnd
  <2>1. Running(m)' \/ MigrationState(m)' # "COPYING"
    BY <1>2 DEF CallStep, GoesOn, Ends, HoldsRow, Running, ReturnedStates
  <2>2. \A n \in Migrations \ {m} : Running(n)' <=> Running(n)
    BY <1>2 DEF CallStep, GoesOn, Ends, Running
  <2>3. QED
    BY <2>1, <2>2 DEF CallsEnd
<1>3. faults' = 0 /\ crashes' = 0 /\ faults = 0 /\ crashes = 0 /\ resets' = 0 /\ resets = 0
  BY DEF Quiet
<1>4. ASSUME NEW m \in Migrations, UNCHANGED engineVars,
             \/ \E a \in Agents, d \in Engines : migrate(m, a, d)
             \/ acquire_first_lock(m)
             \/ acquire_second_lock(m)
      PROVE  CopyStep /\ CallsEnd
  <2>1. /\ task'[m].pc \notin {"startSource", "wait"}
        /\ \A n \in Migrations \ {m} : task'[n] = task[n]
        /\ Running(m) /\ ~Running(m)' => MigrationState(m)' # "COPYING"
    BY <1>4, AcquisitionsLock
  <2>2. NoneStarts /\ CallsEnd
    BY <2>1 DEF NoneStarts, CallsEnd, Running
  <2>3. QED
    BY <1>4, <2>2, CopiesRest DEF CopyStep, CopyMove
<1>5. ASSUME NEW m \in Migrations, MigrateStep(m)
      PROVE  CopyStep /\ CallsEnd
  <2>1. CASE acquire_first_lock(m) \/ acquire_second_lock(m)
    BY <1>4, <2>1 DEF acquire_first_lock, acquire_second_lock
  <2>2. CASE start_source(m)
    <3>1. transfers[migrations[m].source][m].state = "NONE"
      BY <2>2 DEF start_source, CopiesFit, CopyFits
    <3>2. QED
      BY <1>2, <1>3, <2>2, <3>1, StartSourceMoves DEF CallMoves
  <2>3. CASE CallMoves(m)
    BY <1>2, <1>3, <2>3 DEF CallMoves
  <2>4. QED
    BY <1>5, <2>1, <2>2, <2>3, MigrateStepMoves
<1>6. ~controller_crash /\ ~EngineFaults
  BY <1>3 DEF controller_crash, EngineFaults
<1>7. ASSUME \/ \E m \in Migrations : AfterCommit(m)
             \/ Reconciling \/ TransferWorkers \/ Traffic
             \/ UNCHANGED protocolVars
      PROVE  CopyMove
  <2>1. CASE UNCHANGED protocolVars
    BY <2>1, CopiesRest DEF protocolVars, CopyMove
  <2>2. CASE TransferWorkers
    BY <2>2, WorkersMoveCopies
  <2>3. CASE (\E m \in Migrations : AfterCommit(m)) \/ Reconciling \/ Traffic
    BY <2>3, AfterCommitKeepsCopies, ReconcilingKeepsCopies, TrafficKeepsCopies DEF CopyMove
  <2>4. QED
    BY <1>7, <2>1, <2>2, <2>3
<1>8. ASSUME NEW m \in Migrations, NEW a \in Agents, NEW d \in Engines, migrate(m, a, d)
      PROVE  CopyStep /\ CallsEnd
  BY <1>4, <1>8 DEF migrate
<1>9. QED
  BY <1>1, <1>5, <1>6, <1>7, <1>8, OthersLeaveCalls DEF ProtocolNext

-----------------------------------------------------------------------------
(* The copies stay paired, and the rows own. *)

\* The queue of an engine holds its records that are QUEUED, each once.
LEMMA QueueFacts ==
    ASSUME PMP!PrefixInv, NEW e \in Engines
    PROVE  /\ queue[e] \in Seq(Migrations)
           /\ \A i, j \in DOMAIN queue[e] : queue[e][i] = queue[e][j] => i = j
           /\ \A i \in DOMAIN queue[e] : transfers[e][queue[e][i]].state = "QUEUED"
           /\ \A m \in Migrations : transfers[e][m].state = "QUEUED" => queue[e] # <<>>
<1>1. queue[e] \in Seq(Migrations) /\ PMP!QueueIsSoundAt(e)
  BY DEF PMP!PrefixInv, PMP!Typed, PMP!QueueIsSound
<1>2. QED
  BY <1>1 DEF PMP!QueueIsSoundAt, PMP!TransferState

\* The row of a call that has started its destination.
LEMMA WaitingRow ==
    ASSUME ProtocolInv, CallsLocked, NEW m \in Migrations, HoldsRow(m)
    PROVE  LET row == migrations[m] IN
           /\ row.source \in Engines /\ row.destination \in Engines
           /\ row.source # row.destination
           /\ PairOf(m) \in Pairs
           /\ engineLock[row.source] = m /\ engineLock[row.destination] = m
BY RowOfCall, ProtocolAssumption DEF CallsLocked, CallLocked, PairOf

\* What is last stays last while nothing else begins to be copied.
LEMMA StaysLast ==
    ASSUME NEW e \in Engines, NEW m \in Migrations, LastAt(e, m),
           queue'[e] = queue[e],
           transfers'[e][m].state \in {"QUEUED", "COPYING", "COPY_DONE", "COMPLETE"},
           transfers'[e][m].state = "QUEUED" <=> transfers[e][m].state = "QUEUED",
           \A n \in Migrations : transfers'[e][n].state = "COPYING"
                                    => transfers[e][n].state = "COPYING"
    PROVE  LastAt(e, m)'
BY DEF LastAt

\* The last of a longer queue is the last of its tail.
LEMMA LastOfTail ==
    ASSUME NEW S, NEW q \in Seq(S), q # <<>>,
           \A i, j \in DOMAIN q : q[i] = q[j] => i = j
    PROVE  IF q[Len(q)] = Head(q) THEN Tail(q) = <<>>
           ELSE Tail(q) # <<>> /\ Tail(q)[Len(Tail(q))] = q[Len(q)]
<1>1. Len(q) \in Nat \ {0} /\ Head(q) = q[1] /\ DOMAIN q = 1..Len(q)
  OBVIOUS
<1>2. CASE Len(q) = 1
  <2>1. Tail(q) \in Seq(S) /\ Len(Tail(q)) = 0
    BY <1>1, <1>2
  <2>2. Tail(q) = <<>>
    BY <2>1, EmptySeq
  <2>3. QED
    BY <1>1, <1>2, <2>2
<1>3. CASE Len(q) # 1
  <2>1. q[Len(q)] # Head(q)
    BY <1>1, <1>3
  <2>2. Len(Tail(q)) = Len(q) - 1 /\ Len(Tail(q)) \in 1..Len(Tail(q))
    BY <1>1, <1>3
  <2>3. Tail(q)[Len(Tail(q))] = q[Len(q)]
    BY <1>1, <2>2
  <2>4. QED
    BY <2>1, <2>2, <2>3
<1>4. QED
  BY <1>2, <1>3

\* The record of a call that waits stays the last of its engine while no other call
\* starts one there.
LEMMA LastAtMoves ==
    ASSUME PMP!PrefixInv, CopyMove, NEW e \in Engines, NEW m \in Migrations, LastAt(e, m),
           task[m].pc \in {"startSource", "wait"}
    PROVE  LastAt(e, m)'
<1>1. transfers \in [Engines -> [Migrations -> PM!Transfers]]
  BY ManagersTyped
<1>2. CASE SameCopies
  BY <1>2 DEF SameCopies, LastAt
<1>3. ASSUME NEW x \in Engines, Dequeues(x)
      PROVE  LastAt(e, m)'
  <2> DEFINE k == Head(queue[x])
             q == queue[e]
  <2>1. CASE x # e
    <3>1. queue'[e] = queue[e] /\ \A n \in Migrations : transfers'[e][n] = transfers[e][n]
      BY <1>3, <2>1 DEF Dequeues, WritesRecord
    <3>2. QED
      BY <3>1, StaysLast DEF LastAt
  <2>2. CASE x = e
    <3>1. q # <<>> /\ q[Len(q)] = m /\ transfers[e][m].state = "QUEUED"
      BY <1>3, <2>2 DEF Dequeues, LastAt
    <3>2. /\ q \in Seq(Migrations)
          /\ \A i, j \in DOMAIN q : q[i] = q[j] => i = j
      BY QueueFacts
    <3>3. k \in Migrations
      BY <2>2, <3>1, <3>2
    <3>4. transfers'[e][k].state = "COPYING"
      BY <1>1, <1>3, <2>2, <3>3 DEF Dequeues, PM!Transfers
    <3>5. /\ queue'[e] = Tail(q)
          /\ \A n \in Migrations : transfers[e][n].state # "COPYING"
          /\ \A n \in Migrations \ {k} : transfers'[e][n] = transfers[e][n]
      BY <1>3, <2>2 DEF Dequeues, WritesRecord
    <3>6. IF m = k THEN Tail(q) = <<>>
          ELSE Tail(q) # <<>> /\ Tail(q)[Len(Tail(q))] = m
      <4> HIDE DEF q
      <4>1. k = Head(q)
        BY <2>2 DEF q
      <4> HIDE DEF k
      <4>2. QED
        BY <3>1, <3>2, <4>1, LastOfTail
    <3> HIDE DEF q, k
    <3>7. QED
      BY <3>1, <3>4, <3>5, <3>6 DEF LastAt
  <2>3. QED
    BY <2>1, <2>2
<1>4. ASSUME NEW p \in Pairs, NEW j \in Migrations, NEW n \in Migrations, Matches(p, j, n)
      PROVE  LastAt(e, m)'
  <2>1. queue'[e] = queue[e]
    BY <1>4 DEF Matches
  <2>2. \A k \in Migrations :
           \/ transfers'[e][k] = transfers[e][k]
           \/ /\ transfers[e][k].state = "COPYING"
              /\ transfers'[e][k].state \in {"COMPLETE", "COPY_DONE"}
    BY <1>4 DEF Matches
  <2>3. QED
    BY <2>1, <2>2, StaysLast DEF LastAt
<1>5. ASSUME NEW n \in Migrations, InstallsCopy(n)
      PROVE  LastAt(e, m)'
  <2>1. queue'[e] = queue[e]
    BY <1>5 DEF InstallsCopy
  <2>2. \A k \in Migrations :
           \/ transfers'[e][k] = transfers[e][k]
           \/ /\ transfers[e][k].state = "COPY_DONE"
              /\ transfers'[e][k].state = "COMPLETE"
    BY <1>5 DEF InstallsCopy, WritesRecord
  <2>3. QED
    BY <2>1, <2>2, StaysLast DEF LastAt
<1>6. ASSUME NEW x \in Engines, NEW n \in Migrations, DropsRecord(x, n)
      PROVE  LastAt(e, m)'
  <2>1. queue'[e] = queue[e] /\ n # m
    BY <1>6 DEF DropsRecord
  <2>2. \A k \in Migrations :
           \/ transfers'[e][k] = transfers[e][k]
           \/ k = n /\ transfers'[e][k].state = "NONE"
    BY <1>6 DEF DropsRecord, WritesRecord
  <2>3. QED
    BY <2>1, <2>2, StaysLast DEF LastAt
<1>7. QED
  BY <1>2, <1>3, <1>4, <1>5, <1>6 DEF CopyMove

\* Finitely many records wait.
LEMMA PendingFinite ==
    ASSUME NEW p
    PROVE  /\ IsFiniteSet(Sources(p)) /\ Cardinality(Sources(p)) \in Nat
           /\ IsFiniteSet(Destinations(p)) /\ Cardinality(Destinations(p)) \in Nat
<1>1. Sources(p) \subseteq Migrations /\ Destinations(p) \subseteq Migrations
  BY DEF Sources, Destinations, PendingAt
<1>2. QED
  BY <1>1, ProtocolAssumption, FS_Subset, FS_CardinalityType

\* The source that a destination is matched with is its own migration's.
LEMMA MatchIsOwn ==
    ASSUME ProtocolInv, CallsLocked, CopiesFit, Quiet,
           NEW p \in Pairs, NEW j \in Migrations, NEW m \in Migrations, Matches(p, j, m),
           task[m].pc \in {"startSource", "wait"}
    PROVE  /\ p = PairOf(m) /\ j = m
           /\ transfers'[migrations[m].destination][m].rows = "own"
<1> DEFINE row == migrations[m]
           s == row.source
           d == row.destination
<1>1. /\ s \in Engines /\ d \in Engines /\ s # d /\ HoldsRow(m)
      /\ row.agent \in Agents /\ row.epoch \in 1..MaxEpoch
  BY RowOfCall, WaitingRow DEF HoldsRow
<1>2. p[1] \in Engines /\ p[2] \in Engines /\ p = <<p[1], p[2]>>
  BY ProtocolAssumption
<1>3. /\ transfers[p[2]][m].state = "COPYING" /\ transfers[p[2]][m].role = "destination"
      /\ transfers[p[2]][m].pair = p
      /\ transfers[p[1]][j].state = "COPYING" /\ transfers[p[1]][j].role = "source"
      /\ transfers[p[1]][j].pair = p
  BY DEF Matches
<1>4. RecordFits(p[2], m) /\ RecordFits(p[1], j) /\ RecordFits(s, m)
  BY <1>1, <1>2 DEF ProtocolInv, RecordsFit
<1>5. p = PairOf(m) /\ p = <<s, d>> /\ p[1] = s /\ p[2] = d
  BY <1>3, <1>4 DEF RecordFits, PairOf
<1>6. CopyFits(m) /\ CopiesPaired /\ VisibleRowsAreOwn
  BY DEF CopiesFit
<1>7. /\ queue[d] = <<>>
      /\ \A n \in Migrations \ {m} : transfers[d][n].state # "COPYING"
  BY <1>3, <1>5, <1>6 DEF CopyFits, LastAt
<1>8. Destinations(p) \subseteq {m}
  <2>1. ASSUME NEW n \in Destinations(p) PROVE n = m
    <3>1. n \in Migrations /\ transfers[d][n].state \in {"QUEUED", "COPYING"}
      BY <1>5 DEF Destinations, PendingAt
    <3>2. transfers[d][n].state # "QUEUED"
      BY <1>1, <1>7, <3>1, QueueFacts DEF ProtocolInv
    <3>3. QED
      BY <1>7, <3>1, <3>2
  <2>2. QED
    BY <2>1
<1>9. Cardinality(Destinations(p)) <= 1
  <2>1. Cardinality({m}) = 1 /\ IsFiniteSet({m})
    BY FS_Singleton
  <2>2. QED
    BY <1>8, <2>1, FS_Subset
<1>10. j \in Sources(p)
  BY <1>3 DEF Sources, PendingAt
<1>11. Cardinality(Sources(p)) >= 1
  <2>1. Cardinality({j}) = 1 /\ {j} \subseteq Sources(p)
    BY <1>10, FS_Singleton
  <2>2. QED
    BY <2>1, PendingFinite, FS_Subset
<1>12. task[m].pc = "wait"
  <2> SUFFICES ASSUME task[m].pc = "startSource" PROVE FALSE
    OBVIOUS
  <2>1. Cardinality(Sources(p)) < Cardinality(Destinations(p))
    BY <1>5, <1>6 DEF CopiesPaired
  <2>2. QED
    BY <1>9, <1>11, <2>1, PendingFinite
<1>13. j = m
  <2>1. LastAt(s, m)
    BY <1>6, <1>12 DEF CopyFits
  <2>2. CASE transfers[s][m].state \in {"QUEUED", "COPYING"}
    <3>1. m \in Sources(p)
      BY <1>1, <1>4, <1>5, <2>2 DEF RecordFits, Sources, PendingAt
    <3>2. Cardinality(Sources(p)) <= 1
      BY <1>6, <1>9, PendingFinite DEF CopiesPaired
    <3>3. ASSUME j # m PROVE FALSE
      <4>1. {j, m} \subseteq Sources(p) /\ Cardinality({m} \cup {j}) = 2
        <5>1. IsFiniteSet({m}) /\ Cardinality({m}) = 1
          BY FS_Singleton
        <5>2. Cardinality({m} \cup {j}) = Cardinality({m}) + 1
          BY <3>3, <5>1, FS_AddElement
        <5>3. QED
          BY <1>10, <3>1, <5>1, <5>2
      <4>2. Cardinality({m} \cup {j}) <= Cardinality(Sources(p))
        BY <4>1, PendingFinite, FS_Subset
      <4>3. QED
        BY <3>2, <4>1, <4>2, PendingFinite
    <3>4. QED
      BY <3>3
  <2>3. CASE transfers[s][m].state \notin {"QUEUED", "COPYING"}
    BY <1>3, <1>5, <2>1, <2>3 DEF LastAt
  <2>4. QED
    BY <2>2, <2>3
<1>14. transfers[s][j].agent = row.agent /\ transfers[d][m].agent = row.agent
  BY <1>3, <1>4, <1>5, <1>13 DEF RecordFits
<1>15. cache[s][row.agent] = "own"
  <2>1. row.state = "COPYING"
    BY DEF ProtocolInv, TasksFit, TaskFits
  <2>2. prefixes[s][row.agent] # 0
    BY <1>1, <1>6, <2>1 DEF CopyFits
  <2>3. /\ cache[s][row.agent] # "absent" /\ cache[s][row.agent] # "other"
        /\ cache[s][row.agent] \in {"own", "other", "absent"}
    BY <1>1, <1>6, <2>2, ManagersTyped DEF ProtocolInv, VisibleRowsAreOwn
  <2>4. QED
    BY <2>3
<1>16. QED
  BY <1>5, <1>13, <1>14, <1>15 DEF Matches

\* The records that wait, after a step that starts none.
LEMMA PendingMoves ==
    ASSUME PMP!PrefixInv, CopyMove, NEW p \in Pairs
    PROVE  \/ Sources(p)' = Sources(p) /\ Destinations(p)' = Destinations(p)
           \/ \E m \in Sources(p), n \in Destinations(p) :
                 /\ Sources(p)' = Sources(p) \ {m}
                 /\ Destinations(p)' = Destinations(p) \ {n}
<1>1. transfers \in [Engines -> [Migrations -> PM!Transfers]]
  BY ManagersTyped
<1>2. p[1] \in Engines /\ p[2] \in Engines /\ p[1] # p[2]
  BY ProtocolAssumption
<1>3. ASSUME \A x \in Engines, k \in Migrations :
                \/ transfers'[x][k] = transfers[x][k]
                \/ /\ transfers[x][k].state \notin {"QUEUED", "COPYING"}
                   /\ transfers'[x][k].state \notin {"QUEUED", "COPYING"}
                \/ /\ transfers[x][k].state = "QUEUED"
                   /\ transfers'[x][k] = [transfers[x][k] EXCEPT !.state = "COPYING"]
      PROVE  Sources(p)' = Sources(p) /\ Destinations(p)' = Destinations(p)
  <2>1. ASSUME NEW x \in Engines, NEW role PROVE PendingAt(x, role, p)' = PendingAt(x, role, p)
    <3>1. \A k \in Migrations : k \in PendingAt(x, role, p)' <=> k \in PendingAt(x, role, p)
      <4> SUFFICES ASSUME NEW k \in Migrations
                   PROVE  k \in PendingAt(x, role, p)' <=> k \in PendingAt(x, role, p)
        OBVIOUS
      <4>1. transfers[x][k] \in PM!Transfers
        BY <1>1
      <4>2. CASE transfers'[x][k] = transfers[x][k]
        BY <4>2 DEF PendingAt
      <4>3. CASE /\ transfers[x][k].state \notin {"QUEUED", "COPYING"}
                 /\ transfers'[x][k].state \notin {"QUEUED", "COPYING"}
        BY <4>3 DEF PendingAt
      <4>4. CASE /\ transfers[x][k].state = "QUEUED"
                 /\ transfers'[x][k] = [transfers[x][k] EXCEPT !.state = "COPYING"]
        <5>1. /\ transfers'[x][k].state = "COPYING"
              /\ transfers'[x][k].role = transfers[x][k].role
              /\ transfers'[x][k].pair = transfers[x][k].pair
          BY <4>1, <4>4 DEF PM!Transfers
        <5>2. QED
          BY <4>4, <5>1 DEF PendingAt
      <4>5. QED
        BY <1>3, <4>2, <4>3, <4>4
    <3>2. QED
      BY <3>1 DEF PendingAt
  <2>2. QED
    BY <1>2, <2>1 DEF Sources, Destinations
<1>4. CASE SameCopies
  BY <1>3, <1>4 DEF SameCopies
<1>5. ASSUME NEW x \in Engines, Dequeues(x)
      PROVE  Sources(p)' = Sources(p) /\ Destinations(p)' = Destinations(p)
  <2> DEFINE k == Head(queue[x])
  <2>1. queue[x] \in Seq(Migrations) /\ queue[x] # <<>>
    BY <1>5, QueueFacts DEF Dequeues
  <2>2. 1 \in DOMAIN queue[x] /\ k = queue[x][1] /\ k \in Migrations
    BY <2>1
  <2>3. transfers[x][k].state = "QUEUED"
    BY <2>2, QueueFacts
  <2>4. /\ transfers'[x][k] = [transfers[x][k] EXCEPT !.state = "COPYING"]
        /\ WritesRecord(x, k)
    BY <1>5 DEF Dequeues
  <2> HIDE DEF k
  <2>5. QED
    BY <1>3, <2>3, <2>4 DEF WritesRecord
<1>6. ASSUME NEW n \in Migrations, InstallsCopy(n)
      PROVE  Sources(p)' = Sources(p) /\ Destinations(p)' = Destinations(p)
  BY <1>3, <1>6 DEF InstallsCopy, WritesRecord
<1>7. ASSUME NEW x \in Engines, NEW n \in Migrations, DropsRecord(x, n)
      PROVE  Sources(p)' = Sources(p) /\ Destinations(p)' = Destinations(p)
  BY <1>3, <1>7 DEF DropsRecord, WritesRecord
<1>8. ASSUME NEW q \in Pairs, NEW m \in Migrations, NEW n \in Migrations, Matches(q, m, n)
      PROVE  \/ Sources(p)' = Sources(p) /\ Destinations(p)' = Destinations(p)
             \/ /\ m \in Sources(p) /\ n \in Destinations(p)
                /\ Sources(p)' = Sources(p) \ {m}
                /\ Destinations(p)' = Destinations(p) \ {n}
  <2>1. q[1] \in Engines /\ q[2] \in Engines /\ q[1] # q[2] /\ q = <<q[1], q[2]>>
    BY ProtocolAssumption
  <2>2. /\ transfers[q[1]][m].state = "COPYING" /\ transfers[q[1]][m].role = "source"
        /\ transfers[q[1]][m].pair = q /\ transfers'[q[1]][m].state = "COMPLETE"
        /\ transfers[q[2]][n].state = "COPYING" /\ transfers[q[2]][n].role = "destination"
        /\ transfers[q[2]][n].pair = q /\ transfers'[q[2]][n].state = "COPY_DONE"
        /\ \A x \in Engines, k \in Migrations : <<x, k>> \notin {<<q[1], m>>, <<q[2], n>>} =>
              transfers'[x][k] = transfers[x][k]
    BY <1>8 DEF Matches
  <2>3. Sources(p)' = IF p = q THEN Sources(p) \ {m} ELSE Sources(p)
    <3>1. \A k \in Migrations :
             k \in Sources(p)' <=> k \in Sources(p) /\ (p = q => k # m)
      BY <1>2, <2>1, <2>2 DEF Sources, PendingAt
    <3>2. Sources(p) \subseteq Migrations /\ Sources(p)' \subseteq Migrations
      BY DEF Sources, PendingAt
    <3>3. QED
      BY <3>1, <3>2
  <2>4. Destinations(p)' = IF p = q THEN Destinations(p) \ {n} ELSE Destinations(p)
    <3>1. \A k \in Migrations :
             k \in Destinations(p)' <=> k \in Destinations(p) /\ (p = q => k # n)
      BY <1>2, <2>1, <2>2 DEF Destinations, PendingAt
    <3>2. Destinations(p) \subseteq Migrations /\ Destinations(p)' \subseteq Migrations
      BY DEF Destinations, PendingAt
    <3>3. QED
      BY <3>1, <3>2
  <2>5. p = q => m \in Sources(p) /\ n \in Destinations(p)
    BY <2>2 DEF Sources, Destinations, PendingAt
  <2>6. QED
    BY <2>3, <2>4, <2>5
<1>9. QED
  BY <1>4, <1>5, <1>6, <1>7, <1>8 DEF CopyMove

\* And after the start of one.
LEMMA PendingStarts ==
    ASSUME ProtocolInv, CallsLocked, NEW e \in Engines, NEW m \in Migrations,
           NEW role \in {"source", "destination"}, Enqueues(e, m, role), NEW p \in Pairs
    PROVE  /\ Sources(p)' = IF role = "source" /\ p = PairOf(m) THEN Sources(p) \cup {m}
                                                                ELSE Sources(p)
           /\ m \notin Sources(p) \/ role # "source"
           /\ Destinations(p)' = IF role = "destination" /\ p = PairOf(m)
                                 THEN Destinations(p) \cup {m} ELSE Destinations(p)
           /\ m \notin Destinations(p) \/ role # "destination"
<1> DEFINE row == migrations[m]
<1>1. /\ row.source \in Engines /\ row.destination \in Engines
      /\ PairOf(m) = <<row.source, row.destination>>
  BY WaitingRow DEF Enqueues, HoldsRow, PairOf
<1>2. p[1] \in Engines /\ p[2] \in Engines /\ p = <<p[1], p[2]>>
  BY ProtocolAssumption
<1>3. /\ transfers[e][m].state = "NONE"
      /\ transfers'[e][m].state = "QUEUED" /\ transfers'[e][m].role = role
      /\ transfers'[e][m].pair = PairOf(m)
      /\ role = "source" => e = row.source
      /\ role = "destination" => e = row.destination
      /\ WritesRecord(e, m)
  BY DEF Enqueues
<1>4. /\ Sources(p) \subseteq Migrations /\ Sources(p)' \subseteq Migrations
      /\ Destinations(p) \subseteq Migrations /\ Destinations(p)' \subseteq Migrations
  BY DEF Sources, Destinations, PendingAt
<1>5. \A k \in Migrations :
         k \in Sources(p)' <=> k \in Sources(p) \/ (role = "source" /\ p = PairOf(m) /\ k = m)
  BY <1>1, <1>2, <1>3 DEF WritesRecord, Sources, PendingAt
<1>6. \A k \in Migrations :
         k \in Destinations(p)' <=>
            k \in Destinations(p) \/ (role = "destination" /\ p = PairOf(m) /\ k = m)
  BY <1>1, <1>2, <1>3 DEF WritesRecord, Destinations, PendingAt
<1>7. m \notin Sources(p) \/ role # "source"
  <2> SUFFICES ASSUME m \in Sources(p), role = "source" PROVE FALSE
    OBVIOUS
  <2>1. transfers[p[1]][m].state # "NONE" /\ transfers[p[1]][m].pair = p
    BY DEF Sources, PendingAt
  <2>2. RecordFits(p[1], m)
    BY <1>2 DEF ProtocolInv, RecordsFit
  <2>3. p[1] = row.source
    BY <1>1, <1>2, <2>1, <2>2 DEF RecordFits
  <2>4. QED
    BY <1>3, <2>1, <2>3
<1>8. m \notin Destinations(p) \/ role # "destination"
  <2> SUFFICES ASSUME m \in Destinations(p), role = "destination" PROVE FALSE
    OBVIOUS
  <2>1. transfers[p[2]][m].state # "NONE" /\ transfers[p[2]][m].pair = p
    BY DEF Destinations, PendingAt
  <2>2. RecordFits(p[2], m)
    BY <1>2 DEF ProtocolInv, RecordsFit
  <2>3. p[2] = row.destination
    BY <1>1, <1>2, <2>1, <2>2 DEF RecordFits
  <2>4. QED
    BY <1>3, <2>1, <2>3
<1>9. QED
  BY <1>4, <1>5, <1>6, <1>7, <1>8

\* Two calls that hold their locks have no engine in common.
LEMMA CallsApart ==
    ASSUME ProtocolInv, CallsLocked, NEW m \in Migrations, NEW n \in Migrations, m # n,
           HoldsRow(m), HoldsRow(n)
    PROVE  {migrations[m].source, migrations[m].destination}
              \cap {migrations[n].source, migrations[n].destination} = {}
BY WaitingRow

\* The pair of a call that is about to start its source.
LEMMA StartingPair ==
    ASSUME ProtocolInv, Moves, NEW m \in Migrations, task'[m].pc \in {"startSource", "wait"}
    PROVE  /\ HoldsRow(m) /\ MigrationState(m) # "NONE"
           /\ PairOf(m)' = PairOf(m)
           /\ migrations'[m].source = migrations[m].source
           /\ migrations'[m].destination = migrations[m].destination
           /\ migrations'[m].agent = migrations[m].agent
           /\ migrations'[m].epoch = migrations[m].epoch
<1>1. HoldsRow(m)
  BY DEF Moves, TaskMove, HoldsRow
<1>2. MigrationState(m) # "NONE"
  BY <1>1, RowOfCall DEF Unfinished
<1>3. QED
  BY <1>1, <1>2, RowInUse DEF Moves, PairOf

\* No step leaves a source waiting without a destination.
LEMMA PairedStep ==
    ASSUME ProtocolInv, CallsLocked, CopiesPaired, Moves, CopyStep
    PROVE  CopiesPaired'
<1> SUFFICES ASSUME NEW p \in Pairs
             PROVE  /\ Cardinality(Sources(p)') <= Cardinality(Destinations(p)')
                    /\ \A m \in Migrations : task'[m].pc = "startSource" /\ PairOf(m) = p =>
                          Cardinality(Sources(p)') < Cardinality(Destinations(p)')
  BY StartingPair DEF CopiesPaired
<1>1. /\ Cardinality(Sources(p)) <= Cardinality(Destinations(p))
      /\ \A m \in Migrations : task[m].pc = "startSource" /\ PairOf(m) = p =>
            Cardinality(Sources(p)) < Cardinality(Destinations(p))
  BY DEF CopiesPaired
<1>2. /\ IsFiniteSet(Sources(p)) /\ Cardinality(Sources(p)) \in Nat
      /\ IsFiniteSet(Destinations(p)) /\ Cardinality(Destinations(p)) \in Nat
  BY PendingFinite
<1>3. CASE NoneStarts /\ CopyMove
  <2>1. \A m \in Migrations : task'[m].pc = "startSource" => task[m].pc = "startSource"
    BY <1>3 DEF NoneStarts
  <2>2. CASE Sources(p)' = Sources(p) /\ Destinations(p)' = Destinations(p)
    BY <1>1, <2>1, <2>2
  <2>3. ASSUME NEW m \in Sources(p), NEW n \in Destinations(p),
               Sources(p)' = Sources(p) \ {m}, Destinations(p)' = Destinations(p) \ {n}
        PROVE  /\ Cardinality(Sources(p)') = Cardinality(Sources(p)) - 1
               /\ Cardinality(Destinations(p)') = Cardinality(Destinations(p)) - 1
    BY <1>2, <2>3, FS_RemoveElement
  <2>4. QED
    BY <1>1, <1>2, <1>3, <2>1, <2>2, <2>3, PendingMoves DEF ProtocolInv
<1>4. ASSUME NEW e \in Engines, NEW n \in Migrations, Enqueues(e, n, "destination")
      PROVE  /\ Cardinality(Sources(p)') <= Cardinality(Destinations(p)')
             /\ \A m \in Migrations : task'[m].pc = "startSource" /\ PairOf(m) = p =>
                   Cardinality(Sources(p)') < Cardinality(Destinations(p)')
  <2>1. Sources(p)' = Sources(p)
    BY <1>4, PendingStarts
  <2>2. CASE p = PairOf(n)
    <3>1. Destinations(p)' = Destinations(p) \cup {n} /\ n \notin Destinations(p)
      BY <1>4, <2>2, PendingStarts
    <3>2. Cardinality(Destinations(p)') = Cardinality(Destinations(p)) + 1
      BY <1>2, <3>1, FS_AddElement
    <3>3. QED
      BY <1>1, <1>2, <2>1, <3>2
  <2>3. CASE p # PairOf(n)
    <3>1. Destinations(p)' = Destinations(p)
      BY <1>4, <2>3, PendingStarts
    <3>2. \A m \in Migrations \ {n} : task'[m] = task[m]
      BY <1>4 DEF Enqueues
    <3>3. QED
      BY <1>1, <2>1, <2>3, <3>1, <3>2
  <2>4. QED
    BY <2>2, <2>3
<1>5. ASSUME NEW e \in Engines, NEW n \in Migrations, Enqueues(e, n, "source")
      PROVE  /\ Cardinality(Sources(p)') <= Cardinality(Destinations(p)')
             /\ \A m \in Migrations : task'[m].pc = "startSource" /\ PairOf(m) = p =>
                   Cardinality(Sources(p)') < Cardinality(Destinations(p)')
  <2>1. Destinations(p)' = Destinations(p)
    BY <1>5, PendingStarts
  <2>2. /\ task[n].pc = "startSource" /\ task'[n].pc = "wait"
        /\ \A m \in Migrations \ {n} : task'[m] = task[m]
    BY <1>5 DEF Enqueues
  <2>3. CASE p = PairOf(n)
    <3>1. Sources(p)' = Sources(p) \cup {n} /\ n \notin Sources(p)
      BY <1>5, <2>3, PendingStarts
    <3>2. Cardinality(Sources(p)') = Cardinality(Sources(p)) + 1
      BY <1>2, <3>1, FS_AddElement
    <3>3. Cardinality(Sources(p)) < Cardinality(Destinations(p))
      BY <1>1, <2>2, <2>3
    <3>4. ASSUME NEW m \in Migrations, task'[m].pc = "startSource" PROVE PairOf(m) # p
      <4>1. m # n /\ task[m].pc = "startSource"
        BY <2>2, <3>4
      <4>2. migrations[m].source # migrations[n].source
        BY <2>2, <4>1, CallsApart DEF HoldsRow
      <4>3. QED
        BY <2>3, <4>2 DEF PairOf
    <3>5. QED
      BY <1>2, <2>1, <3>2, <3>3, <3>4
  <2>4. CASE p # PairOf(n)
    <3>1. Sources(p)' = Sources(p)
      BY <1>5, <2>4, PendingStarts
    <3>2. QED
      BY <1>1, <2>1, <2>2, <2>4, <3>1
  <2>5. QED
    BY <2>3, <2>4
<1>6. QED
  BY <1>3, <1>4, <1>5 DEF CopyStep

\* A copy starts from rows that are pinned at the source, and they stay so.
LEMMA CopySourcePinned ==
    ASSUME ProtocolInv, TasksFit', Moves, resets' = resets, overlaps' = overlaps,
           NEW m \in Migrations, CopyFits(m), MigrationState(m)' = "COPYING" \/ task'[m].pc = "group"
    PROVE  LET row == migrations'[m] IN prefixes'[row.source][row.agent] = row.epoch
<1> DEFINE row == migrations[m]
           q == prefixes'[row.source][row.agent]
<1>1. TaskFits(m) /\ TaskFits(m)' /\ TaskMove(m) /\ StateMoves(m)
  BY RowsMove DEF ProtocolInv, TasksFit, Moves
<1>2. \/ MigrationState(m) = "COPYING"
      \/ MigrationState(m) = "PREPARING" /\ task[m].pc = "group"
      \/ /\ MigrationState(m) = "PREPARING" /\ task[m].pc = "pin"
         /\ q = row.epoch
  BY <1>1 DEF StateMoves, Aborts, TaskMove, TaskFits, MigrationState
<1>3. LiveMigration(m) /\ MigrationState(m) \in {"COPYING", "PREPARING"}
  BY <1>2 DEF LiveMigration, LiveStates
<1>4. /\ migrations'[m].source = row.source /\ migrations'[m].agent = row.agent
      /\ migrations'[m].epoch = row.epoch
  BY <1>3, RowInUse DEF Moves
<1>5. CASE prefixes[row.source][row.agent] = row.epoch
  <2>1. ~DropsSource(m) /\ ~Rebinds(m)
    BY <1>3, PinWriters
  <2>2. ~(overlaps' > overlaps)
    BY DEF ProtocolInv, ControllerTyped
  <2>3. q = row.epoch
    BY <1>3, <1>5, <2>1, <2>2, SourcePinMoves
  <2>4. QED
    BY <1>4, <2>3
<1>6. CASE prefixes[row.source][row.agent] # row.epoch
  BY <1>2, <1>4, <1>6 DEF CopyFits, MigrationState
<1>7. QED
  BY <1>5, <1>6

\* What is copying has a call that waits for it.
LEMMA CopyingRuns ==
    ASSUME ProtocolInv, Moves, CallsEnd, NEW m \in Migrations, CopyFits(m),
           MigrationState(m)' = "COPYING"
    PROVE  Running(m)'
<1>1. StateMoves(m)
  BY RowsMove DEF Moves
<1>2. CASE MigrationState(m) = "COPYING"
  BY <1>2 DEF CallsEnd, CopyFits, MigrationState
<1>3. CASE task'[m].pc = "startDestination"
  BY <1>3 DEF Running, ReturnedStates
<1>4. QED
  BY <1>1, <1>2, <1>3 DEF StateMoves

\* What a call knows of its copy while it waits.
WaitFits(m) ==
    LET row == migrations[m]
        pc == task[m].pc
    IN
    /\ pc \in {"startSource", "wait"} =>
          /\ LastAt(row.destination, m)
          /\ transfers[row.destination][m].state = "COPY_DONE" =>
                transfers[row.destination][m].rows = "own"
    /\ pc = "startSource" => transfers[row.source][m].state = "NONE"
    /\ pc = "wait" => LastAt(row.source, m)

\* It holds when the call starts a side of its copy; the other calls are at other engines.
LEMMA WaitFitsStarts ==
    ASSUME ProtocolInv, CallsLocked, Moves, NEW m \in Migrations, WaitFits(m),
           NEW e \in Engines, NEW n \in Migrations, NEW role \in {"source", "destination"},
           Enqueues(e, n, role), task'[m].pc \in {"startSource", "wait"}
    PROVE  WaitFits(m)'
<1> DEFINE s == migrations[m].source
           d == migrations[m].destination
<1>1. /\ HoldsRow(m) /\ migrations'[m].source = s /\ migrations'[m].destination = d
      /\ s \in Engines /\ d \in Engines /\ s # d
  BY StartingPair, WaitingRow
<1>2. HoldsRow(n) /\ e \in {migrations[n].source, migrations[n].destination}
  BY DEF Enqueues, HoldsRow
<1>3. WritesRecord(e, n) /\ \A x \in Engines \ {e} : queue'[x] = queue[x]
  BY DEF Enqueues
<1>4. ASSUME NEW x \in {s, d}, x # e PROVE /\ LastAt(x, m) => LastAt(x, m)'
                                           /\ transfers'[x][m] = transfers[x][m]
  <2>1. queue'[x] = queue[x] /\ \A k \in Migrations : transfers'[x][k] = transfers[x][k]
    BY <1>1, <1>3, <1>4 DEF WritesRecord
  <2>2. QED
    BY <2>1 DEF LastAt
<1>5. CASE m # n
  <2>1. e \notin {s, d}
    BY <1>1, <1>2, <1>5, CallsApart
  <2>2. task'[m] = task[m]
    BY <1>5 DEF Enqueues
  <2>3. QED
    BY <1>1, <1>4, <2>1, <2>2 DEF WaitFits
<1>6. CASE m = n
  <2>1. transfers'[e][m].state = "QUEUED" /\ queue'[e] = Append(queue[e], m)
    BY <1>6 DEF Enqueues
  <2>2. LastAt(e, m)'
    <3>1. queue[e] \in Seq(Migrations)
      BY QueueFacts DEF ProtocolInv
    <3>2. queue'[e] # <<>> /\ queue'[e][Len(queue'[e])] = m
      BY <2>1, <3>1
    <3>3. QED
      BY <2>1, <3>2 DEF LastAt
  <2>3. CASE task'[m].pc = "startSource"
    <3>1. e = d /\ task[m].pc = "startDestination"
      BY <1>6, <2>3 DEF Enqueues
    <3>2. transfers[s][m].state = "NONE"
      BY <1>1, <3>1 DEF ProtocolInv, RecordsFit, RecordFits
    <3>3. transfers'[s][m].state = "NONE"
      BY <1>1, <1>4, <3>1, <3>2
    <3>4. QED
      BY <1>1, <2>1, <2>2, <2>3, <3>1, <3>3 DEF WaitFits
  <2>4. CASE task'[m].pc = "wait"
    <3>1. e = s /\ task[m].pc = "startSource"
      BY <1>6, <2>4 DEF Enqueues
    <3>2. /\ LastAt(d, m)
          /\ transfers[d][m].state = "COPY_DONE" => transfers[d][m].rows = "own"
      BY <3>1 DEF WaitFits
    <3>3. LastAt(d, m)' /\ transfers'[d][m] = transfers[d][m]
      BY <1>1, <1>4, <3>1, <3>2
    <3>4. QED
      BY <1>1, <2>2, <2>4, <3>1, <3>2, <3>3 DEF WaitFits
  <2>5. QED
    BY <2>3, <2>4
<1>7. QED
  BY <1>5, <1>6

\* The engines move on under a call that waits: what it is sent is its own copy.
LEMMA WaitFitsMoves ==
    ASSUME ProtocolInv, CallsLocked, CopiesFit, Quiet, Moves, NEW m \in Migrations, WaitFits(m),
           NoneStarts, CopyMove, task'[m].pc \in {"startSource", "wait"}
    PROVE  WaitFits(m)'
<1> DEFINE s == migrations[m].source
           d == migrations[m].destination
           none_stays == transfers[s][m].state = "NONE" => transfers'[s][m].state = "NONE"
           kept == \/ transfers'[d][m] = transfers[d][m]
                   \/ transfers'[d][m].state # "COPY_DONE"
<1>1. /\ HoldsRow(m) /\ migrations'[m].source = s /\ migrations'[m].destination = d
      /\ s \in Engines /\ d \in Engines /\ s # d
  BY StartingPair, WaitingRow
<1>2. task[m].pc = task'[m].pc
  BY DEF NoneStarts
<1>3. LastAt(d, m)' /\ (task'[m].pc = "wait" => LastAt(s, m)')
  BY <1>1, <1>2, LastAtMoves DEF WaitFits, ProtocolInv
<1>4. none_stays /\ (kept \/ \E p \in Pairs, j \in Migrations : Matches(p, j, m))
  <2>1. transfers \in [Engines -> [Migrations -> PM!Transfers]]
    BY ManagersTyped DEF ProtocolInv
  <2>2. CASE SameCopies
    BY <2>2 DEF SameCopies
  <2>3. ASSUME NEW x \in Engines, Dequeues(x)
        PROVE  none_stays /\ kept
    <3> DEFINE k == Head(queue[x])
    <3>1. queue[x] \in Seq(Migrations) /\ queue[x] # <<>>
      BY <2>3, QueueFacts DEF Dequeues, ProtocolInv
    <3>2. 1 \in DOMAIN queue[x] /\ k = queue[x][1] /\ k \in Migrations
      BY <3>1
    <3>3. transfers[x][k].state = "QUEUED"
      BY <3>2, QueueFacts DEF ProtocolInv
    <3>4. WritesRecord(x, k) /\ transfers'[x][k].state = "COPYING"
      BY <2>1, <2>3, <3>2 DEF Dequeues, PM!Transfers
    <3> HIDE DEF k
    <3>5. QED
      BY <1>1, <3>3, <3>4 DEF WritesRecord
  <2>4. ASSUME NEW p \in Pairs, NEW j \in Migrations, NEW n \in Migrations, Matches(p, j, n)
        PROVE  none_stays /\ (kept \/ n = m)
    <3>1. \A x \in Engines :
             \/ transfers'[x][m] = transfers[x][m]
             \/ transfers[x][m].state = "COPYING" /\ transfers'[x][m].state = "COMPLETE"
             \/ /\ transfers[x][m].state = "COPYING"
                /\ n = m
      BY <2>4 DEF Matches
    <3>2. QED
      BY <1>1, <2>4, <3>1
  <2>5. ASSUME NEW n \in Migrations, InstallsCopy(n)
        PROVE  none_stays /\ kept
    BY <1>1, <2>5 DEF InstallsCopy, WritesRecord
  <2>6. ASSUME NEW x \in Engines, NEW n \in Migrations, DropsRecord(x, n)
        PROVE  none_stays /\ kept
    BY <1>1, <2>6 DEF DropsRecord, WritesRecord
  <2>7. QED
    BY <2>2, <2>3, <2>4, <2>5, <2>6 DEF CopyMove
<1>5. transfers'[d][m].state = "COPY_DONE" => transfers'[d][m].rows = "own"
  BY <1>2, <1>4, MatchIsOwn DEF WaitFits
<1>6. QED
  BY <1>1, <1>2, <1>3, <1>4, <1>5 DEF WaitFits

\* As long as nothing is lost and nothing dies, the copies stay fitting.
LEMMA CopiesFitStep ==
    ASSUME ProtocolInv, CallsLocked, CopiesFit, [ProtocolNext]_protocolVars
    PROVE  CopiesFit'
<1> SUFFICES ASSUME Quiet'
             PROVE  VisibleRowsAreOwn' /\ CopiesPaired' /\ \A m \in Migrations : CopyFits(m)'
  BY DEF CopiesFit
<1>1. Moves /\ TasksFit'
  BY ProtocolInvStep DEF KeepsControl
<1>2. Quiet /\ resets' = resets /\ overlaps' = overlaps
  BY <1>1 DEF Moves, CallsMove, Quiet, ProtocolInv, ControllerTyped
<1>3. CopyStep /\ CallsEnd
  BY <1>2, StepCopies
<1>4. VisibleRowsAreOwn /\ CopiesPaired /\ \A m \in Migrations : CopyFits(m)
  BY <1>2 DEF CopiesFit
<1>5. VisibleRowsAreOwn'
  <2>1. SameRows
    <3>1. ASSUME NEW m \in Migrations, InstallsCopy(m) PROVE SameRows
      BY <1>4, <3>1 DEF InstallsCopy, CopyFits
    <3>2. QED
      BY <1>3, <3>1 DEF CopyStep, CopyMove, Enqueues, SameCopies, Dequeues, Matches, DropsRecord
  <2>2. QED
    BY <1>4, <2>1 DEF SameRows, VisibleRowsAreOwn
<1>6. CopiesPaired'
  BY <1>1, <1>3, <1>4, PairedStep
<1>7. ASSUME NEW m \in Migrations PROVE CopyFits(m)'
  <2>1. MigrationState(m)' = "COPYING" \/ task'[m].pc = "group" =>
           prefixes'[migrations'[m].source][migrations'[m].agent] = migrations'[m].epoch
    BY <1>1, <1>2, <1>4, CopySourcePinned
  <2>2. MigrationState(m)' = "COPYING" => Running(m)'
    BY <1>1, <1>3, <1>4, CopyingRuns
  <2>3. WaitFits(m)'
    <3>1. WaitFits(m)
      BY <1>4 DEF CopyFits, WaitFits
    <3>2. CASE task'[m].pc \notin {"startSource", "wait"}
      BY <3>2 DEF WaitFits
    <3>3. CASE task'[m].pc \in {"startSource", "wait"}
      BY <1>1, <1>2, <1>3, <3>1, <3>3, WaitFitsStarts, WaitFitsMoves DEF CopyStep
    <3>4. QED
      BY <3>2, <3>3
  <2>4. QED
    BY <2>1, <2>2, <2>3 DEF CopyFits, WaitFits, MigrationState
<1>8. QED
  BY <1>5, <1>6, <1>7

\* Before any call is made nothing waits and no row is visible but the owners' own.
LEMMA CopiesFitInit == ProtocolInit => CallsLocked /\ CopiesFit
<1> SUFFICES ASSUME ProtocolInit PROVE CallsLocked /\ CopiesFit
  OBVIOUS
<1>1. /\ task = [m \in Migrations |-> Idle]
      /\ migrations = [m \in Migrations |-> NoMigration]
      /\ PM!PrefixInit
  BY DEF ProtocolInit
<1>2. /\ \A m \in Migrations : task[m].pc = "idle" /\ migrations[m].state = "NONE"
      /\ \A e \in Engines, m \in Migrations : transfers[e][m].state = "NONE"
  BY <1>1 DEF Idle, NoMigration, PM!PrefixInit, PM!NoTransfer
<1>3. VisibleRowsAreOwn
  BY <1>1 DEF PM!PrefixInit, VisibleRowsAreOwn
<1>4. ASSUME NEW p \in Pairs PROVE Sources(p) = {} /\ Destinations(p) = {}
  BY <1>2, ProtocolAssumption DEF Sources, Destinations, PendingAt
<1>5. CopiesPaired
  BY <1>2, <1>4, PendingFinite DEF CopiesPaired
<1>6. CallsLocked /\ \A m \in Migrations : CopyFits(m)
  BY <1>2 DEF CallsLocked, CallLocked, HoldsRow, CopyFits
<1>7. QED
  BY <1>3, <1>5, <1>6 DEF CopiesFit

\* A call of migrate holds the locks it has awaited until it returns, so that of two calls
\* past their INSERT no two share an engine (CallsLocked): the ids are sorted, a call that
\* finds a new owner gives its lock back, and so does one that raises.
THEOREM CallsHoldTheirLocks == ProtocolSpec => []CallsLocked
<1> DEFINE Inv == ProtocolInv /\ CallsLocked
<1>1. ProtocolInit => Inv
  BY ProtocolInvInit, CopiesFitInit
<1>2. Inv /\ [ProtocolNext]_protocolVars => Inv'
  BY ProtocolInvStep, LocksHeldStep
<1>3. Inv => CallsLocked
  OBVIOUS
<1>4. QED
  BY <1>1, <1>2, <1>3, PTL DEF ProtocolSpec

\* As long as no RPC is lost, no copy fails and nothing dies, an agent is never served
\* from the KV rows of another (RowsStayOwn), although the messages of a pair of engines
\* are matched in the order they were posted and carry no name.
THEOREM RowsAlwaysOwn == ProtocolSpec => []RowsStayOwn
<1> DEFINE Inv == ProtocolInv /\ CallsLocked /\ CopiesFit
<1>1. ProtocolInit => Inv
  BY ProtocolInvInit, CopiesFitInit
<1>2. Inv /\ [ProtocolNext]_protocolVars => Inv'
  BY ProtocolInvStep, LocksHeldStep, CopiesFitStep
<1>3. Inv => RowsStayOwn
  BY DEF ProtocolInv, ControllerTyped, CopiesFit, Quiet, RowsStayOwn
<1>4. QED
  BY <1>1, <1>2, <1>3, PTL DEF ProtocolSpec
=============================================================================
