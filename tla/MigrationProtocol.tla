-------------------------- MODULE MigrationProtocol --------------------------
(***************************************************************************)
(* agentshift/controller/migration.py: MigrationCoordinator, composed with *)
(* the durable store (StateStore) and the prefix managers of the engines   *)
(* (PrefixManager).  One controller process runs any number of calls as    *)
(* asyncio tasks of one event loop: a call is interrupted only where it    *)
(* awaits, so what it does between two awaits is one action, the store's   *)
(* transactions included (but a crash may fall between its last two: the   *)
(* one to DEST_READY and the commit).  A control RPC is one action too:    *)
(* the engine executes it between its request and its answer.  It can      *)
(* raise in three ways: the handler raises, the request never arrives, or  *)
(* it is executed and the answer is lost; MaxFaults bounds the last two.   *)
(* The controller may crash between any two actions, and then reconciles;  *)
(* an engine process may die and be started again, or have its cache       *)
(* flushed.                                                                *)
(*                                                                         *)
(* Modelled: the asynchronous, non-progressive path of migrate, and every  *)
(* public method for what follows the commit or a restart.  Not modelled:  *)
(* byte counters, the synchronous baseline, progressive migration (the     *)
(* patch has no handler for it), groups made ahead of a migration, and a   *)
(* request executed after its caller gave up on it.                        *)
(***************************************************************************)
EXTENDS StateStore, Sequences

CONSTANTS
    Home,           \* agent -> engine that first owns it
    Pairs,          \* <<source, destination>> pairs migrations may use
    MaxEpoch,       \* the largest epoch the migrations can reach
    MaxQueue,       \* maxsize of an engine's transfer queue
    Slots,          \* KV rows of an engine, in prefixes
    MaxFaults,      \* bound: RPCs lost and copies failed
    MaxCrashes,     \* bound: crashes of the controller
    MaxResets,      \* bound: engines that die and are started again, or are flushed
    MaxOverlaps     \* bound: destinations finalized while the agent migrates on

ASSUME ProtocolAssumption ==
    /\ Engines \subseteq Nat \ {0}       \* engine ids, in sorted order
    /\ Home \in [Agents -> Engines]
    /\ IsFiniteSet(Agents) /\ IsFiniteSet(Migrations)
    /\ None \notin Migrations
    /\ Pairs \subseteq {p \in Engines \X Engines : p[1] # p[2]}
       \* a call that finds a new owner starts again from there
    /\ \A p \in Pairs : \A e \in Engines \ {p[2]} : <<e, p[2]>> \in Pairs
    /\ MaxEpoch \in Nat
    /\ MaxEpoch >= InitialEpoch + 2 * Cardinality(Migrations)
    /\ MaxQueue \in Nat \ {0}
    /\ Slots \in Nat
    /\ {MaxFaults, MaxCrashes, MaxResets, MaxOverlaps} \subseteq Nat

VARIABLES
    prefixes, locks, cache, free, transfers, queue, groups,    \* PrefixManager
    task,           \* migrate() calls: migration id -> program counter and locals
    engineLock,     \* _engine_locks: engine -> the migration that holds it
    established,    \* _pair_groups: the pairs whose group the controller has made
    acking,         \* source engine -> the migration whose release was answered
    recovering,     \* migration -> recovery engine of a call past its rebind
    reconcile,      \* the reconcile_after_restart call
    faults, crashes, resets, overlaps

engineVars == <<prefixes, locks, cache, free, transfers, queue, groups>>
controllerVars == <<task, engineLock, established, acking, recovering, reconcile>>
budgetVars == <<faults, crashes, resets, overlaps>>
protocolVars == <<storeVars, engineVars, controllerVars, budgetVars>>

PM == INSTANCE PrefixManager

-----------------------------------------------------------------------------
(* Calls in progress. *)

Idle ==
    [pc |-> "idle", agent |-> None, source |-> None, destination |-> None,
     epoch |-> 0, src |-> "wait", dst |-> "wait", failed |-> FALSE]

ReturnedStates == {"idle", "done", "failed"}

Running(m) == task[m].pc \notin ReturnedStates

\* Mutant: the locks are taken source first.
FirstUnsorted(m) == task[m].source

First(m) == IF task[m].source < task[m].destination
            THEN task[m].source ELSE task[m].destination

Second(m) == IF First(m) = task[m].source THEN task[m].destination ELSE task[m].source

Side(m, side) == IF side = "src" THEN task[m].source ELSE task[m].destination

NotReconciling ==
    [pc |-> "idle", m |-> None, todo |-> {}, src |-> "wait", dst |-> "wait",
     copying |-> FALSE]

ProtocolInit ==
    /\ agents = [a \in Agents |->
                   [owner |-> Home[a], epoch |-> InitialEpoch, step |-> 0]]
    /\ migrations = [m \in Migrations |-> NoMigration]
    /\ claims = [a \in Agents |-> [s \in Steps |-> NoClaim]]
    /\ starting = [m \in Migrations |-> NoMigration]
    /\ PM!PrefixInit
    /\ task = [m \in Migrations |-> Idle]
    /\ engineLock = [e \in Engines |-> None]
    /\ established = {}
    /\ acking = [e \in Engines |-> None]
    /\ recovering = [m \in Migrations |-> None]
    /\ reconcile = NotReconciling
    /\ faults = 0 /\ crashes = 0 /\ resets = 0 /\ overlaps = 0

-----------------------------------------------------------------------------
(* Control RPCs. *)

\* allowed: the handler does not raise; call: what it does to the engines;
\* answered, raised: how the caller goes on.
Rpc(allowed, call, answered, raised) ==
    \/ allowed /\ call /\ answered /\ UNCHANGED faults
    \/ ~allowed /\ raised /\ UNCHANGED <<engineVars, faults>>
    \/ /\ faults < MaxFaults
       /\ faults' = faults + 1
       /\ \/ UNCHANGED engineVars
          \/ allowed /\ call
       /\ raised

\* A poll finds the copy done and fails to install it.
InstallFails(e, m) ==
    /\ faults < MaxFaults
    /\ faults' = faults + 1
    /\ PM!install_fails(e, m)

\* A pin locks the prefix and fails to register it.
PinFails(e, a) ==
    /\ faults < MaxFaults
    /\ faults' = faults + 1
    /\ PM!pin_fails(e, a)

-----------------------------------------------------------------------------
(* migrate. *)

Unlocked(m) ==
    [e \in Engines |-> IF engineLock[e] = m THEN None ELSE engineLock[e]]

\* The task moves on and writes nothing.
Goto(m, pc) ==
    /\ task' = [task EXCEPT ![m].pc = pc]
    /\ UNCHANGED <<storeVars, engineLock>>

\* The except clause of _migrate_serial and the finally of migrate.
Raise(m) ==
    /\ IF MigrationState(m) \in {"PREPARING", "COPYING"}
       THEN transition_migration(m, MigrationState(m), "ABORTED")
       ELSE UNCHANGED storeVars
    /\ engineLock' = Unlocked(m)
    /\ task' = [task EXCEPT ![m].pc = "failed"]

migrate(m, a, destination) ==
    /\ task[m].pc = "idle"
    /\ reconcile.pc = "idle"
    /\ <<agents[a].owner, destination>> \in Pairs
    /\ task' = [task EXCEPT ![m] =
                  [Idle EXCEPT !.pc = "lock1", !.agent = a,
                               !.source = agents[a].owner,
                               !.destination = destination]]
    /\ UNCHANGED <<storeVars, engineVars, engineLock, established, acking, recovering,
                   reconcile, budgetVars>>

\* Mutant: no lock is ever waited for.
LockIgnored(e) == TRUE

\* asyncio.Lock.acquire returns.
LockFree(e) == engineLock[e] = None

acquire_first_lock(m) ==
    /\ task[m].pc = "lock1"
    /\ LockFree(First(m))
    /\ engineLock' = [engineLock EXCEPT ![First(m)] = m]
    /\ task' = [task EXCEPT ![m].pc = "lock2"]
    /\ UNCHANGED <<storeVars, engineVars, established, acking, recovering, reconcile,
                   budgetVars>>

\* With both locks the owner is read again; then, without an await, the lease is
\* checked and the row inserted (start_migration_check and _insert in one action).
acquire_second_lock(m) ==
    LET a == task[m].agent
        owner == agents[a].owner
    IN
    /\ task[m].pc = "lock2"
    /\ LockFree(Second(m))
    /\ \/ /\ owner # task[m].source
          /\ task' = [task EXCEPT ![m] =
                        [@ EXCEPT !.pc = IF owner = task[m].destination
                                         THEN "failed" ELSE "lock1",
                                  !.source = owner]]
          /\ engineLock' = Unlocked(m)
          /\ UNCHANGED storeVars
       \/ /\ owner = task[m].source
          /\ HasLiveMigration(a)
          /\ Raise(m)
       \/ /\ owner = task[m].source
          /\ ~HasLiveMigration(a)
          /\ migrations' = [migrations EXCEPT ![m] =
                [agent |-> a, source |-> owner, destination |-> task[m].destination,
                 epoch |-> agents[a].epoch, state |-> "PREPARING"]]
          /\ engineLock' = [engineLock EXCEPT ![Second(m)] = m]
          /\ task' = [task EXCEPT ![m] =
                        [@ EXCEPT !.pc = "pin", !.epoch = agents[a].epoch]]
          /\ UNCHANGED <<agents, claims, starting>>
    /\ UNCHANGED <<engineVars, established, acking, recovering, reconcile, budgetVars>>

\* What the steps of a task that holds its locks leave alone.
TaskStep == UNCHANGED <<acking, recovering, reconcile, crashes, resets, overlaps>>

pin_source(m) ==
    LET t == task[m] IN
    /\ t.pc = "pin"
    /\ \/ Rpc(PM!PinAllowed(t.source, t.agent, t.epoch),
              PM!pin(t.source, t.agent, t.epoch),
              Goto(m, "group"), Raise(m))
       \/ PinFails(t.source, t.agent) /\ Raise(m)
    /\ UNCHANGED established
    /\ TaskStep

StartCopying(m) ==
    /\ transition_migration(m, "PREPARING", "COPYING")
    /\ task' = [task EXCEPT ![m].pc = "startDestination"]
    /\ UNCHANGED engineLock

ensure_group(m) ==
    LET pair == <<task[m].source, task[m].destination>> IN
    /\ task[m].pc = "group"
    /\ \/ /\ pair \in established
          /\ StartCopying(m)
          /\ UNCHANGED <<engineVars, established, faults>>
       \/ /\ pair \notin established
          /\ Rpc(PM!InitGroupAllowed(pair[1], pair[2]),
                 PM!init_transfer_group(pair[1], pair[2]),
                 StartCopying(m) /\ established' = established \cup {pair},
                 Raise(m) /\ UNCHANGED established)
    /\ TaskStep

start_destination(m) ==
    LET t == task[m]
        pair == <<t.source, t.destination>>
    IN
    /\ t.pc = "startDestination"
    /\ \/ Rpc(PM!StartAllowed(t.destination, "destination", m, t.agent, t.epoch + 1, pair),
              PM!start_transfer(t.destination, "destination", m, t.agent, t.epoch + 1, pair),
              Goto(m, "startSource"), Raise(m))
       \/ /\ PM!start_transfer_full(t.destination, m, t.agent, t.epoch + 1, pair)
          /\ Raise(m)
          /\ UNCHANGED faults
    /\ UNCHANGED established
    /\ TaskStep

start_source(m) ==
    LET t == task[m]
        pair == <<t.source, t.destination>>
    IN
    /\ t.pc = "startSource"
    /\ Rpc(PM!StartAllowed(t.source, "source", m, t.agent, t.epoch, pair),
           PM!start_transfer(t.source, "source", m, t.agent, t.epoch, pair),
           Goto(m, "wait"), Raise(m))
    /\ UNCHANGED established
    /\ TaskStep

Other(side) == IF side = "src" THEN "dst" ELSE "src"

\* Mutant: only the error of the last waiter counts.
WaitedLast(m, side, ok) ==
    /\ task' = [task EXCEPT ![m] =
          IF task[m][Other(side)] = "wait"
          THEN [@ EXCEPT ![side] = "done"]
          ELSE [@ EXCEPT !.src = "wait", !.dst = "wait", !.failed = ~ok,
                         !.pc = IF ~ok THEN "release" ELSE "cleanup"]]
    /\ UNCHANGED <<storeVars, engineLock>>

\* Mutant: the first error of a waiter is raised without the cleanup.
WaitedRaises(m, side, ok) ==
    IF ~ok THEN Raise(m)
    ELSE /\ task' = [task EXCEPT ![m] =
                IF task[m][Other(side)] = "wait"
                THEN [@ EXCEPT ![side] = "done"]
                ELSE [@ EXCEPT !.src = "wait", !.dst = "wait", !.pc = "cleanup"]]
         /\ UNCHANGED <<storeVars, engineLock>>

\* One of the two waiters ends; gather returns when both have.
Waited(m, side, ok) ==
    LET failed == task[m].failed \/ ~ok IN
    /\ task' = [task EXCEPT ![m] =
          IF task[m][Other(side)] = "wait"
          THEN [@ EXCEPT ![side] = "done", !.failed = failed]
          ELSE [@ EXCEPT !.src = "wait", !.dst = "wait", !.failed = failed,
                         !.pc = IF failed THEN "release" ELSE "cleanup"]]
    /\ UNCHANGED <<storeVars, engineLock>>

wait_for_transfer(m, side) ==
    LET e == Side(m, side) IN
    /\ task[m].pc = "wait"
    /\ task[m][side] = "wait"
    /\ \/ Rpc(PM!PollAllowed(e, m), PM!poll_transfer(e, m),
              IF PM!PolledState(e, m) = "COMPLETE" THEN Waited(m, side, TRUE)
                                                   ELSE Goto(m, "wait"),
              Waited(m, side, FALSE))
       \/ InstallFails(e, m) /\ Waited(m, side, FALSE)
    /\ UNCHANGED established
    /\ TaskStep

\* The deadline passes while the transfer is still queued or copying.
transfer_timeout(m, side) ==
    /\ task[m].pc = "wait"
    /\ task[m][side] = "wait"
    /\ PM!TransferState(Side(m, side), m) \in {"QUEUED", "COPYING"}
    /\ Waited(m, side, FALSE)
    /\ UNCHANGED <<engineVars, established, faults>>
    /\ TaskStep

release_destination(m) ==
    LET t == task[m] IN
    /\ t.pc = "release"
    /\ Rpc(PM!ReleaseAllowed(t.destination, t.agent, t.epoch + 1, TRUE),
           PM!release(t.destination, t.agent, t.epoch + 1, TRUE, TRUE),
           Goto(m, "cleanup"), Goto(m, "cleanup"))
    /\ UNCHANGED established
    /\ TaskStep

\* What follows the last cleanup: the error is raised, or the copy is declared ready.
CleanedUp(m, side) ==
    IF task[m][Other(side)] = "wait"
    THEN /\ task' = [task EXCEPT ![m][side] = "done"]
         /\ UNCHANGED <<storeVars, engineLock>>
    ELSE IF task[m].failed
    THEN Raise(m)
    ELSE /\ transition_migration(m, "COPYING", "DEST_READY")
         /\ task' = [task EXCEPT ![m].pc = "commit"]
         /\ UNCHANGED engineLock

cleanup_transfer(m, side) ==
    LET e == Side(m, side) IN
    /\ task[m].pc = "cleanup"
    /\ task[m][side] = "wait"
    /\ Rpc(PM!CleanupAllowed(e, m), PM!cleanup_transfer(e, m),
           CleanedUp(m, side), CleanedUp(m, side))
    /\ UNCHANGED established
    /\ TaskStep

CanCommit(m) ==
    LET a == migrations[m].agent IN
    /\ agents[a].owner = migrations[m].source
    /\ agents[a].epoch = migrations[m].epoch

commit(m) ==
    /\ task[m].pc = "commit"
    /\ \/ /\ CanCommit(m)
          /\ commit_migration(m)
          /\ engineLock' = Unlocked(m)
          /\ task' = [task EXCEPT ![m].pc = "done"]
       \/ ~CanCommit(m) /\ Raise(m)
    /\ UNCHANGED <<engineVars, established, faults>>
    /\ TaskStep

MigrateStep(m) ==
    \/ acquire_first_lock(m)
    \/ acquire_second_lock(m)
    \/ pin_source(m)
    \/ ensure_group(m)
    \/ start_destination(m)
    \/ start_source(m)
    \/ \E side \in {"src", "dst"} :
          \/ wait_for_transfer(m, side)
          \/ transfer_timeout(m, side)
          \/ cleanup_transfer(m, side)
    \/ release_destination(m)
    \/ commit(m)

-----------------------------------------------------------------------------
(* After the commit. *)

\* Mutant: any migration can be acknowledged, committed or not.
acknowledge_uncommitted(m) ==
    LET row == migrations[m] IN
    /\ row.state # "NONE"
    /\ acking[row.source] = None
    /\ Rpc(PM!ReleaseAllowed(row.source, row.agent, row.epoch, TRUE),
           PM!release(row.source, row.agent, row.epoch, TRUE, TRUE),
           acking' = [acking EXCEPT ![row.source] = m],
           UNCHANGED acking)
    /\ UNCHANGED <<storeVars, task, engineLock, established, recovering, reconcile,
                   crashes, resets, overlaps>>

\* Mutant: the release does not pass allow_missing.
acknowledge_destination_once(m) ==
    LET row == migrations[m] IN
    /\ row.state = "COMMITTED"
    /\ acking[row.source] = None
    /\ Rpc(PM!ReleaseAllowed(row.source, row.agent, row.epoch, FALSE),
           PM!release(row.source, row.agent, row.epoch, TRUE, FALSE),
           acking' = [acking EXCEPT ![row.source] = m],
           UNCHANGED acking)
    /\ UNCHANGED <<storeVars, task, engineLock, established, recovering, reconcile,
                   crashes, resets, overlaps>>

\* The release lock of the source is held from before the release to the CAS.
acknowledge_destination(m) ==
    LET row == migrations[m] IN
    /\ row.state = "COMMITTED"
    /\ acking[row.source] = None
    /\ Rpc(PM!ReleaseAllowed(row.source, row.agent, row.epoch, TRUE),
           PM!release(row.source, row.agent, row.epoch, TRUE, TRUE),
           acking' = [acking EXCEPT ![row.source] = m],
           UNCHANGED acking)
    /\ UNCHANGED <<storeVars, task, engineLock, established, recovering, reconcile,
                   crashes, resets, overlaps>>

source_released(m) ==
    /\ m \in {acking[e] : e \in Engines}
    /\ \/ transition_migration(m, "COMMITTED", "SOURCE_RELEASED")
       \/ MigrationState(m) # "COMMITTED" /\ UNCHANGED storeVars
    /\ acking' = [acking EXCEPT ![migrations[m].source] = None]
    /\ UNCHANGED <<engineVars, task, engineLock, established, recovering, reconcile,
                   budgetVars>>

\* Its acknowledgement is acknowledge_destination, or finds the source released.  Nothing
\* tells its destination's pin from the source's of the agent's next migration, which may
\* be under way; the callers there are finalize before it (benchmark_trace_autoscaling.py:397).
finalize_destination(m, keep_cached) ==
    LET row == migrations[m] IN
    /\ row.state = "SOURCE_RELEASED"
    /\ \/ ~HasLiveMigration(row.agent) /\ UNCHANGED overlaps
       \/ /\ HasLiveMigration(row.agent)
          /\ overlaps < MaxOverlaps
          /\ overlaps' = overlaps + 1
    /\ Rpc(PM!ReleaseAllowed(row.destination, row.agent, row.epoch + 1, TRUE),
           PM!release(row.destination, row.agent, row.epoch + 1, ~keep_cached, TRUE),
           TRUE, TRUE)
    /\ UNCHANGED <<storeVars, controllerVars, crashes, resets>>

\* Mutant: a rebind that raises ends the recovery.
recover_unless_raised(m, recovery_engine) ==
    LET row == migrations[m]
        recovers == recovering' = [recovering EXCEPT ![m] = recovery_engine]
    IN
    /\ recovering[m] = None
    /\ row.state \in {"COMMITTED", "SOURCE_RELEASED"}
    /\ IF row.state = "COMMITTED" /\ recovery_engine = row.source
       THEN Rpc(PM!RebindAllowed(row.source, row.agent, row.epoch, row.epoch + 2),
                PM!rebind(row.source, row.agent, row.epoch, row.epoch + 2),
                recovers, UNCHANGED recovering)
       ELSE recovers /\ UNCHANGED <<engineVars, faults>>
    /\ UNCHANGED <<storeVars, task, engineLock, established, acking, reconcile,
                   crashes, resets, overlaps>>

\* The shadow is rebound before the store is asked, and a failure to is ignored.
recover_destination_failure(m, recovery_engine) ==
    LET row == migrations[m] IN
    /\ recovering[m] = None
    /\ row.state \in {"COMMITTED", "SOURCE_RELEASED"}
    /\ IF row.state = "COMMITTED" /\ recovery_engine = row.source
       THEN Rpc(PM!RebindAllowed(row.source, row.agent, row.epoch, row.epoch + 2),
                PM!rebind(row.source, row.agent, row.epoch, row.epoch + 2),
                TRUE, TRUE)
       ELSE UNCHANGED <<engineVars, faults>>
    /\ recovering' = [recovering EXCEPT ![m] = recovery_engine]
    /\ UNCHANGED <<storeVars, task, engineLock, established, acking, reconcile,
                   crashes, resets, overlaps>>

CanRecover(m) ==
    LET a == migrations[m].agent IN
    /\ MigrationState(m) \in {"COMMITTED", "SOURCE_RELEASED"}
    /\ agents[a].owner = migrations[m].destination
    /\ agents[a].epoch = migrations[m].epoch + 1

recovered(m) ==
    /\ recovering[m] # None
    /\ \/ recover_committed_migration(m, recovering[m])
       \/ ~CanRecover(m) /\ UNCHANGED storeVars
    /\ recovering' = [recovering EXCEPT ![m] = None]
    /\ UNCHANGED <<engineVars, task, engineLock, established, acking, reconcile,
                   budgetVars>>

-----------------------------------------------------------------------------
(* Restart of the controller. *)

controller_crash ==
    /\ crashes < MaxCrashes
    /\ crashes' = crashes + 1
    /\ task' = [m \in Migrations |->
                  IF Running(m) THEN [task[m] EXCEPT !.pc = "failed"] ELSE task[m]]
    /\ engineLock' = [e \in Engines |-> None]
    /\ established' = {}
    /\ acking' = [e \in Engines |-> None]
    /\ recovering' = [m \in Migrations |-> None]
    /\ reconcile' = NotReconciling
    /\ UNCHANGED <<storeVars, engineVars, faults, resets, overlaps>>

Unfinished == {m \in Migrations : MigrationState(m) \in {"PREPARING", "COPYING", "DEST_READY"}}

\* What reconcile_after_restart leaves alone.
ReconcileStep ==
    UNCHANGED <<task, engineLock, established, acking, recovering, crashes, resets,
                overlaps>>

\* Called at start-up, or again for the migrations it has left to wait for.
reconcile_after_restart ==
    /\ reconcile.pc = "idle"
    /\ \A m \in Migrations : ~Running(m)
    /\ Unfinished # {}
    /\ reconcile' = [NotReconciling EXCEPT !.pc = "next", !.todo = Unfinished]
    /\ UNCHANGED <<storeVars, engineVars, faults>>
    /\ ReconcileStep

reconcile_next ==
    /\ reconcile.pc = "next"
    /\ \/ \E m \in reconcile.todo :
             reconcile' =
               [NotReconciling EXCEPT
                  !.pc = IF MigrationState(m) = "COPYING" THEN "poll" ELSE "release",
                  !.m = m, !.todo = reconcile.todo \ {m}]
       \/ reconcile.todo = {} /\ reconcile' = NotReconciling
    /\ UNCHANGED <<storeVars, engineVars, faults>>
    /\ ReconcileStep

ReconciledSide(side) ==
    IF side = "src" THEN migrations[reconcile.m].source
                    ELSE migrations[reconcile.m].destination

\* One status, an exception included, has been gathered.
StatusGathered(side, copying) ==
    LET any == reconcile.copying \/ copying IN
    reconcile' =
      IF reconcile[Other(side)] = "wait"
      THEN [reconcile EXCEPT ![side] = "done", !.copying = any]
      ELSE [reconcile EXCEPT !.src = "wait", !.dst = "wait", !.copying = FALSE,
                             !.pc = IF any THEN "next" ELSE "cleanup"]

reconcile_status(side) ==
    LET e == ReconciledSide(side)
        m == reconcile.m
    IN
    /\ reconcile.pc = "poll"
    /\ reconcile[side] = "wait"
    /\ \/ Rpc(PM!PollAllowed(e, m), PM!poll_transfer(e, m),
              StatusGathered(side, PM!PolledState(e, m) # "COMPLETE"),
              StatusGathered(side, FALSE))
       \/ InstallFails(e, m) /\ StatusGathered(side, FALSE)
    /\ UNCHANGED storeVars
    /\ ReconcileStep

CleanupGathered(side) ==
    reconcile' = IF reconcile[Other(side)] = "wait"
                 THEN [reconcile EXCEPT ![side] = "done"]
                 ELSE [reconcile EXCEPT !.pc = "release"]

reconcile_cleanup(side) ==
    LET e == ReconciledSide(side) IN
    /\ reconcile.pc = "cleanup"
    /\ reconcile[side] = "wait"
    /\ Rpc(PM!CleanupAllowed(e, reconcile.m), PM!cleanup_transfer(e, reconcile.m),
           CleanupGathered(side), CleanupGathered(side))
    /\ UNCHANGED storeVars
    /\ ReconcileStep

\* Mutant: the destination is not told.
reconcile_abort_silently ==
    /\ reconcile.pc = "release"
    /\ transition_migration(reconcile.m, migrations[reconcile.m].state, "ABORTED")
    /\ reconcile' = [reconcile EXCEPT !.pc = "next"]
    /\ UNCHANGED <<engineVars, faults>>
    /\ ReconcileStep

\* A release that raises ends the whole call.
reconcile_abort ==
    LET m == reconcile.m
        row == migrations[m]
    IN
    /\ reconcile.pc = "release"
    /\ Rpc(PM!ReleaseAllowed(row.destination, row.agent, row.epoch + 1, TRUE),
           PM!release(row.destination, row.agent, row.epoch + 1, TRUE, TRUE),
           /\ transition_migration(m, row.state, "ABORTED")
           /\ reconcile' = [reconcile EXCEPT !.pc = "next"],
           UNCHANGED storeVars /\ reconcile' = NotReconciling)
    /\ ReconcileStep

Reconciling ==
    \/ reconcile_after_restart
    \/ reconcile_next
    \/ \E side \in {"src", "dst"} : reconcile_status(side) \/ reconcile_cleanup(side)
    \/ reconcile_abort

-----------------------------------------------------------------------------
(* Engines. *)

TransferWorkers ==
    /\ \/ \E e \in Engines : PM!worker_take(e)
       \/ \E p \in Pairs, m, n \in Migrations : PM!copy_kv(p[1], p[2], m, n)
    /\ UNCHANGED <<storeVars, controllerVars, budgetVars>>

\* Turns run on the owner; the memory pressure of other traffic evicts.
Traffic ==
    /\ \E a \in Agents :
          \/ PM!prefill(agents[a].owner, a)
          \/ \E e \in Engines : PM!evict(e, a)
    /\ UNCHANGED <<storeVars, controllerVars, budgetVars>>

EngineFaults ==
    \/ /\ faults < MaxFaults
       /\ faults' = faults + 1
       /\ \E e \in Engines, m \in Migrations : PM!copy_fails(e, m)
       /\ UNCHANGED <<storeVars, controllerVars, crashes, resets, overlaps>>
    \/ /\ resets < MaxResets
       /\ resets' = resets + 1
       /\ \E e \in Engines : PM!engine_restart(e) \/ PM!flush_cache(e)
       /\ UNCHANGED <<storeVars, controllerVars, faults, crashes, overlaps>>

-----------------------------------------------------------------------------
(* Specification. *)

AfterCommit(m) ==
    \/ acknowledge_destination(m)
    \/ source_released(m)
    \/ \E keep \in BOOLEAN : finalize_destination(m, keep)
    \/ \E e \in Engines : recover_destination_failure(m, e)
    \/ recovered(m)

ProtocolNext ==
    \/ \E m \in Migrations :
          \/ \E a \in Agents, d \in Engines : migrate(m, a, d)
          \/ MigrateStep(m)
          \/ AfterCommit(m)
    \/ controller_crash
    \/ Reconciling
    \/ TransferWorkers
    \/ Traffic
    \/ EngineFaults

ProtocolSpec == ProtocolInit /\ [][ProtocolNext]_protocolVars

\* asyncio resumes a task whose await is over, and its locks are FIFO; the workers
\* are threads; waiters have a deadline; callers retry an unanswered acknowledgement.
ProtocolFairness ==
    /\ \A m \in Migrations :
          /\ SF_protocolVars(acquire_first_lock(m))
          /\ SF_protocolVars(acquire_second_lock(m))
          /\ WF_protocolVars(pin_source(m) \/ ensure_group(m))
          /\ WF_protocolVars(start_destination(m) \/ start_source(m))
          /\ WF_protocolVars(release_destination(m) \/ commit(m))
          /\ \A side \in {"src", "dst"} :
                /\ WF_protocolVars(wait_for_transfer(m, side))
                /\ WF_protocolVars(transfer_timeout(m, side))
                /\ WF_protocolVars(cleanup_transfer(m, side))
          /\ WF_protocolVars(acknowledge_destination(m))
          /\ WF_protocolVars(source_released(m))
          /\ WF_protocolVars(recovered(m))
    /\ WF_protocolVars(TransferWorkers)

FairProtocolSpec == ProtocolSpec /\ ProtocolFairness
-----------------------------------------------------------------------------
(* Correctness. *)

Calls ==
    [pc : ReturnedStates \cup
            {"lock1", "lock2", "pin", "group", "startDestination", "startSource",
             "wait", "release", "cleanup", "commit"},
     agent : Agents \cup {None}, source : Engines \cup {None},
     destination : Engines \cup {None}, epoch : 0..MaxEpoch,
     src : {"wait", "done"}, dst : {"wait", "done"}, failed : BOOLEAN]

Reconciliations ==
    [pc : {"idle", "next", "poll", "cleanup", "release"}, m : Migrations \cup {None},
     todo : SUBSET Migrations, src : {"wait", "done"}, dst : {"wait", "done"},
     copying : BOOLEAN]

\* Types of the three layers and of the controller's locals.
ProtocolTypeOK ==
    /\ StoreTypeOK
    /\ PM!PrefixTypeOK
    /\ task \in [Migrations -> Calls]
    /\ engineLock \in [Engines -> Migrations \cup {None}]
    /\ established \subseteq Pairs
    /\ acking \in [Engines -> Migrations \cup {None}]
    /\ recovering \in [Migrations -> Engines \cup {None}]
    /\ reconcile \in Reconciliations
    /\ {faults, crashes, resets, overlaps} \subseteq Nat

\* Nothing a transfer reserved outlives a migration that committed: the row has left its
\* record on both engines, and the records are gone unless the cleanup was lost
\* (implementation_plan.md:70-75), however the copy, the polls and the deadlines raced.
ReservationsReturned ==
    \A m \in Migrations, e \in Engines :
        MigrationState(m) \in {"COMMITTED", "SOURCE_RELEASED", "RECOVERED"} =>
            /\ transfers[e][m].rows = "none"
            /\ faults = 0 => PM!TransferState(e, m) = "NONE"

\* The lock_refs that the pin of a prefix accounts for.
PinLocks(e, a) == IF prefixes[e][a] # 0 THEN 1 ELSE 0

\* A prefix is locked and unlocked as its pin comes and goes: no install overwrites a pin,
\* whose lock nobody could release afterwards (patch:1439-1448), since the store allows one
\* live migration per agent.  Locks that no pin accounts for are left behind by a pin or an
\* install that fails to register what it locked, and go when the engine is reset.
LocksFollowPins ==
    [][\A e \in Engines, a \in Agents :
         \/ locks'[e][a] + PinLocks(e, a) = locks[e][a] + PinLocks(e, a)'
         \/ /\ faults' > faults
            /\ prefixes'[e][a] = prefixes[e][a]
            /\ locks'[e][a] = locks[e][a] + 1
         \/ resets' > resets /\ prefixes'[e][a] = 0 /\ locks'[e][a] = 0]_protocolVars

\* Rows visible in a RadixCache hold the KV of the agent whose key they are under
\* (implementation_plan.md:87-88), although NCCL messages are untagged.
VisibleRowsAreOwn ==
    \A e \in Engines, a \in Agents : cache[e][a] # "other"

\* The engine locks see to it (migration.py:171-182) as long as no RPC is lost, no copy
\* fails, no engine or controller dies and no destination is finalized late: waits may time
\* out and leave their transfers to the workers.
RowsStayOwn == faults + crashes + resets + overlaps = 0 => VisibleRowsAreOwn

\* Ownership moves only to an engine that has installed the prefix and pinned it for the
\* new epoch (implementation_plan.md:87-88), as long as the engines stay up.
CommitFindsDestinationReady ==
    [][\A m \in Migrations :
         LET row == migrations[m] IN
         MigrationState(m) # "COMMITTED" /\ MigrationState(m)' = "COMMITTED" /\ resets = 0
           => /\ prefixes[row.destination][row.agent] = row.epoch + 1
              /\ cache[row.destination][row.agent] # "absent"]_protocolVars

\* Every pin belongs to a lease that is held, may come to be held, or was recovered
\* from: a pin of any other epoch could be neither used nor released again, and would
\* refuse the agent's later migrations to that engine (patch:1384-1386, :1161-1165).
\* Releases are best effort, so the pin of one that is lost does stay.
PinsAccountedFor ==
    \A e \in Engines, a \in Agents : prefixes[e][a] # 0 /\ faults = 0 =>
        \/ e = agents[a].owner /\ prefixes[e][a] = agents[a].epoch
        \/ \E m \in MigrationsOf(a) :
              /\ LiveMigration(m) \/ MigrationState(m) = "RECOVERED"
              /\ \/ /\ e = migrations[m].destination
                    /\ prefixes[e][a] = migrations[m].epoch + 1
                 \/ /\ e = migrations[m].source
                    /\ prefixes[e][a] \in {migrations[m].epoch, migrations[m].epoch + 2}

\* The pin of the source copy goes between the copy and the acknowledgement, by something
\* other than the migration's own rebind or release.
SourceCopyLost(m) ==
    LET row == migrations[m] IN
    /\ row.state \in {"COPYING", "DEST_READY", "COMMITTED"}
    /\ prefixes[row.source][row.agent] = row.epoch
    /\ prefixes'[row.source][row.agent] \notin {row.epoch, row.epoch + 2}
    /\ ~ /\ row.state = "COMMITTED"
         /\ acking'[row.source] = m \/ faults' > faults

\* The source copy remains pinned until the commit and the acknowledgement
\* (implementation_plan.md:89): only a reset engine and a late finalize_destination, of the
\* migration that brought the agent there (migration.py:494-500), take that pin.  No
\* release, recovery or reconciliation of any other migration does, whatever still runs.
SourceCopyKept ==
    [][\A m \in Migrations :
         SourceCopyLost(m) => resets' > resets \/ overlaps' > overlaps]_protocolVars

\* A lost acknowledgement can be retried (implementation_plan.md:98): while a committed
\* migration waits for one, the source would accept the release, unless a recovery
\* that rebinds the shadow is under way.
ReleaseIsRetryable ==
    \A m \in Migrations :
        LET row == migrations[m] IN
        row.state = "COMMITTED" /\ recovering[m] = None /\ acking[row.source] # m =>
            prefixes[row.source][row.agent] \in {0, row.epoch}

\* An abort leaves no finished record behind (implementation_plan.md:70-75), as long as no
\* RPC is lost and nothing fails: a record that the destination keeps is one whose copy had
\* not ended when the waits timed out, which its cleanup refuses.  After a start that raises
\* no cleanup is asked for at all (migration.py:303-321, :458-466).
AbortCleansUp ==
    \A m \in Migrations :
        MigrationState(m) = "ABORTED" /\ faults = 0 =>
            PM!TransferState(migrations[m].destination, m) \notin {"COMPLETE", "FAILED"}

\* Every call of migrate returns, whatever calls it shares engines with: the locks are
\* taken in the order of the engine ids (migration.py:172-178), and waits end.
EveryMigrateReturns == \A m \in Migrations : Running(m) ~> ~Running(m)

\* A committed migration is eventually released or recovered when the callers retry the
\* acknowledgements that were lost (implementation_plan.md:98).
CommittedIsSettled ==
    \A m \in Migrations :
        MigrationState(m) = "COMMITTED"
            ~> MigrationState(m) \in {"SOURCE_RELEASED", "RECOVERED"}
=============================================================================
