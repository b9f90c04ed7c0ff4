---------------------------- MODULE TieredHandoff ----------------------------
(***************************************************************************)
(* agentshift/controller/tiered.py, composed with the durable store        *)
(* (StateStore) and the tier operations of the engines (TierOperations):   *)
(* SharedSemanticHandoffCoordinator moves an agent through a file, and the *)
(* "tokencake" callers of TieredPrefixCoordinator (benchmark_hotspot.py:   *)
(* 206-262) park a prefix in the memory of its host and take it back.      *)
(*                                                                         *)
(* Calls are asyncio tasks, RPCs may be lost, and an action is what a task *)
(* does between two awaits: as in MigrationProtocol, but the controller    *)
(* and the engines do not die here.  The acknowledgement is one action,    *)
(* its RPC and the transition that follows the answer: the agent has no    *)
(* other migration in between.                                             *)
(***************************************************************************)
EXTENDS StateStore, Sequences

CONSTANTS
    Home,           \* agent -> engine that first owns it
    Parked,         \* the agents that are parked; the others are handed off
    MaxEpoch,
    MaxQueue,       \* maxsize of an engine's tier queue
    Slots,
    MaxFaults       \* bound: RPCs lost, pins, copies and installs failed, engines flushed

ASSUME HandoffAssumption ==
    /\ Home \in [Agents -> Engines]
    /\ Parked \subseteq Agents
    /\ IsFiniteSet(Agents) /\ IsFiniteSet(Migrations)
    /\ None \notin Migrations
    /\ Parked \cap Migrations = {}       \* their checkpoints have other names
    /\ MaxEpoch \in Nat
    /\ MaxEpoch >= InitialEpoch + Cardinality(Migrations)
    /\ MaxQueue \in Nat \ {0}
    /\ Slots \in Nat
    /\ MaxFaults \in Nat

VARIABLES
    prefixes, locks, cache, free,                           \* PrefixManager
    tier_operations, tier_queue, host_prefixes, shared,     \* TierOperations
    task,       \* handoff() calls: migration id -> program counter and locals
    parking,    \* the parked agents' calls: agent -> program counter
    handoffLock,
    faults

tierVars == <<tier_operations, tier_queue, host_prefixes, shared>>
tierEngineVars == <<prefixes, locks, cache, free, tierVars>>
callVars == <<task, parking, handoffLock>>
handoffVars == <<storeVars, tierEngineVars, callVars, faults>>

\* No prefix is transferred in another way meanwhile.
TM == INSTANCE TierOperations
        WITH Pairs <- {},
             OperationIds <- Migrations \X {"export", "import"}
                               \cup Parked \X {"offload", "restore"},
             Checkpoints <- Migrations \cup Parked,
             transfers <- [e \in Engines |-> [m \in Migrations |-> <<>>]],
             queue <- [e \in Engines |-> <<>>],
             groups <- [e \in Engines |-> {}]

-----------------------------------------------------------------------------
(* Calls in progress. *)

IdleHandoff ==
    [pc |-> "idle", agent |-> None, source |-> None, destination |-> None, epoch |-> 0]

ReturnedStates == {"idle", "done", "failed"}

Export(m) == <<m, "export">>
Import(m) == <<m, "import">>

HandoffInit ==
    /\ agents = [a \in Agents |-> [owner |-> Home[a], epoch |-> InitialEpoch, step |-> 0]]
    /\ migrations = [m \in Migrations |-> NoMigration]
    /\ claims = [a \in Agents |-> [s \in Steps |-> NoClaim]]
    /\ starting = [m \in Migrations |-> NoMigration]
    /\ prefixes = [e \in Engines |-> [a \in Agents |-> 0]]
    /\ locks = [e \in Engines |-> [a \in Agents |-> 0]]
    /\ cache = [e \in Engines |-> [a \in Agents |-> "absent"]]
    /\ free = [e \in Engines |-> Slots]
    /\ TM!TierInit
    /\ task = [m \in Migrations |-> IdleHandoff]
    /\ parking = [a \in Parked |-> "idle"]
    /\ handoffLock = None
    /\ faults = 0

\* A control RPC: see MigrationProtocol.
Rpc(allowed, call, answered, raised) ==
    \/ allowed /\ call /\ answered /\ UNCHANGED faults
    \/ ~allowed /\ raised /\ UNCHANGED <<tierEngineVars, faults>>
    \/ /\ faults < MaxFaults
       /\ faults' = faults + 1
       /\ \/ UNCHANGED tierEngineVars
          \/ allowed /\ call
       /\ raised

\* The RPC that pins a prefix, which may fail and leave the prefix locked.
Pins(e, a, epoch, answered, raised) ==
    \/ Rpc(TM!PinAllowed(e, a, epoch), TM!pin(e, a, epoch) /\ UNCHANGED tierVars,
           answered, raised)
    \/ /\ faults < MaxFaults
       /\ faults' = faults + 1
       /\ TM!pin_fails(e, a) /\ UNCHANGED tierVars
       /\ raised

-----------------------------------------------------------------------------
(* TieredPrefixCoordinator. *)

\* The first RPC of run, outside its try.
Starts(e, o, operation, c, a, epoch, release_gpu, answered, raised) ==
    \/ Rpc(TM!TierStartAllowed(e, o, operation, c, a, epoch),
           TM!start_tier_operation(e, o, operation, c, a, epoch, release_gpu),
           answered, raised)
    \/ TM!start_tier_full(e, o, operation, c, a, epoch) /\ raised /\ UNCHANGED faults

\* Mutant: whatever has not failed is taken for complete.
CompleteUnlessFailed(state) == state # "FAILED"

IsComplete(state) == state = "COMPLETE"

\* _wait: polls until the operation is complete, has failed, or the deadline passes.
Waits(e, o, complete, raised) ==
    \/ Rpc(TM!TierPollAllowed(e, o), TM!poll_tier_operation(e, o),
           IF IsComplete(TM!PolledTierState(e, o)) THEN complete
           ELSE IF TM!PolledTierState(e, o) = "FAILED" THEN raised
           ELSE UNCHANGED <<storeVars, callVars>>,
           raised)
    \/ /\ faults < MaxFaults /\ faults' = faults + 1
       /\ TM!tier_install_fails(e, o)
       /\ raised
    \/ /\ TM!TierState(e, o) \in {"QUEUED", "COPYING"}
       /\ raised
       /\ UNCHANGED <<tierEngineVars, faults>>

Cleans(e, o, drop_checkpoint, answered, raised) ==
    Rpc(TM!TierCleanupAllowed(e, o), TM!cleanup_tier_operation(e, o, drop_checkpoint),
        answered, raised)

-----------------------------------------------------------------------------
(* SharedSemanticHandoffCoordinator. *)

\* The task moves on and writes nothing.
Goto(m, pc) ==
    /\ task' = [task EXCEPT ![m].pc = pc]
    /\ UNCHANGED <<storeVars, parking, handoffLock>>

Returns(m, pc) ==
    /\ task' = [task EXCEPT ![m].pc = pc]
    /\ handoffLock' = None
    /\ UNCHANGED parking

\* Mutant: the lock is kept by a handoff that raises.
EscapesLocked(m) == Goto(m, "failed")

\* An exception inside the except clause: the row stays as it is.
Escapes(m) == Returns(m, "failed") /\ UNCHANGED storeVars

\* The end of the except clause.
Raises(m) ==
    /\ IF MigrationState(m) \in {"PREPARING", "COPYING"}
       THEN transition_migration(m, MigrationState(m), "ABORTED")
       ELSE UNCHANGED storeVars
    /\ Returns(m, "failed")

handoff(m, a, destination) ==
    /\ task[m].pc = "idle"
    /\ task' = [task EXCEPT ![m] =
                  [IdleHandoff EXCEPT !.pc = "lock", !.agent = a,
                                      !.destination = destination]]
    /\ UNCHANGED <<storeVars, tierEngineVars, parking, handoffLock, faults>>

\* With the lock, and without an await: the agent is read and the row inserted.
handoff_serial(m) ==
    LET a == task[m].agent
        row == [agent |-> a, source |-> agents[a].owner, destination |-> task[m].destination,
                epoch |-> agents[a].epoch, state |-> "PREPARING"]
    IN
    /\ task[m].pc = "lock"
    /\ handoffLock = None
    /\ \/ /\ row.source = row.destination \/ HasLiveMigration(a)
          /\ Escapes(m)
       \/ /\ row.source # row.destination /\ ~HasLiveMigration(a)
          /\ migrations' = [migrations EXCEPT ![m] = row]
          /\ handoffLock' = m
          /\ task' = [task EXCEPT ![m] = [@ EXCEPT !.pc = "pin", !.source = row.source,
                                                   !.epoch = row.epoch]]
          /\ UNCHANGED <<agents, claims, starting, parking>>
    /\ UNCHANGED <<tierEngineVars, faults>>

pin_source(m) ==
    LET t == task[m] IN
    /\ t.pc = "pin"
    /\ Pins(t.source, t.agent, t.epoch,
            /\ transition_migration(m, "PREPARING", "COPYING")
            /\ task' = [task EXCEPT ![m].pc = "export"]
            /\ UNCHANGED <<parking, handoffLock>>,
            Raises(m))

\* Mutant: the export lets go of the source's copy.
ExportReleases == TRUE

\* release_gpu of the export.
ExportReleasesGpu == FALSE

shared_export(m) ==
    LET t == task[m] IN
    \/ /\ t.pc = "export"
       /\ Starts(t.source, Export(m), "shared_export", m, t.agent, t.epoch,
                 ExportReleasesGpu, Goto(m, "exporting"), Raises(m))
    \/ /\ t.pc = "exporting"
       /\ Waits(t.source, Export(m), Goto(m, "import"), Goto(m, "exportUndo"))
    \/ /\ t.pc = "exportUndo"
       /\ Cleans(t.source, Export(m), FALSE, Raises(m), Raises(m))

shared_import(m) ==
    LET t == task[m] IN
    \/ /\ t.pc = "import"
       /\ Starts(t.destination, Import(m), "shared_import", m, t.agent, t.epoch + 1,
                 FALSE, Goto(m, "importing"), Goto(m, "undoExport"))
    \/ /\ t.pc = "importing"
       /\ Waits(t.destination, Import(m),
                /\ transition_migration(m, "COPYING", "DEST_READY")
                /\ task' = [task EXCEPT ![m].pc = "commit"]
                /\ UNCHANGED <<parking, handoffLock>>,
                Goto(m, "importUndo"))
    \/ /\ t.pc = "importUndo"
       /\ Cleans(t.destination, Import(m), FALSE, Goto(m, "undoExport"), Goto(m, "undoExport"))

commit(m) ==
    /\ task[m].pc = "commit"
    /\ commit_migration(m)
    /\ task' = [task EXCEPT ![m].pc = "cleanExport"]
    /\ UNCHANGED <<tierEngineVars, parking, handoffLock, faults>>

\* The cleanups after the commit are still inside the try.
clean_up(m) ==
    LET t == task[m] IN
    \/ /\ t.pc = "cleanExport"
       /\ Cleans(t.source, Export(m), FALSE, Goto(m, "cleanImport"),
                 Goto(m, "releaseImported"))
    \/ /\ t.pc = "cleanImport"
       /\ Cleans(t.destination, Import(m), TRUE, Returns(m, "done") /\ UNCHANGED storeVars,
                 Goto(m, "releaseImported"))

\* The except clause, by what had succeeded before the exception.
undo(m) ==
    LET t == task[m] IN
    \/ /\ t.pc = "releaseImported"
       /\ Rpc(TM!ReleaseAllowed(t.destination, t.agent, t.epoch + 1, TRUE),
              TM!release(t.destination, t.agent, t.epoch + 1, TRUE, TRUE)
                /\ UNCHANGED tierVars,
              Goto(m, "undoImported"), Escapes(m))
    \/ /\ t.pc = "undoImported"
       /\ Cleans(t.destination, Import(m), TRUE, Goto(m, "undoBoth"), Escapes(m))
    \/ /\ t.pc = "undoBoth"
       /\ Cleans(t.source, Export(m), FALSE, Raises(m), Escapes(m))
    \/ /\ t.pc = "undoExport"
       /\ Cleans(t.source, Export(m), TRUE, Raises(m), Escapes(m))

acknowledge_destination(m) ==
    LET row == migrations[m] IN
    /\ row.state = "COMMITTED"
    /\ Rpc(TM!ReleaseAllowed(row.source, row.agent, row.epoch, TRUE),
           TM!release(row.source, row.agent, row.epoch, TRUE, TRUE) /\ UNCHANGED tierVars,
           transition_migration(m, "COMMITTED", "SOURCE_RELEASED") /\ UNCHANGED callVars,
           UNCHANGED <<storeVars, callVars>>)

HandoffStep(m) ==
    \/ handoff_serial(m)
    \/ pin_source(m)
    \/ shared_export(m)
    \/ shared_import(m)
    \/ commit(m)
    \/ clean_up(m)
    \/ undo(m)

-----------------------------------------------------------------------------
(* A parked agent: its prefix leaves the GPU, and comes back. *)

ParkGoto(a, pc) ==
    /\ parking' = [parking EXCEPT ![a] = pc]
    /\ UNCHANGED <<storeVars, task, handoffLock>>

park(a) ==
    LET e == agents[a].owner
        epoch == agents[a].epoch
        offload == <<a, "offload">>
        restore == <<a, "restore">>
    IN
    \/ /\ parking[a] = "idle"
       /\ Pins(e, a, epoch, ParkGoto(a, "offload"), ParkGoto(a, "failed"))
    \/ /\ parking[a] = "offload"
       /\ Starts(e, offload, "private_offload", a, a, epoch, TRUE,
                 ParkGoto(a, "offloading"), ParkGoto(a, "failed"))
    \/ /\ parking[a] = "offloading"
       /\ Waits(e, offload, ParkGoto(a, "restore"), ParkGoto(a, "offloadUndo"))
    \/ /\ parking[a] = "offloadUndo"
       /\ Cleans(e, offload, FALSE, ParkGoto(a, "failed"), ParkGoto(a, "failed"))
    \/ /\ parking[a] = "restore"
       /\ Starts(e, restore, "private_restore", a, a, epoch, FALSE,
                 ParkGoto(a, "restoring"), ParkGoto(a, "failed"))
    \/ /\ parking[a] = "restoring"
       /\ Waits(e, restore, ParkGoto(a, "release"), ParkGoto(a, "restoreUndo"))
    \/ /\ parking[a] = "restoreUndo"
       /\ Cleans(e, restore, FALSE, ParkGoto(a, "failed"), ParkGoto(a, "failed"))
    \/ /\ parking[a] = "release"
       /\ Rpc(TM!ReleaseAllowed(e, a, epoch, FALSE),
              TM!release(e, a, epoch, TRUE, FALSE) /\ UNCHANGED tierVars,
              ParkGoto(a, "cleanRestore"), ParkGoto(a, "failed"))
    \/ /\ parking[a] = "cleanRestore"
       /\ Cleans(e, restore, FALSE, ParkGoto(a, "cleanOffload"), ParkGoto(a, "failed"))
    \/ /\ parking[a] = "cleanOffload"
       /\ Cleans(e, offload, TRUE, ParkGoto(a, "done"), ParkGoto(a, "failed"))

-----------------------------------------------------------------------------
(* The engines. *)

tier_worker(e) ==
    /\ \/ TM!tier_take(e)
       \/ \E o \in DOMAIN tier_operations[e] :
             TM!export_opens(e, o) \/ TM!tier_copy(e, o) \/ TM!import_finds_nothing(e, o)
    /\ UNCHANGED <<storeVars, callVars, faults>>

tier_worker_fails(e) ==
    /\ faults < MaxFaults
    /\ faults' = faults + 1
    /\ \E o \in DOMAIN tier_operations[e] : TM!tier_copy_fails(e, o)
    /\ UNCHANGED <<storeVars, callVars>>

engine_flushed(e) ==
    /\ faults < MaxFaults
    /\ faults' = faults + 1
    /\ TM!tier_flush_cache(e)
    /\ UNCHANGED <<storeVars, callVars>>

\* A turn on the owner computes the prefix; other traffic evicts it.
engine_traffic(a) ==
    /\ \/ TM!prefill(agents[a].owner, a)
       \/ \E e \in Engines : TM!evict(e, a)
    /\ UNCHANGED <<tierVars, storeVars, callVars, faults>>

HandoffNext ==
    \/ \E m \in Migrations :
          \/ \E a \in Agents \ Parked, e \in Engines : handoff(m, a, e)
          \/ HandoffStep(m)
          \/ acknowledge_destination(m)
    \/ \E a \in Parked : park(a)
    \/ \E e \in Engines : tier_worker(e) \/ tier_worker_fails(e) \/ engine_flushed(e)
    \/ \E a \in Agents : engine_traffic(a)

HandoffSpec == HandoffInit /\ [][HandoffNext]_handoffVars

\* Tasks go on: RPCs are answered or time out, and workers end their copies.
HandoffFairness ==
    /\ \A m \in Migrations : WF_handoffVars(HandoffStep(m))
    /\ \A e \in Engines : WF_handoffVars(tier_worker(e))

HandoffFairSpec == HandoffSpec /\ HandoffFairness
-----------------------------------------------------------------------------
(* Correctness. *)

\* The strict pool checker (patch:1255-1268, :737-746): rows that are free, in the
\* RadixCache, or reserved by a tier operation are all the rows of the engine.
TierPoolAccounting ==
    \A e \in Engines :
        free[e] + Cardinality({a \in Agents : cache[e][a] # "absent"})
            + Cardinality(TM!TierReserved(e)) = Slots

\* Rows come back from a checkpoint as the agent's own, whatever was lost, timed out or
\* evicted meanwhile: nobody reads a shared file before it is whole, although it has its
\* full size from the start (patch:1609-1635), and no pin is let go of under a copy.
RestoredRowsAreOwn ==
    \A e \in Engines, a \in Agents : cache[e][a] # "other"

TierPinLocks(e, a) == IF prefixes[e][a] # 0 THEN 1 ELSE 0

\* A prefix is locked and unlocked as its pin comes and goes: a late install never
\* overwrites a pin, whose lock nobody could release afterwards.  A pin or an install that
\* fails to register what it locked leaves the lock behind, and a flush lets go of all.
TierLocksFollowPins ==
    [][\A e \in Engines, a \in Agents :
         \/ locks'[e][a] + TierPinLocks(e, a) = locks[e][a] + TierPinLocks(e, a)'
         \/ /\ faults' > faults
            /\ \/ prefixes'[e][a] = prefixes[e][a] /\ locks'[e][a] = locks[e][a] + 1
               \/ prefixes'[e][a] = 0 /\ locks'[e][a] = 0]_handoffVars

\* From the copy to the acknowledgement the source keeps its copy pinned, and from the
\* commit the destination has its own (implementation_plan.md:87-89), as long as no RPC
\* is lost, nothing fails and no cache is flushed: after a lost cleanup the except clause
\* releases the committed copy, and a flush lets go of every pin.
HandoffCopiesKept ==
    \A m \in Migrations :
        LET row == migrations[m] IN
        faults = 0 =>
            /\ row.state \in {"COPYING", "DEST_READY", "COMMITTED"} =>
                  prefixes[row.source][row.agent] = row.epoch
            /\ row.state \in {"DEST_READY", "COMMITTED"} =>
                  prefixes[row.destination][row.agent] = row.epoch + 1

\* Every handoff returns, also from behind the lock of one that failed.
EveryHandoffReturns ==
    \A m \in Migrations : task[m].pc = "lock" ~> task[m].pc \in {"done", "failed"}

\* "A failed pre-commit transfer leaves ownership at the source and marks the migration
\* ABORTED" (implementation_plan.md:94).
FailedHandoffsAbort ==
    \A m \in Migrations :
        task[m].pc = "failed" => MigrationState(m) \notin {"PREPARING", "COPYING"}
=============================================================================
