---------------------------- MODULE TierOperations ----------------------------
(***************************************************************************)
(* The tier operations of AgentPrefixManager (agentshift-sglang.patch,     *)
(* 993-1878): a second background worker copies pinned rows to the memory *)
(* of the engine's host or to a file that the engines of a machine share,  *)
(* and back.  A checkpoint is named by its caller; an operation, too.      *)
(*                                                                         *)
(* The operations, as they act on the pins and the KV pool of the prefix   *)
(* manager; TieredHandoff composes them with their callers.  As in         *)
(* PrefixManager, a handler is one action, a step only when it does not    *)
(* raise, and of the rows only whose KV they hold is kept.                 *)
(***************************************************************************)
EXTENDS PrefixManager

CONSTANTS
    OperationIds,
    Checkpoints

VARIABLES
    tier_operations,    \* engine -> operation id -> record
    tier_queue,         \* engine -> ids waiting in _tier_queue
    host_prefixes,      \* engine -> checkpoint -> HostAgentPrefix
    shared              \* /dev/shm/agentshift-prefixes: checkpoint -> the file's content

tierVars == <<tier_operations, tier_queue, host_prefixes, shared>>

-----------------------------------------------------------------------------
(* State. *)

TierKinds == {"private_offload", "private_restore", "shared_export", "shared_import"}

\* rows: the destination_indices, as in a transfer.  host: of a private operation the
\* host_prefix, of an export how far its file is.
TierRecords ==
    [state : ActiveStates \cup TerminalStates \cup {"NONE"},
     operation : TierKinds \cup {"none"},
     checkpoint : Checkpoints \cup {"none"},
     agent : Agents \cup {"none"},
     epoch : 0..MaxEpoch,
     release_gpu : BOOLEAN,
     rows : Contents \cup {"none", "blank"},
     host : Contents \cup {"none", "partial"}]

NoTierOperation ==
    [state |-> "NONE", operation |-> "none", checkpoint |-> "none", agent |-> "none",
     epoch |-> 0, release_gpu |-> FALSE, rows |-> "none", host |-> "none"]

NoHostPrefix == [agent |-> "none", epoch |-> 0, rows |-> "none"]

TierState(e, o) == tier_operations[e][o].state

TierReserved(e) == {o \in OperationIds : tier_operations[e][o].rows # "none"}

TierInit ==
    /\ tier_operations = [e \in Engines |-> [o \in OperationIds |-> NoTierOperation]]
    /\ tier_queue = [e \in Engines |-> <<>>]
    /\ host_prefixes = [e \in Engines |-> [c \in Checkpoints |-> NoHostPrefix]]
    /\ shared = [c \in Checkpoints |-> "absent"]

-----------------------------------------------------------------------------
(* start_tier_operation. *)

Sources == {"private_offload", "shared_export"}

HasRow(e) == free[e] > 0 \/ Evictable(e) # {}

\* Mutant: nobody asks whether the agent has a pin already.
TierChecksUnpinned(e, operation, c, a, epoch) ==
    \/ operation \in Sources /\ prefixes[e][a] = epoch
    \/ /\ operation = "private_restore"
       /\ host_prefixes[e][c].agent = a /\ host_prefixes[e][c].epoch = epoch
       /\ HasRow(e)
    \/ /\ operation = "shared_import"
       /\ shared[c] # "absent"
       /\ HasRow(e)

\* The checks that come before the queue's.
TierChecks(e, operation, c, a, epoch) ==
    \/ operation \in Sources /\ prefixes[e][a] = epoch
    \/ /\ operation = "private_restore"
       /\ ~Pinned(e, a)
       /\ host_prefixes[e][c].agent = a /\ host_prefixes[e][c].epoch = epoch
       /\ HasRow(e)
    \/ /\ operation = "shared_import"
       /\ ~Pinned(e, a)
       /\ shared[c] # "absent"
       /\ HasRow(e)

\* An id that is in use answers with the status of its operation.
TierStartAllowed(e, o, operation, c, a, epoch) ==
    IF TierState(e, o) # "NONE"
    THEN tier_operations[e][o].operation = operation /\ tier_operations[e][o].agent = a
    ELSE TierChecks(e, operation, c, a, epoch) /\ Len(tier_queue[e]) < MaxQueue

start_tier_operation(e, o, operation, c, a, epoch, release_gpu) ==
    /\ TierStartAllowed(e, o, operation, c, a, epoch)
    /\ IF TierState(e, o) # "NONE"
       THEN UNCHANGED <<poolVars, tier_operations, tier_queue>>
       ELSE /\ tier_operations' = [tier_operations EXCEPT ![e][o] =
                  [state |-> "QUEUED", operation |-> operation, checkpoint |-> c,
                   agent |-> a, epoch |-> epoch, release_gpu |-> release_gpu,
                   rows |-> IF operation \in Sources THEN "none" ELSE "blank",
                   host |-> IF operation = "private_restore"
                            THEN host_prefixes[e][c].rows ELSE "none"]]
            /\ tier_queue' = [tier_queue EXCEPT ![e] = Append(@, o)]
            /\ IF operation \in Sources THEN UNCHANGED poolVars ELSE AllocatesRow(e)
    /\ UNCHANGED <<pinVars, host_prefixes, shared>>

\* queue.Full: the record and the reservation are undone, an eviction is not.
start_tier_full(e, o, operation, c, a, epoch) ==
    /\ TierState(e, o) = "NONE"
    /\ operation \notin Sources
    /\ TierChecks(e, operation, c, a, epoch)
    /\ Len(tier_queue[e]) = MaxQueue
    /\ free[e] = 0
    /\ \E b \in Evictable(e) : cache' = [cache EXCEPT ![e][b] = "absent"]
    /\ free' = [free EXCEPT ![e] = @ + 1]
    /\ UNCHANGED <<pinVars, tierVars>>

-----------------------------------------------------------------------------
(* The tier worker. *)

TierWorking(e) == \E o \in OperationIds : TierState(e, o) = "COPYING"

tier_take(e) ==
    /\ ~TierWorking(e)
    /\ tier_queue[e] # <<>>
    /\ tier_operations' = [tier_operations EXCEPT ![e][Head(tier_queue[e])].state = "COPYING"]
    /\ tier_queue' = [tier_queue EXCEPT ![e] = Tail(@)]
    /\ UNCHANGED <<pinVars, poolVars, host_prefixes, shared>>

\* The rows a source operation points at are the agent's own only while they are resident.
SourceRows(e, o) ==
    IF cache[e][tier_operations[e][o].agent] = "own" THEN "own" ELSE "other"

CopyEnds(e, o, rows, host) ==
    tier_operations' = [tier_operations EXCEPT
        ![e][o] = [@ EXCEPT !.state = "COPY_DONE", !.rows = rows, !.host = host]]

\* The shared file is created at its full size before any row is written to it.
export_opens(e, o) ==
    LET op == tier_operations[e][o] IN
    /\ op.state = "COPYING" /\ op.operation = "shared_export" /\ op.host = "none"
    /\ shared' = [shared EXCEPT ![op.checkpoint] = "partial"]
    /\ tier_operations' = [tier_operations EXCEPT ![e][o].host = "partial"]
    /\ UNCHANGED <<pinVars, poolVars, tier_queue, host_prefixes>>

\* A file that was unlinked is written to no avail; one that is read too early is garbage.
tier_copy(e, o) ==
    LET op == tier_operations[e][o] IN
    /\ op.state = "COPYING"
    /\ \/ /\ op.operation = "private_offload"
          /\ CopyEnds(e, o, "none", SourceRows(e, o))
          /\ UNCHANGED shared
       \/ /\ op.operation = "private_restore"
          /\ CopyEnds(e, o, op.host, op.host)
          /\ UNCHANGED shared
       \/ /\ op.operation = "shared_export" /\ op.host = "partial"
          /\ CopyEnds(e, o, "none", SourceRows(e, o))
          /\ shared' = [shared EXCEPT ![op.checkpoint] =
                           IF @ = "absent" THEN @ ELSE SourceRows(e, o)]
       \/ /\ op.operation = "shared_import" /\ shared[op.checkpoint] # "absent"
          /\ CopyEnds(e, o, IF shared[op.checkpoint] = "own" THEN "own" ELSE "other", "none")
          /\ UNCHANGED shared
    /\ UNCHANGED <<pinVars, poolVars, tier_queue, host_prefixes>>

\* An import whose file is gone fails.
import_finds_nothing(e, o) ==
    LET op == tier_operations[e][o] IN
    /\ op.state = "COPYING" /\ op.operation = "shared_import"
    /\ shared[op.checkpoint] = "absent"
    /\ tier_operations' = [tier_operations EXCEPT ![e][o].state = "FAILED"]
    /\ UNCHANGED <<pinVars, poolVars, tier_queue, host_prefixes, shared>>

tier_copy_fails(e, o) ==
    /\ TierState(e, o) = "COPYING"
    /\ tier_operations' = [tier_operations EXCEPT ![e][o].state = "FAILED"]
    /\ UNCHANGED <<pinVars, poolVars, tier_queue, host_prefixes, shared>>

-----------------------------------------------------------------------------
(* poll_tier_operation and cleanup_tier_operation. *)

TierEnds(e, o, state, rows) ==
    tier_operations' = [tier_operations EXCEPT
        ![e][o] = [@ EXCEPT !.state = state, !.rows = rows]]

\* _install_destination_prefix: resident rows are kept, and the copied ones freed.
InstallsPrefix(e, a, epoch, rows) ==
    /\ IF Resident(e, a)
       THEN free' = [free EXCEPT ![e] = @ + 1] /\ UNCHANGED cache
       ELSE cache' = [cache EXCEPT ![e][a] = rows] /\ UNCHANGED free
    /\ locks' = [locks EXCEPT ![e][a] = @ + 1]
    /\ prefixes' = [prefixes EXCEPT ![e][a] = epoch]

\* A source operation is finalized by the release of its pin, if that was asked for.
Finalizable(e, o) ==
    LET op == tier_operations[e][o] IN
    op.operation \in Sources /\ op.release_gpu => ReleaseAllowed(e, op.agent, op.epoch, FALSE)

\* The checkpoint is registered even when the release is refused.
finalize_tier_operation(e, o) ==
    LET op == tier_operations[e][o] IN
    /\ host_prefixes' =
         IF op.operation = "private_offload"
         THEN [host_prefixes EXCEPT ![e][op.checkpoint] =
                 [agent |-> op.agent, epoch |-> op.epoch, rows |-> op.host]]
         ELSE host_prefixes
    /\ TierEnds(e, o, IF Finalizable(e, o) THEN "COMPLETE" ELSE "FAILED", "none")
    /\ IF op.operation \in Sources
       THEN IF op.release_gpu /\ Finalizable(e, o)
            THEN release(e, op.agent, op.epoch, TRUE, FALSE)
            ELSE UNCHANGED <<pinVars, poolVars>>
       ELSE InstallsPrefix(e, op.agent, op.epoch, op.rows)

TierPollAllowed(e, o) == TierState(e, o) \notin {"NONE", "FAILED"}

\* The state a poll answers with.
PolledTierState(e, o) ==
    IF TierState(e, o) # "COPY_DONE" THEN TierState(e, o)
    ELSE IF Finalizable(e, o) THEN "COMPLETE" ELSE "FAILED"

poll_tier_operation(e, o) ==
    /\ TierPollAllowed(e, o)
    /\ IF TierState(e, o) = "COPY_DONE"
       THEN finalize_tier_operation(e, o)
       ELSE UNCHANGED <<pinVars, poolVars, tier_operations, host_prefixes>>
    /\ UNCHANGED <<tier_queue, shared>>

\* An install that raises, like install_fails of a transfer.
tier_install_fails(e, o) ==
    LET op == tier_operations[e][o] IN
    /\ op.state = "COPY_DONE" /\ op.operation \notin Sources
    /\ \/ /\ ~Resident(e, op.agent)
          /\ cache' = [cache EXCEPT ![e][op.agent] = op.rows]
          /\ UNCHANGED free
       \/ free' = [free EXCEPT ![e] = @ + 1] /\ UNCHANGED cache
    /\ \/ UNCHANGED locks
       \/ /\ cache'[e][op.agent] # "absent"
          /\ locks' = [locks EXCEPT ![e][op.agent] = @ + 1]
    /\ TierEnds(e, o, "FAILED", "none")
    /\ UNCHANGED <<prefixes, tier_queue, host_prefixes, shared>>

TierCleanupAllowed(e, o) == TierState(e, o) \in TerminalStates

\* Mutant: a failed operation keeps the rows it had reserved.
cleanup_tier_leaks(e, o, drop_checkpoint) ==
    LET c == tier_operations[e][o].checkpoint IN
    /\ TierCleanupAllowed(e, o)
    /\ tier_operations' = [tier_operations EXCEPT ![e][o] = NoTierOperation]
    /\ host_prefixes' = IF drop_checkpoint
                        THEN [host_prefixes EXCEPT ![e][c] = NoHostPrefix]
                        ELSE host_prefixes
    /\ shared' = IF drop_checkpoint THEN [shared EXCEPT ![c] = "absent"] ELSE shared
    /\ UNCHANGED <<pinVars, poolVars, tier_queue>>

cleanup_tier_operation(e, o, drop_checkpoint) ==
    LET c == tier_operations[e][o].checkpoint IN
    /\ TierCleanupAllowed(e, o)
    /\ tier_operations' = [tier_operations EXCEPT ![e][o] = NoTierOperation]
    /\ free' = [free EXCEPT ![e] = IF o \in TierReserved(e) THEN @ + 1 ELSE @]
    /\ host_prefixes' = IF drop_checkpoint
                        THEN [host_prefixes EXCEPT ![e][c] = NoHostPrefix]
                        ELSE host_prefixes
    /\ shared' = IF drop_checkpoint THEN [shared EXCEPT ![c] = "absent"] ELSE shared
    /\ UNCHANGED <<pinVars, cache, tier_queue>>

-----------------------------------------------------------------------------
(* The engine. *)

\* flush_cache of an idle scheduler: the files that are shared stay.
tier_flush_cache(e) ==
    /\ \A o \in OperationIds : TierState(e, o) \notin ActiveStates
    /\ ResetsPool(e)
    /\ tier_operations' = [tier_operations EXCEPT ![e] = [o \in OperationIds |-> NoTierOperation]]
    /\ host_prefixes' = [host_prefixes EXCEPT ![e] = [c \in Checkpoints |-> NoHostPrefix]]
    /\ UNCHANGED <<tier_queue, shared>>
=============================================================================
