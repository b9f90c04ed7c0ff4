---------------------------- MODULE PrefixManager ----------------------------
(***************************************************************************)
(* AgentPrefixManager, the part of an SGLang scheduler that the patch adds *)
(* (patches/agentshift-sglang.patch:898-1513): it pins the KV rows of an   *)
(* agent's prefix in the RadixCache, and copies them to another engine in  *)
(* the background.  One instance holds the managers of all engines, since  *)
(* a copy is a rendezvous of two transfer workers.                         *)
(*                                                                         *)
(* On each engine the scheduler thread runs one control call at a time; a  *)
(* call is one action, and is a step only when the handler does not raise  *)
(* (a raising handler answers success=False and changes nothing, with the  *)
(* exceptions of start_transfer_full, pin_fails and install_fails).  The   *)
(* transfer worker is a thread: it takes transfers off a bounded queue.    *)
(*                                                                         *)
(* Abstracted: an agent has one completed-turn prefix, of one unit of KV   *)
(* rows, under a key of its own; of the rows only whose KV they hold is    *)
(* kept.  TP degree 1.  INSTALLING is not a state here: the scheduler      *)
(* thread enters and leaves it within one call.                            *)
(***************************************************************************)
EXTENDS Naturals, Sequences, FiniteSets, SequencesExt

CONSTANTS
    Engines,        \* engine ids
    Agents,         \* agent ids
    Migrations,     \* migration ids, the keys of background_transfers
    Pairs,          \* the <<source, destination>> pairs that callers use
    MaxEpoch,       \* bound: the largest owner epoch callers pass
    MaxQueue,       \* maxsize of the transfer queue (8 in the patch)
    Slots           \* KV rows of an engine, in prefixes

ASSUME PrefixAssumption ==
    /\ IsFiniteSet(Agents) /\ IsFiniteSet(Migrations)
    /\ Pairs \subseteq {p \in Engines \X Engines : p[1] # p[2]}
    /\ MaxEpoch \in Nat
    /\ MaxQueue \in Nat \ {0}
    /\ Slots \in Nat

VARIABLES
    prefixes,   \* engine -> agent -> epoch of the pinned prefix, 0 when not pinned
    locks,      \* engine -> agent -> lock_ref of the prefix's Radix node
    cache,      \* engine -> agent -> rows resident under the agent's key
    free,       \* engine -> rows the allocator has left
    transfers,  \* background_transfers: engine -> migration -> record
    queue,      \* engine -> ids waiting in _transfer_queue
    groups      \* engine -> initialised transfer groups, as <<source, destination>>

pinVars == <<prefixes, locks>>
poolVars == <<cache, free>>
transferVars == <<transfers, queue>>
prefixVars == <<prefixes, locks, cache, free, transfers, queue, groups>>

-----------------------------------------------------------------------------
(* State. *)

Epochs == 1..MaxEpoch

\* Rows hold the KV of the agent whose key they are under, or something else.
Contents == {"own", "other"}

ActiveStates == {"QUEUED", "COPYING", "COPY_DONE"}
TerminalStates == {"COMPLETE", "FAILED"}

\* rows: "none" when the record holds no destination_indices, "blank" until they
\* are written.
Transfers ==
    [state : ActiveStates \cup TerminalStates \cup {"NONE"},
     role : {"source", "destination", "none"},
     agent : Agents \cup {"none"},
     epoch : 0..MaxEpoch,
     pair : Pairs \cup {<<>>},
     rows : Contents \cup {"none", "blank"}]

NoTransfer ==
    [state |-> "NONE", role |-> "none", agent |-> "none", epoch |-> 0,
     pair |-> <<>>, rows |-> "none"]

TransferState(e, m) == transfers[e][m].state

Pinned(e, a) == prefixes[e][a] # 0

Resident(e, a) == cache[e][a] # "absent"

Reserved(e) == {m \in Migrations : transfers[e][m].rows # "none"}

Evictable(e) == {a \in Agents : Resident(e, a) /\ locks[e][a] = 0}

EmptyEngine(e) ==
    /\ prefixes[e] = [a \in Agents |-> 0]
    /\ locks[e] = [a \in Agents |-> 0]
    /\ cache[e] = [a \in Agents |-> "absent"]
    /\ free[e] = Slots
    /\ transfers[e] = [m \in Migrations |-> NoTransfer]
    /\ queue[e] = <<>>
    /\ groups[e] = {}

PrefixInit ==
    /\ prefixes = [e \in Engines |-> [a \in Agents |-> 0]]
    /\ locks = [e \in Engines |-> [a \in Agents |-> 0]]
    /\ cache = [e \in Engines |-> [a \in Agents |-> "absent"]]
    /\ free = [e \in Engines |-> Slots]
    /\ transfers = [e \in Engines |-> [m \in Migrations |-> NoTransfer]]
    /\ queue = [e \in Engines |-> <<>>]
    /\ groups = [e \in Engines |-> {}]

-----------------------------------------------------------------------------
(* Pins. *)

PinAllowed(e, a, epoch) ==
    IF Pinned(e, a) THEN prefixes[e][a] = epoch ELSE Resident(e, a)

pin(e, a, epoch) ==
    /\ PinAllowed(e, a, epoch)
    /\ prefixes' = [prefixes EXCEPT ![e][a] = epoch]
    /\ locks' = [locks EXCEPT ![e][a] = IF Pinned(e, a) THEN @ ELSE @ + 1]
    /\ UNCHANGED <<poolVars, transferVars, groups>>

\* A pin that raises when the node is already locked, while it copies the indices for the
\* registration: the lock stays, and nobody knows of it.
pin_fails(e, a) ==
    /\ ~Pinned(e, a) /\ Resident(e, a)
    /\ locks' = [locks EXCEPT ![e][a] = @ + 1]
    /\ UNCHANGED <<prefixes, poolVars, transferVars, groups>>

ReleaseAllowed(e, a, epoch, allow_missing) ==
    IF Pinned(e, a) THEN prefixes[e][a] = epoch ELSE allow_missing

\* The unpinned prefix may itself be the victim of the eviction.
release(e, a, epoch, evict_after_release, allow_missing) ==
    /\ ReleaseAllowed(e, a, epoch, allow_missing)
    /\ IF Pinned(e, a)
       THEN /\ prefixes' = [prefixes EXCEPT ![e][a] = 0]
            /\ locks' = [locks EXCEPT ![e][a] = @ - 1]
            /\ \/ /\ evict_after_release
                  /\ \E b \in {b \in Agents : Resident(e, b) /\ locks'[e][b] = 0} :
                        cache' = [cache EXCEPT ![e][b] = "absent"]
                  /\ free' = [free EXCEPT ![e] = @ + 1]
               \/ /\ \/ ~evict_after_release
                     \/ \A b \in Agents : Resident(e, b) => locks'[e][b] # 0
                  /\ UNCHANGED poolVars
       ELSE UNCHANGED <<pinVars, poolVars>>
    /\ UNCHANGED <<transferVars, groups>>

RebindAllowed(e, a, expected, new) ==
    /\ Pinned(e, a)
    /\ \/ prefixes[e][a] = new
       \/ prefixes[e][a] = expected /\ new > expected

rebind(e, a, expected, new) ==
    /\ RebindAllowed(e, a, expected, new)
    /\ prefixes' = [prefixes EXCEPT ![e][a] = new]
    /\ UNCHANGED <<locks, poolVars, transferVars, groups>>

-----------------------------------------------------------------------------
(* Starting a transfer. *)

\* Both engines are asked at once and meet in the rendezvous of the process group;
\* an engine that has the group answers without one, and leaves its peer waiting.
InitGroupAllowed(s, d) == <<s, d>> \in groups[s] <=> <<s, d>> \in groups[d]

init_transfer_group(s, d) ==
    /\ InitGroupAllowed(s, d)
    /\ groups' = [groups EXCEPT ![s] = @ \cup {<<s, d>>}, ![d] = @ \cup {<<s, d>>}]
    /\ UNCHANGED <<pinVars, poolVars, transferVars>>

\* _allocate_destination: a free row, or one that an eviction frees.
AllocatesRow(e) ==
    \/ /\ free[e] > 0
       /\ free' = [free EXCEPT ![e] = @ - 1]
       /\ UNCHANGED cache
    \/ /\ free[e] = 0
       /\ \E b \in Evictable(e) : cache' = [cache EXCEPT ![e][b] = "absent"]
       /\ UNCHANGED free

\* Mutant: a destination that already has the agent pinned is accepted.
StartChecksUnpinned(e, role, a, epoch, pair) ==
    /\ pair \in groups[e]
    /\ \/ role = "source" /\ prefixes[e][a] = epoch
       \/ role = "destination" /\ (free[e] > 0 \/ Evictable(e) # {})

\* The checks of start_transfer that come before the queue's.
StartChecks(e, role, a, epoch, pair) ==
    /\ pair \in groups[e]
    /\ \/ role = "source" /\ prefixes[e][a] = epoch
       \/ /\ role = "destination"
          /\ ~Pinned(e, a)
          /\ free[e] > 0 \/ Evictable(e) # {}

SameTransfer(e, role, m, a) ==
    transfers[e][m].role = role /\ transfers[e][m].agent = a

StartAllowed(e, role, m, a, epoch, pair) ==
    IF TransferState(e, m) # "NONE"
    THEN pair \in groups[e] /\ SameTransfer(e, role, m, a)
    ELSE StartChecks(e, role, a, epoch, pair) /\ Len(queue[e]) < MaxQueue

start_transfer(e, role, m, a, epoch, pair) ==
    /\ StartAllowed(e, role, m, a, epoch, pair)
    /\ IF TransferState(e, m) # "NONE"
       THEN UNCHANGED <<poolVars, transferVars>>
       ELSE /\ transfers' = [transfers EXCEPT ![e][m] =
                  [state |-> "QUEUED", role |-> role, agent |-> a, epoch |-> epoch,
                   pair |-> pair,
                   rows |-> IF role = "destination" THEN "blank" ELSE "none"]]
            /\ queue' = [queue EXCEPT ![e] = Append(@, m)]
            /\ IF role = "destination" THEN AllocatesRow(e) ELSE UNCHANGED poolVars
    /\ UNCHANGED <<pinVars, groups>>

\* queue.Full: the record and the reservation are undone, an eviction is not.
start_transfer_full(e, m, a, epoch, pair) ==
    /\ TransferState(e, m) = "NONE"
    /\ StartChecks(e, "destination", a, epoch, pair)
    /\ Len(queue[e]) = MaxQueue
    /\ free[e] = 0
    /\ \E b \in Evictable(e) : cache' = [cache EXCEPT ![e][b] = "absent"]
    /\ free' = [free EXCEPT ![e] = @ + 1]
    /\ UNCHANGED <<pinVars, transferVars, groups>>

-----------------------------------------------------------------------------
(* The transfer worker. *)

Working(e) == \E m \in Migrations : TransferState(e, m) = "COPYING"

\* Mutant: a second worker thread.
worker_take_any(e) ==
    /\ queue[e] # <<>>
    /\ transfers' = [transfers EXCEPT ![e][Head(queue[e])].state = "COPYING"]
    /\ queue' = [queue EXCEPT ![e] = Tail(@)]
    /\ UNCHANGED <<pinVars, poolVars, groups>>

\* The get from the queue and the marking of what it got are one action: no handler
\* tells a record that is QUEUED from one that is COPYING.
worker_take(e) ==
    /\ ~Working(e)
    /\ queue[e] # <<>>
    /\ transfers' = [transfers EXCEPT ![e][Head(queue[e])].state = "COPYING"]
    /\ queue' = [queue EXCEPT ![e] = Tail(@)]
    /\ UNCHANGED <<pinVars, poolVars, groups>>

AtWorker(e, m, role, pair) ==
    /\ TransferState(e, m) = "COPYING"
    /\ transfers[e][m].role = role
    /\ transfers[e][m].pair = pair

\* NCCL messages are untagged: whatever the two workers of a pair are at is matched.
\* The source sends the rows its record points at, which are the agent's own only
\* while they are resident.
copy_kv(s, d, m, n) ==
    /\ AtWorker(s, m, "source", <<s, d>>)
    /\ AtWorker(d, n, "destination", <<s, d>>)
    /\ LET a == transfers[s][m].agent
           own == a = transfers[d][n].agent /\ cache[s][a] = "own"
       IN  transfers' = [transfers EXCEPT
               ![s][m].state = "COMPLETE",
               ![d][n] = [@ EXCEPT !.state = "COPY_DONE",
                                   !.rows = IF own THEN "own" ELSE "other"]]
    /\ UNCHANGED <<pinVars, poolVars, queue, groups>>

\* An exception in the worker: the reservation stays with the record.
copy_fails(e, m) ==
    /\ TransferState(e, m) = "COPYING"
    /\ transfers' = [transfers EXCEPT ![e][m].state = "FAILED"]
    /\ UNCHANGED <<pinVars, poolVars, queue, groups>>

-----------------------------------------------------------------------------
(* Polling and cleanup. *)

PollAllowed(e, m) == TransferState(e, m) \notin {"NONE", "FAILED"}

PolledState(e, m) ==
    IF TransferState(e, m) = "COPY_DONE" THEN "COMPLETE" ELSE TransferState(e, m)

\* Mutant: copied rows that the cache already has are not freed.
install_leaks(e, m) ==
    LET t == transfers[e][m] IN
    /\ cache' = [cache EXCEPT ![e][t.agent] =
                    IF Resident(e, t.agent) THEN @ ELSE t.rows]
    /\ UNCHANGED free
    /\ locks' = [locks EXCEPT ![e][t.agent] = @ + 1]
    /\ prefixes' = [prefixes EXCEPT ![e][t.agent] = t.epoch]
    /\ transfers' = [transfers EXCEPT
           ![e][m] = [@ EXCEPT !.state = "COMPLETE", !.rows = "none"]]

\* Mutant: the installed node is not locked.
install_unlocked(e, m) ==
    LET t == transfers[e][m] IN
    /\ IF Resident(e, t.agent)
       THEN free' = [free EXCEPT ![e] = @ + 1] /\ UNCHANGED cache
       ELSE cache' = [cache EXCEPT ![e][t.agent] = t.rows] /\ UNCHANGED free
    /\ UNCHANGED locks
    /\ prefixes' = [prefixes EXCEPT ![e][t.agent] = t.epoch]
    /\ transfers' = [transfers EXCEPT
           ![e][m] = [@ EXCEPT !.state = "COMPLETE", !.rows = "none"]]

\* _install_destination_prefix: rows already resident under the key are kept and the
\* copied ones freed; the pin registered for the agent is overwritten.
install(e, m) ==
    LET t == transfers[e][m] IN
    /\ IF Resident(e, t.agent)
       THEN /\ free' = [free EXCEPT ![e] = @ + 1]
            /\ UNCHANGED cache
       ELSE /\ cache' = [cache EXCEPT ![e][t.agent] = t.rows]
            /\ UNCHANGED free
    /\ locks' = [locks EXCEPT ![e][t.agent] = @ + 1]
    /\ prefixes' = [prefixes EXCEPT ![e][t.agent] = t.epoch]
    /\ transfers' = [transfers EXCEPT
           ![e][m] = [@ EXCEPT !.state = "COMPLETE", !.rows = "none"]]

\* An install that raises, in the insert or after it, fails the transfer: its rows are
\* freed or belong to the RadixCache, where they may have been locked already.
install_fails(e, m) ==
    LET a == transfers[e][m].agent IN
    /\ TransferState(e, m) = "COPY_DONE"
    /\ \/ /\ ~Resident(e, a)
          /\ cache' = [cache EXCEPT ![e][a] = transfers[e][m].rows]
          /\ UNCHANGED free
       \/ free' = [free EXCEPT ![e] = @ + 1] /\ UNCHANGED cache
    /\ \/ UNCHANGED locks
       \/ /\ cache'[e][a] # "absent"
          /\ locks' = [locks EXCEPT ![e][a] = @ + 1]
    /\ transfers' = [transfers EXCEPT
           ![e][m] = [@ EXCEPT !.state = "FAILED", !.rows = "none"]]
    /\ UNCHANGED <<prefixes, queue, groups>>

poll_transfer(e, m) ==
    /\ PollAllowed(e, m)
    /\ IF TransferState(e, m) = "COPY_DONE"
       THEN install(e, m)
       ELSE UNCHANGED <<pinVars, poolVars, transfers>>
    /\ UNCHANGED <<queue, groups>>

\* Mutant: a transfer can be cleaned up at any time.
CleanupAlways(e, m) == TransferState(e, m) # "NONE"

CleanupAllowed(e, m) == TransferState(e, m) \in TerminalStates

cleanup_transfer(e, m) ==
    /\ CleanupAllowed(e, m)
    /\ free' = [free EXCEPT ![e] = IF m \in Reserved(e) THEN @ + 1 ELSE @]
    /\ transfers' = [transfers EXCEPT ![e][m] = NoTransfer]
    /\ UNCHANGED <<pinVars, cache, queue, groups>>

-----------------------------------------------------------------------------
(* The engine. *)

ActiveTransfer(e, m) == TransferState(e, m) \in ActiveStates

\* The engine starts from an empty pool: no row is used, no prefix is pinned or locked.
ResetsPool(e) ==
    /\ prefixes' = [prefixes EXCEPT ![e] = [a \in Agents |-> 0]]
    /\ locks' = [locks EXCEPT ![e] = [a \in Agents |-> 0]]
    /\ cache' = [cache EXCEPT ![e] = [a \in Agents |-> "absent"]]
    /\ free' = [free EXCEPT ![e] = Slots]

\* Everything but the process groups.
ResetsTables(e) ==
    /\ ResetsPool(e)
    /\ transfers' = [transfers EXCEPT ![e] = [m \in Migrations |-> NoTransfer]]

\* flush_cache of an idle scheduler, which prepare_cache_reset may refuse.
flush_cache(e) ==
    /\ \A m \in Migrations : ~ActiveTransfer(e, m)
    /\ ResetsTables(e)
    /\ UNCHANGED <<queue, groups>>

\* The engine process dies and is started again, without its process groups.
engine_restart(e) ==
    /\ ~EmptyEngine(e)
    /\ ResetsTables(e)
    /\ queue' = [queue EXCEPT ![e] = <<>>]
    /\ groups' = [groups EXCEPT ![e] = {}]

\* A turn computes the agent's prefix on the engine; other traffic evicts it.
prefill(e, a) ==
    /\ ~Resident(e, a)
    /\ free[e] > 0
    /\ cache' = [cache EXCEPT ![e][a] = "own"]
    /\ free' = [free EXCEPT ![e] = @ - 1]
    /\ UNCHANGED <<pinVars, transferVars, groups>>

evict(e, a) ==
    /\ a \in Evictable(e)
    /\ cache' = [cache EXCEPT ![e][a] = "absent"]
    /\ free' = [free EXCEPT ![e] = @ + 1]
    /\ UNCHANGED <<pinVars, transferVars, groups>>

-----------------------------------------------------------------------------
(* Any caller, in any order. *)

PinCalls(e) ==
    \E a \in Agents, epoch \in Epochs :
        \/ pin(e, a, epoch)
        \/ pin_fails(e, a)
        \/ \E evicts, missing \in BOOLEAN : release(e, a, epoch, evicts, missing)
        \/ \E new \in Epochs : rebind(e, a, epoch, new)

TransferCalls(e) ==
    \E m \in Migrations :
        \/ \E a \in Agents, epoch \in Epochs, pair \in Pairs :
              \/ pair[1] = e /\ start_transfer(e, "source", m, a, epoch, pair)
              \/ pair[2] = e /\ start_transfer(e, "destination", m, a, epoch, pair)
              \/ pair[2] = e /\ start_transfer_full(e, m, a, epoch, pair)
        \/ poll_transfer(e, m)
        \/ install_fails(e, m)
        \/ cleanup_transfer(e, m)

Workers ==
    \/ \E e \in Engines : worker_take(e)
    \/ \E p \in Pairs, m, n \in Migrations : copy_kv(p[1], p[2], m, n)
    \/ \E e \in Engines, m \in Migrations : copy_fails(e, m)

EngineEvents(e) ==
    \/ flush_cache(e)
    \/ engine_restart(e)
    \/ \E a \in Agents : prefill(e, a) \/ evict(e, a)

PrefixNext ==
    \/ \E e \in Engines : PinCalls(e) \/ TransferCalls(e) \/ EngineEvents(e)
    \/ \E p \in Pairs : init_transfer_group(p[1], p[2])
    \/ Workers

PrefixSpec == PrefixInit /\ [][PrefixNext]_prefixVars
-----------------------------------------------------------------------------
(* Correctness. *)

\* Types of the manager's tables (agent-prefix-cache fields, patch:1044-1055).
PrefixTypeOK ==
    /\ prefixes \in [Engines -> [Agents -> 0..MaxEpoch]]
    /\ locks \in [Engines -> [Agents -> Nat]]
    /\ cache \in [Engines -> [Agents -> Contents \cup {"absent"}]]
    /\ free \in [Engines -> 0..Slots]
    /\ transfers \in [Engines -> [Migrations -> Transfers]]
    /\ queue \in [Engines -> Seq(Migrations)]
    /\ groups \in [Engines -> SUBSET Pairs]

\* The strict pool checker of SGLang (patch:1255-1268, :737-746): the rows that are free, in the
\* RadixCache, or reserved by a transfer are all the rows of the engine, so no
\* rollback, install, cleanup or flush loses a row or frees one twice.
PoolAccounting ==
    \A e \in Engines :
        free[e] + Cardinality({a \in Agents : Resident(e, a)}) + Cardinality(Reserved(e))
            = Slots

\* A pinned prefix cannot be evicted from under its pin: it is resident and locked,
\* whatever installs, evictions and flushes happened since it was pinned.
PinnedRowsResident ==
    \A e \in Engines, a \in Agents :
        Pinned(e, a) => Resident(e, a) /\ locks[e][a] > 0

\* The queue and the table agree (patch:1398-1410): a record is QUEUED exactly while
\* its id waits in the queue, once, and the worker is at no more than one.
QueueMatchesTable ==
    \A e \in Engines :
        /\ IsInjective(queue[e])
        /\ ToSet(queue[e]) = {m \in Migrations : TransferState(e, m) = "QUEUED"}
        /\ Cardinality({m \in Migrations : TransferState(e, m) = "COPYING"}) <= 1

Stage(state) ==
    CASE state = "QUEUED" -> 0 [] state = "COPYING" -> 1
      [] state = "COPY_DONE" -> 2 [] OTHER -> 3

\* While an engine stays up, a transfer that has not finished only moves forward and
\* its record is never dropped: no cleanup or flush takes rows the worker writes to.
ActiveTransfersAdvance ==
    [][\A e \in Engines, m \in Migrations :
         ActiveTransfer(e, m) /\ ~(groups[e] # {} /\ groups'[e] = {}) =>
             /\ TransferState(e, m)' # "NONE"
             /\ Stage(TransferState(e, m)') >= Stage(TransferState(e, m))]_prefixVars
=============================================================================
