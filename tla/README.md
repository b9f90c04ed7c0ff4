# AgentShift: TLA+ models and proofs

AgentShift moves a suspended agent, together with its warm KV cache, from one SGLang
engine to another while the agent waits for a tool. SQLite holds the durable truth (who
owns the agent, at which epoch, how far it has got), the engines hold KV rows that can be
recomputed, and a controller drives both. What must never go wrong: two engines advancing
the same agent, KV rows becoming visible under the wrong key, rows or locks getting lost in
an engine's pool, a tool running twice, a pool without an active engine. What must not hang:
a migration, its acknowledgement, a drain.

This directory models those parts from the code, model-checks them with TLC and proves the
most important results with TLAPS.

## 1. Inventory

| Component | Source | State | Operations | Made correct by |
|---|---|---|---|---|
| Durable store | `agentshift/state/store.py`, `schema.py` | tables `agents`, `migrations`, `step_claims`, `effects`, `mailbox` | register, claim / commit / fail a step, start / transition / commit / recover a migration, prepare / transition an effect | leases form one chain of epochs; one live migration per agent; a step has one author |
| Migration coordinator | `agentshift/controller/migration.py` | engine locks, release locks, `_pair_groups`, the locals of its calls | `migrate`, `acknowledge_destination`, `finalize_destination`, `recover_destination_failure`, `reconcile_after_restart` | commits only what is installed; cleans up; keeps the source copy; every call returns |
| Prefix manager of an engine | `patches/agentshift-sglang.patch` | pins, `background_transfers`, the transfer queue, transfer groups; tier operations, host prefixes | pin, release, rebind, init group, start / poll / cleanup of transfers and of tier operations, flush | pool accounting; pinned rows stay; reservations are accounted for |
| Effect proxy | `agentshift/runtime/effects.py` | rows of `effects` | `execute` | at-most-once submission |
| Turn executor | `agentshift/runtime/executor.py` | rows of `step_claims`, `stream_offset` | `run_turn` | one turn of an agent at a time; a step has one result; a fenced owner commits nothing |
| Mailbox, ownership guard | `runtime/mailbox.py`, `ownership.py` | rows of `mailbox` | put / get a result, compare an epoch | - |
| Engine client | `agentshift/engine/sglang.py` | one control lock per engine | control RPCs, streaming | one control call in flight per engine |
| Tiered checkpoints | `agentshift/controller/tiered.py` | a lock; files under `/dev/shm` | spill, restore, `cleanup`, `handoff`, acknowledge | a file is read when it is whole; copies stay pinned; every handoff returns |
| Hybrid migration | `agentshift/controller/hybrid_migration.py`, `experiments/hygon_runtime/hybrid_control.py` | `_groups`, a lock per pair; at the engine the groups and their sequence numbers | `migrate`, `_ensure_group`; `init_group`, `transfer` | what is published is the tokens' own; ownership follows the state |
| Autoscaler | `agentshift/controller/autoscaling.py`, `scripts/benchmark_trace_autoscaling.py` | lifecycles, streaks, cooldown; live agents | `tick`; arrive, block, resume, migrate | the pool keeps its minimum; standby engines are empty; a drain ends |
| Snapshot directory | `agentshift/controller/snapshot_directory.py` | entries, LRU order, bytes | put, acquire, release, evict | byte accounting; leased entries stay |
| Placement, preparation, baselines | `placement.py`, `preparation_decisions.py`, `materialization.py`, `global_mobility.py`, `baselines.py` | none | pure scoring | admission conditions |
| Descriptor, traces | `state/descriptor.py`, `workloads/` | none | hashing, loading | - |
| Experiments | `experiments/` (less `hybrid_control.py`), `scripts/`, reports | - | measurements; copies of the SGLang runtime | - |

How they interact: the coordinators write the store in SQLite transactions and call the
engines over HTTP control RPCs; the engine's scheduler thread executes one control call at
a time, its transfer and tier workers are threads of their own, and two transfer workers meet
in an untagged NCCL send/recv. Executors and effect proxies of any process write the same
store. The autoscaler reads sampled loads, changes where agents are placed, and its program
starts migrations that are still running when the next tick changes the pool.

The hard behaviours: asyncio calls interleave at every await; store calls that check the
lease before their transaction; RPCs that are lost before or after they are executed; copies
and installs that fail; waits that time out while the copy goes on; a controller that dies
between an RPC and the transaction that records it; engines that restart empty; hand-over of
an agent while an old owner's turn, effect or acknowledgement is still running; decisions
from loads that are old. `hazards` in `PROJECT.json` lists each at its line, with the
properties that cover it.

## 2. Modules

| Module | Models | Uses |
|---|---|---|
| `Ownership` | the abstract lease: what the store promises | - |
| `StateStore` | agents, migrations and step claims of `store.py` | `Ownership` through a refinement mapping |
| `ManagedExecutor` | `ManagedAgentExecutor.run_turn` | extends `StateStore` |
| `EffectProxy` | `ManagedEffectProxy.execute` and the effects calls of the store | extends `Ownership` |
| `PrefixManager` | `AgentPrefixManager` of all engines, and the copies between them | - |
| `MigrationProtocol` | `MigrationCoordinator` | extends `StateStore`, instantiates `PrefixManager` |
| `TierOperations` | the tier operations of `AgentPrefixManager` | extends `PrefixManager` |
| `TieredHandoff` | `SharedSemanticHandoffCoordinator`, callers of `TieredPrefixCoordinator` | extends `StateStore`, instantiates `TierOperations` |
| `HybridControl` | the engine side of a hybrid migration, and its client | - |
| `HybridMigration` | `HybridMigrationCoordinator.migrate` | extends `StateStore`, instantiates `HybridControl` |
| `WarmPool` | `WarmPoolAutoscaler.tick` | - |
| `ElasticServing` | the program that runs the autoscaler | extends `WarmPool` |
| `*Proofs` | theorems about `StateStore`, `ManagedExecutor`, `EffectProxy`, `PrefixManager`, `MigrationProtocol`, `HybridMigration`, `TieredHandoff`, `ElasticServing` | the module, TLAPS |
| `MC*` | constants and symmetry for TLC | the module |

**StateStore.** A variable per table; an action per method, named after it. A method that
does everything in one `BEGIN IMMEDIATE` transaction is one action. `start_migration` calls
`assert_lease` before its transaction, so it is two: `start_migration_check` remembers the
row in `starting`, `start_migration_insert` writes it when the partial unique index allows.
Callers pass any epoch the agent has had (`HeldEpochs`): that is what a fenced owner knows.
`Transitions` are the edges of the migration state that the coordinators ask for; the table
itself would accept any. The refinement maps `owner`, `epoch`, `step` and the completed
claims to the variables of `Ownership`.

**ManagedExecutor.** A program counter per call of `run_turn`: claim, generate, commit. The
store calls are those of `StateStore`, and the lease moves through that module's migrations
between them. A caller may die while it generates or before it commits; an exception of the
engine releases the claim, a refused commit does not. The tokens of a turn are their number.

**EffectProxy.** A program counter per caller of `execute`; `prepare_effect` and
`transition_effect` check the lease (and the status) outside of their transaction and are
split there. The lease is the abstract one of `Ownership` and just moves.

**PrefixManager.** An action per handler of the scheduler thread, per step of the transfer
worker, and per event of the engine (turns, evictions, flush, death). An agent has one
completed-turn prefix of one unit of rows; of the rows only whether they hold the KV of the
agent whose key they are under is kept (`"own"`, `"other"`), which is what tells a correct
copy from a mixed-up one. `copy_kv` matches whatever the two workers of a pair are at, as
untagged messages do.
A handler that raises changes nothing and is not a step, with the exceptions that change the
state before they raise: `start_transfer_full` (an eviction stays), `pin_fails` and
`install_fails`. The last two take the prefix's `lock_ref` before they build and register the
pin, so a failure in between leaves a lock that no pin accounts for.

**MigrationProtocol.** A record per call of `migrate` with a program counter that names the
next await; everything between two awaits is one action, store transactions included. `Rpc`
gives the outcomes of a control call: answered, refused by the handler, lost before or after
it was executed. `controller_crash` drops every local, lock and cached group and keeps the
store and the engines; `reconcile_after_restart` runs when no migration does, again and
again while it leaves something to wait for. `finalize_destination` does not look at what the
agent is doing, and neither does its action; calls that come while the agent migrates on are
counted (`overlaps`), since the callers in the repository finalize before that. An engine may
die or have its cache flushed at any step (`resets`), the flush as far as the patch allows.

**TierOperations, TieredHandoff.** A tier operation is a record like a transfer's, with a
worker and a queue of its own. A shared file has its full size before it has its content
(`export_opens`, then `tier_copy`), so an import may find nothing, a partial file, or a whole
one. `TieredHandoff` gives the program counters of `handoff`, of every branch of its except
clause, and of an agent that is parked in host memory and restored; both share the engines'
rows and tier queue. Pins and installs fail as above, and an idle engine may be flushed.

**HybridControl, HybridMigration.** The two sides of a transfer are separate requests in the
queues of two engines. They meet under a sequence number each side counts for itself and
rendezvous in a store of the group; every wait ends by a timeout that marks the group as
failed. The coordinator makes the group of a pair once, with the ranks of the first call's
direction. Two agents may have the same tokens. A client may give up on a request that is
then still executed. A transfer that the engine refuses answers 409, which raises in the
client: the gather of the two requests then ends at once, whatever the other side does.

**WarmPool, ElasticServing.** `tick` is one synchronous method and one action: it completes
drains, updates streaks, and scales in or out. Its observations are arbitrary in `WarmPool`;
in `ElasticServing` they are loads fetched one engine at a time before the tick, with current
owner counts. Agents arrive, block, return, and are migrated by the loop or by themselves.

## 3. What the runs check

| Run | Instance | Distinct states | Shows |
|---|---|---|---|
| `state_store` | 1 agent, 2 engines, 3 migrations, 2 steps, 2 request ids | 299,014 | `HandoverChain`, `CommittedLeaseIsCurrent`, `EpochAccounting`, `StepAuthorship`, and `ImplementsOwnership` |
| `managed_executor` | 1 agent, 3 calls, 2 migrations, 2 steps, 2 request ids, 1 death | 308,681 | `OneTurnAtATime`, `ClaimsAreExplained`, `ReturnsAreTheStream`, `FencedTurnsCommitNothing` |
| `effect_proxy` | 3 callers, 2 operations, epochs to 3 | 89,840 | `AtMostOnce`, `ReturnsWereSubmitted`, `EffectsMoveForward` |
| `prefix_manager` | 2 engines, 1 agent, 2 migrations, epochs to 2, a queue of 1, 2 rows | 586,736 | `PoolAccounting`, `PinnedRowsResident`, `QueueMatchesTable`, `ActiveTransfersAdvance` under any order of calls |
| `migration_faults` | 2 agents, 2 migrations, 2 rows, any two of 1 fault, 1 crash, 1 engine reset, 1 late finalize | 1,998,779 | `ReservationsReturned`, `AbortCleansUp`, `RowsStayOwn`, `PinsAccountedFor`, `CommitFindsDestinationReady`, `LocksFollowPins`, `SourceCopyKept` |
| `migration_live` | 2 agents that change places, 2 migrations, 1 row, 1 fault, fair | 123,434 | `EveryMigrateReturns`, `CommittedIsSettled`, `ReleaseIsRetryable` |
| `tiered_handoff` | 1 agent handed off up to twice and 1 parked, a queue of 1, 2 rows, 1 fault, fair | 239,388 | `TierPoolAccounting`, `RestoredRowsAreOwn`, `HandoffCopiesKept`, `TierLocksFollowPins`, `EveryHandoffReturns` |
| `hybrid_migration` | 3 agents, two with the same tokens, 2 calls, 1 fault, fair | 622,467 | `PublishedStateIsOwn`, `HandedOverWithState`, `CopiesPairUp`, `EveryMigrateReturns` |
| `elastic_serving` | 2 engines, 2 slots of agents, a minimum of 1, fair | 120,192 | `StandbyIsEmptied`, `DrainsEnd` |
| `half_recovery` | 2 agents, 2 migrations, 1 crash | violated | `ReleaseIsRetryable` fails, section 6 |
| `orphan_transfer` | 2 agents, 2 migrations, 1 fault | violated | `VisibleRowsAreOwn` fails, section 6 |
| `unaborted_handoff` | as `tiered_handoff` | violated | `FailedHandoffsAbort` fails, section 6 |

Bounds and why they are enough. One agent is enough for the store and the executor, whose
rows of different agents never meet; three migrations are the least that let a migration be
recovered while a later one has been committed or is live, and two of them already move the
lease under a turn twice. Three calls of two steps are two that race for a step and one that
has won the step before. Two engines with both directions and two agents are what lock order
and mixed-up messages need. A queue of one and two rows per engine make a full queue, an
eviction for a reservation and an exhausted pool happen; the code is the same for 8. One
fault (`MaxFaults`) per behaviour of a coordinator covers every single lost RPC, failed pin,
copy or install at every point, and in the tiered handoff a flushed cache; `migration_faults`
combines any two of a fault, a crash, an engine that is restarted or flushed (`MaxResets`) and
a late finalize (`MaxOverlaps`; the constraint is `TroublesBound`). For the
autoscaler, streaks of 1 and 2 windows and a cooldown of 1 are the least that tell an action
taken too early; two engines with a minimum of one make every lifecycle reachable. They are
too few for `PoolShape` to be put to a test (one active engine already rules a second drain
out), so that one is not run but proved, for any number of engines.
`LocksBound` cuts the prefix manager off where repeated installs under an existing pin would
count `lock_ref` up without end (that the coordinators never cause one is `LocksFollowPins`).

Some properties have an antecedent or an exception where the code promises no more.
`RowsStayOwn` speaks of behaviours without faults because the run `orphan_transfer` shows what
one fault does. `PinsAccountedFor`, `AbortCleansUp` and `HandoffCopiesKept` speak of behaviours
without a fault too, since releases and cleanups are best effort: they say nothing of what a
lost release, cleanup or start leaves behind. `ReservationsReturned` has no such antecedent for
the rows, only for the records. `CommitFindsDestinationReady` excludes behaviours with an engine
that died or was flushed, `SourceCopyKept` the steps in which that happens, and those of a late
finalize. `LocksFollowPins` and `TierLocksFollowPins` name the failed pin and the failed
install as the steps that leave a lock without a pin.

Calls of the protocols, the store, the executor and the effect proxy come to an end, so
deadlock is not checked there: hanging is what the liveness properties are about. The
autoscaler's program never ends, and there deadlock is checked.

Fairness. `ProtocolFairness`: weak fairness of each awaited step, since asyncio resumes a
task whose await is over, RPCs have a deadline, and the workers are threads; strong fairness
of lock acquisition, since asyncio locks are FIFO; weak fairness of `transfer_timeout`, since
the waits have one; weak fairness of `acknowledge_destination`, since callers repeat an
acknowledgement that was not answered. `HandoffFairness`: each step of a handoff, for the
same reason (its one lock is not contended for again and again: a handoff takes it once), and
the tier workers. `HybridFairness`: each step of a call, and the engines' schedulers, whose
every wait has a timeout. `ElasticFairness`: requests, tools, migrations and load fetches end
by their timeouts at the latest, and the loop goes on. Nothing is assumed of traffic, crashes,
faults, arrivals, new migrations or recoveries, and a copy may always fail or wait.

## 4. What is proved

For every value of the constants, with the assumptions named in the modules
(`OwnershipAssumption`: an engine is not `None`, epochs begin above 0; `StoreAssumption`;
`PrefixAssumption`: agents and migration ids are finitely many, an engine is no peer of
itself; `EffectAssumption`; `ExecutorAssumption`: lengths are natural numbers;
`WarmPoolAssumption`: the minimum is at least one and at most the number of engines;
`ElasticAssumption`: finitely many slots; `ProtocolAssumption`: finitely many agents and
migrations, ids that are not `None`, pairs of distinct engines that an agent's new owner is
the source of again, and a `MaxEpoch` that two hand-overs per migration do not reach;
`HandoffAssumption`: finitely many agents and handoffs, a queue of at least one, ids of
handoffs that are neither `None` nor the names of parked agents, and a `MaxEpoch` that one
hand-over per handoff does not exceed):

* `StateStoreProofs`: `StoreTypeCorrect`, `OwnershipIsAChain`, `CommittedStaysCurrent`,
  `AuthorsNeverGoBack`, `EpochsAreCounted`, `StoreImplementsOwnership`.
  The safety results rest on the inductive `StoreInv`. `HandoverChain` is not inductive
  alone: it needs that a migration's epoch is one its agent has reached (`RowsWellFormed`),
  that an agent has at most one live migration (`OneLiveMigration`), and that a committed
  migration's lease is the agent's current one (`CommittedLeaseIsCurrent`): a commit then
  uses up the epoch it was started at. One lemma per transaction, in the order of `StoreNext`.
  `StoreImplementsOwnership` maps every call to a step of `Ownership` or a stutter.
  `EpochsAreCounted` counts: a commit adds one migration to those that handed over and one to
  the epoch, a recovery one to each again, and no other transaction touches either side.
* `ManagedExecutorProofs`: `ExecutorTypeCorrect`, `ExecutorRunsTheStore`, `OneTurn`,
  `ClaimsExplained`, `OneResult`, `TurnsAreFenced`, `OffsetIsTheStream`.
  `ExecutorRunsTheStore` is
  `ExecutorSpec => StoreSpec`: the executor does to the store only what a caller of the store
  may, so all of the above holds of a system with executors, and `StoreInv` may be used here.
  `ExecutorInv` adds that a call in progress holds the claim of its agent's next step, under
  its request id and epoch (`TurnsHoldClaims`), that a returned call's step is one the agent
  has reached (`ResultsAreCommitted`), and the properties. A claim at an older epoch still
  blocks, which makes `OneTurnAtATime` hold across a hand-over. The commit checks the epoch
  only; that the engine is right too follows since the claim compared both and an owner
  changes only with its epoch.
  `OffsetIsTheStream` needs `StreamInv`: the offset a call has read is still the one in the
  row when it commits, since no other turn of the agent runs (`ReadsAreCurrent`), and the
  step it commits has no result yet (`UnreachedHaveNone`). The sum is a recursive function,
  and no induction theorem is at hand: the invariant carries a function that adds the results
  up, each commit makes the next from it (`OneResultMore`), and that there is only one such
  function is shown at the least step where two would differ (`LeastNumber`, from the
  library's `WFMin`).
* `EffectProxyProofs`: `EffectTypeCorrect`, `ToolRunsAtMostOnce`, `ReturnedResultsAreReal`,
  `EffectsAreNeverReplayed`. The status of a row does not show at-most-once by itself, since
  several callers may have passed the check; `EffectInv` adds that the winner of the
  compare-and-swap is alone past it and that the row waits for it (`OneSubmitter`), and
  counts the runs of the tool along (`RunsCounted`). The lease plays no part in the argument:
  fencing is not what keeps a tool from running twice, the compare-and-swap is.
* `PrefixManagerProofs`: `PrefixTypeCorrect`, `NoRowIsLost`, `PinsHold`,
  `QueueAgreesWithTable`, `TransfersAdvance`. The inductive `PrefixInv` adds to the
  properties the shape of a record in each state (`Records`: a record that is not there holds
  no rows, one that is `QUEUED` or `COPYING` as a destination holds blank ones, one that is
  `COPY_DONE` holds copied ones, and records exist only where groups do). Without it neither
  accounting nor types are inductive: `install` hands over exactly one reservation only
  because a `COPY_DONE` record has one. The argument counts: a row moves between the free
  rows, the residents and the reservations (`RowsAdded`, `RowsEvicted`, `RecordWritten`), and
  no action changes their sum. That `free` never exceeds `Slots` follows from the sum, not
  from any guard. For the queue, an id that is appended has no record yet and one that is
  taken was `QUEUED`, so no id is in the queue twice.
* `MigrationProtocolProofs`: `ProtocolTypesHold`, `ProtocolDrivesManagers` and
  `ProtocolKeepsLeases` (the coordinator does to the engines and to the lease only what
  `PrefixManager` and `Ownership` allow, so the pool accounting of the managers holds here
  too), `LocksAreHeldByPins` (of `LocksFollowPins`), `CommitsFindTheCopy`, `SourceStaysPinned`,
  `AcknowledgementsCanBeRetried`, `NoPinIsForgotten`, `CallsHoldTheirLocks`, `RowsAlwaysOwn`.
  The argument has three layers. `ProtocolInv` is inductive by itself: the
  invariants of the store and of the managers, which hold here since every step is one of
  theirs, and what ties the three parts together: a call that runs has the one live migration
  of its agent, its locals agree with its row, and records and pins at an engine belong to
  migrations the store knows. Above it, each property is shown from what one action may do
  at most to a row, to a pin, to a record and to a call (the lemmas on *moves*), so that the
  thirty actions are taken apart once and not once per property. The second layer then
  follows the pins and the copies: an unpin that is still to come names a pin that is there
  (`PendingUnpinned`), a call that has seen both ends complete has an installed and pinned
  copy (`CopiesInstalled`), the source's pin stays until the call gives it up (`SourcePins`),
  a pin that a release would find is at the epoch it asks for (`AcksFit`, `StartsFit`,
  `PinsFit`). `AcknowledgementsCanBeRetried` speaks of behaviours without a crash of the
  controller because the run `half_recovery` shows what a crash does.
  The third layer is about the workers, whose messages carry no id: a sender's rows go to
  whatever its peer is receiving. A call holds the locks it awaited until it returns
  (`CallsLocked`), so a running call is alone on its two engines and its records are the last
  in both queues (`LastAt`). Calls that gave up may have left a destination without a source
  in front of them, but never a source without a destination: a group has at most as many
  waiting sources as destinations (`CopiesPaired`). A leftover may take the rows of a later
  source, and that call then waits in vain; but the last destination is only ever matched
  with the last source, so what a call installs came from its own pin (`CopiesFit`).
  `RowsAlwaysOwn` speaks of behaviours in which no RPC is lost, no copy fails, no engine or
  controller dies, no cache is flushed and no destination is finalized late, since a fault or
  a death may leave a source behind.
* `HybridMigrationProofs`: `StateIsNeverMixedUp`, `CopiesAlwaysPair`, `OwnershipFollowsState`,
  `HybridKeepsLeases`, from `HybridAssumption` (every agent has a first engine and tokens).
  `PublishedStateIsOwn` is far from inductive: a request outlives the call that sent it, and
  the two sides of a transfer meet only under numbers that each counts for itself.
  `HybridInv` ties every request in a queue or at work to the call that sent it
  (`RequestsFit`) and lets an engine have one of a call (`NoneTwice`); it says that the keys
  a side has published have different numbers, up to its own count (`KeysFit`), that a side
  at work is at that count (`ServingFits`), and that one which copies has found both keys in
  agreement (`CopiesAgreed`). Two engines that copy with each other then name each other's
  numbers, so it is one transfer, of the same tokens and in opposite roles. What is copied is
  therefore what was asked for, and an answer of the destination means that it has come
  (`StateArrived`), which is what the commit relies on. `HybridKeepsLeases` reuses the lemmas
  of `StateStoreProofs`, one per transaction: `CoordinatedInv` is what a store with
  coordinators above it keeps and `CoordinatorKeeps` shows it of each of their calls, here
  and in the next module.
* `TieredHandoffProofs`: `HandoffInvariant`, `TieredRowsAddUp`, `TieredRowsAreOwn`,
  `TieredPinsHoldTheLocks`, `HandoffsKeepTheirCopies`, `HandoffKeepsLeases`. The argument has
  two layers. `EngineInv` is about the engines alone: a record fits its id and its state, an
  id is in the queue once and only while its record is `QUEUED`, pins are resident and
  locked, and the rows add up. Starts, work, cleanups and evictions keep it by themselves,
  and a poll keeps it only when what it installs or releases is `Safe`: the rows are the
  agent's own and its prefix is not pinned. Nothing at the engine ensures that, so the second
  layer, `HandoffFits` and `ParkFits`, shows it from the callers, and only for an operation
  that a running call still polls: one that was given up may have copied a partial file, but
  nobody polls it to completion. An export copies own rows because its pin has held them
  (`PinsFit`); its file, which has its full size from the start, is whole only at
  `COPY_DONE`, and the import is started after that and finds no pin in its way
  (`OperationsFit`). That one call runs at a time is the lock of `TieredMigrationCoordinator`
  (`CallFits`). `HandoffsKeepTheirCopies` speaks of behaviours without faults, since after a
  lost cleanup the except clause releases the copy that was committed, and a flush lets go of
  every pin. `TieredPinsHoldTheLocks` (of `TierLocksFollowPins`) needs that what is installed
  has no pin yet (`WaitsAreSafe`).
* `ElasticServingProofs`: `PoolKeepsItsShape` (of the autoscaler with any observations),
  `ServingKeepsShape`, `DrainsLeaveNobody`, `ServingRunsThePool` (`ElasticSpec =>
  WarmPoolSpec`). `PoolShape` is inductive with the types: a scale-in counts the active
  engines and finds no drain in progress; the lemmas count what a tick adds and takes away.
  For `DrainsLeaveNobody`, which is about `StandbyIsEmptied`, the tick's owner counts are
  current, unlike its loads: a drain completes only with no owner, new agents are placed on
  active engines, and others change their engine only by a migration.

The type invariants of the executor, the effect proxy, the prefix manager, the migration
protocol, the autoscaler and its program are proved and not also run. Only model-checked are
`ReservationsReturned` and `AbortCleansUp`, which need what the two waiters of a call know of
both records, and the liveness properties, which are beyond the prover.

## 5. Not modelled

* The synchronous transfer baseline (one blocking RPC on both sides), and the progressive path
  of `_migrate_serial`, whose engine endpoint is not in the patch.
* `migrate_async` of the hybrid coordinator: the endpoints it polls are in an SGLang checkout
  outside of this repository.
* Cancellation of an asyncio task in a coordinator (the row is then left as by a crash);
  requests that an engine of the migration protocol executes after their caller has given up
  and gone on (they are in `HybridControl`).
* A controller or an engine that dies in the middle of a tiered handoff: that coordinator has
  no reconciliation, and its operations are persisted nowhere.
* TP ranks above one, with the aggregation of their answers; the shards of a hybrid engine.
* The mailbox, the ownership guard and the snapshot directory: single statements or sequential
  calls of one owner, of which no two interleave within a call.
* Placement scores and the baseline policies of the benchmark: floating-point scoring. Their
  limits (one migration per engine, a maximum) are `Selections` in `ElasticServing`.
* Byte counters and timings; HTTP, JSON and streaming; descriptors and traces.
* The experiments. They are by far the larger part of the repository's lines: copies of the
  SGLang runtime kept with measurements, report generators and plots, which take no part in
  the protocols. The map's small share of all lines comes from them.

## 6. Where the code and its documents disagree

Each is a run that TLC finds violated, with the line of `docs/implementation_plan.md` it
contradicts in `findings`.

1. `half_recovery`: the shadow is rebound before the store records the recovery; a crash in
   between leaves a migration whose acknowledgement is refused for ever.
2. `orphan_transfer`: a migration whose waits have timed out is aborted, and its locks are
   freed, while its transfers go on (the engines refuse to clean up a transfer in `COPYING`,
   and the refusal is dropped). When its destination's copy then fails, the next migration of
   the pair receives the rows its source still sends, and installs them under its own key.
3. `unaborted_handoff`: an RPC that raises within the except clause of `handoff` leaves it
   before the transition to `ABORTED`, and the agent has a live migration for good.

Met while modelling, without a run of their own:

* When the destination's start is executed and its answer lost, or the source's start raises
  after it (`migration.py:303-321`), the migration is aborted and the error returned without a
  cleanup of the destination, whose record, rows and worker stay; `implementation_plan.md:94-95`
  has it cleaned up. `AbortCleansUp` speaks of behaviours without a fault.
* `finalize_destination` releases the pin of the epoch its migration gave, which is the pin
  that the agent's next migration copies from; it does not check for one (`migration.py:487`).
  Only the order of its callers keeps it from coming too late
  (`benchmark_trace_autoscaling.py:397-404`, `benchmark_coding_agent_replay.py:295`). The model
  lets it come late, and `SourceCopyKept` names that call as the one that takes the copy.
* A pin or an install that raises after `inc_lock_ref` (`patch:1132`, `:1438`) leaves a lock
  that nothing drops: the prefix stays in the pool until the engine is flushed or restarted.
* An engine that is flushed, or dies, between the destination's COMPLETE and the commit gets
  the ownership without the prefix: `CommitFindsDestinationReady` excludes it.
* A tiered handoff whose cleanup is lost after the commit runs its except clause and releases
  the committed copy: `HandoffCopiesKept` speaks of behaviours without a fault.
* A hybrid group that has failed once is never replaced; its calls then all fail, as
  `experiments/hygon_runtime/README.md` says. A call still returns.
* A turn whose lease moved while it generated leaves its claim behind, and its step cannot be
  claimed again (`executor.py:60`): `ClaimsAreExplained` names the case.
* A destination transfer whose source never started waits for ever, and a reconciliation
  reports it again each time (`migration.py:570`).
