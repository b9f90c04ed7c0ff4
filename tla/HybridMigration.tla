--------------------------- MODULE HybridMigration ---------------------------
(***************************************************************************)
(* agentshift/controller/hybrid_migration.py: migrate() of one             *)
(* HybridMigrationCoordinator, composed with the durable store             *)
(* (StateStore) and with engines that run HybridControl.                   *)
(*                                                                         *)
(* Calls are asyncio tasks, and an action is what a task does between two  *)
(* awaits.  The group of a pair of engines is made once, by the first call *)
(* that needs it and with the ranks of that call's direction, and kept for *)
(* good.  asyncio.gather raises with the first request that raises, while  *)
(* the other goes on at its engine.                                        *)
(***************************************************************************)
EXTENDS StateStore, Sequences

CONSTANTS
    Tokens,
    Home,           \* agent -> engine that first owns it
    TokensOf,       \* agent -> the tokens of its continuation
    MaxFaults       \* bound: answers lost, prefixes evicted, engines restarted

ASSUME HybridAssumption ==
    /\ Home \in [Agents -> Engines]
    /\ TokensOf \in [Agents -> Tokens]
    /\ MaxFaults \in Nat

VARIABLES
    requests, serving, groups, published, ready, prefixes, answers,  \* HybridControl
    task,       \* migrate() calls: migration id -> program counter and engines
    _groups,    \* the pairs of engines whose group the coordinator knows
    group_lock, \* pair -> the call that holds its _group_locks entry
    faults

engineVars == <<requests, serving, groups, published, ready, prefixes, answers>>
callVars == <<task, _groups, group_lock>>
hybridVars == <<storeVars, engineVars, callVars, faults>>

HC == INSTANCE HybridControl WITH Calls <- Migrations, NoRequest <- None

-----------------------------------------------------------------------------
(* Calls in progress. *)

IdleCall == [pc |-> "idle", source |-> None, destination |-> None, tokens |-> None]

PairOf(m) == {task[m].source, task[m].destination}

HybridInit ==
    /\ agents = [a \in Agents |-> [owner |-> Home[a], epoch |-> InitialEpoch, step |-> 0]]
    /\ migrations = [m \in Migrations |-> NoMigration]
    /\ claims = [a \in Agents |-> [s \in Steps |-> NoClaim]]
    /\ starting = [m \in Migrations |-> NoMigration]
    /\ HC!ControlInit
    /\ task = [m \in Migrations |-> IdleCall]
    /\ _groups = {}
    /\ group_lock = [p \in HC!Pairs |-> None]
    /\ faults = 0

Goto(m, pc) == task' = [task EXCEPT ![m].pc = pc]

\* The agent is read and the row inserted without an await.
migrate(m, a, destination) ==
    LET row == [agent |-> a, source |-> agents[a].owner, destination |-> destination,
                epoch |-> agents[a].epoch, state |-> "PREPARING"]
    IN
    /\ task[m].pc = "idle"
    /\ row.source # destination /\ ~HasLiveMigration(a)
    /\ migrations' = [migrations EXCEPT ![m] = row]
    /\ task' = [task EXCEPT ![m] = [pc |-> "group", source |-> row.source,
                                    destination |-> destination, tokens |-> TokensOf[a]]]
    /\ UNCHANGED <<agents, claims, starting, engineVars, _groups, group_lock, faults>>

-----------------------------------------------------------------------------
(* _ensure_group. *)

\* The first call of a pair makes its group, behind the pair's lock.
ensure_group(m) ==
    /\ task[m].pc = "group"
    /\ PairOf(m) \notin _groups
    /\ group_lock[PairOf(m)] = None
    /\ group_lock' = [group_lock EXCEPT ![PairOf(m)] = m]
    /\ HC!send(m, "init", task[m].source, task[m].destination, task[m].tokens)
    /\ Goto(m, "init")
    /\ UNCHANGED <<storeVars, _groups, faults>>

\* With a group: COPYING, and both transfer requests.
StartsCopying(m) ==
    /\ transition_migration(m, "PREPARING", "COPYING")
    /\ HC!send(m, "transfer", task[m].source, task[m].destination, task[m].tokens)
    /\ Goto(m, "copying")

group_known(m) ==
    /\ task[m].pc = "group"
    /\ PairOf(m) \in _groups
    /\ StartsCopying(m)
    /\ UNCHANGED <<_groups, group_lock, faults>>

-----------------------------------------------------------------------------
(* The gathers. *)

\* Both sides answered with success.
Succeeded(m) == \A role \in HC!Roles : answers[m][role] = "success"

\* The first request that raises at the client ends the gather, the answer of the other
\* not awaited: it got no answer, or one without success, which is HTTP 409.
SomeRaised(m) == \E role \in HC!Roles : answers[m][role] \in {"raised", "failed"}

\* Mutant: the lock of the pair is not released by an exception.
ReleasesLockOnSuccess(m) ==
    group_lock' = IF Succeeded(m) THEN [group_lock EXCEPT ![PairOf(m)] = None]
                  ELSE group_lock

\* async with: the lock goes with the call that leaves _ensure_group.
ReleasesLock(m) == group_lock' = [group_lock EXCEPT ![PairOf(m)] = None]

\* The except clause: the row is aborted from the state it is in.
Raises(m) ==
    /\ transition_migration(m, MigrationState(m), "ABORTED")
    /\ Goto(m, "failed")

group_made(m) ==
    /\ task[m].pc = "init"
    /\ ReleasesLock(m)
    /\ \/ /\ Succeeded(m)
          /\ _groups' = _groups \cup {PairOf(m)}
          /\ StartsCopying(m)
       \/ /\ SomeRaised(m)
          /\ Raises(m)
          /\ UNCHANGED <<engineVars, _groups>>
    /\ UNCHANGED faults

copied(m) ==
    /\ task[m].pc = "copying"
    /\ \/ /\ Succeeded(m)
          /\ transition_migration(m, "COPYING", "DEST_READY")
          /\ Goto(m, "commit")
       \/ /\ SomeRaised(m)
          /\ Raises(m)
    /\ UNCHANGED <<engineVars, _groups, group_lock, faults>>

commit(m) ==
    /\ task[m].pc = "commit"
    /\ commit_migration(m)
    /\ Goto(m, "done")
    /\ UNCHANGED <<engineVars, _groups, group_lock, faults>>

MigrateStep(m) ==
    ensure_group(m) \/ group_known(m) \/ group_made(m) \/ copied(m) \/ commit(m)

-----------------------------------------------------------------------------
(* The engines, and what may happen to them. *)

engine_serves(e) ==
    HC!serves(e) /\ UNCHANGED <<storeVars, callVars, faults>>

\* A turn computes the prefix at the owner.
engine_traffic(e) ==
    /\ \E a \in Agents : agents[a].owner = e /\ HC!computes(e, TokensOf[a])
    /\ UNCHANGED <<storeVars, callVars, faults>>

fault(e) ==
    /\ faults < MaxFaults
    /\ faults' = faults + 1
    /\ HC!gives_up(e) \/ HC!restarts(e) \/ \E t \in Tokens : HC!evicts(e, t)
    /\ UNCHANGED <<storeVars, callVars>>

HybridNext ==
    \/ \E m \in Migrations :
          \/ \E a \in Agents, e \in Engines : migrate(m, a, e)
          \/ MigrateStep(m)
    \/ \E e \in Engines : engine_serves(e) \/ engine_traffic(e) \/ fault(e)

HybridSpec == HybridInit /\ [][HybridNext]_hybridVars

\* Tasks go on, and schedulers: every request ends, by a timeout if not otherwise.
HybridFairness ==
    /\ \A m \in Migrations : WF_hybridVars(MigrateStep(m))
    /\ \A e \in Engines : WF_hybridVars(engine_serves(e))

HybridFairSpec == HybridSpec /\ HybridFairness
-----------------------------------------------------------------------------
(* Correctness. *)

\* What an engine has for some tokens is their own state, although the two sides of a
\* transfer count for themselves, and the request that one side has dropped may be met
\* by another call's: the digest of the tokens tells (hybrid_control.py:177-184).
PublishedStateIsOwn ==
    \A e \in Engines, t \in Tokens : prefixes[e][t] # "other"

\* An agent is handed over only to an engine that got its state: it holds it, unless it
\* has evicted it since.
HandedOverWithState ==
    \A m \in Migrations :
        HandedOver(m) =>
            prefixes[migrations[m].destination][TokensOf[migrations[m].agent]] # "absent"

\* Two engines that copy to each other are in one transfer, one giving and one taking.
CopiesPairUp ==
    \A e, f \in Engines :
        LET r == serving[e]
            q == serving[f]
        IN
        /\ e # f /\ r # None /\ q # None
        /\ r.phase = "copy" /\ q.phase = "copy" /\ r.pair = q.pair
        => r.role # q.role /\ r.tokens = q.tokens /\ r.sequence = q.sequence

\* Every migrate returns, whatever its engines refuse, lose or wait for.
EveryMigrateReturns ==
    \A m \in Migrations : task[m].pc = "group" ~> task[m].pc \in {"done", "failed"}
=============================================================================
