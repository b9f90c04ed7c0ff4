--------------------------- MODULE ElasticServing ---------------------------
(***************************************************************************)
(* scripts/benchmark_trace_autoscaling.py: TraceAutoscalingBenchmark, the  *)
(* program that composes the autoscaler with the migrations of blocked     *)
(* agents (policy "agentshift").  run_agent, the scheduler loop and the    *)
(* migrations it creates are asyncio tasks of one event loop: what a task  *)
(* does between two awaits is one action.  Loads are fetched engine by     *)
(* engine, and are old when the tick uses them; a tick and the choice of   *)
(* migrations after it are not interrupted, but the migrations run on      *)
(* while later ticks change the pool.                                      *)
(*                                                                         *)
(* An agent here is a slot: when its agent has ended, another may arrive.  *)
(* Migrations are those of MigrationProtocol, seen from their caller: they *)
(* return a new owner or raise.  The scores of the placement policy are    *)
(* left out: any selection within its limits is possible.                  *)
(***************************************************************************)
EXTENDS WarmPool

CONSTANTS
    Agents,
    None,
    Delays,         \* times a pass of the scheduler loop may take
    MaxConcurrent   \* max_concurrent_migrations

ASSUME ElasticAssumption ==
    /\ IsFiniteSet(Agents)
    /\ Delays \subseteq Nat \ {0}
    /\ None \notin Engines
    /\ MaxConcurrent \in Nat \ {0}

VARIABLES
    agent,          \* live_agents: slot -> LiveAgent
    loads           \* the pass of scheduler_loop: engine -> load fetched, or None

elasticVars == <<poolVars, agent, loads>>

\* LiveAgent.  "RETURNED" and "LATE" are state BLOCKED past tool_ready_at, before and
\* after run_agent has called migrate itself.
NoLiveAgent ==
    [state |-> "ENDED", owner |-> None, target |-> None, scheduled |-> FALSE,
     migrated |-> FALSE]

Live(a) == agent[a].state # "ENDED"

\* client_inflight and owner_counts.
inflight(e) ==
    Cardinality({a \in Agents : agent[a].owner = e
                                /\ agent[a].state \in {"FIRST_TURN", "SECOND_TURN"}})

\* Mutant: an agent that was migrated once is not counted any more.
owner_count_unmoved(e) ==
    Cardinality({a \in Agents : Live(a) /\ agent[a].owner = e /\ ~agent[a].migrated})

owner_count(e) == Cardinality({a \in Agents : Live(a) /\ agent[a].owner = e})

ElasticInit ==
    /\ WarmPoolInit
    /\ agent = [a \in Agents |-> NoLiveAgent]
    /\ loads = [e \in Engines |-> None]

-----------------------------------------------------------------------------
(* run_agent. *)

\* Mutant: any engine that is not in standby may get a new agent.
PlacesNotStandby == {e \in Engines : states[e] # "STANDBY"}

\* Where choose_new_owner and choose_relocation_destination look.
Places == active_engines

\* choose_new_owner: the least busy active engine.
run_agent(a) ==
    /\ ~Live(a)
    /\ \E e \in Places :
          /\ \A f \in Places : inflight(e) <= inflight(f)
          /\ agent' = [agent EXCEPT ![a] =
                         [NoLiveAgent EXCEPT !.state = "FIRST_TURN", !.owner = e]]
    /\ UNCHANGED <<poolVars, loads>>

\* The agent is registered and its tool called, or the turn raises.
first_turn_ends(a) ==
    /\ agent[a].state = "FIRST_TURN"
    /\ \E s \in {"BLOCKED", "ENDED"} :
          agent' = [agent EXCEPT ![a].state = s]
    /\ UNCHANGED <<poolVars, loads>>

tool_returns(a) ==
    /\ agent[a].state = "BLOCKED"
    /\ agent' = [agent EXCEPT ![a].state = "RETURNED"]
    /\ UNCHANGED <<poolVars, loads>>

\* choose_relocation_destination for an agent on a draining engine.
late_drain(a) ==
    /\ states[agent[a].owner] = "DRAINING"
    /\ ~agent[a].migrated
    /\ \E e \in Places \ {agent[a].owner} :
          /\ \A f \in Places \ {agent[a].owner} :
                inflight(e) < inflight(f) \/ /\ inflight(e) = inflight(f)
                                             /\ owner_count(e) <= owner_count(f)
          /\ agent' = [agent EXCEPT ![a].state = "LATE", ![a].target = e]

\* The tool has returned and the scheduled migration, if any, has ended.
resume(a) ==
    /\ agent[a].state = "RETURNED"
    /\ agent[a].target = None
    /\ \/ late_drain(a)
       \/ /\ states[agent[a].owner] = "DRAINING" =>
                agent[a].migrated \/ Places \subseteq {agent[a].owner}
          /\ agent' = [agent EXCEPT ![a].state = "SECOND_TURN"]
    /\ UNCHANGED <<poolVars, loads>>

\* The agent after its migration, moved or not; its caller, when it is run_agent, goes on.
Landed(a, moved) ==
    [agent[a] EXCEPT !.owner = IF moved THEN agent[a].target ELSE @,
                     !.migrated = @ \/ moved,
                     !.target = None,
                     !.state = IF @ = "LATE" THEN "SECOND_TURN" ELSE @]

\* migrate returns a result or raises.
migrate_agent_returns(a) ==
    /\ agent[a].target # None
    /\ \E moved \in BOOLEAN : agent' = [agent EXCEPT ![a] = Landed(a, moved)]
    /\ UNCHANGED <<poolVars, loads>>

second_turn_ends(a) ==
    /\ agent[a].state = "SECOND_TURN"
    /\ agent' = [agent EXCEPT ![a].state = "ENDED"]
    /\ UNCHANGED <<poolVars, loads>>

AgentStep(a) ==
    \/ first_turn_ends(a)
    \/ tool_returns(a)
    \/ resume(a)
    \/ migrate_agent_returns(a)
    \/ second_turn_ends(a)

-----------------------------------------------------------------------------
(* scheduler_loop. *)

\* The engine's answer, which may not count a request on its way yet, or
\* client_inflight when it cannot be fetched.
get_load(e) ==
    /\ loads[e] = None
    /\ \E seen \in 0..inflight(e) : loads' = [loads EXCEPT ![e] = seen]
    /\ UNCHANGED <<poolVars, agent>>

\* What the tick sees: old loads, of which any part may be waiting, and current owners.
Seen(waiting) ==
    [e \in Engines |-> [running |-> loads[e] - waiting[e],
                        waiting |-> waiting[e],
                        owners |-> owner_count(e)]]

\* schedule_migrations: blocked agents that were never scheduled, to engines that the
\* tick leaves active; an engine takes part in one of the selected migrations only.
Candidates == {a \in Agents : agent[a].state = "BLOCKED" /\ ~agent[a].scheduled}

Selections ==
    {sel \in UNION {[s -> Engines] : s \in SUBSET Candidates} :
        LET chosen == DOMAIN sel IN
        /\ Cardinality(chosen) <= MaxConcurrent
        /\ \A a \in chosen :
              /\ states'[sel[a]] = "ACTIVE"
              /\ sel[a] # agent[a].owner
              /\ \A b \in chosen \ {a} :
                    {sel[a], agent[a].owner} \cap {sel[b], agent[b].owner} = {}}

scheduler_pass ==
    /\ \A e \in Engines : loads[e] # None
    /\ \E waiting \in [Engines -> 0..Cardinality(Agents)], dt \in Delays :
          /\ \A e \in Engines : waiting[e] <= loads[e]
          /\ tick(Seen(waiting), dt)
    /\ \E sel \in Selections :
          agent' = [a \in Agents |->
            IF a \in DOMAIN sel
            THEN [agent[a] EXCEPT !.target = sel[a], !.scheduled = TRUE]
            ELSE agent[a]]
    /\ loads' = [e \in Engines |-> None]

-----------------------------------------------------------------------------
ElasticNext ==
    \/ \E a \in Agents : run_agent(a) \/ AgentStep(a)
    \/ \E e \in Engines : get_load(e)
    \/ scheduler_pass

ElasticSpec == ElasticInit /\ [][ElasticNext]_elasticVars

\* Requests, load fetches, tools and migrations all end, by their timeouts at the
\* latest, and the loop goes on; that an agent arrives is not assumed.
ElasticFairness ==
    /\ \A a \in Agents : WF_elasticVars(AgentStep(a))
    /\ \A e \in Engines : WF_elasticVars(get_load(e))
    /\ WF_elasticVars(scheduler_pass)

ElasticFairSpec == ElasticSpec /\ ElasticFairness
-----------------------------------------------------------------------------
(* Correctness. *)

ElasticTypeOK ==
    /\ WarmPoolTypeOK
    /\ agent \in [Agents ->
         [state : {"ENDED", "FIRST_TURN", "BLOCKED", "RETURNED", "LATE", "SECOND_TURN"},
          owner : Engines \cup {None}, target : Engines \cup {None},
          scheduled : BOOLEAN, migrated : BOOLEAN]]
    /\ \A a \in Agents : Live(a) => agent[a].owner # None
    /\ loads \in [Engines -> Nat \cup {None}]

\* An engine goes to standby when no agent is left on it (autoscaling.py:98-100), moved
\* before or not, and while it stays there an agent comes only by the end of a migration
\* towards it: whoever is on an engine in standby was on it when it already was in
\* standby, or has just arrived by a migration that was under way.
StandbyIsEmptied ==
    [][\A a \in Agents :
         LET e == agent'[a].owner IN
         Live(a)' /\ states'[e] = "STANDBY" =>
            /\ Live(a)
            /\ states[e] = "STANDBY"
            /\ \/ agent[a].owner = e
               \/ agent[a].target = e /\ agent'[a].target = None]_elasticVars

\* A drain ends, whatever new agents keep arriving: they are placed elsewhere
\* (benchmark_trace_autoscaling.py:219-232), and the agents on the engine end or leave.
DrainsEnd == \A e \in Engines : states[e] = "DRAINING" ~> states[e] # "DRAINING"
=============================================================================
