------------------------ MODULE ElasticServingProofs ------------------------
(***************************************************************************)
(* The warm pool keeps its shape under whatever observations it is given,  *)
(* for every number of engines, and the serving program runs that pool.    *)
(***************************************************************************)
EXTENDS ElasticServing, FiniteSetTheorems, TLAPS

\* What one tick may do, whatever was observed.
LEMMA TickTypes ==
    ASSUME WarmPoolTypeOK, NEW obs, NEW dt \in Nat, tick(obs, dt)
    PROVE  WarmPoolTypeOK'
<1> USE WarmPoolAssumption
<1>1. AfterDrains(obs) \in [Engines -> Lifecycles]
  BY DEF AfterDrains, WarmPoolTypeOK, Lifecycles
<1>2. 0 \in 0..ScaleOutWindows /\ 0 \in 0..ScaleInWindows /\ 0 \in 0..Cooldown
  OBVIOUS
<1>3. \A e \in Engines, l \in Lifecycles : Moved(obs, e, l) => WarmPoolTypeOK'
  BY <1>1, <1>2 DEF Moved, WarmPoolTypeOK
<1>4. CASE scale_out(obs, dt)
  BY <1>3, <1>4 DEF scale_out, Standby, Drained, draining_engines, Lifecycles
<1>5. CASE scale_in(obs, dt)
  BY <1>3, <1>5 DEF scale_in, active_engines, Lifecycles
<1>6. CASE steady(obs, dt)
  <2>1. states' \in [Engines -> Lifecycles]
    BY <1>1, <1>6 DEF steady
  <2>2. OutStreak(obs) \in 0..ScaleOutWindows
    BY DEF OutStreak, Streak, AtMost, WarmPoolTypeOK
  <2>3. InStreak(obs) \in 0..ScaleInWindows
    BY DEF InStreak, Streak, AtMost, WarmPoolTypeOK
  <2>4. since_action' \in 0..Cooldown
    BY <1>6 DEF steady, AtMost, WarmPoolTypeOK
  <2>. QED  BY <2>1, <2>2, <2>3, <2>4, <1>6 DEF steady, WarmPoolTypeOK
<1>. QED  BY <1>4, <1>5, <1>6 DEF tick

\* The engines can be counted.
LEMMA EnginesFinite ==
    /\ IsFiniteSet(Engines)
    /\ \A S \in SUBSET Engines : IsFiniteSet(S) /\ Cardinality(S) \in Nat
<1>1. IsFiniteSet(1..Size)
  BY FS_Interval, WarmPoolAssumption
<1>. QED  BY <1>1, FS_Subset, FS_CardinalityType DEF Engines

\* A tick takes engines out of service only above the minimum, so the shape survives it.
LEMMA TickShape ==
    ASSUME WarmPoolTypeOK, PoolShape, NEW obs, NEW dt \in Nat, tick(obs, dt)
    PROVE  PoolShape'
<1> USE WarmPoolAssumption
<1>1. /\ active_engines \in SUBSET Engines /\ IsFiniteSet(active_engines)
      /\ Cardinality(active_engines) \in Nat /\ Cardinality(active_engines) >= MinActive
      /\ Drained(obs) \subseteq draining_engines
      /\ active_engines \cap draining_engines = {}
  <2>1. active_engines \in SUBSET Engines
    BY DEF active_engines
  <2>. QED  BY <2>1, EnginesFinite DEF PoolShape, Drained, active_engines, draining_engines
<1>2. ASSUME NEW x \in Engines
      PROVE  /\ AfterDrains(obs)[x] = "ACTIVE" <=> x \in active_engines
             /\ AfterDrains(obs)[x] = "DRAINING" <=> x \in draining_engines \ Drained(obs)
  BY DEF AfterDrains, active_engines, draining_engines, Drained
<1>3. CASE scale_out(obs, dt)
  <2>1. PICK e \in Standby(obs) : Moved(obs, e, "ACTIVE")
    BY <1>3 DEF scale_out
  <2>2. e \in Engines /\ e \notin active_engines
    BY DEF Standby, Drained, active_engines, draining_engines
  <2>3. states' = [AfterDrains(obs) EXCEPT ![e] = "ACTIVE"]
    BY <2>1 DEF Moved
  <2>4. active_engines' = active_engines \cup {e}
    BY <2>2, <2>3, <1>2 DEF active_engines, AfterDrains
  <2>5. draining_engines' \subseteq draining_engines
    BY <2>2, <2>3, <1>2 DEF draining_engines, AfterDrains
  <2>6. Cardinality(active_engines \cup {e}) = Cardinality(active_engines) + 1
    BY <1>1, <2>2, FS_AddElement
  <2>. QED  BY <1>1, <2>4, <2>5, <2>6 DEF PoolShape
<1>4. CASE scale_in(obs, dt)
  <2>1. PICK e \in active_engines : Moved(obs, e, "DRAINING")
    BY <1>4 DEF scale_in
  <2>2. Cardinality(active_engines) > MinActive /\ draining_engines = Drained(obs)
    BY <1>4 DEF scale_in, ScaleInDue, can_drain
  <2>3. states' = [AfterDrains(obs) EXCEPT ![e] = "DRAINING"]
    BY <2>1 DEF Moved
  <2>4. active_engines' = active_engines \ {e}
    BY <2>1, <2>3, <1>2, <1>1 DEF active_engines, AfterDrains
  <2>5. draining_engines' \subseteq {e}
    BY <2>2, <2>3, <1>2 DEF draining_engines, AfterDrains
  <2>6. Cardinality(active_engines \ {e}) = Cardinality(active_engines) - 1
    BY <1>1, FS_RemoveElement
  <2>. QED  BY <1>1, <2>2, <2>4, <2>5, <2>6 DEF PoolShape
<1>5. CASE steady(obs, dt)
  <2>1. states' = AfterDrains(obs)
    BY <1>5 DEF steady
  <2>2. active_engines' = active_engines
    BY <2>1, <1>2 DEF active_engines
  <2>3. draining_engines' \subseteq draining_engines
    BY <2>1, <1>2 DEF draining_engines
  <2>. QED  BY <1>1, <2>2, <2>3 DEF PoolShape
<1>. QED  BY <1>3, <1>4, <1>5 DEF tick

\* The pool starts with its first engines active.
LEMMA InitialPool == WarmPoolInit => WarmPoolTypeOK /\ PoolShape
<1> SUFFICES ASSUME WarmPoolInit PROVE WarmPoolTypeOK /\ PoolShape
  OBVIOUS
<1> USE WarmPoolAssumption
<1>1. WarmPoolTypeOK
  BY DEF WarmPoolInit, WarmPoolTypeOK, Lifecycles
<1>2. active_engines = 1..MinActive
  BY DEF WarmPoolInit, active_engines, Engines
<1>3. Cardinality(1..MinActive) = MinActive
  BY FS_Interval
<1>4. draining_engines = {}
  BY DEF WarmPoolInit, draining_engines
<1>. QED  BY <1>1, <1>2, <1>3, <1>4 DEF PoolShape

\* The pool on its own, whatever it is told at every tick: its types, at least MinActive
\* engines active, and one drain at a time (autoscaling.py:88-176).
THEOREM PoolKeepsItsShape == WarmPoolSpec => [](WarmPoolTypeOK /\ PoolShape)
<1>1. WarmPoolTypeOK /\ PoolShape /\ [WarmPoolNext]_poolVars => (WarmPoolTypeOK /\ PoolShape)'
  <2> SUFFICES ASSUME WarmPoolTypeOK, PoolShape, [WarmPoolNext]_poolVars
               PROVE  WarmPoolTypeOK' /\ PoolShape'
    OBVIOUS
  <2>1. CASE WarmPoolNext
    BY <2>1, TickTypes, TickShape DEF WarmPoolNext
  <2>2. CASE UNCHANGED poolVars
    BY <2>2 DEF poolVars, WarmPoolTypeOK, PoolShape, active_engines, draining_engines
  <2>. QED  BY <2>1, <2>2
<1>. QED  BY InitialPool, <1>1, PTL DEF WarmPoolSpec

-----------------------------------------------------------------------------
(* The serving program. *)

AgentRecords ==
    [state : {"ENDED", "FIRST_TURN", "BLOCKED", "RETURNED", "LATE", "SECOND_TURN"},
     owner : Engines \cup {None}, target : Engines \cup {None},
     scheduled : BOOLEAN, migrated : BOOLEAN]

\* An engine that owns nothing has no live agent.
LEMMA OwnerCount ==
    ASSUME NEW e \in Engines
    PROVE  /\ owner_count(e) \in Nat
           /\ owner_count(e) = 0 => \A a \in Agents : Live(a) => agent[a].owner # e
<1> DEFINE S == {a \in Agents : Live(a) /\ agent[a].owner = e}
<1>1. IsFiniteSet(S)
  BY FS_Subset, ElasticAssumption
<1>2. Cardinality(S) \in Nat /\ (Cardinality(S) = 0 => S = {})
  BY <1>1, FS_CardinalityType, FS_EmptySet
<1>. QED  BY <1>2 DEF owner_count

\* The load of an engine can be counted.
LEMMA LoadedRequests == ASSUME NEW e \in Engines PROVE inflight(e) \in Nat
<1> DEFINE S == {a \in Agents : agent[a].owner = e
                                /\ agent[a].state \in {"FIRST_TURN", "SECOND_TURN"}}
<1>1. IsFiniteSet(S)
  BY FS_Subset, ElasticAssumption
<1>. QED  BY <1>1, FS_CardinalityType DEF inflight

\* An agent stays where it is, lands where it was sent, or arrives on an active engine.
Settled(b) ==
    Live(b)' => \/ Live(b) /\ agent'[b].owner = agent[b].owner
                \/ Live(b) /\ agent'[b].owner = agent[b].target /\ agent'[b].target = None
                \/ states[agent'[b].owner] = "ACTIVE"

Stepped(a) ==
    /\ agent' \in [Agents -> AgentRecords]
    /\ \A b \in Agents : Live(b)' => agent'[b].owner # None
    /\ \A b \in Agents : Settled(b)

\* One agent changes to a record that is typed and settled.
LEMMA OneStep ==
    ASSUME ElasticTypeOK, NEW a \in Agents, NEW r \in AgentRecords,
           agent' = [agent EXCEPT ![a] = r],
           r.state # "ENDED" => /\ r.owner # None
                                /\ \/ Live(a) /\ r.owner = agent[a].owner
                                   \/ Live(a) /\ r.owner = agent[a].target /\ r.target = None
                                   \/ states[r.owner] = "ACTIVE"
    PROVE  Stepped(a)
<1>1. agent \in [Agents -> AgentRecords]
  BY DEF ElasticTypeOK, AgentRecords
<1>2. agent' \in [Agents -> AgentRecords]
  BY <1>1
<1>3. agent'[a] = r /\ \A b \in Agents \ {a} : agent'[b] = agent[b]
  BY <1>1
<1>4. \A b \in Agents : Live(b)' => agent'[b].owner # None
  BY <1>3 DEF ElasticTypeOK, Live
<1>5. \A b \in Agents : Settled(b)
  BY <1>3 DEF Settled, Live
<1>. QED  BY <1>2, <1>4, <1>5 DEF Stepped

\* A new agent is placed on an active engine.
LEMMA Arrives ==
    ASSUME ElasticTypeOK, NEW a \in Agents, run_agent(a)
    PROVE  Stepped(a)
<1>1. PICK e \in Places :
        agent' = [agent EXCEPT ![a] = [NoLiveAgent EXCEPT !.state = "FIRST_TURN", !.owner = e]]
  BY DEF run_agent
<1> DEFINE r == [NoLiveAgent EXCEPT !.state = "FIRST_TURN", !.owner = e]
<1>2. e \in Engines /\ states[e] = "ACTIVE"
  BY <1>1 DEF Places, active_engines
<1>3. NoLiveAgent \in AgentRecords
  BY DEF NoLiveAgent, AgentRecords
<1>4. r \in AgentRecords /\ r.owner = e /\ e # None
  BY <1>2, <1>3, ElasticAssumption DEF AgentRecords
<1>5. agent' = [agent EXCEPT ![a] = r]
  BY <1>1
<1> HIDE DEF r
<1>. QED  BY <1>2, <1>4, <1>5, OneStep

\* A step of an agent settles it.
LEMMA Steps ==
    ASSUME ElasticTypeOK, NEW a \in Agents, AgentStep(a)
    PROVE  Stepped(a)
<1>1. agent[a] \in AgentRecords /\ (Live(a) => agent[a].owner # None)
  BY DEF ElasticTypeOK, AgentRecords
<1> DEFINE In(s) == [agent[a] EXCEPT !.state = s]
<1>2. ASSUME NEW s \in {"ENDED", "BLOCKED", "RETURNED", "SECOND_TURN"}, Live(a),
             agent' = [agent EXCEPT ![a] = In(s)]
      PROVE  Stepped(a)
  <2>1. In(s) \in AgentRecords /\ In(s).owner = agent[a].owner
    BY <1>1 DEF AgentRecords
  <2>. QED  BY <1>1, <1>2, <2>1, OneStep
<1>3. CASE first_turn_ends(a)
  <2>1. PICK s \in {"BLOCKED", "ENDED"} : agent' = [agent EXCEPT ![a].state = s]
    BY <1>3 DEF first_turn_ends
  <2>2. Live(a)
    BY <1>3 DEF first_turn_ends, Live
  <2>. QED  BY <2>1, <2>2, <1>2
<1>4. CASE tool_returns(a)
  BY <1>4, <1>2 DEF tool_returns, Live
<1>5. CASE second_turn_ends(a)
  BY <1>5, <1>2 DEF second_turn_ends, Live
<1>6. CASE resume(a)
  <2>1. Live(a)
    BY <1>6 DEF resume, Live
  <2>2. CASE late_drain(a)
    <3>1. PICK e \in Engines :
            agent' = [agent EXCEPT ![a].state = "LATE", ![a].target = e]
      BY <2>2 DEF late_drain, Places, active_engines
    <3> DEFINE r == [agent[a] EXCEPT !.state = "LATE", !.target = e]
    <3>2. r \in AgentRecords /\ r.owner = agent[a].owner
      BY <1>1 DEF AgentRecords
    <3>3. agent' = [agent EXCEPT ![a] = r]
      BY <3>1 DEF ElasticTypeOK
    <3>. QED  BY <1>1, <2>1, <3>2, <3>3, OneStep
  <2>3. CASE agent' = [agent EXCEPT ![a].state = "SECOND_TURN"]
    BY <2>1, <2>3, <1>2
  <2>. QED  BY <1>6, <2>2, <2>3 DEF resume
<1>7. CASE migrate_agent_returns(a)
  <2>1. PICK moved \in BOOLEAN : agent' = [agent EXCEPT ![a] = Landed(a, moved)]
    BY <1>7 DEF migrate_agent_returns
  <2>2. agent[a].target \in Engines /\ agent[a].target # None
    BY <1>1, <1>7 DEF migrate_agent_returns, AgentRecords
  <2>3. CASE moved = TRUE
    <3> DEFINE r == Landed(a, TRUE)
    <3>1. r \in AgentRecords /\ r.owner = agent[a].target /\ r.target = None
      BY <1>1, <2>2 DEF AgentRecords, Landed
    <3>4. r.state # "ENDED" => Live(a)
      BY <1>1 DEF AgentRecords, Landed, Live
    <3>2. agent' = [agent EXCEPT ![a] = r]
      BY <2>1, <2>3
    <3> HIDE DEF r
    <3>. QED  BY <2>2, <3>1, <3>2, <3>4, OneStep
  <2>4. CASE moved = FALSE
    <3> DEFINE r == Landed(a, FALSE)
    <3>1. /\ r.owner = agent[a].owner
          /\ r.state # "ENDED" => Live(a)
      BY <1>1 DEF AgentRecords, Landed, Live
    <3>2. r \in AgentRecords
      BY <1>1 DEF AgentRecords, Landed
    <3>3. agent' = [agent EXCEPT ![a] = r]
      BY <2>1, <2>4
    <3> HIDE DEF r
    <3>. QED  BY <1>1, <3>1, <3>2, <3>3, OneStep
  <2>. QED  BY <2>3, <2>4
<1>. QED  BY <1>3, <1>4, <1>5, <1>6, <1>7 DEF AgentStep

\* A pass of the loop is a tick of the pool on what the caller has seen.
LEMMA PassTicks ==
    ASSUME ElasticTypeOK, scheduler_pass
    PROVE  /\ WarmPoolNext
           /\ \E obs : \E dt \in Nat : tick(obs, dt) /\ \A e \in Engines : obs[e].owners = owner_count(e)
<1>1. PICK waiting \in [Engines -> 0..Cardinality(Agents)], dt \in Delays :
        /\ \A e \in Engines : waiting[e] <= loads[e]
        /\ tick(Seen(waiting), dt)
  BY DEF scheduler_pass
<1>2. dt \in Nat \ {0} /\ Cardinality(Agents) \in Nat
  BY ElasticAssumption, FS_CardinalityType
<1>3. ASSUME NEW e \in Engines
      PROVE  /\ loads[e] - waiting[e] \in Nat
             /\ waiting[e] \in Nat
             /\ owner_count(e) \in Nat
  <2>1. loads[e] \in Nat
    BY DEF scheduler_pass, ElasticTypeOK
  <2>2. waiting[e] \in Nat /\ waiting[e] <= loads[e]
    BY <1>1, <1>2
  <2>. QED  BY <2>1, <2>2, OwnerCount
<1>4. Seen(waiting) \in [Engines -> Observations]
  BY <1>3 DEF Seen, Observations
<1>5. \A e \in Engines : Seen(waiting)[e].owners = owner_count(e)
  BY DEF Seen
<1>6. WarmPoolNext
  BY <1>1, <1>2, <1>4 DEF WarmPoolNext
<1>7. dt \in Nat /\ tick(Seen(waiting), dt)
  BY <1>1, <1>2
<1>. QED  BY <1>5, <1>6, <1>7

\* The migrations it creates move nobody yet.
LEMMA PassSchedules ==
    ASSUME ElasticTypeOK, scheduler_pass
    PROVE  /\ agent' \in [Agents -> AgentRecords]
           /\ \A b \in Agents : /\ agent'[b].state = agent[b].state
                                /\ agent'[b].owner = agent[b].owner
                                /\ agent'[b].migrated = agent[b].migrated
           /\ loads' \in [Engines -> Nat \cup {None}]
<1>1. PICK sel \in Selections :
        agent' = [a \in Agents |->
            IF a \in DOMAIN sel
            THEN [agent[a] EXCEPT !.target = sel[a], !.scheduled = TRUE]
            ELSE agent[a]]
  BY DEF scheduler_pass
<1>2. \A a \in DOMAIN sel : sel[a] \in Engines
  BY DEF Selections
<1>3. ASSUME NEW b \in Agents
      PROVE  /\ agent'[b] \in AgentRecords
             /\ agent'[b].state = agent[b].state
             /\ agent'[b].owner = agent[b].owner
             /\ agent'[b].migrated = agent[b].migrated
  <2>1. agent[b] \in AgentRecords
    BY DEF ElasticTypeOK, AgentRecords
  <2>2. CASE b \in DOMAIN sel
    <3>1. agent'[b] = [agent[b] EXCEPT !.target = sel[b], !.scheduled = TRUE]
      BY <1>1, <2>2
    <3>. QED  BY <1>2, <2>1, <2>2, <3>1 DEF AgentRecords
  <2>3. CASE b \notin DOMAIN sel
    BY <1>1, <2>1, <2>3
  <2>. QED  BY <2>2, <2>3
<1>4. agent' \in [Agents -> AgentRecords]
  <2>1. agent' = [b \in Agents |-> agent'[b]]
    BY <1>1
  <2>. QED  BY <1>3, <2>1
<1>5. loads' \in [Engines -> Nat \cup {None}]
  BY DEF scheduler_pass
<1>. QED  BY <1>3, <1>4, <1>5

ElasticInv == ElasticTypeOK /\ PoolShape

\* Whoever is in standby after a tick was so before, or had no owner.
LEMMA TickStandby ==
    ASSUME WarmPoolTypeOK, NEW obs, NEW dt, tick(obs, dt),
           NEW e \in Engines, states'[e] = "STANDBY"
    PROVE  states[e] = "STANDBY" \/ obs[e].owners = 0
<1>1. AfterDrains(obs)[e] = "STANDBY" => states[e] = "STANDBY" \/ obs[e].owners = 0
  BY DEF AfterDrains, Drained
<1>2. ASSUME NEW x \in Engines, NEW l \in {"ACTIVE", "DRAINING"}, Moved(obs, x, l)
      PROVE  AfterDrains(obs)[e] = "STANDBY"
  <2>1. AfterDrains(obs)[e] = states'[e] \/ e = x
    BY <1>2 DEF Moved, AfterDrains
  <2>2. e = x => states'[e] = l
    BY <1>2 DEF Moved, AfterDrains
  <2>. QED  BY <2>1, <2>2
<1>3. CASE scale_out(obs, dt)
  BY <1>1, <1>2, <1>3 DEF scale_out, Standby, Drained, draining_engines
<1>4. CASE scale_in(obs, dt)
  BY <1>1, <1>2, <1>4 DEF scale_in, active_engines
<1>5. CASE steady(obs, dt)
  BY <1>1, <1>5 DEF steady
<1>. QED  BY <1>3, <1>4, <1>5 DEF tick

\* Nobody is served at the start.
LEMMA ElasticInitial == ElasticInit => ElasticInv
<1> SUFFICES ASSUME ElasticInit PROVE ElasticInv
  OBVIOUS
<1>1. WarmPoolTypeOK /\ PoolShape
  BY InitialPool DEF ElasticInit
<1>2. NoLiveAgent \in AgentRecords /\ NoLiveAgent.state = "ENDED"
  BY DEF NoLiveAgent, AgentRecords
<1>3. \A a \in Agents : ~Live(a)
  BY <1>2 DEF ElasticInit, Live
<1>4. ElasticTypeOK
  BY <1>1, <1>2, <1>3 DEF ElasticInit, ElasticTypeOK, AgentRecords
<1>. QED  BY <1>1, <1>4 DEF ElasticInv

\* Types and shape survive every step.
LEMMA ElasticInductive == ElasticInv /\ [ElasticNext]_elasticVars => ElasticInv'
<1> SUFFICES ASSUME ElasticInv, [ElasticNext]_elasticVars PROVE ElasticInv'
  OBVIOUS
<1>1. ElasticTypeOK /\ WarmPoolTypeOK /\ PoolShape
  BY DEF ElasticInv, ElasticTypeOK
<1>2. ASSUME UNCHANGED poolVars PROVE WarmPoolTypeOK' /\ PoolShape' /\ states' = states
  BY <1>1, <1>2 DEF poolVars, WarmPoolTypeOK, PoolShape, active_engines, draining_engines
<1>3. ASSUME NEW a \in Agents, Stepped(a), UNCHANGED <<poolVars, loads>>
      PROVE  ElasticInv'
  <2>1. WarmPoolTypeOK' /\ PoolShape' /\ states' = states
    BY <1>2, <1>3
  <2>2. loads' \in [Engines -> Nat \cup {None}]
    BY <1>1, <1>3 DEF ElasticTypeOK
  <2>3. ElasticTypeOK'
    BY <2>1, <2>2, <1>3 DEF ElasticTypeOK, Stepped, AgentRecords, Live
  <2>. QED  BY <2>1, <2>3 DEF ElasticInv
<1>4. ASSUME NEW a \in Agents, run_agent(a) \/ AgentStep(a) PROVE ElasticInv'
  <2>1. Stepped(a)
    BY <1>1, <1>4, Arrives, Steps
  <2>2. UNCHANGED <<poolVars, loads>>
    BY <1>4 DEF run_agent, AgentStep, first_turn_ends, tool_returns, resume,
                migrate_agent_returns, second_turn_ends
  <2>. QED  BY <1>3, <2>1, <2>2
<1>5. ASSUME NEW e \in Engines, get_load(e) PROVE ElasticInv'
  <2>1. UNCHANGED <<poolVars, agent>>
    BY <1>5 DEF get_load
  <2>2. PICK seen \in 0..inflight(e) : loads' = [loads EXCEPT ![e] = seen]
    BY <1>5 DEF get_load
  <2>3. seen \in Nat
    BY <2>2, LoadedRequests
  <2>4. loads' \in [Engines -> Nat \cup {None}]
    BY <1>1, <2>2, <2>3 DEF ElasticTypeOK
  <2>5. ElasticTypeOK'
    BY <1>1, <1>2, <2>1, <2>4 DEF ElasticTypeOK, Live
  <2>. QED  BY <1>2, <2>1, <2>5 DEF ElasticInv
<1>6. CASE scheduler_pass
  <2>0. PICK obs : \E dt \in Nat : tick(obs, dt) /\ \A e \in Engines : obs[e].owners = owner_count(e)
    BY <1>1, <1>6, PassTicks
  <2>1. PICK dt \in Nat : tick(obs, dt) /\ \A e \in Engines : obs[e].owners = owner_count(e)
    BY <2>0
  <2>2. WarmPoolTypeOK' /\ PoolShape'
    BY <1>1, <2>1, TickTypes, TickShape
  <2>3. /\ agent' \in [Agents -> AgentRecords]
        /\ \A b \in Agents : /\ agent'[b].state = agent[b].state
                             /\ agent'[b].owner = agent[b].owner
                             /\ agent'[b].migrated = agent[b].migrated
        /\ loads' \in [Engines -> Nat \cup {None}]
    BY <1>1, <1>6, PassSchedules
  <2>4. ElasticTypeOK'
    BY <1>1, <2>2, <2>3 DEF ElasticTypeOK, AgentRecords, Live
  <2>. QED  BY <2>2, <2>4 DEF ElasticInv
<1>7. CASE UNCHANGED elasticVars
  BY <1>1, <1>2, <1>7 DEF elasticVars, ElasticInv, ElasticTypeOK, Live
<1>. QED  BY <1>4, <1>5, <1>6, <1>7 DEF ElasticNext

\* Every reachable state of the serving program satisfies the invariant.
THEOREM ElasticInvariant == ElasticSpec => []ElasticInv
BY ElasticInitial, ElasticInductive, PTL DEF ElasticSpec

\* The program keeps the pool's shape for any number of engines and agents.
THEOREM ServingKeepsShape == ElasticSpec => []PoolShape
BY ElasticInvariant, PTL DEF ElasticInv

\* An engine is put in standby with no agent on it, and while it stays there an agent
\* comes only by a migration that was under way, for any number of engines and agents.
THEOREM DrainsLeaveNobody == ElasticSpec => StandbyIsEmptied
<1> DEFINE Kept(a) ==
             LET e == agent'[a].owner IN
             Live(a)' /\ states'[e] = "STANDBY" =>
                /\ Live(a)
                /\ states[e] = "STANDBY"
                /\ \/ agent[a].owner = e
                   \/ agent[a].target = e /\ agent'[a].target = None
<1>1. ElasticInv /\ [ElasticNext]_elasticVars => [\A a \in Agents : Kept(a)]_elasticVars
  <2> SUFFICES ASSUME ElasticInv, ElasticNext, NEW b \in Agents PROVE Kept(b)
    BY DEF elasticVars
  <2>0. ElasticTypeOK /\ WarmPoolTypeOK
    BY DEF ElasticInv, ElasticTypeOK
  <2>1. ASSUME NEW a \in Agents, run_agent(a) \/ AgentStep(a) PROVE Kept(b)
    <3>1. Settled(b)
      BY <2>0, <2>1, Arrives, Steps DEF Stepped
    <3>2. states' = states
      BY <2>1 DEF run_agent, AgentStep, first_turn_ends, tool_returns, resume,
                  migrate_agent_returns, second_turn_ends, poolVars
    <3>. QED  BY <3>1, <3>2 DEF Settled
  <2>2. ASSUME NEW e \in Engines, get_load(e) PROVE Kept(b)
    BY <2>2 DEF get_load, poolVars, Live
  <2>3. CASE scheduler_pass
    <3>0. PICK obs : \E dt \in Nat : /\ tick(obs, dt)
                                     /\ \A e \in Engines : obs[e].owners = owner_count(e)
      BY <2>0, <2>3, PassTicks
    <3>1. PICK dt \in Nat : /\ tick(obs, dt)
                            /\ \A e \in Engines : obs[e].owners = owner_count(e)
      BY <3>0
    <3>2. agent'[b].state = agent[b].state /\ agent'[b].owner = agent[b].owner
      BY <2>0, <2>3, PassSchedules
    <3>3. ASSUME Live(b), states'[agent[b].owner] = "STANDBY"
          PROVE  states[agent[b].owner] = "STANDBY"
      <4>1. agent[b].owner \in Engines
        BY <2>0, <3>3 DEF ElasticTypeOK
      <4>2. owner_count(agent[b].owner) # 0
        BY <4>1, <3>3, OwnerCount
      <4>. QED  BY <2>0, <3>1, <3>3, <4>1, <4>2, TickStandby
    <3>. QED  BY <3>2, <3>3 DEF Live
  <2>. QED  BY <2>1, <2>2, <2>3 DEF ElasticNext
<1>2. QED
  BY <1>1, ElasticInvariant, PTL DEF ElasticSpec, StandbyIsEmptied

\* Seen through the pool's variables, the serving program is the pool: only a pass of the
\* loop touches it, by one tick (benchmark_trace_autoscaling.py:672-694).
THEOREM ServingRunsThePool == ElasticSpec => WarmPoolSpec
<1>1. ElasticInit => WarmPoolInit
  BY DEF ElasticInit
<1>2. ElasticInv /\ [ElasticNext]_elasticVars => [WarmPoolNext]_poolVars
  <2> SUFFICES ASSUME ElasticInv, ElasticNext \/ UNCHANGED elasticVars
               PROVE  WarmPoolNext \/ UNCHANGED poolVars
    BY DEF elasticVars
  <2>1. ASSUME NEW a \in Agents, run_agent(a) \/ AgentStep(a) PROVE UNCHANGED poolVars
    BY <2>1 DEF run_agent, AgentStep, first_turn_ends, tool_returns, resume,
                migrate_agent_returns, second_turn_ends
  <2>2. ASSUME NEW e \in Engines, get_load(e) PROVE UNCHANGED poolVars
    BY <2>2 DEF get_load
  <2>3. CASE scheduler_pass
    BY <2>3, PassTicks DEF ElasticInv
  <2>4. CASE UNCHANGED elasticVars
    BY <2>4 DEF elasticVars
  <2>. QED  BY <2>1, <2>2, <2>3, <2>4 DEF ElasticNext
<1>. QED  BY ElasticInvariant, <1>1, <1>2, PTL DEF ElasticSpec, WarmPoolSpec
=============================================================================
