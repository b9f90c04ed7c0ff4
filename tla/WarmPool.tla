------------------------------ MODULE WarmPool ------------------------------
(***************************************************************************)
(* agentshift/controller/autoscaling.py: WarmPoolAutoscaler.  Engines are  *)
(* all loaded; the autoscaler decides which of them take new work.  tick   *)
(* is one synchronous method, hence one action, and its observations are   *)
(* whatever the caller has sampled: nothing relates them to the engines'   *)
(* state at the tick, or to those of the tick before.                      *)
(*                                                                         *)
(* Time is the time since the last action, which only matters up to the    *)
(* cooldown; a streak only matters up to its number of windows.  The two   *)
(* thresholds on requests per engine are multiples of 1 / Unit.            *)
(***************************************************************************)
EXTENDS Integers, FiniteSets, Functions

CONSTANTS
    Size,           \* number of engines; engine_ids is 1, 2, ..., Size
    MinActive,
    ScaleOutWaiting,
    ScaleOutRequests, ScaleInRequests, Unit,
    ScaleOutWindows, ScaleInWindows,
    Cooldown

ASSUME WarmPoolAssumption ==
    /\ Size \in Nat /\ MinActive \in 1..Size
    /\ ScaleOutWaiting \in Nat
    /\ ScaleOutRequests \in Nat /\ ScaleInRequests \in Nat /\ Unit \in Nat \ {0}
    /\ ScaleOutWindows \in Nat \ {0} /\ ScaleInWindows \in Nat \ {0}
    /\ Cooldown \in Nat

VARIABLES
    states,             \* engine -> lifecycle
    scale_out_streak,
    scale_in_streak,
    since_action        \* time since _last_action_seconds, up to Cooldown

poolVars == <<states, scale_out_streak, scale_in_streak, since_action>>

Engines == 1..Size

Lifecycles == {"STANDBY", "ACTIVE", "DRAINING"}

\* EngineObservation: the requests that run and wait, and the agents an engine owns.
Observations == [running : Nat, waiting : Nat, owners : Nat]

active_engines == {e \in Engines : states[e] = "ACTIVE"}
draining_engines == {e \in Engines : states[e] = "DRAINING"}

WarmPoolInit ==
    /\ states = [e \in Engines |-> IF e <= MinActive THEN "ACTIVE" ELSE "STANDBY"]
    /\ scale_out_streak = 0
    /\ scale_in_streak = 0
    /\ since_action = Cooldown

-----------------------------------------------------------------------------
(* tick. *)

Requests(obs, e) == obs[e].running + obs[e].waiting

\* Mutant: a drain is complete when nothing runs, owned agents or not.
DrainedIdle(obs) == {e \in draining_engines : Requests(obs, e) = 0}

\* The drains this tick completes.
Drained(obs) ==
    {e \in draining_engines : obs[e].owners = 0 /\ Requests(obs, e) = 0}

total_waiting(obs) ==
    SumFunction([e \in active_engines |-> obs[e].waiting])

total_requests(obs) ==
    SumFunction([e \in active_engines |-> Requests(obs, e)])

\* requests_per_engine compared with a threshold.
wants_scale_out(obs) ==
    \/ total_waiting(obs) >= ScaleOutWaiting
    \/ total_requests(obs) * Unit >= ScaleOutRequests * Cardinality(active_engines)

wants_scale_in(obs) ==
    /\ total_waiting(obs) = 0
    /\ total_requests(obs) * Unit <= ScaleInRequests * Cardinality(active_engines)

AtMost(n, bound) == IF n > bound THEN bound ELSE n

\* A streak after this tick.
Streak(streak, wanted, windows) == IF wanted THEN AtMost(streak + 1, windows) ELSE 0

OutStreak(obs) == Streak(scale_out_streak, wants_scale_out(obs), ScaleOutWindows)
InStreak(obs) == Streak(scale_in_streak, wants_scale_in(obs), ScaleInWindows)

cooldown_ready(dt) == since_action + dt >= Cooldown

\* The engines in standby once the drains are complete.
Standby(obs) == {e \in Engines : states[e] = "STANDBY"} \cup Drained(obs)

ScaleOutDue(obs, dt) ==
    /\ cooldown_ready(dt)
    /\ Standby(obs) # {}
    /\ OutStreak(obs) >= ScaleOutWindows

\* One drain at a time, and never below the minimum.
can_drain(obs) ==
    /\ Cardinality(active_engines) > MinActive
    /\ draining_engines = Drained(obs)

ScaleInDue(obs, dt) ==
    /\ cooldown_ready(dt)
    /\ can_drain(obs)
    /\ InStreak(obs) >= ScaleInWindows
    /\ ~ScaleOutDue(obs, dt)

\* The order of the key (owner_count, request_count, -index).
LessLoaded(obs, e, f) ==
    \/ obs[e].owners < obs[f].owners
    \/ obs[e].owners = obs[f].owners /\ Requests(obs, e) < Requests(obs, f)
    \/ obs[e].owners = obs[f].owners /\ Requests(obs, e) = Requests(obs, f) /\ e > f

\* What the lifecycles become, with one more engine moved, or none.
AfterDrains(obs) == [e \in Engines |-> IF e \in Drained(obs) THEN "STANDBY" ELSE states[e]]

Moved(obs, e, lifecycle) ==
    /\ states' = [AfterDrains(obs) EXCEPT ![e] = lifecycle]
    /\ scale_out_streak' = 0
    /\ scale_in_streak' = 0
    /\ since_action' = 0

\* The engine that is made active may be one whose drain completes in this very tick.
scale_out(obs, dt) ==
    /\ ScaleOutDue(obs, dt)
    /\ \E e \in Standby(obs) :
          /\ \A f \in Standby(obs) : e <= f
          /\ Moved(obs, e, "ACTIVE")

scale_in(obs, dt) ==
    /\ ScaleInDue(obs, dt)
    /\ \E e \in active_engines :
          /\ \A f \in active_engines \ {e} : LessLoaded(obs, e, f)
          /\ Moved(obs, e, "DRAINING")

steady(obs, dt) ==
    /\ ~ScaleOutDue(obs, dt) /\ ~ScaleInDue(obs, dt)
    /\ states' = AfterDrains(obs)
    /\ scale_out_streak' = OutStreak(obs)
    /\ scale_in_streak' = InStreak(obs)
    /\ since_action' = AtMost(since_action + dt, Cooldown)

tick(obs, dt) == scale_out(obs, dt) \/ scale_in(obs, dt) \/ steady(obs, dt)

WarmPoolNext ==
    \E obs \in [Engines -> Observations], dt \in Nat \ {0} : tick(obs, dt)

WarmPoolSpec == WarmPoolInit /\ [][WarmPoolNext]_poolVars
-----------------------------------------------------------------------------
(* Correctness. *)

\* Types of the lifecycles, the streaks and the clock (autoscaling.py:63-73).
WarmPoolTypeOK ==
    /\ states \in [Engines -> Lifecycles]
    /\ scale_out_streak \in 0..ScaleOutWindows
    /\ scale_in_streak \in 0..ScaleInWindows
    /\ since_action \in 0..Cooldown

\* Whatever is observed, and however stale, the pool never has fewer active engines than
\* its minimum and drains one engine at a time (autoscaling.py:149-151), although a tick
\* may complete a drain, scale out and scale in again from counts taken in between.
PoolShape ==
    /\ Cardinality(active_engines) >= MinActive
    /\ \A e, f \in draining_engines : e = f
=============================================================================
