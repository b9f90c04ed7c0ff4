----------------------------- MODULE EffectProxy -----------------------------
(***************************************************************************)
(* agentshift/runtime/effects.py: ManagedEffectProxy.execute, with the     *)
(* effects table of state/store.py.  Any number of threads and processes   *)
(* execute the same operations, at any epoch their agent has had, while    *)
(* the agent's lease moves.  prepare_effect and transition_effect read the *)
(* row and check the lease before their transaction begins, so each is     *)
(* several actions; a caller may die between any two.                      *)
(*                                                                         *)
(* The lease is the abstract one of Ownership, which the tables of the     *)
(* store implement: here it only moves.  Payloads and results are left     *)
(* out; an operation stands for an (agent_id, step_id, operation_id) key.  *)
(***************************************************************************)
EXTENDS Ownership

CONSTANTS
    Operations,     \* keys of the effects table
    AgentOf,        \* operation -> the agent of its key
    Callers,        \* threads that call execute, each once
    MaxLease        \* bound: the last epoch the lease moves to

ASSUME EffectAssumption ==
    /\ AgentOf \in [Operations -> Agents]
    /\ MaxLease \in Nat

VARIABLES
    effects,        \* table effects: operation -> [status, epoch]
    calls,          \* execute calls: caller -> [pc, op, epoch]
    submissions     \* operation -> how often its tool has been called

effectVars == <<ownershipVars, effects, calls, submissions>>

EffectStates == {"PREPARED", "SUBMITTED", "COMPLETED", "UNKNOWN"}

NoEffect == [status |-> "NONE", epoch |-> 0]

Status(op) == effects[op].status

\* assert_lease with the owner that get_agent has just returned.
AssertLease(op, epoch) == lease[AgentOf[op]].epoch = epoch

Goto(c, pc) == calls' = [calls EXCEPT ![c].pc = pc]

Raise(c) == Goto(c, "raised")

EffectInit ==
    /\ \E home \in [Agents -> Engines] :
          lease = [a \in Agents |-> [engine |-> home[a], epoch |-> InitialEpoch]]
    /\ progress = [a \in Agents |-> 0]
    /\ author = [a \in Agents |-> [s \in Steps |-> 0]]
    /\ effects = [op \in Operations |-> NoEffect]
    /\ calls = [c \in Callers |-> [pc |-> "idle", op |-> None, epoch |-> 0]]
    /\ submissions = [op \in Operations |-> 0]

-----------------------------------------------------------------------------
(* prepare_effect. *)

\* Mutant: a finished effect is made ready to be submitted again.
prepare_insert_replaces(c) ==
    LET op == calls[c].op IN
    /\ calls[c].pc = "prepare"
    /\ effects' = [effects EXCEPT ![op] = [status |-> "PREPARED", epoch |-> calls[c].epoch]]
    /\ Goto(c, "prepared")
    /\ UNCHANGED <<ownershipVars, submissions>>

execute(c, op, epoch) ==
    /\ calls[c].pc = "idle"
    /\ calls' = [calls EXCEPT ![c] =
                   [pc |-> IF AssertLease(op, epoch) THEN "prepare" ELSE "raised",
                    op |-> op, epoch |-> epoch]]
    /\ UNCHANGED <<ownershipVars, effects, submissions>>

\* INSERT OR IGNORE; nothing in the transaction checks the lease again.
prepare_insert(c) ==
    LET op == calls[c].op IN
    /\ calls[c].pc = "prepare"
    /\ effects' = IF Status(op) = "NONE"
                  THEN [effects EXCEPT ![op] =
                          [status |-> "PREPARED", epoch |-> calls[c].epoch]]
                  ELSE effects
    /\ Goto(c, "prepared")
    /\ UNCHANGED <<ownershipVars, submissions>>

\* The row that is read back decides.
prepared(c) ==
    LET status == Status(calls[c].op) IN
    /\ calls[c].pc = "prepared"
    /\ \/ status = "COMPLETED" /\ Goto(c, "returned")
       \/ status = "PREPARED" /\ Goto(c, "check")
       \/ status \notin {"COMPLETED", "PREPARED"} /\ Raise(c)
    /\ UNCHANGED <<ownershipVars, effects, submissions>>

-----------------------------------------------------------------------------
(* transition_effect: the checks, then the compare-and-swap of the status. *)

Checks(c, expected, passed) ==
    /\ IF Status(calls[c].op) = expected /\ AssertLease(calls[c].op, calls[c].epoch)
       THEN Goto(c, passed)
       ELSE Raise(c)
    /\ UNCHANGED <<ownershipVars, effects, submissions>>

\* Mutant: the UPDATE has no status in its WHERE.
UpdatesAlways(c, expected, target, updated) ==
    /\ effects' = [effects EXCEPT ![calls[c].op] =
                     [status |-> target, epoch |-> calls[c].epoch]]
    /\ Goto(c, updated)
    /\ UNCHANGED <<ownershipVars, submissions>>

Updates(c, expected, target, updated) ==
    LET op == calls[c].op IN
    /\ IF Status(op) = expected
       THEN /\ effects' = [effects EXCEPT ![op] =
                             [status |-> target, epoch |-> calls[c].epoch]]
            /\ Goto(c, updated)
       ELSE Raise(c) /\ UNCHANGED effects
    /\ UNCHANGED <<ownershipVars, submissions>>

check_submitted(c) ==
    calls[c].pc = "check" /\ Checks(c, "PREPARED", "update")

mark_submitted(c) ==
    calls[c].pc = "update" /\ Updates(c, "PREPARED", "SUBMITTED", "submit")

\* The tool runs, or raises before or after it has had its effect.
submit(c) ==
    LET op == calls[c].op IN
    /\ calls[c].pc = "submit"
    /\ \/ /\ submissions' = [submissions EXCEPT ![op] = @ + 1]
          /\ Goto(c, "checkCompleted") \/ Goto(c, "checkUnknown")
       \/ UNCHANGED submissions /\ Goto(c, "checkUnknown")
    /\ UNCHANGED <<ownershipVars, effects>>

check_finished(c) ==
    \/ calls[c].pc = "checkCompleted" /\ Checks(c, "SUBMITTED", "complete")
    \/ calls[c].pc = "checkUnknown" /\ Checks(c, "SUBMITTED", "unknown")

mark_finished(c) ==
    \/ calls[c].pc = "complete" /\ Updates(c, "SUBMITTED", "COMPLETED", "returned")
    \/ calls[c].pc = "unknown" /\ Updates(c, "SUBMITTED", "UNKNOWN", "raised")

-----------------------------------------------------------------------------
(* The callers. *)

ReturnedCalls == {"idle", "returned", "raised", "dead"}

crash(c) ==
    /\ calls[c].pc \notin ReturnedCalls
    /\ Goto(c, "dead")
    /\ UNCHANGED <<ownershipVars, effects, submissions>>

CallStep(c) ==
    \/ prepare_insert(c) \/ prepared(c)
    \/ check_submitted(c) \/ mark_submitted(c)
    \/ submit(c)
    \/ check_finished(c) \/ mark_finished(c)
    \/ crash(c)

\* Bounded by MaxLease.
lease_moves ==
    /\ \E a \in Agents, e \in Engines : lease[a].epoch < MaxLease /\ HandOver(a, e)
    /\ UNCHANGED <<effects, calls, submissions>>

EffectNext ==
    \/ \E c \in Callers :
          \/ \E op \in Operations : \E epoch \in InitialEpoch..lease[AgentOf[op]].epoch :
                execute(c, op, epoch)
          \/ CallStep(c)
    \/ lease_moves

EffectSpec == EffectInit /\ [][EffectNext]_effectVars
-----------------------------------------------------------------------------
(* Correctness. *)

\* Types of the table and of the callers' locals (store.py:104-114, effects.py:16-69).
EffectTypeOK ==
    /\ effects \in [Operations -> [status : EffectStates \cup {"NONE"}, epoch : Nat]]
    /\ calls \in [Callers ->
          [pc : ReturnedCalls \cup
                  {"prepare", "prepared", "check", "update", "submit",
                   "checkCompleted", "checkUnknown", "complete", "unknown"},
           op : Operations \cup {None}, epoch : Nat]]
    /\ submissions \in [Operations -> Nat]

\* At-most-once submission (effects.py:11, implementation_plan.md:99): a tool is called
\* at most once per operation, whichever owners race for it, die with it, or execute it
\* again after the lease has moved.
AtMostOnce == \A op \in Operations : submissions[op] <= 1

\* An execute that returns, first or repeated, returns the result of a submission that
\* did happen; a record COMPLETED by anyone is one.
ReturnsWereSubmitted ==
    /\ \A op \in Operations : Status(op) = "COMPLETED" => submissions[op] = 1
    /\ \A c \in Callers : calls[c].pc = "returned" => Status(calls[c].op) = "COMPLETED"

\* SUBMITTED and UNKNOWN are never replayed (implementation_plan.md:99): once an effect
\* has left PREPARED it does not go back, and its end is final.
EffectsMoveForward ==
    [][\A op \in Operations :
         /\ Status(op) = "SUBMITTED" => Status(op)' \in {"SUBMITTED", "COMPLETED", "UNKNOWN"}
         /\ Status(op) \in {"COMPLETED", "UNKNOWN"} => Status(op)' = Status(op)]_effectVars
=============================================================================
