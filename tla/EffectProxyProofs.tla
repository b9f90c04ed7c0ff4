-------------------------- MODULE EffectProxyProofs --------------------------
(***************************************************************************)
(* At-most-once submission of managed effects, for any number of callers,  *)
(* operations and hand-overs.  The status of a row alone does not show it: *)
(* two callers may both be past the check of SUBMITTED.  The invariant     *)
(* therefore speaks of the callers too: whoever won the compare-and-swap   *)
(* to SUBMITTED is alone past it, and the row stays SUBMITTED until that   *)
(* very caller moves it on.                                                *)
(***************************************************************************)
EXTENDS EffectProxy, TLAPS

\* Where a caller is between its compare-and-swaps to and from SUBMITTED.
Holding == {"submit", "checkCompleted", "checkUnknown", "complete", "unknown"}

Submitter(c) == calls[c].pc \in Holding

LeaseTyped == lease \in [Agents -> [engine : Engines, epoch : Nat]]

CallsHaveOperation == \A c \in Callers : calls[c].pc # "idle" => calls[c].op \in Operations

\* The winner is alone, and its row waits for it.
OneSubmitter ==
    /\ \A c, d \in Callers :
          Submitter(c) /\ Submitter(d) /\ calls[c].op = calls[d].op => c = d
    /\ \A c \in Callers : Submitter(c) => Status(calls[c].op) = "SUBMITTED"

\* How often the tool has run, by status and by how far the winner has come.
RunsCounted ==
    /\ \A op \in Operations :
          /\ submissions[op] \in {0, 1}
          /\ Status(op) \in {"NONE", "PREPARED"} => submissions[op] = 0
          /\ Status(op) = "COMPLETED" => submissions[op] = 1
    /\ \A c \in Callers :
          /\ calls[c].pc = "submit" => submissions[calls[c].op] = 0
          /\ calls[c].pc \in {"checkCompleted", "complete"} => submissions[calls[c].op] = 1
          /\ calls[c].pc = "returned" => Status(calls[c].op) = "COMPLETED"

EffectInv ==
    /\ EffectTypeOK
    /\ LeaseTyped
    /\ CallsHaveOperation
    /\ OneSubmitter
    /\ RunsCounted

-----------------------------------------------------------------------------
(* Helpers: one update of a call, of a row, of a count. *)

\* Moving a caller's program counter leaves every other caller, and its own operation
\* and epoch, alone.
LEMMA GotoMoves ==
    ASSUME EffectTypeOK, NEW c \in Callers, NEW pc, Goto(c, pc)
    PROVE  /\ calls'[c].pc = pc
           /\ \A d \in Callers : /\ d # c => calls'[d] = calls[d]
                                 /\ calls'[d].op = calls[d].op
                                 /\ calls'[d].epoch = calls[d].epoch
  BY DEF Goto, EffectTypeOK

\* The program counters a caller can have.
PcValues == ReturnedCalls \cup
              {"prepare", "prepared", "check", "update", "submit",
               "checkCompleted", "checkUnknown", "complete", "unknown"}

\* Moving to a program counter of the code keeps the calls well typed.
LEMMA GotoTyped ==
    ASSUME EffectTypeOK, NEW c \in Callers, NEW pc \in PcValues, Goto(c, pc)
    PROVE  calls' \in [Callers -> [pc : PcValues, op : Operations \cup {None}, epoch : Nat]]
  BY DEF Goto, EffectTypeOK, PcValues

-----------------------------------------------------------------------------
(* The invariant. *)

\* Nothing is submitted before the first call.
LEMMA EffectInvInit == EffectInit => EffectInv
<1> SUFFICES ASSUME EffectInit PROVE EffectInv
  OBVIOUS
<1>1. EffectTypeOK
  BY DEF EffectInit, EffectTypeOK, NoEffect, ReturnedCalls
<1>2. LeaseTyped
  BY OwnershipAssumption DEF EffectInit, LeaseTyped
<1>3. CallsHaveOperation /\ OneSubmitter
  BY DEF EffectInit, CallsHaveOperation, OneSubmitter, Submitter, Holding
<1>4. RunsCounted
  BY DEF EffectInit, RunsCounted, Status, NoEffect
<1>5. QED
  BY <1>1, <1>2, <1>3, <1>4 DEF EffectInv

\* A call begins: its epoch is one its agent has had.
LEMMA ExecuteKeepsInv ==
    ASSUME EffectInv, NEW c \in Callers, NEW op \in Operations,
           NEW epoch \in InitialEpoch..lease[AgentOf[op]].epoch, execute(c, op, epoch)
    PROVE  EffectInv'
<1>1. epoch \in Nat
  BY OwnershipAssumption, EffectAssumption DEF EffectInv, LeaseTyped
<1>2. EffectTypeOK'
  BY <1>1 DEF EffectInv, EffectTypeOK, execute, ReturnedCalls
<1>3. LeaseTyped'
  BY DEF EffectInv, LeaseTyped, execute, ownershipVars
<1>4. /\ calls'[c].pc \in {"prepare", "raised"} /\ calls'[c].op = op
      /\ \A d \in Callers : d # c => calls'[d] = calls[d]
      /\ UNCHANGED <<effects, submissions>>
  BY DEF EffectInv, EffectTypeOK, execute
<1>5. CallsHaveOperation' /\ OneSubmitter'
  BY <1>4 DEF EffectInv, CallsHaveOperation, OneSubmitter, Submitter, Holding, Status
<1>6. RunsCounted'
  BY <1>4 DEF EffectInv, RunsCounted, Status
<1>7. QED
  BY <1>2, <1>3, <1>5, <1>6 DEF EffectInv

\* A caller moves and the tables do not: it may not become a submitter by that, nor
\* return unless the effect has been completed.
LEMMA MoveKeepsInv ==
    ASSUME EffectInv, NEW c \in Callers, NEW pc \in PcValues \ {"idle"},
           calls[c].pc # "idle", Goto(c, pc),
           UNCHANGED <<ownershipVars, effects, submissions>>,
           pc \in Holding => \/ calls[c].pc = "checkCompleted" /\ pc = "complete"
                             \/ calls[c].pc = "checkUnknown" /\ pc = "unknown",
           pc = "returned" => Status(calls[c].op) = "COMPLETED"
    PROVE  EffectInv'
<1>1. EffectTypeOK'
  BY GotoTyped DEF EffectInv, EffectTypeOK, PcValues
<1>2. LeaseTyped'
  BY DEF EffectInv, LeaseTyped, ownershipVars
<1>3. /\ calls'[c].pc = pc
      /\ \A d \in Callers : /\ d # c => calls'[d] = calls[d]
                            /\ calls'[d].op = calls[d].op
  BY GotoMoves DEF EffectInv
<1>4. CallsHaveOperation'
  BY <1>3 DEF EffectInv, CallsHaveOperation
<1>5. OneSubmitter'
  BY <1>3 DEF EffectInv, OneSubmitter, Submitter, Holding, Status
<1>6. RunsCounted'
  BY <1>3 DEF EffectInv, RunsCounted, Status, Holding
<1>7. QED
  BY <1>1, <1>2, <1>4, <1>5, <1>6 DEF EffectInv

\* INSERT OR IGNORE adds a row that has not been submitted.
LEMMA PrepareKeepsInv ==
    ASSUME EffectInv, NEW c \in Callers, prepare_insert(c)
    PROVE  EffectInv'
<1> DEFINE op == calls[c].op
<1>1. CASE Status(op) # "NONE"
  BY <1>1, MoveKeepsInv DEF prepare_insert, PcValues, Holding
<1>2. CASE Status(op) = "NONE"
  <2>1. op \in Operations /\ calls[c].epoch \in Nat
    BY DEF EffectInv, CallsHaveOperation, prepare_insert, EffectTypeOK
  <2>2. /\ effects'[op].status = "PREPARED"
        /\ \A o \in Operations : o # op => effects'[o] = effects[o]
        /\ effects' \in [Operations -> [status : EffectStates \cup {"NONE"}, epoch : Nat]]
    BY <1>2, <2>1 DEF EffectInv, EffectTypeOK, prepare_insert, EffectStates
  <2>3. /\ calls'[c].pc = "prepared"
        /\ \A d \in Callers : /\ d # c => calls'[d] = calls[d]
                              /\ calls'[d].op = calls[d].op
    BY GotoMoves DEF EffectInv, prepare_insert
  <2>4. EffectTypeOK' /\ LeaseTyped'
    BY <2>2, GotoTyped
    DEF EffectInv, EffectTypeOK, PcValues, LeaseTyped, prepare_insert, ownershipVars
  <2>5. CallsHaveOperation'
    BY <2>3 DEF EffectInv, CallsHaveOperation, prepare_insert
  <2>6. OneSubmitter'
    BY <1>2, <2>2, <2>3 DEF EffectInv, OneSubmitter, Submitter, Holding, Status,
                            CallsHaveOperation
  <2>7. RunsCounted'
    BY <1>2, <2>1, <2>2, <2>3
    DEF EffectInv, RunsCounted, Status, CallsHaveOperation, prepare_insert
  <2>8. QED
    BY <2>4, <2>5, <2>6, <2>7 DEF EffectInv
<1>3. QED
  BY <1>1, <1>2

\* The compare-and-swap to SUBMITTED: no row that is PREPARED has a submitter.
LEMMA SubmittedKeepsInv ==
    ASSUME EffectInv, NEW c \in Callers, mark_submitted(c)
    PROVE  EffectInv'
<1> DEFINE op == calls[c].op
<1>1. CASE Status(op) # "PREPARED"
  BY <1>1, MoveKeepsInv DEF mark_submitted, Updates, Raise, PcValues, ReturnedCalls, Holding
<1>2. CASE Status(op) = "PREPARED"
  <2>1. op \in Operations /\ calls[c].epoch \in Nat
    BY DEF EffectInv, CallsHaveOperation, mark_submitted, EffectTypeOK
  <2>2. /\ effects'[op].status = "SUBMITTED"
        /\ \A o \in Operations : o # op => effects'[o] = effects[o]
        /\ effects' \in [Operations -> [status : EffectStates \cup {"NONE"}, epoch : Nat]]
    BY <1>2, <2>1 DEF EffectInv, EffectTypeOK, mark_submitted, Updates, EffectStates
  <2>3. Goto(c, "submit") /\ UNCHANGED <<ownershipVars, submissions>>
    BY <1>2 DEF mark_submitted, Updates
  <2>4. /\ calls'[c].pc = "submit"
        /\ \A d \in Callers : /\ d # c => calls'[d] = calls[d]
                              /\ calls'[d].op = calls[d].op
    BY <2>3, GotoMoves DEF EffectInv
  <2>5. EffectTypeOK' /\ LeaseTyped'
    BY <2>2, <2>3, GotoTyped
    DEF EffectInv, EffectTypeOK, PcValues, LeaseTyped, ownershipVars
  <2>6. CallsHaveOperation'
    BY <2>1, <2>4 DEF EffectInv, CallsHaveOperation
  <2>7. OneSubmitter'
    BY <1>2, <2>2, <2>4 DEF EffectInv, OneSubmitter, Submitter, Holding, Status,
                            CallsHaveOperation
  <2>8. RunsCounted'
    BY <1>2, <2>1, <2>2, <2>3, <2>4
    DEF EffectInv, RunsCounted, Status, CallsHaveOperation
  <2>9. QED
    BY <2>5, <2>6, <2>7, <2>8 DEF EffectInv
<1>3. QED
  BY <1>1, <1>2

\* The tool runs at most once: its only submitter leaves the call behind.
LEMMA SubmitKeepsInv ==
    ASSUME EffectInv, NEW c \in Callers, submit(c)
    PROVE  EffectInv'
<1> DEFINE op == calls[c].op
<1>1. PICK pc \in {"checkCompleted", "checkUnknown"} :
         /\ Goto(c, pc)
         /\ \/ submissions' = [submissions EXCEPT ![op] = @ + 1]
            \/ submissions' = submissions /\ pc = "checkUnknown"
  BY DEF submit
<1>2. /\ op \in Operations
      /\ UNCHANGED <<ownershipVars, effects>>
      /\ calls[c].pc = "submit"
  BY DEF EffectInv, CallsHaveOperation, submit
<1>3. /\ calls'[c].pc = pc
      /\ \A d \in Callers : /\ d # c => calls'[d] = calls[d]
                            /\ calls'[d].op = calls[d].op
  BY <1>1, GotoMoves DEF EffectInv
<1>4. /\ submissions[op] = 0
      /\ submissions' \in [Operations -> Nat]
      /\ submissions'[op] \in {0, 1}
      /\ pc = "checkCompleted" => submissions'[op] = 1
      /\ \A o \in Operations : o # op => submissions'[o] = submissions[o]
  BY <1>1, <1>2 DEF EffectInv, EffectTypeOK, RunsCounted
<1>5. EffectTypeOK' /\ LeaseTyped'
  BY <1>1, <1>2, <1>4, GotoTyped
  DEF EffectInv, EffectTypeOK, PcValues, LeaseTyped, ownershipVars
<1>6. CallsHaveOperation'
  BY <1>2, <1>3 DEF EffectInv, CallsHaveOperation
<1>7. OneSubmitter'
  BY <1>2, <1>3 DEF EffectInv, OneSubmitter, Submitter, Holding, Status
<1>8. Status(op) = "SUBMITTED"
  BY <1>2 DEF EffectInv, OneSubmitter, Submitter, Holding
<1>9. \A d \in Callers : d # c /\ Submitter(d) => calls[d].op # op
  BY <1>2 DEF EffectInv, OneSubmitter, Submitter, Holding
<1>10. RunsCounted'
  BY <1>1, <1>2, <1>3, <1>4, <1>8, <1>9
  DEF EffectInv, RunsCounted, Status, Submitter, Holding, CallsHaveOperation
<1>11. QED
  BY <1>5, <1>6, <1>7, <1>10 DEF EffectInv

\* The compare-and-swap away from SUBMITTED is the submitter's own.
LEMMA FinishedKeepsInv ==
    ASSUME EffectInv, NEW c \in Callers, mark_finished(c)
    PROVE  EffectInv'
<1> DEFINE op == calls[c].op
<1>1. /\ op \in Operations /\ calls[c].epoch \in Nat
      /\ calls[c].pc \in {"complete", "unknown"}
      /\ Status(op) = "SUBMITTED"
  BY DEF EffectInv, CallsHaveOperation, mark_finished, EffectTypeOK, OneSubmitter,
         Submitter, Holding
<1>2. PICK pc \in {"returned", "raised"}, status \in {"COMPLETED", "UNKNOWN"} :
         /\ Goto(c, pc)
         /\ effects' = [effects EXCEPT ![op] =
                          [status |-> status, epoch |-> calls[c].epoch]]
         /\ UNCHANGED <<ownershipVars, submissions>>
         /\ pc = "returned" => status = "COMPLETED"
         /\ status = "COMPLETED" => calls[c].pc = "complete"
  BY <1>1 DEF mark_finished, Updates
<1>3. /\ effects'[op].status = status
      /\ \A o \in Operations : o # op => effects'[o] = effects[o]
      /\ effects' \in [Operations -> [status : EffectStates \cup {"NONE"}, epoch : Nat]]
  BY <1>1, <1>2 DEF EffectInv, EffectTypeOK, EffectStates
<1>4. /\ calls'[c].pc = pc
      /\ \A d \in Callers : /\ d # c => calls'[d] = calls[d]
                            /\ calls'[d].op = calls[d].op
  BY <1>2, GotoMoves DEF EffectInv
<1>5. EffectTypeOK' /\ LeaseTyped'
  BY <1>2, <1>3, GotoTyped
  DEF EffectInv, EffectTypeOK, PcValues, ReturnedCalls, LeaseTyped, ownershipVars
<1>6. CallsHaveOperation'
  BY <1>1, <1>4 DEF EffectInv, CallsHaveOperation
<1>7. \A d \in Callers : d # c /\ Submitter(d) => calls[d].op # op
  BY <1>1 DEF EffectInv, OneSubmitter, Submitter, Holding
<1>8. OneSubmitter'
  BY <1>3, <1>4, <1>7
  DEF EffectInv, OneSubmitter, Submitter, Holding, Status, CallsHaveOperation
<1>9. RunsCounted'
  BY <1>1, <1>2, <1>3, <1>4 DEF EffectInv, RunsCounted, Status, CallsHaveOperation
<1>10. QED
  BY <1>5, <1>6, <1>8, <1>9 DEF EffectInv

\* A lease moves: no row and no caller does.
LEMMA LeaseKeepsInv ==
    ASSUME EffectInv, lease_moves
    PROVE  EffectInv'
<1>1. LeaseTyped'
  BY DEF EffectInv, LeaseTyped, lease_moves, HandOver
<1>2. UNCHANGED <<effects, calls, submissions>>
  BY DEF lease_moves
<1>3. QED
  BY <1>1, <1>2 DEF EffectInv, EffectTypeOK, CallsHaveOperation, OneSubmitter,
                    Submitter, RunsCounted, Status

\* Every step keeps the invariant.
LEMMA EffectInvStep == EffectInv /\ [EffectNext]_effectVars => EffectInv'
<1> SUFFICES ASSUME EffectInv, [EffectNext]_effectVars PROVE EffectInv'
  OBVIOUS
<1>1. ASSUME NEW c \in Callers, NEW op \in Operations,
             NEW epoch \in InitialEpoch..lease[AgentOf[op]].epoch, execute(c, op, epoch)
      PROVE  EffectInv'
  BY <1>1, ExecuteKeepsInv
<1>2. ASSUME NEW c \in Callers, CallStep(c) PROVE EffectInv'
  <2>1. CASE prepare_insert(c)
    BY <2>1, PrepareKeepsInv
  <2>2. CASE prepared(c)
    <3>1. PICK pc \in {"returned", "check", "raised"} :
             /\ Goto(c, pc)
             /\ pc = "returned" => Status(calls[c].op) = "COMPLETED"
      BY <2>2 DEF prepared, Raise
    <3>2. QED
      BY <2>2, <3>1, MoveKeepsInv DEF prepared, PcValues, ReturnedCalls, Holding
  <2>3. CASE check_submitted(c)
    <3>1. PICK pc \in {"update", "raised"} : Goto(c, pc)
      BY <2>3 DEF check_submitted, Checks, Raise
    <3>2. QED
      BY <2>3, <3>1, MoveKeepsInv
      DEF check_submitted, Checks, PcValues, ReturnedCalls, Holding
  <2>4. CASE mark_submitted(c)
    BY <2>4, SubmittedKeepsInv
  <2>5. CASE submit(c)
    BY <2>5, SubmitKeepsInv
  <2>6. CASE check_finished(c)
    <3>1. PICK pc \in {"complete", "unknown", "raised"} :
             /\ Goto(c, pc)
             /\ pc = "complete" => calls[c].pc = "checkCompleted"
             /\ pc = "unknown" => calls[c].pc = "checkUnknown"
      BY <2>6 DEF check_finished, Checks, Raise
    <3>2. calls[c].pc # "idle" /\ UNCHANGED <<ownershipVars, effects, submissions>>
      BY <2>6 DEF check_finished, Checks
    <3>3. pc \in PcValues \ {"idle"} /\ pc # "returned"
      BY DEF PcValues, ReturnedCalls
    <3>4. pc \in Holding => \/ calls[c].pc = "checkCompleted" /\ pc = "complete"
                            \/ calls[c].pc = "checkUnknown" /\ pc = "unknown"
      BY <3>1 DEF Holding
    <3>5. QED
      BY <3>1, <3>2, <3>3, <3>4, MoveKeepsInv
  <2>7. CASE mark_finished(c)
    BY <2>7, FinishedKeepsInv
  <2>8. CASE crash(c)
    BY <2>8, MoveKeepsInv DEF crash, PcValues, ReturnedCalls, Holding
  <2>9. QED
    BY <1>2, <2>1, <2>2, <2>3, <2>4, <2>5, <2>6, <2>7, <2>8 DEF CallStep
<1>3. CASE lease_moves
  BY <1>3, LeaseKeepsInv
<1>4. CASE UNCHANGED effectVars
  BY <1>4 DEF EffectInv, EffectTypeOK, LeaseTyped, CallsHaveOperation, OneSubmitter,
              Submitter, RunsCounted, Status, effectVars, ownershipVars
<1>5. QED
  BY <1>1, <1>2, <1>3, <1>4 DEF EffectNext

\* The inductive invariant holds in every behaviour (effects.py:16-69).
THEOREM EffectInvariant == EffectSpec => []EffectInv
<1>1. EffectInit => EffectInv
  BY EffectInvInit
<1>2. EffectInv /\ [EffectNext]_effectVars => EffectInv'
  BY EffectInvStep
<1>3. QED
  BY <1>1, <1>2, PTL DEF EffectSpec

-----------------------------------------------------------------------------
(* What it shows. *)

\* Types of the effects table and of the callers' locals (store.py:104-114).
THEOREM EffectTypeCorrect == EffectSpec => []EffectTypeOK
<1>1. EffectInv => EffectTypeOK
  BY DEF EffectInv
<1>2. QED
  BY <1>1, EffectInvariant, PTL

\* A tool is called at most once per operation, by however many callers, at whatever
\* epochs, and wherever they die (effects.py:11; implementation_plan.md:99).
THEOREM ToolRunsAtMostOnce == EffectSpec => []AtMostOnce
<1>1. EffectInv => AtMostOnce
  BY DEF EffectInv, RunsCounted, AtMostOnce
<1>2. QED
  BY <1>1, EffectInvariant, PTL

\* What execute returns is the result of the one submission (effects.py:36-37, :60-69).
THEOREM ReturnedResultsAreReal == EffectSpec => []ReturnsWereSubmitted
<1>1. EffectInv => ReturnsWereSubmitted
  BY DEF EffectInv, RunsCounted, ReturnsWereSubmitted
<1>2. QED
  BY <1>1, EffectInvariant, PTL

\* An effect that left PREPARED never goes back, and its end is final: only the winner
\* of the compare-and-swap moves it (store.py:543-574; implementation_plan.md:99).
THEOREM EffectsAreNeverReplayed == EffectSpec => EffectsMoveForward
<1>1. ASSUME EffectInv, [EffectNext]_effectVars, NEW op \in Operations
      PROVE  /\ Status(op) = "SUBMITTED" =>
                   Status(op)' \in {"SUBMITTED", "COMPLETED", "UNKNOWN"}
             /\ Status(op) \in {"COMPLETED", "UNKNOWN"} => Status(op)' = Status(op)
  <2>1. \/ effects' = effects
        \/ \E c \in Callers : prepare_insert(c) \/ mark_submitted(c) \/ mark_finished(c)
    BY <1>1 DEF EffectNext, CallStep, execute, prepared, check_submitted, submit,
                check_finished, Checks, crash, lease_moves, effectVars
  <2>2. \/ effects' = effects
        \/ \E o \in Operations :
              /\ \A other \in Operations : other # o => effects'[other] = effects[other]
              /\ \/ Status(o) \in {"NONE", "PREPARED"}
                 \/ /\ Status(o) = "SUBMITTED"
                    /\ effects'[o].status \in {"COMPLETED", "UNKNOWN"}
    <3>1. ASSUME NEW c \in Callers,
                 prepare_insert(c) \/ mark_submitted(c) \/ mark_finished(c),
                 effects' # effects
          PROVE  LET o == calls[c].op IN
                 /\ o \in Operations
                 /\ \A other \in Operations : other # o => effects'[other] = effects[other]
                 /\ \/ Status(o) \in {"NONE", "PREPARED"}
                    \/ /\ Status(o) = "SUBMITTED"
                       /\ effects'[o].status \in {"COMPLETED", "UNKNOWN"}
      BY <1>1, <3>1 DEF EffectInv, EffectTypeOK, CallsHaveOperation, prepare_insert,
                        mark_submitted, mark_finished, Updates
    <3>2. QED
      BY <2>1, <3>1
  <2>3. QED
    BY <2>2 DEF Status
<1>2. EffectInv /\ [EffectNext]_effectVars =>
        [\A op \in Operations :
           /\ Status(op) = "SUBMITTED" =>
                 Status(op)' \in {"SUBMITTED", "COMPLETED", "UNKNOWN"}
           /\ Status(op) \in {"COMPLETED", "UNKNOWN"} =>
                 Status(op)' = Status(op)]_effectVars
  BY <1>1
<1>3. QED
  BY <1>2, EffectInvariant, PTL DEF EffectSpec, EffectsMoveForward
=============================================================================
