--------------------------- MODULE ManagedExecutor ---------------------------
(***************************************************************************)
(* agentshift/runtime/executor.py: ManagedAgentExecutor.run_turn, the      *)
(* ingress of LLM turns, on top of the store it fences them with.  Any     *)
(* number of callers in any process run turns of the same agents, at any   *)
(* lease an agent has had, while migrations move the lease.  Each store    *)
(* call is a transaction of its own: the lease may move, and other callers *)
(* may claim, while the engine generates, and between reading the agent    *)
(* row and committing it.  A caller may die or be cancelled (the handler   *)
(* is `except Exception`, which a CancelledError passes by) at any await.  *)
(*                                                                         *)
(* Of the token lists only their lengths are kept, since stream_offset     *)
(* adds them up.  commit_step, which no turn of this class calls, is left  *)
(* to StateStore.                                                          *)
(***************************************************************************)
EXTENDS StateStore

CONSTANTS
    Callers,        \* calls of run_turn
    Lengths,        \* numbers of tokens a generation returns
    MaxDeaths       \* bound: callers that die or are cancelled

ASSUME ExecutorAssumption ==
    /\ Lengths \subseteq Nat
    /\ MaxDeaths \in Nat

VARIABLES
    turns,          \* run_turn calls: caller -> program counter and locals
    stream,         \* column stream_offset of agents: agent -> tokens
    outputs,        \* history: agent -> step -> tokens of the committed result
    deaths

executorVars == <<storeVars, turns, stream, outputs, deaths>>

NoTurn ==
    [pc |-> "idle", agent |-> None, step |-> 0, engine |-> None, epoch |-> 0,
     rid |-> None, read |-> 0, out |-> 0]

\* Between the claim and the end of the call.
InTurn(c) == turns[c].pc \in {"generate", "commit"}

TurnOf(c, a, s) == turns[c].agent = a /\ turns[c].step = s

ExecutorInit ==
    /\ StoreInit
    /\ turns = [c \in Callers |-> NoTurn]
    /\ stream = [a \in Agents |-> 0]
    /\ outputs = [a \in Agents |-> [s \in Steps |-> 0]]
    /\ deaths = 0

-----------------------------------------------------------------------------
(* run_turn. *)

\* claim_step, which raises before anything is generated unless the lease is current.
claim_turn(c, a, s, owner_engine, owner_epoch, rid) ==
    /\ turns[c].pc = "idle"
    /\ claim_step(a, s, owner_engine, owner_epoch, rid)
    /\ turns' = [turns EXCEPT ![c] =
                   [NoTurn EXCEPT !.pc = "generate", !.agent = a, !.step = s,
                                  !.engine = owner_engine, !.epoch = owner_epoch,
                                  !.rid = rid]]
    /\ UNCHANGED <<stream, outputs, deaths>>

\* The engine answers, and the agent row is read.
generate_returns(c, out) ==
    /\ turns[c].pc = "generate"
    /\ turns' = [turns EXCEPT ![c].pc = "commit", ![c].out = out,
                              ![c].read = stream[turns[c].agent]]
    /\ UNCHANGED <<storeVars, stream, outputs, deaths>>

\* Mutant: the exception is raised again and the claim left behind.
generate_raises_claimed(c) ==
    /\ turns[c].pc = "generate"
    /\ turns' = [turns EXCEPT ![c].pc = "raised"]
    /\ UNCHANGED <<storeVars, stream, outputs, deaths>>

\* The engine refuses, dies, or does not answer before the client's timeout.
generate_raises(c) ==
    LET t == turns[c] IN
    /\ t.pc = "generate"
    /\ fail_claimed_step(t.agent, t.step, t.rid, FALSE)
    /\ turns' = [turns EXCEPT ![c].pc = "raised"]
    /\ UNCHANGED <<stream, outputs, deaths>>

CanCommitTurn(c) ==
    LET t == turns[c] IN
    /\ claims[t.agent][t.step].status = "CLAIMED"
    /\ claims[t.agent][t.step].rid = t.rid
    /\ claims[t.agent][t.step].epoch = t.epoch
    /\ agents[t.agent].epoch = t.epoch
    /\ t.step = agents[t.agent].step + 1

\* Mutant: the stream offset starts again with every turn.
OffsetOfTurn(t) == t.out

\* stream_offset of the continuation: what was read and what was generated.
NewOffset(t) == t.read + t.out

\* A commit that is refused raises and leaves the claim as it is.
commit_turn(c) ==
    LET t == turns[c] IN
    /\ t.pc = "commit"
    /\ \/ /\ commit_claimed_step(t.agent, t.step, t.epoch, t.rid)
          /\ stream' = [stream EXCEPT ![t.agent] = NewOffset(t)]
          /\ outputs' = [outputs EXCEPT ![t.agent][t.step] = t.out]
          /\ turns' = [turns EXCEPT ![c].pc = "returned"]
       \/ /\ ~CanCommitTurn(c)
          /\ turns' = [turns EXCEPT ![c].pc = "raised"]
          /\ UNCHANGED <<storeVars, stream, outputs>>
    /\ UNCHANGED deaths

caller_dies(c) ==
    /\ InTurn(c)
    /\ deaths < MaxDeaths
    /\ deaths' = deaths + 1
    /\ turns' = [turns EXCEPT ![c].pc = "dead"]
    /\ UNCHANGED <<storeVars, stream, outputs>>

-----------------------------------------------------------------------------

TurnStep(c) ==
    \/ \E a \in Agents, s \in Steps, e \in Engines, r \in Rids :
          \E ep \in HeldEpochs(a) : claim_turn(c, a, s, e, ep, r)
    \/ \E n \in Lengths : generate_returns(c, n)
    \/ generate_raises(c)
    \/ commit_turn(c)
    \/ caller_dies(c)

\* Agents are registered, and migrations move their leases.
LeaseStep ==
    /\ \/ \E a \in Agents, e \in Engines : register_agent(a, e)
       \/ MigrationCalls
    /\ UNCHANGED <<turns, stream, outputs, deaths>>

ExecutorNext == LeaseStep \/ \E c \in Callers : TurnStep(c)

ExecutorSpec == ExecutorInit /\ [][ExecutorNext]_executorVars
-----------------------------------------------------------------------------
(* Correctness. *)

Turns ==
    [pc : {"idle", "generate", "commit", "returned", "raised", "dead"},
     agent : Agents \cup {None}, step : 0..MaxStep, engine : Engines \cup {None},
     epoch : Nat, rid : Rids \cup {None}, read : Nat, out : Nat]

\* Types of the calls and of the column (executor.py:20-31, store.py:79).
ExecutorTypeOK ==
    /\ turns \in [Callers -> Turns]
    /\ stream \in [Agents -> Nat]
    /\ outputs \in [Agents -> [Steps -> Nat]]
    /\ deaths \in Nat

\* One generation at a time per agent, across hand-overs: while a turn of a fenced owner
\* is still running its claim keeps the new owner from starting one, and a claim that
\* failed is taken over by one caller (implementation_plan.md:33, :35-36).
OneTurnAtATime ==
    \A c, d \in Callers :
        InTurn(c) /\ InTurn(d) /\ turns[c].agent = turns[d].agent => c = d

\* A claim that blocks its step is explained: a call in progress holds it, its call died,
\* or its call came back after the lease had moved on.  No failed or refused turn of the
\* current owner leaves one (executor.py:46-50).
ClaimsAreExplained ==
    \A a \in Agents, s \in Steps : claims[a][s].status = "CLAIMED" =>
        \E c \in Callers :
            /\ TurnOf(c, a, s)
            /\ turns[c].rid = claims[a][s].rid
            /\ turns[c].epoch = claims[a][s].epoch
            /\ \/ InTurn(c) \/ turns[c].pc = "dead"
               \/ turns[c].pc = "raised" /\ turns[c].epoch < agents[a].epoch

\* A step has at most one result, however often its turn is delivered.
OneResultPerStep ==
    \A c, d \in Callers :
        /\ turns[c].pc = "returned" /\ turns[d].pc = "returned"
        /\ turns[c].agent = turns[d].agent /\ turns[c].step = turns[d].step
        => c = d

\* Tokens of all the results of an agent, added up step by step.
TokensOf(results) ==
    LET total[s \in 0..MaxStep] == IF s = 0 THEN 0 ELSE total[s - 1] + results[s]
    IN  total[MaxStep]

\* A step has one result, and the offset of the stream counts the tokens of the results,
\* none twice and none lost, although it is written from a row read before the
\* transaction (executor.py:52-62).
ReturnsAreTheStream ==
    /\ OneResultPerStep
    /\ \A a \in Agents : stream[a] = TokensOf(outputs[a])

\* What a fenced owner generates is never committed: a turn that ends with a result held
\* the current lease at its commit, engine and epoch, though the store checks the epoch
\* only (store.py:281-284).
FencedTurnsCommitNothing ==
    [][\A c \in Callers : turns[c].pc # "returned" /\ turns'[c].pc = "returned" =>
         LET a == turns[c].agent IN
         /\ agents[a].owner = turns[c].engine
         /\ agents[a].epoch = turns[c].epoch
         /\ agents'[a].step = agents[a].step + 1]_executorVars
=============================================================================
