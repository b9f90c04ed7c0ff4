------------------------ MODULE ManagedExecutorProofs ------------------------
(***************************************************************************)
(* Theorems about ManagedExecutor for every set of callers, agents,        *)
(* engines, migrations and request ids.  The executor only calls the       *)
(* store, so its behaviours are behaviours of the store and everything     *)
(* StateStoreProofs shows carries over.  On top of StoreInv the argument   *)
(* needs TurnsHoldClaims: a call in progress holds the claim of the next   *)
(* step of its agent, under the lease it was made with.  StreamInv, about  *)
(* the offset that is read before it is written, stands on top of that.    *)
(***************************************************************************)
EXTENDS ManagedExecutor, StateStoreProofs, WellFoundedInduction

\* What holds between claim_step and the end of the call.
HoldsClaim(c) ==
    LET t == turns[c] IN
    /\ t.agent \in Agents /\ t.step \in Steps /\ t.rid \in Rids
    /\ Registered(t.agent)
    /\ claims[t.agent][t.step] = [status |-> "CLAIMED", epoch |-> t.epoch, rid |-> t.rid]
    /\ t.step = agents[t.agent].step + 1
    /\ t.epoch <= agents[t.agent].epoch
    /\ t.epoch >= InitialEpoch
    /\ t.epoch = agents[t.agent].epoch => t.engine = agents[t.agent].owner

TurnsHoldClaims == \A c \in Callers : InTurn(c) => HoldsClaim(c)

\* A result was committed as a step of its agent.
ResultsAreCommitted ==
    \A c \in Callers : turns[c].pc = "returned" =>
        /\ turns[c].agent \in Agents /\ turns[c].step \in Nat
        /\ Registered(turns[c].agent)
        /\ turns[c].step <= agents[turns[c].agent].step

\* Only a registered agent's steps are claimed.
ClaimedAreRegistered ==
    \A a \in Agents, s \in Steps : claims[a][s].status = "CLAIMED" => Registered(a)

ExecutorInv ==
    /\ StoreInv
    /\ ExecutorTypeOK
    /\ TurnsHoldClaims
    /\ OneTurnAtATime
    /\ ClaimsAreExplained
    /\ ResultsAreCommitted
    /\ OneResultPerStep
    /\ ClaimedAreRegistered

-----------------------------------------------------------------------------
(* The executor is a client of the store. *)

\* The local variables of a call in progress are those of a claimed step.
LEMMA ClaimedArguments ==
    ASSUME StoreTypeOK, ExecutorTypeOK, TurnsHoldClaims, NEW c \in Callers, InTurn(c)
    PROVE  /\ turns[c].agent \in Agents
           /\ turns[c].step \in Steps
           /\ turns[c].rid \in Rids
           /\ turns[c].epoch \in HeldEpochs(turns[c].agent)
<1>1. HoldsClaim(c)
  BY DEF TurnsHoldClaims
<1>2. turns[c].epoch \in Nat
  BY DEF ExecutorTypeOK, Turns
<1>3. agents[turns[c].agent].epoch \in Nat
  BY <1>1 DEF HoldsClaim, StoreTypeOK, AgentRows
<1> QED
  BY <1>1, <1>2, <1>3, StoreAssumption DEF HoldsClaim, HeldEpochs

\* Every step of a call is a call of the store or leaves the tables alone.
LEMMA TurnStepsTheStore ==
    ASSUME StoreTypeOK, ExecutorTypeOK, TurnsHoldClaims, NEW c \in Callers, TurnStep(c)
    PROVE  StepCalls \/ UNCHANGED storeVars
<1>1. ASSUME NEW a \in Agents, NEW s \in Steps, NEW e \in Engines, NEW r \in Rids,
             NEW ep \in HeldEpochs(a), claim_turn(c, a, s, e, ep, r)
      PROVE  StepCalls
  BY <1>1 DEF claim_turn, StepCalls
<1>2. CASE \E n \in Lengths : generate_returns(c, n)
  BY <1>2 DEF generate_returns
<1>3. CASE generate_raises(c)
  <2>1. InTurn(c)
    BY <1>3 DEF generate_raises, InTurn
  <2>2. fail_claimed_step(turns[c].agent, turns[c].step, turns[c].rid, FALSE)
    BY <1>3 DEF generate_raises
  <2> QED
    BY <2>1, <2>2, ClaimedArguments DEF StepCalls
<1>4. CASE commit_turn(c)
  <2>1. InTurn(c)
    BY <1>4 DEF commit_turn, InTurn
  <2>2. \/ commit_claimed_step(turns[c].agent, turns[c].step, turns[c].epoch, turns[c].rid)
        \/ UNCHANGED storeVars
    BY <1>4 DEF commit_turn
  <2> QED
    BY <2>1, <2>2, ClaimedArguments DEF StepCalls
<1>5. CASE caller_dies(c)
  BY <1>5 DEF caller_dies
<1> QED
  BY <1>1, <1>2, <1>3, <1>4, <1>5 DEF TurnStep

\* Whatever the executor does is a step of the store, or none.
LEMMA ExecutorStepsTheStore ==
    ASSUME StoreTypeOK, ExecutorTypeOK, TurnsHoldClaims, [ExecutorNext]_executorVars
    PROVE  [StoreNext]_storeVars
<1>1. CASE LeaseStep
  BY <1>1 DEF LeaseStep, StoreNext
<1>2. CASE \E c \in Callers : TurnStep(c)
  BY <1>2, TurnStepsTheStore DEF StoreNext
<1>3. CASE UNCHANGED executorVars
  BY <1>3 DEF executorVars
<1> QED
  BY <1>1, <1>2, <1>3 DEF ExecutorNext

\* Migrations and registrations leave the calls, the claims and the progress alone.
LEMMA LeaseStepKeepsProgress ==
    ASSUME StoreInv, LeaseStep
    PROVE  /\ claims' = claims
           /\ turns' = turns
           /\ \A a \in Agents : Registered(a) => agents'[a].step = agents[a].step
<1>0. /\ agents \in [Agents -> AgentRows]
      /\ \A m \in Migrations : MigrationState(m) # "NONE" => migrations[m].agent \in Agents
  BY DEF StoreInv, StoreTypeOK, RowsWellFormed, MigrationState
<1>1. ASSUME NEW b \in Agents, NEW e \in Engines, register_agent(b, e)
      PROVE  claims' = claims /\ \A a \in Agents : Registered(a) => agents'[a].step = agents[a].step
  BY <1>0, <1>1 DEF register_agent, Registered
<1>2. ASSUME NEW m \in Migrations, commit_migration(m)
      PROVE  claims' = claims /\ \A a \in Agents : agents'[a].step = agents[a].step
  BY <1>0, <1>2 DEF commit_migration
<1>3. ASSUME NEW m \in Migrations, NEW r \in Engines, recover_committed_migration(m, r)
      PROVE  claims' = claims /\ \A a \in Agents : agents'[a].step = agents[a].step
  BY <1>0, <1>3 DEF recover_committed_migration
<1>4. ASSUME NEW m \in Migrations,
             \/ \E a \in Agents, e, d \in Engines : \E ep \in HeldEpochs(a) :
                   start_migration_check(m, a, e, d, ep)
             \/ start_migration_insert(m)
             \/ \E t \in Transitions : transition_migration(m, t[1], t[2])
      PROVE  claims' = claims /\ agents' = agents
  BY <1>4 DEF start_migration_check, start_migration_insert, transition_migration
<1> QED
  BY <1>1, <1>2, <1>3, <1>4 DEF LeaseStep, MigrationCalls

-----------------------------------------------------------------------------
(* Types. *)

\* Turns keep their types.
LEMMA ExecutorTypeStep ==
    ASSUME StoreTypeOK, ExecutorTypeOK, TurnsHoldClaims, [ExecutorNext]_executorVars
    PROVE  ExecutorTypeOK'
<1>1. CASE LeaseStep
  BY <1>1 DEF LeaseStep, ExecutorTypeOK
<1>2. CASE UNCHANGED executorVars
  BY <1>2 DEF executorVars, ExecutorTypeOK
<1>3. ASSUME NEW c \in Callers, TurnStep(c)
      PROVE  ExecutorTypeOK'
  <2>0. turns[c] \in Turns /\ NoTurn \in Turns
    BY StoreAssumption DEF ExecutorTypeOK, Turns, NoTurn
  <2>1. ASSUME NEW a \in Agents, NEW s \in Steps, NEW e \in Engines, NEW r \in Rids,
               NEW ep \in HeldEpochs(a), claim_turn(c, a, s, e, ep, r)
        PROVE  ExecutorTypeOK'
    <3> DEFINE t == [NoTurn EXCEPT !.pc = "generate", !.agent = a, !.step = s,
                                   !.engine = e, !.epoch = ep, !.rid = r]
    <3>1. ep \in Nat /\ s \in 0..MaxStep
      BY StoreAssumption DEF HeldEpochs, Steps, StoreTypeOK, AgentRows
    <3>2. t \in Turns
      BY <3>1, <2>0 DEF Turns, NoTurn
    <3>3. turns' = [turns EXCEPT ![c] = t] /\ UNCHANGED <<stream, outputs, deaths>>
      BY <2>1 DEF claim_turn
    <3> QED
      BY <3>2, <3>3 DEF ExecutorTypeOK
  <2>2. ASSUME NEW n \in Lengths, generate_returns(c, n)
        PROVE  ExecutorTypeOK'
    <3>1. stream[turns[c].agent] \in Nat
      <4>1. InTurn(c)
        BY <2>2 DEF generate_returns, InTurn
      <4> QED
        BY <4>1, ClaimedArguments DEF ExecutorTypeOK
    <3>2. [turns[c] EXCEPT !.pc = "commit", !.out = n, !.read = stream[turns[c].agent]]
             \in Turns
      BY <2>0, <3>1, ExecutorAssumption DEF Turns
    <3>3. turns' = [turns EXCEPT ![c] =
                      [turns[c] EXCEPT !.pc = "commit", !.out = n,
                                       !.read = stream[turns[c].agent]]]
      BY <2>2 DEF generate_returns, ExecutorTypeOK
    <3> QED
      BY <2>2, <3>2, <3>3 DEF generate_returns, ExecutorTypeOK
  <2>3. \A pc \in {"raised", "returned", "dead"} :
           [turns EXCEPT ![c].pc = pc] \in [Callers -> Turns]
    <3>1. \A pc \in {"raised", "returned", "dead"} : [turns[c] EXCEPT !.pc = pc] \in Turns
      BY <2>0 DEF Turns
    <3> QED
      BY <3>1 DEF ExecutorTypeOK
  <2>4. CASE generate_raises(c)
    BY <2>3, <2>4 DEF generate_raises, ExecutorTypeOK
  <2>5. CASE commit_turn(c)
    <3>1. turns[c].agent \in Agents /\ turns[c].step \in Steps
      <4>1. InTurn(c)
        BY <2>5 DEF commit_turn, InTurn
      <4> QED
        BY <4>1, ClaimedArguments
    <3>2. NewOffset(turns[c]) \in Nat /\ turns[c].out \in Nat
      BY <2>0 DEF Turns, NewOffset
    <3>3. turns' \in [Callers -> Turns] /\ deaths' = deaths
      BY <2>3, <2>5 DEF commit_turn
    <3>4. stream' \in [Agents -> Nat]
      BY <2>5, <3>2 DEF commit_turn, ExecutorTypeOK
    <3>5. outputs' \in [Agents -> [Steps -> Nat]]
      <4>1. \/ outputs' = outputs
            \/ outputs' = [outputs EXCEPT ![turns[c].agent][turns[c].step] = turns[c].out]
        BY <2>5 DEF commit_turn
      <4>2. outputs[turns[c].agent] \in [Steps -> Nat]
        BY <3>1 DEF ExecutorTypeOK
      <4>3. [outputs[turns[c].agent] EXCEPT ![turns[c].step] = turns[c].out] \in [Steps -> Nat]
        BY <3>2, <4>2
      <4> QED
        BY <3>1, <4>1, <4>3 DEF ExecutorTypeOK
    <3> QED
      BY <3>3, <3>4, <3>5 DEF ExecutorTypeOK
  <2>6. CASE caller_dies(c)
    BY <2>3, <2>6 DEF caller_dies, ExecutorTypeOK
  <2> QED
    BY <1>3, <2>1, <2>2, <2>4, <2>5, <2>6 DEF TurnStep
<1> QED
  BY <1>1, <1>2, <1>3 DEF ExecutorNext

-----------------------------------------------------------------------------
(* The invariant. *)

\* No turn is running at the start.
LEMMA ExecutorInvInit == ExecutorInit => ExecutorInv
<1> SUFFICES ASSUME ExecutorInit PROVE ExecutorInv
  OBVIOUS
<1>1. StoreInv
  BY StoreInvInit DEF ExecutorInit
<1>2. \A c \in Callers : turns[c].pc = "idle"
  BY DEF ExecutorInit, NoTurn
<1>3. \A a \in Agents, s \in Steps : claims[a][s].status = "NONE"
  BY DEF ExecutorInit, StoreInit, NoClaim
<1>4. NoTurn \in Turns
  BY StoreAssumption DEF NoTurn, Turns
<1>5. ExecutorTypeOK
  BY <1>4 DEF ExecutorInit, ExecutorTypeOK
<1>6. TurnsHoldClaims /\ OneTurnAtATime /\ ResultsAreCommitted /\ OneResultPerStep
  BY <1>2 DEF TurnsHoldClaims, OneTurnAtATime, ResultsAreCommitted, OneResultPerStep, InTurn
<1>7. ClaimsAreExplained /\ ClaimedAreRegistered
  BY <1>3 DEF ClaimsAreExplained, ClaimedAreRegistered
<1> QED
  BY <1>1, <1>5, <1>6, <1>7 DEF ExecutorInv

\* The lease may move under a call: its claim and its step stay, its epoch is overtaken.
LEMMA LeaseStepKeepsTurns ==
    ASSUME ExecutorInv, StoreTypeOK', LeaseStep
    PROVE  /\ TurnsHoldClaims'
           /\ OneTurnAtATime'
           /\ ClaimsAreExplained'
           /\ ResultsAreCommitted'
           /\ OneResultPerStep'
           /\ ClaimedAreRegistered'
<1>1. /\ claims' = claims /\ turns' = turns
      /\ \A a \in Agents : Registered(a) => agents'[a].step = agents[a].step
  BY LeaseStepKeepsProgress DEF ExecutorInv
<1>2. \A a \in Agents : RowAdvances(a)
  BY AgentRowsAdvance DEF ExecutorInv, LeaseStep, StoreNext
<1>3. /\ \A a \in Agents : agents[a] \in AgentRows /\ agents'[a] \in AgentRows
      /\ \A c \in Callers : turns[c].epoch \in Nat
      /\ \A c \in Callers : turns[c].step \in Nat
  BY StoreAssumption DEF ExecutorInv, StoreInv, StoreTypeOK, ExecutorTypeOK, Turns
<1>4. TurnsHoldClaims'
  <2> SUFFICES ASSUME NEW c \in Callers, InTurn(c)'
               PROVE  HoldsClaim(c)'
    BY DEF TurnsHoldClaims
  <2>1. HoldsClaim(c)
    BY <1>1 DEF ExecutorInv, TurnsHoldClaims, InTurn
  <2> DEFINE t == turns[c]
             a == t.agent
  <2>2. a \in Agents /\ Registered(a) /\ t.epoch <= agents[a].epoch /\ t.epoch >= InitialEpoch
    BY <2>1 DEF HoldsClaim
  <2>3. /\ Registered(a)' /\ agents'[a].epoch >= agents[a].epoch
        /\ agents'[a].owner # agents[a].owner => agents'[a].epoch = agents[a].epoch + 1
    BY <1>1, <1>2, <2>2 DEF RowAdvances, Registered
  <2>4. agents[a].epoch \in Nat /\ agents'[a].epoch \in Nat /\ t.epoch \in Nat
    BY <1>3, <2>2 DEF AgentRows
  <2>5. t.epoch <= agents'[a].epoch
    BY <2>2, <2>3, <2>4
  <2>6. t.epoch = agents'[a].epoch => t.engine = agents'[a].owner
    <3>1. t.epoch = agents'[a].epoch => agents'[a].owner = agents[a].owner /\ t.epoch = agents[a].epoch
      BY <2>2, <2>3, <2>4
    <3> QED
      BY <2>1, <3>1 DEF HoldsClaim
  <2>7. agents'[a].step = agents[a].step
    BY <1>1, <2>2
  <2> QED
    BY <1>1, <2>1, <2>2, <2>3, <2>5, <2>6, <2>7 DEF HoldsClaim
<1>5. ClaimsAreExplained'
  <2> SUFFICES ASSUME NEW a \in Agents, NEW s \in Steps, claims[a][s].status = "CLAIMED"
               PROVE  \E c \in Callers :
                         /\ TurnOf(c, a, s)
                         /\ turns[c].rid = claims[a][s].rid
                         /\ turns[c].epoch = claims[a][s].epoch
                         /\ \/ InTurn(c) \/ turns[c].pc = "dead"
                            \/ turns[c].pc = "raised" /\ turns[c].epoch < agents'[a].epoch
    BY <1>1 DEF ClaimsAreExplained, TurnOf, InTurn
  <2>1. PICK c \in Callers :
            /\ TurnOf(c, a, s)
            /\ turns[c].rid = claims[a][s].rid
            /\ turns[c].epoch = claims[a][s].epoch
            /\ \/ InTurn(c) \/ turns[c].pc = "dead"
               \/ turns[c].pc = "raised" /\ turns[c].epoch < agents[a].epoch
    BY DEF ExecutorInv, ClaimsAreExplained
  <2>2. turns[c].epoch < agents[a].epoch => turns[c].epoch < agents'[a].epoch
    <3>1. agents[a].epoch \in Nat /\ agents'[a].epoch \in Nat /\ turns[c].epoch \in Nat
      BY <1>3 DEF AgentRows
    <3>2. agents'[a].epoch >= agents[a].epoch \/ ~Registered(a)
      BY <1>2 DEF RowAdvances
    <3>3. Registered(a)
      BY DEF ExecutorInv, ClaimedAreRegistered
    <3> QED
      BY <3>1, <3>2, <3>3
  <2> QED
    BY <2>1, <2>2
<1>6. ResultsAreCommitted' /\ ClaimedAreRegistered'
  <2>1. \A a \in Agents : Registered(a) => Registered(a)'
    BY <1>2 DEF RowAdvances
  <2> QED
    BY <1>1, <2>1 DEF ExecutorInv, ResultsAreCommitted, ClaimedAreRegistered
<1>7. OneTurnAtATime' /\ OneResultPerStep'
  BY <1>1 DEF ExecutorInv, OneTurnAtATime, OneResultPerStep, InTurn
<1> QED
  BY <1>4, <1>5, <1>6, <1>7

-----------------------------------------------------------------------------
(* The steps of a call.  A step of call c writes turns[c] alone.               *)

\* The other calls, and the claims of the other agents' steps, are left alone.
OnlyTurn(c) ==
    /\ \A d \in Callers \ {c} : turns'[d] = turns[d]
    /\ turns' \in [Callers -> Turns]

\* A call that ends, leaving the tables alone, frees its agent for nobody: the claim stays.
LEMMA QuietStepKeepsTurns ==
    ASSUME ExecutorInv, NEW c \in Callers, OnlyTurn(c), UNCHANGED storeVars,
           InTurn(c), turns'[c].pc # "returned",
           turns'[c].agent = turns[c].agent, turns'[c].step = turns[c].step,
           turns'[c].rid = turns[c].rid, turns'[c].epoch = turns[c].epoch,
           turns'[c].engine = turns[c].engine,
           \/ InTurn(c)' \/ turns'[c].pc = "dead"
           \/ turns'[c].pc = "raised" /\ turns[c].epoch < agents[turns[c].agent].epoch
    PROVE  /\ TurnsHoldClaims' /\ OneTurnAtATime' /\ ClaimsAreExplained'
           /\ ResultsAreCommitted' /\ OneResultPerStep' /\ ClaimedAreRegistered'
<1>1. agents' = agents /\ claims' = claims
  BY DEF storeVars
<1>2. \A d \in Callers : InTurn(d)' => InTurn(d)
  BY DEF OnlyTurn, InTurn
<1>3. \A d \in Callers :
         /\ turns'[d].agent = turns[d].agent /\ turns'[d].step = turns[d].step
         /\ turns'[d].rid = turns[d].rid /\ turns'[d].epoch = turns[d].epoch
         /\ turns'[d].engine = turns[d].engine
  BY DEF OnlyTurn
<1>4. TurnsHoldClaims'
  <2> SUFFICES ASSUME NEW d \in Callers, InTurn(d)
               PROVE  HoldsClaim(d)'
    BY <1>2 DEF TurnsHoldClaims
  <2>1. HoldsClaim(d)
    BY DEF ExecutorInv, TurnsHoldClaims
  <2> QED
    BY <1>1, <1>3, <2>1 DEF HoldsClaim, Registered
<1>5. OneTurnAtATime'
  BY <1>2, <1>3 DEF ExecutorInv, OneTurnAtATime
<1>6. ClaimsAreExplained'
  <2> SUFFICES ASSUME NEW a \in Agents, NEW s \in Steps, claims[a][s].status = "CLAIMED"
               PROVE  \E d \in Callers :
                         /\ TurnOf(d, a, s)'
                         /\ turns'[d].rid = claims[a][s].rid
                         /\ turns'[d].epoch = claims[a][s].epoch
                         /\ \/ InTurn(d)' \/ turns'[d].pc = "dead"
                            \/ turns'[d].pc = "raised" /\ turns'[d].epoch < agents[a].epoch
    BY <1>1 DEF ClaimsAreExplained, InTurn
  <2>1. PICK d \in Callers :
            /\ TurnOf(d, a, s)
            /\ turns[d].rid = claims[a][s].rid
            /\ turns[d].epoch = claims[a][s].epoch
            /\ \/ InTurn(d) \/ turns[d].pc = "dead"
               \/ turns[d].pc = "raised" /\ turns[d].epoch < agents[a].epoch
    BY DEF ExecutorInv, ClaimsAreExplained
  <2>2. TurnOf(d, a, s)'
    BY <1>3, <2>1 DEF TurnOf
  <2>3. \/ InTurn(d)' \/ turns'[d].pc = "dead"
        \/ turns'[d].pc = "raised" /\ turns'[d].epoch < agents[a].epoch
    BY <1>3, <2>1 DEF OnlyTurn, TurnOf, InTurn
  <2> QED
    BY <1>3, <2>1, <2>2, <2>3
<1>7. \A d \in Callers : turns'[d].pc = "returned" => turns[d].pc = "returned"
  BY DEF OnlyTurn
<1>8. ResultsAreCommitted' /\ OneResultPerStep' /\ ClaimedAreRegistered'
  BY <1>1, <1>3, <1>7 DEF ExecutorInv, ResultsAreCommitted, OneResultPerStep,
     ClaimedAreRegistered, Registered
<1> QED
  BY <1>4, <1>5, <1>6, <1>8

\* A claim is made on the next step only, and only when no claim of it is held.
LEMMA ClaimKeepsTurns ==
    ASSUME ExecutorInv, StoreTypeOK', ExecutorTypeOK', NEW c \in Callers, NEW a \in Agents,
           NEW s \in Steps, NEW e \in Engines, NEW r \in Rids, NEW ep \in HeldEpochs(a),
           claim_turn(c, a, s, e, ep, r)
    PROVE  /\ TurnsHoldClaims' /\ OneTurnAtATime' /\ ClaimsAreExplained'
           /\ ResultsAreCommitted' /\ OneResultPerStep' /\ ClaimedAreRegistered'
<1>1. /\ agents' = agents
      /\ Registered(a) /\ agents[a].owner = e /\ agents[a].epoch = ep
      /\ s = agents[a].step + 1
      /\ claims[a][s].status # "CLAIMED"
      /\ claims' = [claims EXCEPT ![a][s] = [status |-> "CLAIMED", epoch |-> ep, rid |-> r]]
  BY DEF claim_turn, claim_step
<1>2. /\ turns'[c].pc = "generate" /\ turns'[c].agent = a /\ turns'[c].step = s
      /\ turns'[c].engine = e /\ turns'[c].epoch = ep /\ turns'[c].rid = r
      /\ \A d \in Callers : d # c => turns'[d] = turns[d]
      /\ turns[c].pc = "idle"
  BY DEF claim_turn, ExecutorInv, ExecutorTypeOK, NoTurn
<1>3. /\ claims'[a][s] = [status |-> "CLAIMED", epoch |-> ep, rid |-> r]
      /\ \A b \in Agents, n \in Steps : b # a \/ n # s => claims'[b][n] = claims[b][n]
  BY <1>1 DEF ExecutorInv, StoreInv, StoreTypeOK
<1>4. \A d \in Callers : d # c /\ InTurn(d) => turns[d].agent # a
  <2> SUFFICES ASSUME NEW d \in Callers, InTurn(d), turns[d].agent = a
               PROVE  FALSE
    OBVIOUS
  <2>1. HoldsClaim(d)
    BY DEF ExecutorInv, TurnsHoldClaims
  <2> QED
    BY <1>1, <2>1 DEF HoldsClaim
<1>5. TurnsHoldClaims'
  <2> SUFFICES ASSUME NEW d \in Callers, InTurn(d)'
               PROVE  HoldsClaim(d)'
    BY DEF TurnsHoldClaims
  <2>1. CASE d = c
    <3>1. ep <= agents[a].epoch /\ ep >= InitialEpoch
      BY <1>1, StoreAssumption DEF HeldEpochs, ExecutorInv, StoreInv, StoreTypeOK, AgentRows
    <3> QED
      BY <1>1, <1>2, <1>3, <2>1, <3>1 DEF HoldsClaim, Registered
  <2>2. CASE d # c
    <3>1. InTurn(d) /\ turns'[d] = turns[d]
      BY <1>2, <2>2 DEF InTurn
    <3>2. HoldsClaim(d) /\ turns[d].agent # a
      BY <1>4, <2>2, <3>1 DEF ExecutorInv, TurnsHoldClaims
    <3> QED
      BY <1>1, <1>3, <3>1, <3>2 DEF HoldsClaim, Registered
  <2> QED
    BY <2>1, <2>2
<1>6. OneTurnAtATime'
  BY <1>2, <1>4 DEF ExecutorInv, OneTurnAtATime, InTurn
<1>7. ClaimsAreExplained'
  <2> SUFFICES ASSUME NEW b \in Agents, NEW n \in Steps, claims'[b][n].status = "CLAIMED"
               PROVE  \E d \in Callers :
                         /\ TurnOf(d, b, n)'
                         /\ turns'[d].rid = claims'[b][n].rid
                         /\ turns'[d].epoch = claims'[b][n].epoch
                         /\ \/ InTurn(d)' \/ turns'[d].pc = "dead"
                            \/ turns'[d].pc = "raised" /\ turns'[d].epoch < agents'[b].epoch
    BY DEF ClaimsAreExplained
  <2>1. CASE b = a /\ n = s
    BY <1>2, <1>3, <2>1 DEF TurnOf, InTurn
  <2>2. CASE b # a \/ n # s
    <3>1. claims[b][n] = claims'[b][n]
      BY <1>3, <2>2
    <3>2. PICK d \in Callers :
            /\ TurnOf(d, b, n)
            /\ turns[d].rid = claims[b][n].rid
            /\ turns[d].epoch = claims[b][n].epoch
            /\ \/ InTurn(d) \/ turns[d].pc = "dead"
               \/ turns[d].pc = "raised" /\ turns[d].epoch < agents[b].epoch
      BY <3>1 DEF ExecutorInv, ClaimsAreExplained
    <3>3. turns'[d] = turns[d]
      BY <1>2, <3>2 DEF InTurn
    <3> QED
      BY <1>1, <3>1, <3>2, <3>3 DEF TurnOf, InTurn
  <2> QED
    BY <2>1, <2>2
<1>8. ResultsAreCommitted' /\ OneResultPerStep'
  BY <1>1, <1>2 DEF ExecutorInv, ResultsAreCommitted, OneResultPerStep, Registered
<1>9. ClaimedAreRegistered'
  BY <1>1, <1>3 DEF ExecutorInv, ClaimedAreRegistered, Registered
<1> QED
  BY <1>5, <1>6, <1>7, <1>8, <1>9

\* Failing a turn gives its own claim back and nobody else's.
LEMMA RaiseKeepsTurns ==
    ASSUME ExecutorInv, StoreTypeOK', ExecutorTypeOK', NEW c \in Callers, generate_raises(c)
    PROVE  /\ TurnsHoldClaims' /\ OneTurnAtATime' /\ ClaimsAreExplained'
           /\ ResultsAreCommitted' /\ OneResultPerStep' /\ ClaimedAreRegistered'
<1> DEFINE a == turns[c].agent
           s == turns[c].step
<1>1. InTurn(c) /\ HoldsClaim(c)
  BY DEF generate_raises, InTurn, ExecutorInv, TurnsHoldClaims
<1>2. a \in Agents /\ s \in Steps
  BY <1>1 DEF HoldsClaim
<1>3. agents' = agents /\ claims' = [claims EXCEPT ![a][s].status = "FAILED"]
  BY DEF generate_raises, fail_claimed_step
<1>4. /\ turns'[c].pc = "raised"
      /\ turns'[c].agent = a /\ turns'[c].step = s
      /\ \A d \in Callers : d # c => turns'[d] = turns[d]
  BY DEF generate_raises, ExecutorInv, ExecutorTypeOK, Turns
<1>5. /\ claims'[a][s].status = "FAILED"
      /\ \A b \in Agents, n \in Steps : b # a \/ n # s => claims'[b][n] = claims[b][n]
  <2>1. claims \in [Agents -> [Steps -> ClaimRows]] /\ claims[a][s] \in ClaimRows
    BY <1>2 DEF ExecutorInv, StoreInv, StoreTypeOK
  <2>2. claims'[a][s] = [claims[a][s] EXCEPT !.status = "FAILED"]
    BY <1>2, <1>3, <2>1
  <2>3. claims'[a][s].status = "FAILED"
    BY <2>1, <2>2 DEF ClaimRows
  <2> QED
    BY <1>2, <1>3, <2>1, <2>3
<1>6. \A d \in Callers : d # c /\ InTurn(d) => turns[d].agent # a
  BY <1>1 DEF ExecutorInv, OneTurnAtATime
<1>7. \A d \in Callers : InTurn(d)' => d # c /\ InTurn(d) /\ turns'[d] = turns[d]
  BY <1>4 DEF InTurn
<1>8. TurnsHoldClaims'
  <2> SUFFICES ASSUME NEW d \in Callers, d # c, InTurn(d), turns'[d] = turns[d]
               PROVE  HoldsClaim(d)'
    BY <1>7 DEF TurnsHoldClaims
  <2>1. HoldsClaim(d) /\ turns[d].agent # a
    BY <1>6 DEF ExecutorInv, TurnsHoldClaims
  <2> QED
    BY <1>3, <1>5, <2>1 DEF HoldsClaim, Registered
<1>9. OneTurnAtATime'
  BY <1>7 DEF ExecutorInv, OneTurnAtATime
<1>10. ClaimsAreExplained'
  <2> SUFFICES ASSUME NEW b \in Agents, NEW n \in Steps, claims'[b][n].status = "CLAIMED"
               PROVE  \E d \in Callers :
                         /\ TurnOf(d, b, n)'
                         /\ turns'[d].rid = claims'[b][n].rid
                         /\ turns'[d].epoch = claims'[b][n].epoch
                         /\ \/ InTurn(d)' \/ turns'[d].pc = "dead"
                            \/ turns'[d].pc = "raised" /\ turns'[d].epoch < agents'[b].epoch
    BY DEF ClaimsAreExplained
  <2>1. (b # a \/ n # s) /\ claims'[b][n] = claims[b][n]
    BY <1>5
  <2>2. PICK d \in Callers :
            /\ TurnOf(d, b, n)
            /\ turns[d].rid = claims[b][n].rid
            /\ turns[d].epoch = claims[b][n].epoch
            /\ \/ InTurn(d) \/ turns[d].pc = "dead"
               \/ turns[d].pc = "raised" /\ turns[d].epoch < agents[b].epoch
    BY <2>1 DEF ExecutorInv, ClaimsAreExplained
  <2>3. turns'[d] = turns[d]
    BY <1>4, <2>1, <2>2 DEF TurnOf
  <2> QED
    BY <1>3, <2>1, <2>2, <2>3 DEF TurnOf, InTurn
<1>11. ResultsAreCommitted' /\ OneResultPerStep'
  BY <1>3, <1>4 DEF ExecutorInv, ResultsAreCommitted, OneResultPerStep, Registered
<1>12. ClaimedAreRegistered'
  BY <1>3, <1>5 DEF ExecutorInv, ClaimedAreRegistered, Registered
<1> QED
  BY <1>8, <1>9, <1>10, <1>11, <1>12

\* The end of a turn is written by its commit alone.
LEMMA WritesPc ==
    ASSUME turns \in [Callers -> Turns], NEW c \in Callers,
           NEW pc \in {"raised", "returned", "dead"}, turns' = [turns EXCEPT ![c].pc = pc]
    PROVE  /\ turns'[c].pc = pc
           /\ \A d \in Callers : d # c => turns'[d] = turns[d]
<1>1. turns[c] \in Turns
  OBVIOUS
<1>2. turns'[c] = [turns[c] EXCEPT !.pc = pc]
  OBVIOUS
<1>3. [turns[c] EXCEPT !.pc = pc].pc = pc
  BY <1>1 DEF Turns
<1> QED
  BY <1>2, <1>3

\* A commit moves the agent on, or finds its claim lost and writes nothing.
LEMMA CommitTurnCases ==
    ASSUME turns \in [Callers -> Turns], NEW c \in Callers, commit_turn(c)
    PROVE  \/ /\ commit_claimed_step(turns[c].agent, turns[c].step, turns[c].epoch, turns[c].rid)
              /\ turns' = [turns EXCEPT ![c].pc = "returned"]
              /\ turns'[c].pc = "returned"
           \/ /\ ~CanCommitTurn(c)
              /\ turns' = [turns EXCEPT ![c].pc = "raised"]
              /\ turns'[c].pc = "raised"
              /\ UNCHANGED storeVars
<1>1. CASE /\ commit_claimed_step(turns[c].agent, turns[c].step, turns[c].epoch, turns[c].rid)
           /\ turns' = [turns EXCEPT ![c].pc = "returned"]
  BY <1>1, WritesPc
<1>2. CASE /\ ~CanCommitTurn(c)
           /\ turns' = [turns EXCEPT ![c].pc = "raised"]
           /\ UNCHANGED storeVars
  BY <1>2, WritesPc
<1> QED
  BY <1>1, <1>2 DEF commit_turn

\* A commit completes the call's own claim, which was on the next step of its agent.
LEMMA CommitKeepsTurns ==
    ASSUME ExecutorInv, StoreTypeOK', ExecutorTypeOK', NEW c \in Callers, commit_turn(c),
           turns'[c].pc = "returned"
    PROVE  /\ TurnsHoldClaims' /\ OneTurnAtATime' /\ ClaimsAreExplained'
           /\ ResultsAreCommitted' /\ OneResultPerStep' /\ ClaimedAreRegistered'
<1> DEFINE a == turns[c].agent
           s == turns[c].step
<1>1. InTurn(c) /\ HoldsClaim(c)
  BY DEF commit_turn, InTurn, ExecutorInv, TurnsHoldClaims
<1>2. a \in Agents /\ s \in Steps /\ s \in Nat /\ Registered(a) /\ s = agents[a].step + 1
  BY <1>1, StoreAssumption DEF HoldsClaim, Steps
<1>3. /\ agents' = [agents EXCEPT ![a].step = s]
      /\ claims' = [claims EXCEPT ![a][s].status = "COMPLETED"]
      /\ turns' = [turns EXCEPT ![c].pc = "returned"]
  BY CommitTurnCases DEF commit_claimed_step, ExecutorInv, ExecutorTypeOK
<1>4. /\ turns'[c].agent = a /\ turns'[c].step = s
      /\ \A d \in Callers : d # c => turns'[d] = turns[d]
  BY <1>3 DEF ExecutorInv, ExecutorTypeOK, Turns
<1>5. /\ claims'[a][s].status = "COMPLETED"
      /\ \A b \in Agents, n \in Steps : b # a \/ n # s => claims'[b][n] = claims[b][n]
  <2>1. claims \in [Agents -> [Steps -> ClaimRows]] /\ claims[a][s] \in ClaimRows
    BY <1>2 DEF ExecutorInv, StoreInv, StoreTypeOK
  <2>2. claims'[a][s] = [claims[a][s] EXCEPT !.status = "COMPLETED"]
    BY <1>2, <1>3, <2>1
  <2>3. claims'[a][s].status = "COMPLETED"
    BY <2>1, <2>2 DEF ClaimRows
  <2> QED
    BY <1>2, <1>3, <2>1, <2>3
<1>6. /\ agents'[a].step = s
      /\ \A b \in Agents : b # a => agents'[b] = agents[b]
      /\ \A b \in Agents : /\ agents'[b].owner = agents[b].owner
                           /\ agents'[b].epoch = agents[b].epoch
                           /\ agents'[b].step >= agents[b].step
  <2>1. agents \in [Agents -> AgentRows] /\ agents[a].step \in Nat
    BY <1>2 DEF ExecutorInv, StoreInv, StoreTypeOK, AgentRows
  <2>2. \A b \in Agents : b # a => agents'[b] = agents[b]
    BY <1>3, <2>1
  <2>3. agents'[a] = [agents[a] EXCEPT !.step = s]
    BY <1>2, <1>3, <2>1
  <2>4. /\ agents'[a].step = s /\ agents'[a].owner = agents[a].owner
        /\ agents'[a].epoch = agents[a].epoch
    BY <1>2, <2>1, <2>3 DEF AgentRows
  <2>5. \A b \in Agents : agents[b].step \in Nat
    BY <2>1 DEF AgentRows
  <2>6. \A b \in Agents : agents'[b].step >= agents[b].step
    BY <1>2, <2>2, <2>4, <2>5
  <2> QED
    BY <2>2, <2>4, <2>6
<1>7. \A d \in Callers : d # c /\ InTurn(d) => turns[d].agent # a
  BY <1>1 DEF ExecutorInv, OneTurnAtATime
<1>8. \A d \in Callers : InTurn(d)' => d # c /\ InTurn(d) /\ turns'[d] = turns[d]
  BY <1>4 DEF InTurn
<1>9. TurnsHoldClaims'
  <2> SUFFICES ASSUME NEW d \in Callers, d # c, InTurn(d), turns'[d] = turns[d]
               PROVE  HoldsClaim(d)'
    BY <1>8 DEF TurnsHoldClaims
  <2>1. HoldsClaim(d) /\ turns[d].agent # a
    BY <1>7 DEF ExecutorInv, TurnsHoldClaims
  <2> QED
    BY <1>5, <1>6, <2>1 DEF HoldsClaim, Registered
<1>10. OneTurnAtATime'
  BY <1>8 DEF ExecutorInv, OneTurnAtATime
<1>11. ClaimsAreExplained'
  <2> SUFFICES ASSUME NEW b \in Agents, NEW n \in Steps, claims'[b][n].status = "CLAIMED"
               PROVE  \E d \in Callers :
                         /\ TurnOf(d, b, n)'
                         /\ turns'[d].rid = claims'[b][n].rid
                         /\ turns'[d].epoch = claims'[b][n].epoch
                         /\ \/ InTurn(d)' \/ turns'[d].pc = "dead"
                            \/ turns'[d].pc = "raised" /\ turns'[d].epoch < agents'[b].epoch
    BY DEF ClaimsAreExplained
  <2>1. (b # a \/ n # s) /\ claims'[b][n] = claims[b][n]
    BY <1>5
  <2>2. PICK d \in Callers :
            /\ TurnOf(d, b, n)
            /\ turns[d].rid = claims[b][n].rid
            /\ turns[d].epoch = claims[b][n].epoch
            /\ \/ InTurn(d) \/ turns[d].pc = "dead"
               \/ turns[d].pc = "raised" /\ turns[d].epoch < agents[b].epoch
    BY <2>1 DEF ExecutorInv, ClaimsAreExplained
  <2>3. turns'[d] = turns[d]
    BY <1>4, <2>1, <2>2 DEF TurnOf
  <2> QED
    BY <1>6, <2>1, <2>2, <2>3 DEF TurnOf, InTurn
<1>12. /\ \A d \in Callers : turns'[d].pc = "returned" => d = c \/ turns[d].pc = "returned"
       /\ \A d \in Callers : turns'[d].agent = turns[d].agent /\ turns'[d].step = turns[d].step
  BY <1>4
<1>13. ResultsAreCommitted'
  <2> SUFFICES ASSUME NEW d \in Callers, turns'[d].pc = "returned"
               PROVE  /\ turns[d].agent \in Agents /\ turns[d].step \in Nat
                      /\ agents'[turns[d].agent].owner # None
                      /\ turns[d].step <= agents'[turns[d].agent].step
    BY <1>12 DEF ResultsAreCommitted, Registered
  <2>1. CASE d = c
    <3>1. agents'[a].owner # None /\ s <= agents'[a].step
      BY <1>2, <1>6 DEF Registered
    <3> QED
      BY <1>2, <2>1, <3>1
  <2>2. CASE d # c
    <3>1. /\ turns[d].agent \in Agents /\ turns[d].step \in Nat
          /\ Registered(turns[d].agent)
          /\ turns[d].step <= agents[turns[d].agent].step
      BY <1>12, <2>2 DEF ExecutorInv, ResultsAreCommitted
    <3>2. agents[turns[d].agent].step \in Nat /\ agents'[turns[d].agent].step \in Nat
      BY <3>1 DEF ExecutorInv, StoreInv, StoreTypeOK, AgentRows
    <3>3. agents'[turns[d].agent].step >= agents[turns[d].agent].step
      BY <1>6, <3>1
    <3>4. turns[d].step <= agents'[turns[d].agent].step
      BY <3>1, <3>2, <3>3
    <3> QED
      BY <1>6, <3>1, <3>4 DEF Registered
  <2> QED
    BY <2>1, <2>2
<1>14. OneResultPerStep'
  <2>1. \A d \in Callers : turns[d].pc = "returned" /\ turns[d].agent = a => turns[d].step # s
    <3> SUFFICES ASSUME NEW d \in Callers, turns[d].pc = "returned", turns[d].agent = a,
                        turns[d].step = s
                 PROVE  FALSE
      OBVIOUS
    <3>1. s <= agents[a].step
      BY DEF ExecutorInv, ResultsAreCommitted
    <3>2. agents[a].step \in Nat
      BY <1>2 DEF ExecutorInv, StoreInv, StoreTypeOK, AgentRows
    <3> QED
      BY <1>2, <3>1, <3>2
  <2> QED
    BY <1>12, <2>1 DEF ExecutorInv, OneResultPerStep
<1>15. ClaimedAreRegistered'
  BY <1>5, <1>6 DEF ExecutorInv, ClaimedAreRegistered, Registered
<1> QED
  BY <1>9, <1>10, <1>11, <1>13, <1>14, <1>15

\* Every step of a call keeps what is said about the calls.
LEMMA TurnStepKeepsTurns ==
    ASSUME ExecutorInv, StoreTypeOK', ExecutorTypeOK', NEW c \in Callers, TurnStep(c)
    PROVE  /\ TurnsHoldClaims' /\ OneTurnAtATime' /\ ClaimsAreExplained'
           /\ ResultsAreCommitted' /\ OneResultPerStep' /\ ClaimedAreRegistered'
<1>0. turns \in [Callers -> Turns] /\ turns[c] \in Turns /\ turns' \in [Callers -> Turns]
  BY DEF ExecutorInv, ExecutorTypeOK
<1>1. ASSUME NEW a \in Agents, NEW s \in Steps, NEW e \in Engines, NEW r \in Rids,
             NEW ep \in HeldEpochs(a), claim_turn(c, a, s, e, ep, r)
      PROVE  /\ TurnsHoldClaims' /\ OneTurnAtATime' /\ ClaimsAreExplained'
             /\ ResultsAreCommitted' /\ OneResultPerStep' /\ ClaimedAreRegistered'
  BY <1>1, ClaimKeepsTurns
<1>2. ASSUME NEW n \in Lengths, generate_returns(c, n)
      PROVE  /\ TurnsHoldClaims' /\ OneTurnAtATime' /\ ClaimsAreExplained'
             /\ ResultsAreCommitted' /\ OneResultPerStep' /\ ClaimedAreRegistered'
  <2>1. /\ InTurn(c) /\ InTurn(c)' /\ turns'[c].pc = "commit"
        /\ turns'[c].agent = turns[c].agent /\ turns'[c].step = turns[c].step
        /\ turns'[c].rid = turns[c].rid /\ turns'[c].epoch = turns[c].epoch
        /\ turns'[c].engine = turns[c].engine
        /\ \A d \in Callers \ {c} : turns'[d] = turns[d]
    BY <1>0, <1>2 DEF generate_returns, InTurn, Turns
  <2> QED
    BY <1>0, <1>2, <2>1, QuietStepKeepsTurns DEF generate_returns, OnlyTurn
<1>3. CASE generate_raises(c)
  BY <1>3, RaiseKeepsTurns
<1>4. CASE commit_turn(c)
  <2>1. CASE turns'[c].pc = "returned"
    BY <1>4, <2>1, CommitKeepsTurns
  <2>2. CASE turns'[c].pc # "returned"
    <3>1. InTurn(c) /\ HoldsClaim(c)
      BY <1>4 DEF commit_turn, InTurn, ExecutorInv, TurnsHoldClaims
    <3>2. /\ ~CanCommitTurn(c)
          /\ turns' = [turns EXCEPT ![c].pc = "raised"]
          /\ UNCHANGED storeVars
      BY <1>0, <1>4, <2>2, CommitTurnCases
    <3>3. turns[c].epoch < agents[turns[c].agent].epoch
      <4>1. turns[c].epoch # agents[turns[c].agent].epoch
        BY <3>1, <3>2 DEF HoldsClaim, CanCommitTurn
      <4>2. turns[c].epoch \in Nat /\ agents[turns[c].agent].epoch \in Nat
        BY <1>0, <3>1 DEF HoldsClaim, Turns, ExecutorInv, StoreInv, StoreTypeOK, AgentRows
      <4> QED
        BY <3>1, <4>1, <4>2 DEF HoldsClaim
    <3>4. /\ turns'[c].pc = "raised"
          /\ turns'[c].agent = turns[c].agent /\ turns'[c].step = turns[c].step
          /\ turns'[c].rid = turns[c].rid /\ turns'[c].epoch = turns[c].epoch
          /\ turns'[c].engine = turns[c].engine
          /\ \A d \in Callers \ {c} : turns'[d] = turns[d]
      BY <1>0, <3>2 DEF Turns
    <3> QED
      BY <1>0, <3>1, <3>2, <3>3, <3>4, QuietStepKeepsTurns DEF OnlyTurn
  <2> QED
    BY <2>1, <2>2
<1>5. CASE caller_dies(c)
  <2>1. /\ InTurn(c) /\ turns'[c].pc = "dead"
        /\ turns'[c].agent = turns[c].agent /\ turns'[c].step = turns[c].step
        /\ turns'[c].rid = turns[c].rid /\ turns'[c].epoch = turns[c].epoch
        /\ turns'[c].engine = turns[c].engine
        /\ \A d \in Callers \ {c} : turns'[d] = turns[d]
    BY <1>0, <1>5 DEF caller_dies, Turns
  <2> QED
    BY <1>0, <1>5, <2>1, QuietStepKeepsTurns DEF caller_dies, OnlyTurn
<1> QED
  BY <1>1, <1>2, <1>3, <1>4, <1>5 DEF TurnStep

\* Every step of a turn, and every move of a lease under it, keeps the invariant.
LEMMA ExecutorInvStep == ExecutorInv /\ [ExecutorNext]_executorVars => ExecutorInv'
<1> SUFFICES ASSUME ExecutorInv, [ExecutorNext]_executorVars
             PROVE  ExecutorInv'
  OBVIOUS
<1>1. [StoreNext]_storeVars
  BY ExecutorStepsTheStore DEF ExecutorInv, StoreInv
<1>2. StoreInv' /\ StoreTypeOK'
  BY <1>1, StoreInvStep DEF ExecutorInv, StoreInv
<1>3. ExecutorTypeOK'
  BY ExecutorTypeStep DEF ExecutorInv, StoreInv
<1>4. CASE LeaseStep
  BY <1>2, <1>3, <1>4, LeaseStepKeepsTurns DEF ExecutorInv
<1>5. CASE \E c \in Callers : TurnStep(c)
  BY <1>2, <1>3, <1>5, TurnStepKeepsTurns DEF ExecutorInv
<1>6. CASE UNCHANGED executorVars
  <2>1. turns' = turns /\ agents' = agents /\ claims' = claims
    BY <1>6 DEF executorVars, storeVars
  <2>2. TurnsHoldClaims' /\ ResultsAreCommitted' /\ ClaimedAreRegistered'
    BY <2>1 DEF ExecutorInv, TurnsHoldClaims, ResultsAreCommitted, ClaimedAreRegistered,
       HoldsClaim, InTurn, Registered
  <2>3. OneTurnAtATime' /\ OneResultPerStep' /\ ClaimsAreExplained'
    BY <2>1 DEF ExecutorInv, OneTurnAtATime, OneResultPerStep, ClaimsAreExplained, TurnOf, InTurn
  <2> QED
    BY <1>2, <1>3, <2>2, <2>3 DEF ExecutorInv
<1> QED
  BY <1>4, <1>5, <1>6 DEF ExecutorNext

\* Every reachable state of the executor satisfies the invariant.
THEOREM ExecutorInvariant == ExecutorSpec => []ExecutorInv
<1>1. ExecutorInit => ExecutorInv
  BY ExecutorInvInit
<1>2. ExecutorInv /\ [ExecutorNext]_executorVars => ExecutorInv'
  BY ExecutorInvStep
<1> QED
  BY <1>1, <1>2, PTL DEF ExecutorSpec

\* The calls and the column they write stay well typed (executor.py:20-31).
THEOREM ExecutorTypeCorrect == ExecutorSpec => []ExecutorTypeOK
<1>1. ExecutorInv => ExecutorTypeOK
  BY DEF ExecutorInv
<1> QED
  BY <1>1, ExecutorInvariant, PTL

\* Every behaviour of the executor is one of the store, so ownership is a chain and authors
\* never go back under it too: the composition adds nothing the store does not allow
\* (executor.py:33-62).
THEOREM ExecutorRunsTheStore == ExecutorSpec => StoreSpec
<1>1. ExecutorInit => StoreInit
  BY DEF ExecutorInit
<1>2. ExecutorInv /\ [ExecutorNext]_executorVars => [StoreNext]_storeVars
  BY ExecutorStepsTheStore DEF ExecutorInv, StoreInv
<1> QED
  BY <1>1, <1>2, ExecutorInvariant, PTL DEF ExecutorSpec, StoreSpec

\* An agent has one turn in progress, whatever callers retry and migrations move
\* (executor.py:33-39).
THEOREM OneTurn == ExecutorSpec => []OneTurnAtATime
<1>1. ExecutorInv => OneTurnAtATime
  BY DEF ExecutorInv
<1> QED
  BY <1>1, ExecutorInvariant, PTL

\* Only a call in progress, a death or a hand-over keeps a claim (executor.py:46-50).
THEOREM ClaimsExplained == ExecutorSpec => []ClaimsAreExplained
<1>1. ExecutorInv => ClaimsAreExplained
  BY DEF ExecutorInv
<1> QED
  BY <1>1, ExecutorInvariant, PTL

\* However often a turn is delivered, one call returns its result (executor.py:60-63).
THEOREM OneResult == ExecutorSpec => []OneResultPerStep
<1>1. ExecutorInv => OneResultPerStep
  BY DEF ExecutorInv
<1> QED
  BY <1>1, ExecutorInvariant, PTL

\* A result is only returned by a holder of the current lease (store.py:264-301).
THEOREM TurnsAreFenced == ExecutorSpec => FencedTurnsCommitNothing
<1>1. ASSUME ExecutorInv, ExecutorTypeOK', [ExecutorNext]_executorVars, NEW c \in Callers,
             turns[c].pc # "returned", turns'[c].pc = "returned"
      PROVE  /\ agents[turns[c].agent].owner = turns[c].engine
             /\ agents[turns[c].agent].epoch = turns[c].epoch
             /\ agents'[turns[c].agent].step = agents[turns[c].agent].step + 1
  <2>0. turns \in [Callers -> Turns]
    BY <1>1 DEF ExecutorInv, ExecutorTypeOK
  <2>1. PICK d \in Callers : TurnStep(d)
    BY <1>1 DEF ExecutorNext, LeaseStep, executorVars
  <2>2. commit_turn(c) /\ commit_claimed_step(turns[c].agent, turns[c].step,
                                              turns[c].epoch, turns[c].rid)
    <3>1. \A a \in Agents, s \in Steps, e \in Engines, r \in Rids : \A ep \in HeldEpochs(a) :
             claim_turn(d, a, s, e, ep, r) => turns'[c].pc \in {"generate", turns[c].pc}
      BY <1>1, <2>0 DEF claim_turn, NoTurn
    <3>2. \A n \in Lengths : generate_returns(d, n) => turns'[c].pc \in {"commit", turns[c].pc}
      <4> SUFFICES ASSUME NEW n \in Lengths, generate_returns(d, n)
                   PROVE  turns'[c].pc \in {"commit", turns[c].pc}
        OBVIOUS
      <4>1. turns' = [turns EXCEPT ![d] =
                        [turns[d] EXCEPT !.pc = "commit", !.out = n,
                                         !.read = stream[turns[d].agent]]]
        BY <2>0 DEF generate_returns
      <4>2. [turns[d] EXCEPT !.pc = "commit", !.out = n,
                             !.read = stream[turns[d].agent]].pc = "commit"
        BY <2>0 DEF Turns
      <4> QED
        BY <2>0, <4>1, <4>2
    <3>3. generate_raises(d) => turns'[c].pc \in {"raised", turns[c].pc}
      BY <2>0, WritesPc DEF generate_raises
    <3>4. caller_dies(d) => turns'[c].pc \in {"dead", turns[c].pc}
      BY <2>0, WritesPc DEF caller_dies
    <3>5. commit_turn(d)
      BY <1>1, <2>1, <3>1, <3>2, <3>3, <3>4 DEF TurnStep
    <3>6. /\ commit_claimed_step(turns[d].agent, turns[d].step, turns[d].epoch, turns[d].rid)
          /\ d = c
      <4>1. CASE d = c
        BY <1>1, <2>0, <3>5, <4>1, CommitTurnCases
      <4>2. CASE d # c
        BY <1>1, <2>0, <3>5, <4>2, CommitTurnCases, WritesPc
      <4> QED
        BY <4>1, <4>2
    <3> QED
      BY <3>5, <3>6
  <2>3. InTurn(c) /\ HoldsClaim(c)
    BY <1>1, <2>2 DEF commit_turn, InTurn, ExecutorInv, TurnsHoldClaims
  <2>5. /\ agents[turns[c].agent].epoch = turns[c].epoch
        /\ turns[c].step = agents[turns[c].agent].step + 1
        /\ agents' = [agents EXCEPT ![turns[c].agent].step = turns[c].step]
    BY <2>2 DEF commit_claimed_step
  <2>6. agents'[turns[c].agent].step = turns[c].step
    BY <1>1, <2>3, <2>5 DEF HoldsClaim, ExecutorInv, StoreInv, StoreTypeOK, AgentRows
  <2> QED
    BY <2>3, <2>5, <2>6 DEF HoldsClaim
<1>2. ExecutorInv /\ ExecutorInv' /\ [ExecutorNext]_executorVars =>
        [\A c \in Callers : turns[c].pc # "returned" /\ turns'[c].pc = "returned" =>
           LET a == turns[c].agent IN
           /\ agents[a].owner = turns[c].engine
           /\ agents[a].epoch = turns[c].epoch
           /\ agents'[a].step = agents[a].step + 1]_executorVars
  BY <1>1 DEF ExecutorInv
<1> QED
  BY <1>2, ExecutorInvariant, PTL DEF ExecutorSpec, FencedTurnsCommitNothing
-----------------------------------------------------------------------------
(* The offset of the stream.  A running total of the results is carried    *)
(* along as a witness, since what TokensOf recurs to is only known once    *)
(* such a function exists; that there is one only is shown at the least    *)
(* step where two of them would differ.                                    *)

\* f adds the results up.
AddsUp(f, results) ==
    /\ f \in [0..MaxStep -> Nat]
    /\ f = [s \in 0..MaxStep |-> IF s = 0 THEN 0 ELSE f[s - 1] + results[s]]

\* Only steps that the agent has reached have results.
UnreachedHaveNone ==
    \A a \in Agents, s \in Steps :
        outputs[a][s] # 0 => Registered(a) /\ s <= agents[a].step

\* A call about to commit has read the offset that is still in the row.
ReadsAreCurrent ==
    \A c \in Callers : turns[c].pc = "commit" => turns[c].read = stream[turns[c].agent]

OffsetCounts(a) == \E f : AddsUp(f, outputs[a]) /\ stream[a] = f[MaxStep]

StreamInv ==
    /\ UnreachedHaveNone
    /\ ReadsAreCurrent
    /\ \A a \in Agents : OffsetCounts(a)

\* A set of numbers that is not empty has a least one.
LEMMA LeastNumber ==
    ASSUME NEW D, D \subseteq Nat, D # {}
    PROVE  \E n \in D : \A m \in D : ~(m < n)
<1>1. PICK n \in D : \A m \in D : ~(<<m, n>> \in OpToRel(<, Nat))
  BY NatLessThanWellFounded, WFMin, Zenon
<1>2. ASSUME NEW m \in D, m < n
      PROVE  FALSE
  <2>1. <<m, n>> \in Nat \X Nat
    OBVIOUS
  <2>2. <<m, n>>[1] < <<m, n>>[2]
    BY <1>2
  <2>3. <<m, n>> \in OpToRel(<, Nat)
    BY <2>1, <2>2, Zenon DEF OpToRel
  <2> QED
    BY <1>1, <2>3, Zenon
<1> QED
  BY <1>2

\* Two functions that add up the same results are one: where they differed first, they would
\* have added the same result to the same total.
LEMMA OneTotal ==
    ASSUME NEW f, NEW g, NEW results, AddsUp(f, results),
           g = [s \in 0..MaxStep |-> IF s = 0 THEN 0 ELSE g[s - 1] + results[s]]
    PROVE  f = g
<1> DEFINE D == {s \in 0..MaxStep : f[s] # g[s]}
<1>1. SUFFICES ASSUME D # {}
               PROVE  FALSE
  <2>1. \A s \in 0..MaxStep : f[s] = g[s]
    BY <1>1
  <2>2. f = [s \in 0..MaxStep |-> f[s]] /\ g = [s \in 0..MaxStep |-> g[s]]
    BY DEF AddsUp
  <2> QED
    BY <2>1, <2>2
<1>2. D \subseteq Nat
  OBVIOUS
<1>3. PICK s \in D : \A r \in D : ~(r < s)
  <2> HIDE DEF D
  <2> QED
    BY <1>1, <1>2, LeastNumber
<1>4. s # 0
  BY DEF AddsUp
<1>5. s - 1 \in 0..MaxStep /\ s - 1 < s
  BY <1>4, StoreAssumption
<1>6. s - 1 \notin D
  <2> HIDE DEF D
  <2> QED
    BY <1>3, <1>5
<1>7. f[s - 1] = g[s - 1]
  BY <1>5, <1>6
<1> QED
  BY <1>4, <1>7 DEF AddsUp

\* The recursion of TokensOf is what any function that adds the results up computes.
LEMMA TokensAddUp ==
    ASSUME NEW f, NEW results, AddsUp(f, results)
    PROVE  TokensOf(results) = f[MaxStep]
<1> DEFINE P(g) == g = [s \in 0..MaxStep |-> IF s = 0 THEN 0 ELSE g[s - 1] + results[s]]
           t == CHOOSE g : P(g)
<1>1. P(f)
  BY DEF AddsUp
<1>2. P(t)
  <2> HIDE DEF P
  <2> QED
    BY <1>1
<1>3. f = t
  <2> HIDE DEF t
  <2> QED
    BY <1>2, OneTotal
<1>4. TokensOf(results) = t[MaxStep]
  BY DEF TokensOf
<1> QED
  BY <1>3, <1>4

\* A result that is added at a step without one adds as much to the total.
LEMMA OneResultMore ==
    ASSUME NEW f, NEW results \in [Steps -> Nat], AddsUp(f, results),
           NEW r \in Steps, NEW n \in Nat, results[r] = 0
    PROVE  \E g : /\ AddsUp(g, [results EXCEPT ![r] = n])
                  /\ g[MaxStep] = f[MaxStep] + n
<1> DEFINE g == [s \in 0..MaxStep |-> IF s < r THEN f[s] ELSE f[s] + n]
           more == [results EXCEPT ![r] = n]
<1>1. MaxStep \in 0..MaxStep /\ MaxStep \in Nat /\ r \in 1..MaxStep /\ r \in Nat /\ r <= MaxStep
  BY StoreAssumption DEF Steps
<1>2. f \in [0..MaxStep -> Nat] /\ g \in [0..MaxStep -> Nat]
  BY <1>1 DEF AddsUp
<1>3. ASSUME NEW s \in 0..MaxStep
      PROVE  g[s] = IF s = 0 THEN 0 ELSE g[s - 1] + more[s]
  <2>1. CASE s = 0
    BY <1>1, <2>1 DEF AddsUp
  <2>2. CASE s # 0
    <3>1. s - 1 \in 0..MaxStep /\ s \in Steps /\ s \in Nat
      BY <1>1, <2>2 DEF Steps
    <3>2. f[s] = f[s - 1] + results[s]
      BY <2>2 DEF AddsUp
    <3>3. f[s] \in Nat /\ f[s - 1] \in Nat /\ results[s] \in Nat
      BY <1>2, <3>1
    <3>4. /\ g[s] = IF s < r THEN f[s] ELSE f[s] + n
          /\ g[s - 1] = IF s - 1 < r THEN f[s - 1] ELSE f[s - 1] + n
      BY <3>1
    <3>5. more[s] = IF s = r THEN n ELSE results[s]
      BY <3>1
    <3>6. s < r \/ s = r \/ s > r
      BY <1>1, <3>1
    <3> HIDE DEF g, more
    <3>7. CASE s < r
      BY <1>1, <2>2, <3>1, <3>2, <3>3, <3>4, <3>5, <3>7
    <3>8. CASE s = r
      BY <1>1, <2>2, <3>1, <3>2, <3>3, <3>4, <3>5, <3>8
    <3>9. CASE s > r
      BY <1>1, <2>2, <3>1, <3>2, <3>3, <3>4, <3>5, <3>9
    <3> QED
      BY <3>6, <3>7, <3>8, <3>9
  <2> QED
    BY <2>1, <2>2
<1>4. g = [s \in 0..MaxStep |-> IF s = 0 THEN 0 ELSE g[s - 1] + more[s]]
  <2>1. g = [s \in 0..MaxStep |-> g[s]]
    OBVIOUS
  <2> HIDE DEF g, more
  <2> QED
    BY <1>3, <2>1
<1>5. g[MaxStep] = f[MaxStep] + n
  BY <1>1
<1> HIDE DEF g, more
<1>6. AddsUp(g, more)
  BY <1>2, <1>4 DEF AddsUp
<1> QED
  BY <1>5, <1>6 DEF more

\* What a step that commits nothing leaves of the offsets.
LEMMA QuietStepKeepsStream ==
    ASSUME ExecutorInv, StreamInv, StoreTypeOK', \A a \in Agents : RowAdvances(a),
           stream' = stream, outputs' = outputs,
           \A c \in Callers : turns'[c].pc = "commit" =>
               turns'[c].read = stream[turns'[c].agent]
    PROVE  StreamInv'
<1>1. UnreachedHaveNone'
  <2> SUFFICES ASSUME NEW a \in Agents, NEW s \in Steps, outputs[a][s] # 0
               PROVE  Registered(a)' /\ s <= agents'[a].step
    BY DEF UnreachedHaveNone
  <2>1. Registered(a) /\ s <= agents[a].step
    BY DEF StreamInv, UnreachedHaveNone
  <2>2. Registered(a)' /\ agents'[a].step >= agents[a].step
    BY <2>1 DEF RowAdvances
  <2>3. s \in Nat /\ agents[a].step \in Nat /\ agents'[a].step \in Nat
    BY StoreAssumption DEF Steps, ExecutorInv, StoreInv, StoreTypeOK, AgentRows
  <2> QED
    BY <2>1, <2>2, <2>3
<1>2. ReadsAreCurrent'
  BY DEF ReadsAreCurrent
<1>3. \A a \in Agents : OffsetCounts(a)'
  BY DEF StreamInv, OffsetCounts
<1> QED
  BY <1>1, <1>2, <1>3 DEF StreamInv

\* A commit adds its result to an offset that no other call could have moved since it was
\* read, at a step that had none.
LEMMA CommitKeepsStream ==
    ASSUME ExecutorInv, StreamInv, StoreTypeOK', NEW c \in Callers, commit_turn(c),
           turns'[c].pc = "returned", \A a \in Agents : RowAdvances(a)
    PROVE  StreamInv'
<1> DEFINE a == turns[c].agent
           s == turns[c].step
           n == turns[c].out
<1>1. InTurn(c) /\ HoldsClaim(c)
  BY DEF commit_turn, InTurn, ExecutorInv, TurnsHoldClaims
<1>2. /\ a \in Agents /\ s \in Steps /\ s \in Nat /\ Registered(a) /\ s = agents[a].step + 1
      /\ turns \in [Callers -> Turns] /\ n \in Nat
      /\ stream \in [Agents -> Nat] /\ outputs \in [Agents -> [Steps -> Nat]]
  BY <1>1, StoreAssumption DEF HoldsClaim, Steps, ExecutorInv, ExecutorTypeOK, Turns
<1>3. /\ turns[c].pc = "commit"
      /\ agents' = [agents EXCEPT ![a].step = s]
      /\ turns' = [turns EXCEPT ![c].pc = "returned"]
      /\ stream' = [stream EXCEPT ![a] = turns[c].read + n]
      /\ outputs' = [outputs EXCEPT ![a][s] = n]
  <2>1. turns' # [turns EXCEPT ![c].pc = "raised"]
    BY <1>2, WritesPc
  <2> QED
    BY <2>1 DEF commit_turn, commit_claimed_step, NewOffset
<1>4. turns[c].read = stream[a]
  BY <1>3 DEF StreamInv, ReadsAreCurrent
<1>5. stream'[a] = stream[a] + n /\ \A b \in Agents \ {a} : stream'[b] = stream[b]
  BY <1>2, <1>3, <1>4
<1>6. /\ outputs'[a] = [outputs[a] EXCEPT ![s] = n]
      /\ \A b \in Agents \ {a} : outputs'[b] = outputs[b]
  BY <1>2, <1>3
<1>7. agents'[a].step = s
  BY <1>2, <1>3 DEF ExecutorInv, StoreInv, StoreTypeOK, AgentRows
<1>8. outputs[a][s] = 0
  <2>1. agents[a].step \in Nat
    BY <1>2 DEF ExecutorInv, StoreInv, StoreTypeOK, AgentRows
  <2>2. ~(s <= agents[a].step)
    BY <1>2, <2>1
  <2> QED
    BY <1>2, <2>2 DEF StreamInv, UnreachedHaveNone
<1>9. UnreachedHaveNone'
  <2> SUFFICES ASSUME NEW b \in Agents, NEW r \in Steps, outputs'[b][r] # 0
               PROVE  Registered(b)' /\ r <= agents'[b].step
    BY DEF UnreachedHaveNone
  <2>0. r \in Nat /\ agents[b].step \in Nat /\ agents'[b].step \in Nat
    BY StoreAssumption DEF Steps, ExecutorInv, StoreInv, StoreTypeOK, AgentRows
  <2>1. CASE b = a /\ r = s
    <3>1. Registered(b)
      BY <1>2, <2>1
    <3>2. Registered(b)'
      BY <3>1 DEF RowAdvances
    <3>3. agents'[b].step = r
      BY <1>7, <2>1
    <3> QED
      BY <2>0, <3>2, <3>3
  <2>2. CASE ~(b = a /\ r = s)
    <3>1. outputs[b][r] # 0
      BY <1>2, <1>6, <2>2
    <3>2. Registered(b) /\ r <= agents[b].step
      BY <3>1 DEF StreamInv, UnreachedHaveNone
    <3>3. Registered(b)' /\ agents'[b].step >= agents[b].step
      BY <3>2 DEF RowAdvances
    <3> QED
      BY <2>0, <3>2, <3>3
  <2> QED
    BY <2>1, <2>2
<1>10. ReadsAreCurrent'
  <2> SUFFICES ASSUME NEW d \in Callers, turns'[d].pc = "commit"
               PROVE  turns'[d].read = stream'[turns'[d].agent]
    BY DEF ReadsAreCurrent
  <2>1. d # c
    BY <2>1
  <2>2. turns'[d] = turns[d] /\ turns[d].pc = "commit"
    BY <1>2, <1>3, <2>1
  <2>3. InTurn(d)
    BY <2>2 DEF InTurn
  <2>4. turns[d].agent # a
    BY <1>1, <2>1, <2>3 DEF ExecutorInv, OneTurnAtATime
  <2>5. turns[d].agent \in Agents
    BY <2>3 DEF ExecutorInv, TurnsHoldClaims, HoldsClaim
  <2> QED
    BY <1>5, <2>2, <2>4, <2>5 DEF StreamInv, ReadsAreCurrent
<1>11. ASSUME NEW b \in Agents
       PROVE  OffsetCounts(b)'
  <2>1. PICK f : AddsUp(f, outputs[b]) /\ stream[b] = f[MaxStep]
    BY DEF StreamInv, OffsetCounts
  <2>2. CASE b = a
    <3>1. \E g : AddsUp(g, [outputs[a] EXCEPT ![s] = n]) /\ g[MaxStep] = f[MaxStep] + n
      <4> HIDE DEF a, s, n
      <4> QED
        BY <1>2, <1>8, <2>1, <2>2, OneResultMore
    <3>2. PICK g : AddsUp(g, [outputs[a] EXCEPT ![s] = n]) /\ g[MaxStep] = f[MaxStep] + n
      BY <3>1
    <3>3. AddsUp(g, outputs'[b]) /\ stream'[b] = g[MaxStep]
      BY <1>5, <1>6, <2>1, <2>2, <3>2
    <3> QED
      BY <3>3 DEF OffsetCounts
  <2>3. CASE b # a
    <3>1. AddsUp(f, outputs'[b]) /\ stream'[b] = f[MaxStep]
      BY <1>5, <1>6, <2>1, <2>3
    <3> QED
      BY <3>1 DEF OffsetCounts
  <2> QED
    BY <2>2, <2>3
<1> QED
  BY <1>9, <1>10, <1>11 DEF StreamInv

\* Every step of the executor keeps the offsets.
LEMMA StreamInvStep ==
    ASSUME ExecutorInv, StreamInv, ExecutorInv', [ExecutorNext]_executorVars
    PROVE  StreamInv'
<1>0. turns \in [Callers -> Turns]
  BY DEF ExecutorInv, ExecutorTypeOK
<1>1. \A a \in Agents : RowAdvances(a)
  <2>1. [StoreNext]_storeVars
    BY ExecutorStepsTheStore DEF ExecutorInv, StoreInv
  <2> QED
    BY <2>1, AgentRowsAdvance DEF ExecutorInv
<1>2. \A c \in Callers : turns[c].pc = "commit" => turns[c].read = stream[turns[c].agent]
  BY DEF StreamInv, ReadsAreCurrent
<1>3. StoreTypeOK'
  BY DEF ExecutorInv, StoreInv
<1>4. CASE LeaseStep \/ UNCHANGED executorVars
  <2>1. turns' = turns /\ stream' = stream /\ outputs' = outputs
    BY <1>4 DEF LeaseStep, executorVars
  <2> QED
    BY <1>1, <1>2, <1>3, <2>1, QuietStepKeepsStream
<1>5. ASSUME NEW c \in Callers, TurnStep(c)
      PROVE  StreamInv'
  <2>1. ASSUME NEW a \in Agents, NEW s \in Steps, NEW e \in Engines, NEW r \in Rids,
               NEW ep \in HeldEpochs(a), claim_turn(c, a, s, e, ep, r)
        PROVE  StreamInv'
    <3>1. stream' = stream /\ outputs' = outputs
      BY <2>1 DEF claim_turn
    <3>2. turns'[c].pc = "generate" /\ \A d \in Callers \ {c} : turns'[d] = turns[d]
      BY <1>0, <2>1 DEF claim_turn, NoTurn
    <3> QED
      BY <1>1, <1>2, <1>3, <3>1, <3>2, QuietStepKeepsStream
  <2>2. ASSUME NEW n \in Lengths, generate_returns(c, n)
        PROVE  StreamInv'
    <3>1. stream' = stream /\ outputs' = outputs
      BY <2>2 DEF generate_returns
    <3>2. /\ turns'[c].read = stream[turns[c].agent] /\ turns'[c].agent = turns[c].agent
          /\ \A d \in Callers \ {c} : turns'[d] = turns[d]
      BY <1>0, <2>2 DEF generate_returns, Turns
    <3> QED
      BY <1>1, <1>2, <1>3, <3>1, <3>2, QuietStepKeepsStream
  <2>3. CASE generate_raises(c)
    <3>1. stream' = stream /\ outputs' = outputs
      BY <2>3 DEF generate_raises
    <3>2. turns'[c].pc = "raised" /\ \A d \in Callers : d # c => turns'[d] = turns[d]
      BY <1>0, <2>3, WritesPc DEF generate_raises
    <3> QED
      BY <1>1, <1>2, <1>3, <3>1, <3>2, QuietStepKeepsStream
  <2>4. CASE commit_turn(c) /\ turns'[c].pc = "returned"
    BY <1>1, <1>3, <2>4, CommitKeepsStream
  <2>5. CASE commit_turn(c) /\ turns'[c].pc # "returned"
    <3>1. turns' = [turns EXCEPT ![c].pc = "raised"] /\ turns'[c].pc = "raised"
      BY <1>0, <2>5, CommitTurnCases
    <3>2. turns' # [turns EXCEPT ![c].pc = "returned"]
      BY <1>0, <2>5, WritesPc
    <3>3. stream' = stream /\ outputs' = outputs
      BY <2>5, <3>2 DEF commit_turn
    <3>4. \A d \in Callers : d # c => turns'[d] = turns[d]
      BY <1>0, <3>1, WritesPc
    <3> QED
      BY <1>1, <1>2, <1>3, <3>1, <3>3, <3>4, QuietStepKeepsStream
  <2>6. CASE caller_dies(c)
    <3>1. stream' = stream /\ outputs' = outputs
      BY <2>6 DEF caller_dies
    <3>2. turns'[c].pc = "dead" /\ \A d \in Callers : d # c => turns'[d] = turns[d]
      BY <1>0, <2>6, WritesPc DEF caller_dies
    <3> QED
      BY <1>1, <1>2, <1>3, <3>1, <3>2, QuietStepKeepsStream
  <2> QED
    BY <1>5, <2>1, <2>2, <2>3, <2>4, <2>5, <2>6 DEF TurnStep
<1> QED
  BY <1>4, <1>5 DEF ExecutorNext

\* The offsets start at zero, with no results.
LEMMA StreamInvInit == ExecutorInit => StreamInv
<1> SUFFICES ASSUME ExecutorInit PROVE StreamInv
  OBVIOUS
<1>1. UnreachedHaveNone
  BY DEF ExecutorInit, UnreachedHaveNone
<1>2. ReadsAreCurrent
  BY DEF ExecutorInit, ReadsAreCurrent, NoTurn
<1>3. ASSUME NEW a \in Agents
      PROVE  OffsetCounts(a)
  <2> DEFINE f == [s \in 0..MaxStep |-> 0]
  <2>1. outputs[a] = [s \in Steps |-> 0] /\ stream[a] = 0
    BY DEF ExecutorInit
  <2>2. \A s \in 0..MaxStep : s # 0 => s \in Steps /\ s - 1 \in 0..MaxStep
    BY StoreAssumption DEF Steps
  <2>3. f = [s \in 0..MaxStep |-> IF s = 0 THEN 0 ELSE f[s - 1] + outputs[a][s]]
    BY <2>1, <2>2
  <2>4. f \in [0..MaxStep -> Nat] /\ f[MaxStep] = 0
    BY StoreAssumption
  <2> QED
    BY <2>1, <2>3, <2>4 DEF OffsetCounts, AddsUp
<1> QED
  BY <1>1, <1>2, <1>3 DEF StreamInv

\* The offset in the row counts the tokens of the committed results, none twice and none
\* lost, although it is written from a row read before the transaction (executor.py:52-62).
THEOREM OffsetIsTheStream == ExecutorSpec => []ReturnsAreTheStream
<1>1. ExecutorInit => StreamInv
  BY StreamInvInit
<1>2. StreamInv /\ ExecutorInv /\ ExecutorInv' /\ [ExecutorNext]_executorVars => StreamInv'
  BY StreamInvStep
<1>3. ExecutorInv /\ StreamInv => ReturnsAreTheStream
  <2> SUFFICES ASSUME ExecutorInv, StreamInv, NEW a \in Agents
               PROVE  stream[a] = TokensOf(outputs[a])
    BY DEF ReturnsAreTheStream, ExecutorInv
  <2>1. PICK f : AddsUp(f, outputs[a]) /\ stream[a] = f[MaxStep]
    BY DEF StreamInv, OffsetCounts
  <2> QED
    BY <2>1, TokensAddUp
<1> QED
  BY <1>1, <1>2, <1>3, ExecutorInvariant, PTL DEF ExecutorSpec
=============================================================================
