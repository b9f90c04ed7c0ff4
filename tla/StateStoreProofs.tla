-------------------------- MODULE StateStoreProofs --------------------------
(***************************************************************************)
(* Theorems about StateStore for every set of agents, engines, migrations  *)
(* and request ids.  The argument has three layers: the types; StoreInv,   *)
(* the inductive invariant that makes ownership a chain of hand-overs; and *)
(* StepAuthorship, which rests on the types alone because every author is  *)
(* checked against the agent row inside its transaction.                   *)
(***************************************************************************)
EXTENDS StateStore, FiniteSetTheorems, TLAPS

\* The inductive invariant behind HandoverChain: a commit needs that no other
\* migration of the agent is live and that its epoch has been reached.
StoreInv ==
    /\ StoreTypeOK
    /\ RowsWellFormed
    /\ OneLiveMigration
    /\ HandoverChain
    /\ CommittedLeaseIsCurrent

-----------------------------------------------------------------------------
(* Types. *)

\* The empty tables are well typed.
LEMMA StoreTypeInit == StoreInit => StoreTypeOK
BY StoreAssumption
   DEF StoreInit, StoreTypeOK, NoAgent, NoMigration, NoClaim, AgentRows,
       MigrationRows, ClaimRows, LiveStates, DoneStates, ClaimStates

\* Writing one column of a row keeps the row well typed.
LEMMA RowUpdates ==
    /\ \A row \in AgentRows : \A s \in Nat : [row EXCEPT !.step = s] \in AgentRows
    /\ \A row \in AgentRows : \A e \in Engines, n \in Nat :
          [owner |-> e, epoch |-> n, step |-> row.step] \in AgentRows
    /\ \A row \in MigrationRows : \A t \in LiveStates \cup DoneStates :
          [row EXCEPT !.state = t] \in MigrationRows
    /\ \A row \in ClaimRows : \A t \in ClaimStates :
          [row EXCEPT !.status = t] \in ClaimRows
<1>1. \A row \in AgentRows : \A s \in Nat : [row EXCEPT !.step = s] \in AgentRows
  BY DEF AgentRows
<1>2. \A row \in AgentRows : \A e \in Engines, n \in Nat :
         [owner |-> e, epoch |-> n, step |-> row.step] \in AgentRows
  BY DEF AgentRows
<1>3. \A row \in MigrationRows : \A t \in LiveStates \cup DoneStates :
         [row EXCEPT !.state = t] \in MigrationRows
  BY DEF MigrationRows
<1>4. \A row \in ClaimRows : \A t \in ClaimStates : [row EXCEPT !.status = t] \in ClaimRows
  BY DEF ClaimRows
<1>5. QED
  BY <1>1, <1>2, <1>3, <1>4

\* Every call keeps the tables well typed.
LEMMA StoreTypeStep == StoreTypeOK /\ [StoreNext]_storeVars => StoreTypeOK'
<1> SUFFICES ASSUME StoreTypeOK, [StoreNext]_storeVars
             PROVE  StoreTypeOK'
  OBVIOUS
<1>1. ASSUME NEW a \in Agents, NEW e \in Engines, register_agent(a, e)
      PROVE  StoreTypeOK'
  BY <1>1, StoreAssumption DEF register_agent, StoreTypeOK, AgentRows
<1>2. ASSUME NEW a \in Agents, NEW s \in Steps, NEW ep \in HeldEpochs(a),
             commit_step(a, s, ep)
      PROVE  StoreTypeOK'
  <2>1. s \in Nat
    BY StoreAssumption DEF Steps
  <2>2. [agents[a] EXCEPT !.step = s] \in AgentRows
    BY <2>1, RowUpdates DEF StoreTypeOK
  <2>3. agents' = [agents EXCEPT ![a] = [agents[a] EXCEPT !.step = s]]
    BY <1>2 DEF commit_step
  <2>4. QED
    BY <1>2, <2>2, <2>3 DEF commit_step, StoreTypeOK
<1>3. ASSUME NEW a \in Agents, NEW s \in Steps, NEW ep \in HeldEpochs(a),
             NEW r \in Rids, NEW e \in Engines, claim_step(a, s, e, ep, r)
      PROVE  StoreTypeOK'
  <2>1. ep \in Nat
    BY <1>3 DEF claim_step, StoreTypeOK, AgentRows
  <2>2. [status |-> "CLAIMED", epoch |-> ep, rid |-> r] \in ClaimRows
    BY <2>1 DEF ClaimRows, ClaimStates
  <2>3. claims' \in [Agents -> [Steps -> ClaimRows]]
    BY <1>3, <2>2 DEF claim_step, StoreTypeOK
  <2>4. QED
    BY <1>3, <2>3 DEF claim_step, StoreTypeOK
<1>4. ASSUME NEW a \in Agents, NEW s \in Steps, NEW ep \in HeldEpochs(a),
             NEW r \in Rids, commit_claimed_step(a, s, ep, r)
      PROVE  StoreTypeOK'
  <2>1. s \in Nat
    BY StoreAssumption DEF Steps
  <2>2. agents' = [agents EXCEPT ![a] = [agents[a] EXCEPT !.step = s]]
    BY <1>4 DEF commit_claimed_step
  <2>3. [agents[a] EXCEPT !.step = s] \in AgentRows
    BY <2>1, RowUpdates DEF StoreTypeOK
  <2>4. [claims[a][s] EXCEPT !.status = "COMPLETED"] \in ClaimRows
    BY RowUpdates DEF StoreTypeOK, ClaimStates
  <2>5. claims' = [claims EXCEPT ![a] =
            [claims[a] EXCEPT ![s] = [claims[a][s] EXCEPT !.status = "COMPLETED"]]]
    BY <1>4 DEF commit_claimed_step
  <2>6. agents' \in [Agents -> AgentRows] /\ claims' \in [Agents -> [Steps -> ClaimRows]]
    BY <2>2, <2>3, <2>4, <2>5 DEF StoreTypeOK
  <2>7. QED
    BY <1>4, <2>6 DEF commit_claimed_step, StoreTypeOK
<1>5. ASSUME NEW a \in Agents, NEW s \in Steps, NEW r \in Rids,
             NEW unknown \in BOOLEAN, fail_claimed_step(a, s, r, unknown)
      PROVE  StoreTypeOK'
  <2> DEFINE t == IF unknown THEN "UNKNOWN" ELSE "FAILED"
  <2>1. t \in ClaimStates
    BY DEF ClaimStates
  <2>2. [claims[a][s] EXCEPT !.status = t] \in ClaimRows
    BY <2>1, RowUpdates DEF StoreTypeOK
  <2>3. claims' = [claims EXCEPT ![a] =
            [claims[a] EXCEPT ![s] = [claims[a][s] EXCEPT !.status = t]]]
    BY <1>5 DEF fail_claimed_step
  <2> HIDE DEF t
  <2>4. claims' \in [Agents -> [Steps -> ClaimRows]]
    BY <2>2, <2>3 DEF StoreTypeOK
  <2>5. QED
    BY <1>5, <2>4 DEF fail_claimed_step, StoreTypeOK
<1>6. ASSUME NEW m \in Migrations, NEW a \in Agents, NEW e \in Engines,
             NEW d \in Engines, NEW ep \in HeldEpochs(a),
             start_migration_check(m, a, e, d, ep)
      PROVE  StoreTypeOK'
  <2>1. ep \in Nat
    BY <1>6 DEF start_migration_check, StoreTypeOK, AgentRows
  <2>2. [agent |-> a, source |-> e, destination |-> d, epoch |-> ep,
         state |-> "PREPARING"] \in MigrationRows
    BY <2>1 DEF MigrationRows, LiveStates
  <2>3. QED
    BY <1>6, <2>2 DEF start_migration_check, StoreTypeOK
<1>7. ASSUME NEW m \in Migrations, start_migration_insert(m)
      PROVE  StoreTypeOK'
  <2>1. NoMigration \in MigrationRows
    BY DEF NoMigration, MigrationRows
  <2>2. QED
    BY <1>7, <2>1 DEF start_migration_insert, StoreTypeOK
<1>8. ASSUME NEW m \in Migrations, NEW t \in Transitions,
             transition_migration(m, t[1], t[2])
      PROVE  StoreTypeOK'
  <2>1. t[2] \in LiveStates \cup DoneStates
    BY DEF Transitions, LiveStates, DoneStates
  <2>2. [migrations[m] EXCEPT !.state = t[2]] \in MigrationRows
    BY <2>1, RowUpdates DEF StoreTypeOK
  <2>3. migrations' = [migrations EXCEPT ![m] = [migrations[m] EXCEPT !.state = t[2]]]
    BY <1>8 DEF transition_migration
  <2>4. QED
    BY <1>8, <2>2, <2>3 DEF transition_migration, StoreTypeOK
<1>9. ASSUME NEW m \in Migrations, commit_migration(m)
      PROVE  StoreTypeOK'
  <2> DEFINE a == migrations[m].agent
             row == [owner |-> migrations[m].destination,
                     epoch |-> migrations[m].epoch + 1, step |-> agents[a].step]
  <2>1. agents' = [agents EXCEPT ![a] = row]
    BY <1>9 DEF commit_migration
  <2>2. migrations[m] \in MigrationRows
    BY DEF StoreTypeOK
  <2>3. a \in Agents => row \in AgentRows
    BY <2>2 DEF StoreTypeOK, AgentRows, MigrationRows
  <2>4. [migrations[m] EXCEPT !.state = "COMMITTED"] \in MigrationRows
    BY <2>2, RowUpdates DEF LiveStates
  <2>5. migrations' = [migrations EXCEPT ![m] = [migrations[m] EXCEPT !.state = "COMMITTED"]]
    BY <1>9 DEF commit_migration
  <2> HIDE DEF row, a
  <2>6. agents' \in [Agents -> AgentRows]
    BY <2>1, <2>3 DEF StoreTypeOK
  <2>7. QED
    BY <1>9, <2>4, <2>5, <2>6 DEF commit_migration, StoreTypeOK
<1>10. ASSUME NEW m \in Migrations, NEW e \in Engines, recover_committed_migration(m, e)
       PROVE  StoreTypeOK'
  <2> DEFINE a == migrations[m].agent
             row == [owner |-> e, epoch |-> migrations[m].epoch + 2,
                     step |-> agents[a].step]
  <2>1. agents' = [agents EXCEPT ![a] = row]
    BY <1>10 DEF recover_committed_migration
  <2>2. migrations[m] \in MigrationRows
    BY DEF StoreTypeOK
  <2>3. a \in Agents => row \in AgentRows
    BY <2>2 DEF StoreTypeOK, AgentRows, MigrationRows
  <2>4. [migrations[m] EXCEPT !.state = "RECOVERED"] \in MigrationRows
    BY <2>2, RowUpdates DEF DoneStates
  <2>5. migrations' = [migrations EXCEPT ![m] = [migrations[m] EXCEPT !.state = "RECOVERED"]]
    BY <1>10 DEF recover_committed_migration
  <2> HIDE DEF row, a
  <2>6. agents' \in [Agents -> AgentRows]
    BY <2>1, <2>3 DEF StoreTypeOK
  <2>7. QED
    BY <1>10, <2>4, <2>5, <2>6 DEF recover_committed_migration, StoreTypeOK
<1>11. CASE UNCHANGED storeVars
  BY <1>11 DEF storeVars, StoreTypeOK
<1>12. QED
  BY <1>1, <1>2, <1>3, <1>4, <1>5, <1>6, <1>7, <1>8, <1>9, <1>10, <1>11
     DEF StoreNext, StepCalls, MigrationCalls

\* Types of the tables hold whatever the callers do (store.py:66-131).
THEOREM StoreTypeCorrect == StoreSpec => []StoreTypeOK
<1>1. StoreInit => StoreTypeOK
  BY StoreTypeInit
<1>2. StoreTypeOK /\ [StoreNext]_storeVars => StoreTypeOK'
  BY StoreTypeStep
<1>3. QED
  BY <1>1, <1>2, PTL DEF StoreSpec

-----------------------------------------------------------------------------
(* Ownership is a chain of hand-overs. *)

\* The part of the state the chain is about: leases, migration rows and the calls
\* in flight.  The calls on steps leave it alone.
SameOwnership ==
    /\ \A a \in Agents : /\ agents'[a].owner = agents[a].owner
                         /\ agents'[a].epoch = agents[a].epoch
    /\ UNCHANGED <<migrations, starting>>

\* No call on steps moves a lease or a migration (store.py:180-327).
LEMMA StepCallsKeepOwnership ==
    StoreTypeOK /\ StepCalls => SameOwnership
<1> SUFFICES ASSUME StoreTypeOK, NEW a \in Agents, NEW s \in Steps,
                    NEW ep \in HeldEpochs(a),
                    \/ commit_step(a, s, ep)
                    \/ \E r \in Rids :
                          \/ \E e \in Engines : claim_step(a, s, e, ep, r)
                          \/ commit_claimed_step(a, s, ep, r)
                          \/ \E unknown \in BOOLEAN : fail_claimed_step(a, s, r, unknown)
             PROVE  SameOwnership
  BY DEF StepCalls
<1>1. \/ agents' = agents
      \/ agents' = [agents EXCEPT ![a].step = s]
  BY DEF commit_step, claim_step, commit_claimed_step, fail_claimed_step
<1>2. UNCHANGED <<migrations, starting>>
  BY DEF commit_step, claim_step, commit_claimed_step, fail_claimed_step
<1>3. QED
  BY <1>1, <1>2 DEF SameOwnership, StoreTypeOK, AgentRows

\* A step that moves no lease and no migration keeps the invariant.
LEMMA SameOwnershipKeepsInv ==
    ASSUME StoreInv, StoreTypeOK', SameOwnership
    PROVE  StoreInv'
<1>1. \A m \in Migrations : migrations'[m] = migrations[m] /\ starting'[m] = starting[m]
  BY DEF SameOwnership
<1>2. \A m \in Migrations :
         /\ MigrationState(m)' = MigrationState(m)
         /\ LiveMigration(m)' <=> LiveMigration(m)
         /\ HandedOver(m)' <=> HandedOver(m)
         /\ LastEpoch(m)' = LastEpoch(m)
  BY DEF SameOwnership, MigrationState, LiveMigration, HandedOver, LastEpoch
<1>3. \A m \in Migrations : MigrationState(m) # "NONE" => migrations[m].agent \in Agents
  BY DEF StoreInv, RowsWellFormed, MigrationState
<1>4. RowsWellFormed'
  BY <1>1 DEF StoreInv, RowsWellFormed, SameOwnership, Registered
<1>5. OneLiveMigration'
  BY <1>1, <1>2 DEF StoreInv, OneLiveMigration
<1>6. HandoverChain'
  BY <1>1, <1>2, <1>3 DEF StoreInv, HandoverChain, SameOwnership, HandedOver
<1>7. CommittedLeaseIsCurrent'
  BY <1>1, <1>2, <1>3 DEF StoreInv, CommittedLeaseIsCurrent, SameOwnership
<1>8. QED
  BY <1>4, <1>5, <1>6, <1>7 DEF StoreInv

\* Registering an agent: no migration can name it yet.
LEMMA RegisterKeepsInv ==
    ASSUME StoreInv, StoreTypeOK', NEW a \in Agents, NEW e \in Engines, register_agent(a, e)
    PROVE  StoreInv'
<1>1. /\ UNCHANGED <<migrations, starting>>
      /\ agents' = [agents EXCEPT ![a] =
                      [owner |-> e, epoch |-> InitialEpoch, step |-> 0]]
      /\ agents[a].owner = None
  BY DEF register_agent, Registered
<1>2. \A m \in Migrations :
         /\ migrations[m].state # "NONE" =>
               migrations[m].agent \in Agents /\ migrations[m].agent # a
         /\ starting[m].state # "NONE" =>
               starting[m].agent \in Agents /\ starting[m].agent # a
  BY <1>1 DEF StoreInv, RowsWellFormed, Registered
<1>3. \A b \in Agents : b # a => agents'[b] = agents[b]
  BY <1>1 DEF StoreInv, StoreTypeOK
<1>4. \A m \in Migrations :
         /\ MigrationState(m)' = MigrationState(m)
         /\ LiveMigration(m)' <=> LiveMigration(m)
         /\ HandedOver(m)' <=> HandedOver(m)
         /\ LastEpoch(m)' = LastEpoch(m)
  BY <1>1 DEF MigrationState, LiveMigration, HandedOver, LastEpoch
<1>5. RowsWellFormed'
  BY <1>1, <1>2, <1>3 DEF StoreInv, RowsWellFormed, Registered
<1>6. OneLiveMigration'
  BY <1>1, <1>4 DEF StoreInv, OneLiveMigration
<1>7. HandoverChain'
  BY <1>1, <1>2, <1>3, <1>4 DEF StoreInv, HandoverChain, HandedOver, MigrationState
<1>8. CommittedLeaseIsCurrent'
  BY <1>1, <1>2, <1>3, <1>4 DEF StoreInv, CommittedLeaseIsCurrent, MigrationState
<1>9. QED
  BY <1>5, <1>6, <1>7, <1>8 DEF StoreInv

\* The lease check of start_migration records an epoch its agent has reached.
LEMMA StartCheckKeepsInv ==
    ASSUME StoreInv, StoreTypeOK', NEW m \in Migrations, NEW a \in Agents,
           NEW e \in Engines, NEW d \in Engines, NEW ep \in HeldEpochs(a),
           start_migration_check(m, a, e, d, ep)
    PROVE  StoreInv'
<1>1. /\ UNCHANGED <<agents, migrations>>
      /\ Registered(a) /\ agents[a].epoch = ep
      /\ starting' = [starting EXCEPT ![m] =
                        [agent |-> a, source |-> e, destination |-> d,
                         epoch |-> ep, state |-> "PREPARING"]]
  BY DEF start_migration_check
<1>2. \A n \in Migrations : n # m => starting'[n] = starting[n]
  BY <1>1 DEF StoreInv, StoreTypeOK
<1>3. /\ starting'[m].agent = a
      /\ starting'[m].source = e
      /\ starting'[m].destination = d
      /\ starting'[m].epoch = ep
  BY <1>1 DEF StoreInv, StoreTypeOK
<1>4. ep <= agents[a].epoch
  BY <1>1 DEF StoreInv, StoreTypeOK, AgentRows
<1>5. RowsWellFormed'
  BY <1>1, <1>2, <1>3, <1>4 DEF StoreInv, RowsWellFormed, Registered
<1>6. /\ OneLiveMigration'
      /\ HandoverChain'
      /\ CommittedLeaseIsCurrent'
  BY <1>1 DEF StoreInv, OneLiveMigration, HandoverChain, CommittedLeaseIsCurrent,
              LiveMigration, HandedOver, LastEpoch, MigrationState
<1>7. QED
  BY <1>5, <1>6 DEF StoreInv

\* The INSERT adds a live migration only to an agent that has none.
LEMMA StartInsertKeepsInv ==
    ASSUME StoreInv, StoreTypeOK', NEW m \in Migrations, start_migration_insert(m)
    PROVE  StoreInv'
<1> DEFINE a == starting[m].agent
<1>1. /\ UNCHANGED agents
      /\ starting[m].state = "PREPARING"
      /\ starting' = [starting EXCEPT ![m] = NoMigration]
  BY DEF start_migration_insert
<1>2. CASE HasLiveMigration(a)
  <2>1. migrations' = migrations
    BY <1>2 DEF start_migration_insert
  <2>2. RowsWellFormed'
    BY <1>1, <2>1 DEF StoreInv, StoreTypeOK, RowsWellFormed, Registered, NoMigration
  <2>3. /\ OneLiveMigration'
        /\ HandoverChain'
        /\ CommittedLeaseIsCurrent'
    BY <1>1, <2>1 DEF StoreInv, OneLiveMigration, HandoverChain, CommittedLeaseIsCurrent,
                LiveMigration, HandedOver, LastEpoch, MigrationState
  <2>4. QED
    BY <2>2, <2>3 DEF StoreInv
<1>3. CASE ~HasLiveMigration(a)
  <2>1. migrations' = [migrations EXCEPT ![m] = starting[m]]
    BY <1>3 DEF start_migration_insert
  <2>2. /\ migrations'[m] = starting[m]
        /\ \A n \in Migrations : n # m => migrations'[n] = migrations[n]
    BY <2>1 DEF StoreInv, StoreTypeOK
  <2>3. RowsWellFormed'
    BY <1>1, <2>2 DEF StoreInv, StoreTypeOK, RowsWellFormed, Registered, NoMigration
  <2>4. /\ ~HandedOver(m)'
        /\ \A n \in Migrations : n # m =>
              /\ MigrationState(n)' = MigrationState(n)
              /\ LiveMigration(n)' <=> LiveMigration(n)
              /\ HandedOver(n)' <=> HandedOver(n)
              /\ LastEpoch(n)' = LastEpoch(n)
    BY <1>1, <2>2 DEF MigrationState, LiveMigration, HandedOver, LastEpoch
  <2>5. OneLiveMigration'
    BY <1>3, <2>2, <2>4 DEF StoreInv, OneLiveMigration, HasLiveMigration
  <2>6. HandoverChain'
    BY <1>1, <2>2, <2>4 DEF StoreInv, HandoverChain
  <2>7. CommittedLeaseIsCurrent'
    BY <1>1, <2>2, <2>4 DEF StoreInv, CommittedLeaseIsCurrent, HandedOver
  <2>8. QED
    BY <2>3, <2>5, <2>6, <2>7 DEF StoreInv
<1>4. QED
  BY <1>2, <1>3

\* A transition the coordinators ask for hands nothing over.
LEMMA TransitionKeepsInv ==
    ASSUME StoreInv, StoreTypeOK', NEW m \in Migrations, NEW t \in Transitions,
           transition_migration(m, t[1], t[2])
    PROVE  StoreInv'
<1>1. /\ UNCHANGED <<agents, starting>>
      /\ MigrationState(m) = t[1]
      /\ migrations' = [migrations EXCEPT ![m].state = t[2]]
  BY DEF transition_migration
<1>2. /\ MigrationState(m)' = t[2]
      /\ migrations'[m].agent = migrations[m].agent
      /\ migrations'[m].source = migrations[m].source
      /\ migrations'[m].destination = migrations[m].destination
      /\ migrations'[m].epoch = migrations[m].epoch
      /\ \A n \in Migrations : n # m => migrations'[n] = migrations[n]
  BY <1>1 DEF StoreInv, StoreTypeOK, MigrationRows, MigrationState
<1>3. /\ LiveMigration(m)
      /\ HandedOver(m)' <=> HandedOver(m)
      /\ MigrationState(m)' # "RECOVERED" /\ MigrationState(m)' # "COMMITTED"
      /\ MigrationState(m)' = "SOURCE_RELEASED" => MigrationState(m) = "COMMITTED"
  BY <1>1, <1>2 DEF Transitions, HandedOver, LiveMigration, LiveStates, MigrationState
<1>4. LastEpoch(m)' = LastEpoch(m)
  BY <1>1, <1>2, <1>3 DEF LastEpoch, LiveMigration, LiveStates, MigrationState
<1>5. \A n \in Migrations :
         /\ LiveMigration(n)' => LiveMigration(n)
         /\ HandedOver(n)' <=> HandedOver(n)
         /\ LastEpoch(n)' = LastEpoch(n)
         /\ migrations'[n].agent = migrations[n].agent
         /\ migrations'[n].epoch = migrations[n].epoch
  BY <1>2, <1>3, <1>4 DEF MigrationState, LiveMigration, HandedOver, LastEpoch
<1>6. RowsWellFormed'
  <2>1. migrations[m].state # "NONE"
    BY <1>3 DEF LiveMigration, LiveStates, MigrationState
  <2>2. ASSUME NEW n \in Migrations, NEW row \in {migrations'[n], starting'[n]},
               row.state # "NONE"
        PROVE  /\ row.agent \in Agents /\ row.source \in Engines
               /\ row.destination \in Engines
               /\ Registered(row.agent)'
               /\ row.epoch <= agents'[row.agent].epoch
    <3>1. CASE row = starting[n] \/ (row = migrations'[n] /\ n # m)
      BY <2>2, <3>1, <1>1, <1>2 DEF StoreInv, RowsWellFormed, Registered
    <3>2. CASE row = migrations'[m]
      BY <2>1, <3>2, <1>1, <1>2 DEF StoreInv, RowsWellFormed, Registered
    <3>3. QED
      BY <3>1, <3>2, <2>2, <1>1
  <2>3. QED
    BY <2>2 DEF RowsWellFormed
<1>7. OneLiveMigration'
  BY <1>5 DEF StoreInv, OneLiveMigration
<1>8. HandoverChain'
  BY <1>1, <1>5 DEF StoreInv, HandoverChain
<1>9. CommittedLeaseIsCurrent'
  BY <1>1, <1>2, <1>3 DEF StoreInv, CommittedLeaseIsCurrent, MigrationState
<1>10. QED
  BY <1>6, <1>7, <1>8, <1>9 DEF StoreInv

\* A commit creates the epoch after the one its agent is at; no other migration of
\* the agent can have created it, and none of them is live.
LEMMA CommitKeepsInv ==
    ASSUME StoreInv, StoreTypeOK', NEW m \in Migrations, commit_migration(m)
    PROVE  StoreInv'
<1> DEFINE a == migrations[m].agent
           e == migrations[m].epoch
<1>1. /\ UNCHANGED starting
      /\ MigrationState(m) = "DEST_READY"
      /\ agents[a].epoch = e
      /\ migrations' = [migrations EXCEPT ![m].state = "COMMITTED"]
      /\ agents' = [agents EXCEPT ![a] =
                      [owner |-> migrations[m].destination, epoch |-> e + 1,
                       step |-> agents[a].step]]
  BY DEF commit_migration
<1>2. /\ a \in Agents /\ e \in Nat
      /\ migrations[m].source \in Engines /\ migrations[m].destination \in Engines
  BY <1>1 DEF StoreInv, StoreTypeOK, MigrationRows, RowsWellFormed, MigrationState
<1>3. /\ agents'[a].owner = migrations[m].destination
      /\ agents'[a].epoch = e + 1
      /\ \A b \in Agents : b # a => agents'[b] = agents[b]
  BY <1>1, <1>2 DEF StoreInv, StoreTypeOK
<1>4. /\ MigrationState(m)' = "COMMITTED"
      /\ migrations'[m].agent = a
      /\ migrations'[m].source = migrations[m].source
      /\ migrations'[m].destination = migrations[m].destination
      /\ migrations'[m].epoch = e
      /\ \A n \in Migrations : n # m => migrations'[n] = migrations[n]
  BY <1>1 DEF StoreInv, StoreTypeOK, MigrationRows, MigrationState
<1>5. /\ LiveMigration(m) /\ LiveMigration(m)'
      /\ HandedOver(m)' /\ LastEpoch(m)' = e + 1
  BY <1>1, <1>4 DEF LiveMigration, LiveStates, HandedOver, LastEpoch, MigrationState
<1>6. \A n \in Migrations : n # m =>
         /\ MigrationState(n)' = MigrationState(n)
         /\ LiveMigration(n)' <=> LiveMigration(n)
         /\ HandedOver(n)' <=> HandedOver(n)
         /\ LastEpoch(n)' = LastEpoch(n)
  BY <1>4 DEF MigrationState, LiveMigration, HandedOver, LastEpoch
<1>7. \A n \in Migrations : HandedOver(n) /\ migrations[n].agent = a => LastEpoch(n) <= e
  BY <1>1 DEF StoreInv, HandoverChain
<1>8. \A n \in Migrations : HandedOver(n) => migrations[n].agent \in Agents
  BY DEF StoreInv, RowsWellFormed, HandedOver, MigrationState
<1>9. RowsWellFormed'
  <2>1. \A b \in Agents : Registered(b) /\ agents[b].epoch \in Nat =>
           Registered(b)' /\ agents[b].epoch <= agents'[b].epoch
    BY <1>1, <1>2, <1>3, StoreAssumption DEF Registered
  <2>2. \A b \in Agents : agents[b].epoch \in Nat /\ agents'[b].epoch \in Nat
    BY DEF StoreInv, StoreTypeOK, AgentRows
  <2>3. \A n \in Migrations : migrations[n].epoch \in Nat /\ starting[n].epoch \in Nat
    BY DEF StoreInv, StoreTypeOK, MigrationRows
  <2>4. ASSUME NEW n \in Migrations, NEW row \in {migrations'[n], starting'[n]},
               row.state # "NONE"
        PROVE  /\ row.agent \in Agents /\ row.source \in Engines
               /\ row.destination \in Engines
               /\ Registered(row.agent)'
               /\ row.epoch <= agents'[row.agent].epoch
    <3>1. CASE row = starting[n]
      <4>1. /\ row.agent \in Agents /\ row.source \in Engines /\ row.destination \in Engines
            /\ Registered(row.agent) /\ row.epoch <= agents[row.agent].epoch
        BY <2>4, <3>1 DEF StoreInv, RowsWellFormed
      <4>2. QED
        BY <4>1, <2>1, <2>2, <2>3, <3>1
    <3>2. CASE row = migrations'[n] /\ n # m
      <4>1. /\ row.agent \in Agents /\ row.source \in Engines /\ row.destination \in Engines
            /\ Registered(row.agent) /\ row.epoch <= agents[row.agent].epoch
            /\ row = migrations[n]
        BY <2>4, <3>2, <1>4 DEF StoreInv, RowsWellFormed
      <4>2. QED
        BY <4>1, <2>1, <2>2, <2>3
    <3>3. CASE row = migrations'[m]
      BY <3>3, <1>2, <1>3, <1>4, StoreAssumption DEF Registered
    <3>4. QED
      BY <3>1, <3>2, <3>3, <2>4, <1>1
  <2>5. QED
    BY <2>4 DEF RowsWellFormed
<1>10. OneLiveMigration'
  BY <1>4, <1>5, <1>6 DEF StoreInv, OneLiveMigration
<1>11. HandoverChain'
  <2>1. ASSUME NEW n \in Migrations, HandedOver(n)'
        PROVE  LastEpoch(n)' <= agents'[migrations'[n].agent].epoch
    <3>1. CASE n = m
      BY <3>1, <1>2, <1>3, <1>4, <1>5
    <3>2. CASE n # m
      <4>1. /\ HandedOver(n) /\ LastEpoch(n)' = LastEpoch(n) /\ migrations'[n] = migrations[n]
            /\ LastEpoch(n) <= agents[migrations[n].agent].epoch
        BY <2>1, <3>2, <1>4, <1>6 DEF StoreInv, HandoverChain
      <4>2. CASE migrations[n].agent = a
        <5>1. LastEpoch(n) \in Nat
          BY DEF LastEpoch, StoreInv, StoreTypeOK, MigrationRows
        <5>2. QED
          BY <4>1, <4>2, <5>1, <1>1, <1>2, <1>3
      <4>3. CASE migrations[n].agent # a
        BY <4>1, <4>3, <1>3, <1>8
      <4>4. QED
        BY <4>2, <4>3
    <3>3. QED
      BY <3>1, <3>2
  <2>2. ASSUME NEW k \in Migrations, NEW n \in Migrations \ {k}, HandedOver(k)', HandedOver(n)',
               migrations'[n].agent = migrations'[k].agent
        PROVE  LastEpoch(k)' <= migrations'[n].epoch \/ LastEpoch(n)' <= migrations'[k].epoch
    <3>1. CASE k = m
      BY <2>2, <3>1, <1>4, <1>6, <1>7
    <3>2. CASE n = m
      BY <2>2, <3>2, <1>4, <1>6, <1>7
    <3>3. CASE k # m /\ n # m
      BY <2>2, <3>3, <1>4, <1>6 DEF StoreInv, HandoverChain
    <3>4. QED
      BY <3>1, <3>2, <3>3
  <2>3. QED
    BY <2>1, <2>2 DEF HandoverChain
<1>12. CommittedLeaseIsCurrent'
  <2>1. ASSUME NEW n \in Migrations, n # m
        PROVE  LET agent == agents'[migrations'[n].agent] IN
               /\ MigrationState(n)' = "COMMITTED" => agent.epoch = migrations'[n].epoch + 1
               /\ /\ MigrationState(n)' \in {"COMMITTED", "SOURCE_RELEASED"}
                  /\ agent.epoch = migrations'[n].epoch + 1
                  => agent.owner = migrations'[n].destination
    <3>1. CASE migrations[n].agent = a
      <4>1. MigrationState(n) # "COMMITTED"
        BY <2>1, <3>1, <1>5 DEF StoreInv, OneLiveMigration, LiveMigration, LiveStates
      <4>2. MigrationState(n) = "SOURCE_RELEASED" => migrations[n].epoch + 1 <= e
        BY <1>7, <3>1 DEF HandedOver, LastEpoch
      <4>3. migrations[n].epoch \in Nat
        BY DEF StoreInv, StoreTypeOK, MigrationRows
      <4>4. QED
        BY <4>1, <4>2, <4>3, <2>1, <3>1, <1>2, <1>3, <1>4, <1>6
    <3>2. CASE migrations[n].agent # a
      BY <2>1, <3>2, <1>3, <1>4, <1>6, <1>8 DEF StoreInv, CommittedLeaseIsCurrent, HandedOver
    <3>3. QED
      BY <3>1, <3>2
  <2>2. QED
    BY <2>1, <1>3, <1>4 DEF CommittedLeaseIsCurrent
<1>13. QED
  BY <1>9, <1>10, <1>11, <1>12 DEF StoreInv

\* A recovery extends its migration's own epochs by one more; the guard on the
\* agent's epoch refuses it once any later hand-over has happened.
LEMMA RecoverKeepsInv ==
    ASSUME StoreInv, StoreTypeOK', NEW m \in Migrations, NEW r \in Engines,
           recover_committed_migration(m, r)
    PROVE  StoreInv'
<1> DEFINE a == migrations[m].agent
           e == migrations[m].epoch
<1>1. /\ UNCHANGED starting
      /\ HandedOver(m) /\ MigrationState(m) # "RECOVERED" /\ MigrationState(m) # "NONE"
      /\ agents[a].epoch = e + 1
      /\ migrations' = [migrations EXCEPT ![m].state = "RECOVERED"]
      /\ agents' = [agents EXCEPT ![a] =
                      [owner |-> r, epoch |-> e + 2, step |-> agents[a].step]]
  BY DEF recover_committed_migration, HandedOver
<1>2. /\ a \in Agents /\ e \in Nat
      /\ migrations[m].source \in Engines /\ migrations[m].destination \in Engines
  BY <1>1 DEF StoreInv, StoreTypeOK, MigrationRows, RowsWellFormed, MigrationState
<1>3. /\ agents'[a].owner = r
      /\ agents'[a].epoch = e + 2
      /\ \A b \in Agents : b # a => agents'[b] = agents[b]
  BY <1>1, <1>2 DEF StoreInv, StoreTypeOK
<1>4. /\ MigrationState(m)' = "RECOVERED"
      /\ migrations'[m].agent = a
      /\ migrations'[m].source = migrations[m].source
      /\ migrations'[m].destination = migrations[m].destination
      /\ migrations'[m].epoch = e
      /\ \A n \in Migrations : n # m => migrations'[n] = migrations[n]
  BY <1>1 DEF StoreInv, StoreTypeOK, MigrationRows, MigrationState
<1>5. /\ ~LiveMigration(m)'
      /\ HandedOver(m)' /\ LastEpoch(m)' = e + 2 /\ LastEpoch(m) = e + 1
  BY <1>1, <1>4 DEF LiveMigration, LiveStates, HandedOver, LastEpoch, MigrationState
<1>6. \A n \in Migrations : n # m =>
         /\ MigrationState(n)' = MigrationState(n)
         /\ LiveMigration(n)' <=> LiveMigration(n)
         /\ HandedOver(n)' <=> HandedOver(n)
         /\ LastEpoch(n)' = LastEpoch(n)
  BY <1>4 DEF MigrationState, LiveMigration, HandedOver, LastEpoch
<1>7. \A n \in Migrations : n # m /\ HandedOver(n) /\ migrations[n].agent = a => LastEpoch(n) <= e
  <2> SUFFICES ASSUME NEW n \in Migrations, n # m, HandedOver(n), migrations[n].agent = a
               PROVE  LastEpoch(n) <= e
    OBVIOUS
  <2>1. LastEpoch(m) <= migrations[n].epoch \/ LastEpoch(n) <= e
    BY <1>1 DEF StoreInv, HandoverChain
  <2>2. LastEpoch(n) <= e + 1 /\ migrations[n].epoch + 1 <= LastEpoch(n)
    BY <1>1 DEF StoreInv, HandoverChain, HandedOver, LastEpoch, StoreTypeOK, MigrationRows
  <2>3. migrations[n].epoch \in Nat /\ LastEpoch(n) \in Nat
    BY DEF StoreInv, StoreTypeOK, MigrationRows, LastEpoch
  <2>4. QED
    BY <2>1, <2>2, <2>3, <1>2, <1>5
<1>8. \A n \in Migrations : HandedOver(n) => migrations[n].agent \in Agents
  BY DEF StoreInv, RowsWellFormed, HandedOver, MigrationState
<1>9. RowsWellFormed'
  <2>1. \A b \in Agents : Registered(b) /\ agents[b].epoch \in Nat =>
           Registered(b)' /\ agents[b].epoch <= agents'[b].epoch
    BY <1>1, <1>2, <1>3, StoreAssumption DEF Registered
  <2>2. \A b \in Agents : agents[b].epoch \in Nat /\ agents'[b].epoch \in Nat
    BY DEF StoreInv, StoreTypeOK, AgentRows
  <2>3. \A n \in Migrations : migrations[n].epoch \in Nat /\ starting[n].epoch \in Nat
    BY DEF StoreInv, StoreTypeOK, MigrationRows
  <2>4. ASSUME NEW n \in Migrations, NEW row \in {migrations'[n], starting'[n]},
               row.state # "NONE"
        PROVE  /\ row.agent \in Agents /\ row.source \in Engines
               /\ row.destination \in Engines
               /\ Registered(row.agent)'
               /\ row.epoch <= agents'[row.agent].epoch
    <3>1. CASE row = starting[n]
      <4>1. /\ row.agent \in Agents /\ row.source \in Engines /\ row.destination \in Engines
            /\ Registered(row.agent) /\ row.epoch <= agents[row.agent].epoch
        BY <2>4, <3>1 DEF StoreInv, RowsWellFormed
      <4>2. QED
        BY <4>1, <2>1, <2>2, <2>3, <3>1
    <3>2. CASE row = migrations'[n] /\ n # m
      <4>1. /\ row.agent \in Agents /\ row.source \in Engines /\ row.destination \in Engines
            /\ Registered(row.agent) /\ row.epoch <= agents[row.agent].epoch
            /\ row = migrations[n]
        BY <2>4, <3>2, <1>4 DEF StoreInv, RowsWellFormed
      <4>2. QED
        BY <4>1, <2>1, <2>2, <2>3
    <3>3. CASE row = migrations'[m]
      BY <3>3, <1>2, <1>3, <1>4, StoreAssumption DEF Registered
    <3>4. QED
      BY <3>1, <3>2, <3>3, <2>4, <1>1
  <2>5. QED
    BY <2>4 DEF RowsWellFormed
<1>10. OneLiveMigration'
  BY <1>4, <1>5, <1>6 DEF StoreInv, OneLiveMigration
<1>11. HandoverChain'
  <2>1. ASSUME NEW n \in Migrations, HandedOver(n)'
        PROVE  LastEpoch(n)' <= agents'[migrations'[n].agent].epoch
    <3>1. CASE n = m
      BY <3>1, <1>2, <1>3, <1>4, <1>5
    <3>2. CASE n # m
      <4>1. /\ HandedOver(n) /\ LastEpoch(n)' = LastEpoch(n) /\ migrations'[n] = migrations[n]
            /\ LastEpoch(n) <= agents[migrations[n].agent].epoch
        BY <2>1, <3>2, <1>4, <1>6 DEF StoreInv, HandoverChain
      <4>2. CASE migrations[n].agent = a
        <5>1. LastEpoch(n) \in Nat
          BY DEF LastEpoch, StoreInv, StoreTypeOK, MigrationRows
        <5>2. QED
          BY <4>1, <4>2, <5>1, <1>1, <1>2, <1>3
      <4>3. CASE migrations[n].agent # a
        BY <4>1, <4>3, <1>3, <1>8
      <4>4. QED
        BY <4>2, <4>3
    <3>3. QED
      BY <3>1, <3>2
  <2>2. ASSUME NEW k \in Migrations, NEW n \in Migrations \ {k}, HandedOver(k)', HandedOver(n)',
               migrations'[n].agent = migrations'[k].agent
        PROVE  LastEpoch(k)' <= migrations'[n].epoch \/ LastEpoch(n)' <= migrations'[k].epoch
    <3>1. CASE k = m
      BY <2>2, <3>1, <1>4, <1>6, <1>7
    <3>2. CASE n = m
      BY <2>2, <3>2, <1>4, <1>6, <1>7
    <3>3. CASE k # m /\ n # m
      BY <2>2, <3>3, <1>4, <1>6 DEF StoreInv, HandoverChain
    <3>4. QED
      BY <3>1, <3>2, <3>3
  <2>3. QED
    BY <2>1, <2>2 DEF HandoverChain
<1>12. CommittedLeaseIsCurrent'
  <2>1. ASSUME NEW n \in Migrations, n # m
        PROVE  LET agent == agents'[migrations'[n].agent] IN
               /\ MigrationState(n)' = "COMMITTED" => agent.epoch = migrations'[n].epoch + 1
               /\ /\ MigrationState(n)' \in {"COMMITTED", "SOURCE_RELEASED"}
                  /\ agent.epoch = migrations'[n].epoch + 1
                  => agent.owner = migrations'[n].destination
    <3>1. CASE migrations[n].agent = a
      <4>2. MigrationState(n) \in {"COMMITTED", "SOURCE_RELEASED"} =>
               migrations[n].epoch + 1 <= e
        BY <1>7, <2>1, <3>1 DEF HandedOver, LastEpoch
      <4>3. migrations[n].epoch \in Nat
        BY DEF StoreInv, StoreTypeOK, MigrationRows
      <4>1. MigrationState(n) # "COMMITTED"
        BY <4>2, <4>3, <2>1, <3>1, <1>1, <1>2 DEF StoreInv, CommittedLeaseIsCurrent
      <4>4. QED
        BY <4>1, <4>2, <4>3, <2>1, <3>1, <1>2, <1>3, <1>4, <1>6
    <3>2. CASE migrations[n].agent # a
      BY <2>1, <3>2, <1>3, <1>4, <1>6, <1>8 DEF StoreInv, CommittedLeaseIsCurrent, HandedOver
    <3>3. QED
      BY <3>1, <3>2
  <2>2. QED
    BY <2>1, <1>3, <1>4 DEF CommittedLeaseIsCurrent
<1>13. QED
  BY <1>9, <1>10, <1>11, <1>12 DEF StoreInv

-----------------------------------------------------------------------------
(* Theorems. *)

\* The empty tables satisfy the invariant: they have no row.
LEMMA StoreInvInit == StoreInit => StoreInv
<1> SUFFICES ASSUME StoreInit PROVE StoreInv
  OBVIOUS
<1>1. StoreTypeOK
  BY StoreTypeInit
<1>2. \A m \in Migrations : migrations[m].state = "NONE" /\ starting[m].state = "NONE"
  BY DEF StoreInit, NoMigration
<1>3. QED
  BY <1>1, <1>2 DEF StoreInv, RowsWellFormed, OneLiveMigration, HandoverChain,
     CommittedLeaseIsCurrent, LiveMigration, LiveStates, HandedOver, MigrationState

\* Every call keeps the invariant.
LEMMA StoreInvStep == StoreInv /\ [StoreNext]_storeVars => StoreInv'
<1> SUFFICES ASSUME StoreInv, [StoreNext]_storeVars
             PROVE  StoreInv'
  OBVIOUS
<1>1. StoreTypeOK'
  BY StoreTypeStep DEF StoreInv
<1>2. ASSUME NEW a \in Agents, NEW e \in Engines, register_agent(a, e)
      PROVE  StoreInv'
  BY <1>1, <1>2, RegisterKeepsInv
<1>3. CASE StepCalls
  BY <1>1, <1>3, StepCallsKeepOwnership, SameOwnershipKeepsInv DEF StoreInv
<1>4. ASSUME NEW m \in Migrations, NEW a \in Agents, NEW e \in Engines,
             NEW d \in Engines, NEW ep \in HeldEpochs(a),
             start_migration_check(m, a, e, d, ep)
      PROVE  StoreInv'
  BY <1>1, <1>4, StartCheckKeepsInv
<1>5. ASSUME NEW m \in Migrations, start_migration_insert(m)
      PROVE  StoreInv'
  BY <1>1, <1>5, StartInsertKeepsInv
<1>6. ASSUME NEW m \in Migrations, NEW t \in Transitions,
             transition_migration(m, t[1], t[2])
      PROVE  StoreInv'
  BY <1>1, <1>6, TransitionKeepsInv
<1>7. ASSUME NEW m \in Migrations, commit_migration(m)
      PROVE  StoreInv'
  BY <1>1, <1>7, CommitKeepsInv
<1>8. ASSUME NEW m \in Migrations, NEW e \in Engines, recover_committed_migration(m, e)
      PROVE  StoreInv'
  BY <1>1, <1>8, RecoverKeepsInv
<1>9. CASE UNCHANGED storeVars
  BY <1>1, <1>9, SameOwnershipKeepsInv DEF SameOwnership, storeVars
<1>10. QED
  BY <1>2, <1>3, <1>4, <1>5, <1>6, <1>7, <1>8, <1>9 DEF StoreNext, MigrationCalls

\* The inductive invariant holds in every behaviour of the store.
THEOREM StoreInvariant == StoreSpec => []StoreInv
<1>1. StoreInit => StoreInv
  BY StoreInvInit
<1>2. StoreInv /\ [StoreNext]_storeVars => StoreInv'
  BY StoreInvStep
<1>3. QED
  BY <1>1, <1>2, PTL DEF StoreSpec

\* No epoch of an agent is ever handed to two engines: the epochs created by the
\* migrations of an agent are disjoint and none is beyond its current one
\* (store.py:390-421 and :458-499; implementation_plan.md:86).
THEOREM OwnershipIsAChain == StoreSpec => []HandoverChain
<1>1. StoreInv => HandoverChain
  BY DEF StoreInv
<1>2. QED
  BY <1>1, StoreInvariant, PTL

\* Until its source is released, a committed migration's destination holds the
\* agent's current lease, so the source copy it keeps is the shadow of that lease
\* (implementation_plan.md:89, :96).
THEOREM CommittedStaysCurrent == StoreSpec => []CommittedLeaseIsCurrent
<1>1. StoreInv => CommittedLeaseIsCurrent
  BY DEF StoreInv
<1>2. QED
  BY <1>1, StoreInvariant, PTL

-----------------------------------------------------------------------------
(* Every hand-over is counted once. *)

\* The migrations of an agent that moved its lease, and those that moved it twice.
HandoversOf(a) == {m \in MigrationsOf(a) : HandedOver(m)}

RecoveriesOf(a) == {m \in MigrationsOf(a) : MigrationState(m) = "RECOVERED"}

\* EpochAccounting counts sets that must be known to be finite, since nothing bounds
\* the migrations callers draw.
CountInv ==
    /\ \A a \in Agents : IsFiniteSet(HandoversOf(a))
    /\ EpochAccounting

\* An id that a start_migration holds has no row yet: the INSERT overwrites none.
StartingIsNew == \A m \in Migrations : starting[m].state # "NONE" => MigrationState(m) = "NONE"

\* A recovery is a hand-over.
LEMMA RecoveriesAreHandovers ==
    ASSUME NEW a \in Agents, IsFiniteSet(HandoversOf(a))
    PROVE  /\ IsFiniteSet(RecoveriesOf(a))
           /\ Cardinality(RecoveriesOf(a)) \in Nat
           /\ Cardinality(HandoversOf(a)) \in Nat
           /\ Cardinality(RecoveriesOf(a)) <= Cardinality(HandoversOf(a))
<1>1. RecoveriesOf(a) \subseteq HandoversOf(a)
  BY DEF RecoveriesOf, HandoversOf, HandedOver
<1>2. QED
  BY <1>1, FS_Subset, FS_CardinalityType

\* A step that moves no lease and hands nothing over (store.py:133-389).
LEMMA CountsKept ==
    ASSUME CountInv,
           \A a \in Agents : Registered(a)' =>
              Registered(a) /\ agents'[a].epoch = agents[a].epoch,
           \A m \in Migrations :
              /\ HandedOver(m)' <=> HandedOver(m)
              /\ MigrationState(m)' = "RECOVERED" <=> MigrationState(m) = "RECOVERED"
              /\ HandedOver(m) => migrations'[m].agent = migrations[m].agent
    PROVE  CountInv'
<1>1. \A a \in Agents : HandoversOf(a)' = HandoversOf(a)
  BY DEF HandoversOf, MigrationsOf
<1>2. \A a \in Agents : RecoveriesOf(a)' = RecoveriesOf(a)
  BY DEF RecoveriesOf, MigrationsOf, HandedOver
<1>3. EpochAccounting'
  BY <1>1, <1>2 DEF CountInv, EpochAccounting, HandoversOf, RecoveriesOf
<1>4. QED
  BY <1>1, <1>3 DEF CountInv

\* An agent registers with no hand-over behind it (store.py:133-178).
LEMMA RegisterCounts ==
    ASSUME StoreInv, CountInv, NEW a \in Agents, NEW e \in Engines, register_agent(a, e)
    PROVE  CountInv'
<1>1. /\ UNCHANGED migrations
      /\ agents' = [agents EXCEPT ![a] =
                      [owner |-> e, epoch |-> InitialEpoch, step |-> 0]]
      /\ ~Registered(a)
  BY DEF register_agent
<1>2. \A b \in Agents : /\ HandoversOf(b)' = HandoversOf(b)
                        /\ RecoveriesOf(b)' = RecoveriesOf(b)
  BY <1>1 DEF HandoversOf, RecoveriesOf, MigrationsOf, HandedOver, MigrationState
<1>3. HandoversOf(a) = {} /\ RecoveriesOf(a) = {}
  <2>1. \A m \in Migrations : migrations[m].state # "NONE" => migrations[m].agent # a
    BY <1>1 DEF StoreInv, RowsWellFormed
  <2>2. QED
    BY <2>1 DEF HandoversOf, RecoveriesOf, MigrationsOf, HandedOver, MigrationState
<1>4. Cardinality(HandoversOf(a)) = 0 /\ Cardinality(RecoveriesOf(a)) = 0
  BY <1>3, FS_EmptySet
<1>5. ASSUME NEW b \in Agents, Registered(b)'
      PROVE  agents'[b].epoch = InitialEpoch + Cardinality(HandoversOf(b))
                                  + Cardinality(RecoveriesOf(b))
  <2>1. CASE b = a
    BY <1>1, <1>4, <2>1, StoreAssumption DEF StoreInv, StoreTypeOK
  <2>2. CASE b # a
    <3>1. agents'[b] = agents[b]
      BY <1>1, <2>2 DEF StoreInv, StoreTypeOK
    <3>2. QED
      BY <1>5, <3>1 DEF CountInv, EpochAccounting, HandoversOf, RecoveriesOf, Registered
  <2>3. QED
    BY <2>1, <2>2
<1>6. EpochAccounting'
  BY <1>2, <1>5 DEF EpochAccounting, HandoversOf, RecoveriesOf
<1>7. QED
  BY <1>2, <1>6 DEF CountInv

\* A commit is one hand-over more, and one epoch (store.py:390-421).
LEMMA CommitCounts ==
    ASSUME StoreInv, CountInv, NEW m \in Migrations, commit_migration(m)
    PROVE  CountInv'
<1>0. PICK a \in Agents : a = migrations[m].agent
  BY DEF commit_migration, StoreInv, RowsWellFormed, MigrationState
<1>1. /\ MigrationState(m) = "DEST_READY"
      /\ agents[a].epoch = migrations[m].epoch
      /\ migrations' = [migrations EXCEPT ![m].state = "COMMITTED"]
      /\ agents' = [agents EXCEPT ![a] =
                      [owner |-> migrations[m].destination,
                       epoch |-> migrations[m].epoch + 1, step |-> agents[a].step]]
  BY <1>0 DEF commit_migration
<1>2. Registered(a)
  BY <1>0, <1>1 DEF StoreInv, RowsWellFormed, MigrationState
<1>3. /\ agents'[a].epoch = agents[a].epoch + 1
      /\ \A b \in Agents : b # a => agents'[b] = agents[b]
  BY <1>1, <1>2 DEF StoreInv, StoreTypeOK
<1>4. /\ ~HandedOver(m) /\ HandedOver(m)' /\ MigrationState(m)' = "COMMITTED"
      /\ \A n \in Migrations : migrations'[n].agent = migrations[n].agent
      /\ \A n \in Migrations : n # m => migrations'[n] = migrations[n]
  BY <1>1 DEF StoreInv, StoreTypeOK, MigrationRows, HandedOver, MigrationState
<1>5. /\ HandoversOf(a)' = HandoversOf(a) \cup {m} /\ m \notin HandoversOf(a)
      /\ \A b \in Agents : b # a => HandoversOf(b)' = HandoversOf(b)
  BY <1>0, <1>4 DEF HandoversOf, MigrationsOf, HandedOver, MigrationState
<1>6. \A b \in Agents : RecoveriesOf(b)' = RecoveriesOf(b)
  BY <1>1, <1>4 DEF RecoveriesOf, MigrationsOf, MigrationState
<1>7. /\ IsFiniteSet(HandoversOf(a)')
      /\ Cardinality(HandoversOf(a)') = Cardinality(HandoversOf(a)) + 1
  BY <1>2, <1>5, FS_AddElement DEF CountInv
<1>8. /\ Cardinality(HandoversOf(a)) \in Nat /\ Cardinality(RecoveriesOf(a)) \in Nat
      /\ agents[a].epoch = InitialEpoch + Cardinality(HandoversOf(a))
                             + Cardinality(RecoveriesOf(a))
  BY <1>2, RecoveriesAreHandovers DEF CountInv, EpochAccounting, HandoversOf, RecoveriesOf
<1>9. ASSUME NEW b \in Agents, Registered(b)'
      PROVE  agents'[b].epoch = InitialEpoch + Cardinality(HandoversOf(b)')
                                  + Cardinality(RecoveriesOf(b))
  <2>1. CASE b = a
    BY <1>3, <1>7, <1>8, <2>1, StoreAssumption
  <2>2. CASE b # a
    BY <1>3, <1>5, <1>9, <2>2
       DEF CountInv, EpochAccounting, HandoversOf, RecoveriesOf, Registered
  <2>3. QED
    BY <2>1, <2>2
<1>10. EpochAccounting'
  BY <1>6, <1>9 DEF EpochAccounting, HandoversOf, RecoveriesOf
<1>11. QED
  BY <1>5, <1>7, <1>10 DEF CountInv

\* A recovery is one epoch more of a hand-over counted already (store.py:458-499).
LEMMA RecoverCounts ==
    ASSUME StoreInv, CountInv, NEW m \in Migrations, NEW e \in Engines,
           recover_committed_migration(m, e)
    PROVE  CountInv'
<1>0. PICK a \in Agents : a = migrations[m].agent
  BY DEF recover_committed_migration, StoreInv, RowsWellFormed, MigrationState
<1>1. /\ MigrationState(m) \in {"COMMITTED", "SOURCE_RELEASED"}
      /\ agents[a].epoch = migrations[m].epoch + 1
      /\ migrations' = [migrations EXCEPT ![m].state = "RECOVERED"]
      /\ agents' = [agents EXCEPT ![a] =
                      [owner |-> e, epoch |-> migrations[m].epoch + 2,
                       step |-> agents[a].step]]
  BY <1>0 DEF recover_committed_migration
<1>2. Registered(a) /\ migrations[m].epoch \in Nat
  BY <1>0, <1>1 DEF StoreInv, RowsWellFormed, StoreTypeOK, MigrationRows, MigrationState
<1>3. /\ agents'[a].epoch = agents[a].epoch + 1
      /\ \A b \in Agents : b # a => agents'[b] = agents[b]
  BY <1>1, <1>2 DEF StoreInv, StoreTypeOK
<1>4. /\ HandedOver(m) /\ MigrationState(m) # "RECOVERED"
      /\ HandedOver(m)' /\ MigrationState(m)' = "RECOVERED"
      /\ \A n \in Migrations : migrations'[n].agent = migrations[n].agent
      /\ \A n \in Migrations : n # m => migrations'[n] = migrations[n]
  BY <1>1 DEF StoreInv, StoreTypeOK, MigrationRows, HandedOver, MigrationState
<1>5. /\ RecoveriesOf(a)' = RecoveriesOf(a) \cup {m} /\ m \notin RecoveriesOf(a)
      /\ \A b \in Agents : b # a => RecoveriesOf(b)' = RecoveriesOf(b)
  BY <1>0, <1>4 DEF RecoveriesOf, MigrationsOf, MigrationState
<1>6. \A b \in Agents : HandoversOf(b)' = HandoversOf(b)
  BY <1>4 DEF HandoversOf, MigrationsOf, HandedOver, MigrationState
<1>7. IsFiniteSet(RecoveriesOf(a))
  BY <1>2, RecoveriesAreHandovers DEF CountInv
<1>8. Cardinality(RecoveriesOf(a)') = Cardinality(RecoveriesOf(a)) + 1
  BY <1>5, <1>7, FS_AddElement
<1>9. /\ Cardinality(HandoversOf(a)) \in Nat /\ Cardinality(RecoveriesOf(a)) \in Nat
      /\ agents[a].epoch = InitialEpoch + Cardinality(HandoversOf(a))
                             + Cardinality(RecoveriesOf(a))
  BY <1>2, RecoveriesAreHandovers DEF CountInv, EpochAccounting, HandoversOf, RecoveriesOf
<1>10. ASSUME NEW b \in Agents, Registered(b)'
       PROVE  agents'[b].epoch = InitialEpoch + Cardinality(HandoversOf(b))
                                   + Cardinality(RecoveriesOf(b)')
  <2>1. CASE b = a
    BY <1>3, <1>8, <1>9, <2>1, StoreAssumption
  <2>2. CASE b # a
    BY <1>3, <1>5, <1>10, <2>2
       DEF CountInv, EpochAccounting, HandoversOf, RecoveriesOf, Registered
  <2>3. QED
    BY <2>1, <2>2
<1>11. EpochAccounting'
  BY <1>6, <1>10 DEF EpochAccounting, HandoversOf, RecoveriesOf
<1>12. QED
  BY <1>6, <1>11 DEF CountInv

\* A transition hands nothing over that was not handed over (store.py:365-388).
LEMMA TransitionCounts ==
    ASSUME StoreInv, CountInv, NEW m \in Migrations, NEW t \in Transitions,
           transition_migration(m, t[1], t[2])
    PROVE  CountInv'
<1>1. /\ UNCHANGED agents
      /\ MigrationState(m) = t[1]
      /\ migrations' = [migrations EXCEPT ![m].state = t[2]]
  BY DEF transition_migration
<1>2. /\ MigrationState(m)' = t[2]
      /\ \A n \in Migrations : migrations'[n].agent = migrations[n].agent
      /\ \A n \in Migrations : n # m => migrations'[n] = migrations[n]
  BY <1>1 DEF StoreInv, StoreTypeOK, MigrationRows, MigrationState
<1>3. \A n \in Migrations :
         /\ HandedOver(n)' <=> HandedOver(n)
         /\ MigrationState(n)' = "RECOVERED" <=> MigrationState(n) = "RECOVERED"
  BY <1>1, <1>2 DEF Transitions, HandedOver, MigrationState
<1>4. QED
  BY <1>1, <1>2, <1>3, CountsKept DEF Registered

\* The coordinators read the agent and insert the row between two awaits, so nothing
\* comes between start_migration's check and its INSERT (store.py:329-352).
InsertsRow(m, row) ==
    /\ MigrationState(m) = "NONE"
    /\ row \in MigrationRows /\ row.state = "PREPARING"
    /\ row.agent \in Agents /\ Registered(row.agent) /\ ~HasLiveMigration(row.agent)
    /\ row.source \in Engines /\ row.destination \in Engines
    /\ row.epoch = agents[row.agent].epoch
    /\ migrations' = [migrations EXCEPT ![m] = row]
    /\ UNCHANGED <<agents, claims, starting>>

\* Such an INSERT keeps what is known of the store.
LEMMA InsertKeepsStore ==
    ASSUME StoreInv, CountInv, NEW m \in Migrations, NEW row, InsertsRow(m, row)
    PROVE  StoreInv' /\ CountInv'
<1>1. /\ migrations'[m] = row
      /\ \A n \in Migrations : n # m => migrations'[n] = migrations[n]
      /\ UNCHANGED <<agents, claims, starting>>
  BY DEF InsertsRow, StoreInv, StoreTypeOK
<1>2. agents[row.agent].epoch \in Nat
  BY DEF InsertsRow, StoreInv, StoreTypeOK, AgentRows
<1>3. StoreTypeOK'
  BY <1>1 DEF InsertsRow, StoreInv, StoreTypeOK
<1>4. RowsWellFormed'
  BY <1>1, <1>2 DEF InsertsRow, StoreInv, RowsWellFormed, Registered, NoMigration
<1>5. /\ ~HandedOver(m) /\ ~HandedOver(m)' /\ MigrationState(m)' = "PREPARING"
      /\ \A n \in Migrations : n # m =>
            /\ MigrationState(n)' = MigrationState(n)
            /\ LiveMigration(n)' <=> LiveMigration(n)
            /\ HandedOver(n)' <=> HandedOver(n)
            /\ LastEpoch(n)' = LastEpoch(n)
  BY <1>1 DEF InsertsRow, MigrationState, LiveMigration, HandedOver, LastEpoch
<1>6. OneLiveMigration'
  BY <1>1, <1>5 DEF InsertsRow, StoreInv, OneLiveMigration, HasLiveMigration
<1>7. HandoverChain'
  BY <1>1, <1>5 DEF StoreInv, HandoverChain
<1>8. CommittedLeaseIsCurrent'
  BY <1>1, <1>5 DEF StoreInv, CommittedLeaseIsCurrent, HandedOver
<1>9. CountInv'
  <2>1. \A n \in Migrations :
           /\ HandedOver(n)' <=> HandedOver(n)
           /\ MigrationState(n)' = "RECOVERED" <=> MigrationState(n) = "RECOVERED"
           /\ HandedOver(n) => migrations'[n].agent = migrations[n].agent
    BY <1>1, <1>5 DEF InsertsRow, MigrationState
  <2>2. \A a \in Agents : Registered(a)' =>
           Registered(a) /\ agents'[a].epoch = agents[a].epoch
    BY <1>1 DEF Registered
  <2>3. QED
    BY <2>1, <2>2, CountsKept
<1>10. QED
  BY <1>3, <1>4, <1>6, <1>7, <1>8, <1>9 DEF StoreInv

\* Every call keeps the count.
LEMMA CountInvStep ==
    ASSUME StoreInv, CountInv, StartingIsNew, [StoreNext]_storeVars
    PROVE  CountInv' /\ StartingIsNew'
<1>0. /\ migrations \in [Migrations -> MigrationRows]
      /\ starting \in [Migrations -> MigrationRows]
      /\ \A m \in Migrations : starting[m].state = "PREPARING" => MigrationState(m) = "NONE"
  BY DEF StoreInv, StoreTypeOK, StartingIsNew
<1>1. ASSUME NEW a \in Agents, NEW e \in Engines, register_agent(a, e)
      PROVE  CountInv' /\ StartingIsNew'
  BY <1>1, RegisterCounts DEF register_agent, StartingIsNew, MigrationState
<1>2. CASE SameOwnership
  <2>1. \A a \in Agents : Registered(a)' => Registered(a) /\ agents'[a].epoch = agents[a].epoch
    BY <1>2 DEF SameOwnership, Registered
  <2>2. CountInv'
    BY <1>2, <2>1, CountsKept DEF SameOwnership, HandedOver, MigrationState
  <2>3. QED
    BY <1>2, <2>2 DEF SameOwnership, StartingIsNew, MigrationState
<1>3. CASE StepCalls
  BY <1>2, <1>3, StepCallsKeepOwnership DEF StoreInv
<1>4. ASSUME NEW m \in Migrations, NEW a \in Agents, NEW e \in Engines,
             NEW d \in Engines, NEW ep \in HeldEpochs(a),
             start_migration_check(m, a, e, d, ep)
      PROVE  CountInv' /\ StartingIsNew'
  <2>1. /\ UNCHANGED <<agents, migrations>>
        /\ MigrationState(m) = "NONE"
        /\ \A n \in Migrations : n # m => starting'[n] = starting[n]
    BY <1>0, <1>4 DEF start_migration_check
  <2>2. CountInv'
    BY <2>1, CountsKept DEF Registered, HandedOver, MigrationState
  <2>3. QED
    BY <2>1, <2>2 DEF StartingIsNew, MigrationState
<1>5. ASSUME NEW m \in Migrations, start_migration_insert(m)
      PROVE  CountInv' /\ StartingIsNew'
  <2>1. /\ UNCHANGED agents
        /\ starting[m].state = "PREPARING"
        /\ starting'[m].state = "NONE"
        /\ migrations'[m] \in {migrations[m], starting[m]}
        /\ \A n \in Migrations : n # m => /\ starting'[n] = starting[n]
                                          /\ migrations'[n] = migrations[n]
    BY <1>0, <1>5 DEF start_migration_insert, NoMigration
  <2>2. MigrationState(m) = "NONE" /\ MigrationState(m)' \in {"NONE", "PREPARING"}
    BY <1>0, <2>1 DEF MigrationState
  <2>3. \A n \in Migrations :
           /\ HandedOver(n)' <=> HandedOver(n)
           /\ MigrationState(n)' = "RECOVERED" <=> MigrationState(n) = "RECOVERED"
           /\ HandedOver(n) => migrations'[n].agent = migrations[n].agent
    BY <2>1, <2>2 DEF HandedOver, MigrationState
  <2>4. CountInv'
    BY <2>1, <2>3, CountsKept DEF Registered
  <2>5. QED
    BY <2>1, <2>4 DEF StartingIsNew, MigrationState
<1>6. ASSUME NEW m \in Migrations, NEW t \in Transitions,
             transition_migration(m, t[1], t[2])
      PROVE  CountInv' /\ StartingIsNew'
  <2>1. /\ UNCHANGED starting
        /\ MigrationState(m) # "NONE"
        /\ \A n \in Migrations : n # m => migrations'[n] = migrations[n]
    BY <1>0, <1>6 DEF transition_migration, Transitions
  <2>2. StartingIsNew'
    BY <2>1 DEF StartingIsNew, MigrationState
  <2>3. QED
    BY <1>6, <2>2, TransitionCounts
<1>7. ASSUME NEW m \in Migrations,
             commit_migration(m) \/ \E e \in Engines : recover_committed_migration(m, e)
      PROVE  CountInv' /\ StartingIsNew'
  <2>1. /\ UNCHANGED starting
        /\ MigrationState(m) # "NONE"
        /\ \A n \in Migrations : n # m => migrations'[n] = migrations[n]
    BY <1>0, <1>7 DEF commit_migration, recover_committed_migration
  <2>2. StartingIsNew'
    BY <2>1 DEF StartingIsNew, MigrationState
  <2>3. QED
    BY <1>7, <2>2, CommitCounts, RecoverCounts
<1>8. CASE UNCHANGED storeVars
  BY <1>2, <1>8 DEF SameOwnership, storeVars
<1>9. QED
  BY <1>1, <1>3, <1>4, <1>5, <1>6, <1>7, <1>8 DEF StoreNext, MigrationCalls

\* No hand-over of an agent is lost or counted twice, however commits, recoveries and
\* concurrent starts interleave: its epoch is its first one plus one per committed
\* migration plus one more per recovered migration (store.py:390-499).
THEOREM EpochsAreCounted == StoreSpec => []EpochAccounting
<1>1. StoreInit => CountInv /\ StartingIsNew
  <2> SUFFICES ASSUME StoreInit PROVE CountInv /\ StartingIsNew
    OBVIOUS
  <2>1. \A m \in Migrations : starting[m].state = "NONE" /\ ~HandedOver(m)
    BY DEF StoreInit, NoMigration, HandedOver, MigrationState
  <2>2. \A a \in Agents : HandoversOf(a) = {}
    BY <2>1 DEF HandoversOf, MigrationsOf
  <2>3. \A a \in Agents : ~Registered(a)
    BY DEF StoreInit, NoAgent, Registered
  <2>4. QED
    BY <2>1, <2>2, <2>3, FS_EmptySet DEF CountInv, EpochAccounting, StartingIsNew
<1>2. StoreInv /\ CountInv /\ StartingIsNew /\ [StoreNext]_storeVars
        => CountInv' /\ StartingIsNew'
  BY CountInvStep
<1>3. CountInv => EpochAccounting
  BY DEF CountInv
<1>4. QED
  BY <1>1, <1>2, <1>3, StoreInvariant, PTL DEF StoreSpec

-----------------------------------------------------------------------------
(* Leases and steps only advance, and authors never go back. *)

\* What any call may do to the row of a registered agent.
RowAdvances(a) ==
    Registered(a) =>
        /\ Registered(a)'
        /\ agents'[a].epoch >= agents[a].epoch
        /\ agents'[a].step >= agents[a].step
        /\ agents'[a].owner # agents[a].owner =>
              agents'[a].epoch = agents[a].epoch + 1

\* Whatever the call, the row of a registered agent only advances (store.py:133-499).
LEMMA AgentRowsAdvance ==
    ASSUME StoreInv, [StoreNext]_storeVars
    PROVE  \A a \in Agents : RowAdvances(a)
<1>0. /\ \A a \in Agents : agents[a] \in AgentRows
      /\ \A m \in Migrations : migrations[m] \in MigrationRows
      /\ \A s \in Steps : s \in Nat
  BY StoreAssumption DEF StoreInv, StoreTypeOK, Steps
<1>1. CASE agents' = agents
  BY <1>0, <1>1 DEF AgentRows, Registered, RowAdvances
<1>2. ASSUME NEW b \in Agents, NEW e \in Engines, register_agent(b, e)
      PROVE  \A a \in Agents : RowAdvances(a)
  BY <1>0, <1>2 DEF StoreInv, StoreTypeOK, AgentRows, Registered, register_agent, RowAdvances
<1>3. ASSUME NEW b \in Agents, NEW s \in Steps,
             agents' = [agents EXCEPT ![b].step = s], s >= agents[b].step
      PROVE  \A a \in Agents : RowAdvances(a)
  BY <1>0, <1>3 DEF StoreInv, StoreTypeOK, AgentRows, Registered, RowAdvances
<1>4. ASSUME StepCalls
      PROVE  \A a \in Agents : RowAdvances(a)
  <2>1. PICK b \in Agents, s \in Steps :
           \/ agents' = agents
           \/ agents' = [agents EXCEPT ![b].step = s] /\ s >= agents[b].step
    <3>1. PICK b \in Agents, s \in Steps : \E ep \in HeldEpochs(b) :
           \/ commit_step(b, s, ep)
           \/ \E r \in Rids :
                 \/ \E e \in Engines : claim_step(b, s, e, ep, r)
                 \/ commit_claimed_step(b, s, ep, r)
                 \/ \E unknown \in BOOLEAN : fail_claimed_step(b, s, r, unknown)
      BY <1>4 DEF StepCalls
    <3>2. s \in Nat /\ agents[b].step \in Nat
      BY <1>0 DEF AgentRows
    <3>3. QED
      BY <3>1, <3>2 DEF commit_step, claim_step, commit_claimed_step, fail_claimed_step
  <2>2. QED
    BY <2>1, <1>1, <1>3
<1>5. ASSUME NEW m \in Migrations, commit_migration(m)
      PROVE  \A a \in Agents : RowAdvances(a)
  <2>1. /\ migrations[m].agent \in Agents /\ migrations[m].destination \in Engines
        /\ migrations[m].epoch \in Nat
    BY <1>0, <1>5 DEF StoreInv, RowsWellFormed, commit_migration, MigrationState, MigrationRows
  <2>2. /\ agents[migrations[m].agent].epoch = migrations[m].epoch
        /\ agents' = [agents EXCEPT ![migrations[m].agent] =
                        [owner |-> migrations[m].destination,
                         epoch |-> migrations[m].epoch + 1,
                         step |-> agents[migrations[m].agent].step]]
    BY <1>5 DEF commit_migration
  <2>3. QED
    BY <1>0, <2>1, <2>2, StoreAssumption
       DEF StoreInv, StoreTypeOK, AgentRows, Registered, RowAdvances
<1>6. ASSUME NEW m \in Migrations, NEW e \in Engines, recover_committed_migration(m, e)
      PROVE  \A a \in Agents : RowAdvances(a)
  <2>1. migrations[m].agent \in Agents /\ migrations[m].epoch \in Nat
    BY <1>0, <1>6
       DEF StoreInv, RowsWellFormed, recover_committed_migration, MigrationState, MigrationRows
  <2>2. /\ agents[migrations[m].agent].epoch = migrations[m].epoch + 1
        /\ agents' = [agents EXCEPT ![migrations[m].agent] =
                        [owner |-> e, epoch |-> migrations[m].epoch + 2,
                         step |-> agents[migrations[m].agent].step]]
    BY <1>6 DEF recover_committed_migration
  <2>3. migrations[m].epoch + 2 = agents[migrations[m].agent].epoch + 1
    BY <2>1, <2>2
  <2>4. QED
    BY <1>0, <2>1, <2>2, <2>3, StoreAssumption
       DEF StoreInv, StoreTypeOK, AgentRows, Registered, RowAdvances
<1>7. QED
  BY <1>1, <1>2, <1>4, <1>5, <1>6 DEF StoreNext, MigrationCalls, storeVars,
     start_migration_check, start_migration_insert, transition_migration

-----------------------------------------------------------------------------
(* The store under a coordinator. *)

\* Coordinators that check and insert without an await use the store with registered
\* agents, and with nothing of start_migration in between.
CoordinatedInv ==
    /\ StoreInv
    /\ CountInv
    /\ starting = [m \in Migrations |-> NoMigration]
    /\ \A a \in Agents : Registered(a)

\* What the store knows is about the store alone.
LEMMA CoordinatedRests ==
    ASSUME CoordinatedInv, UNCHANGED storeVars
    PROVE  CoordinatedInv'
<1>1. UNCHANGED <<agents, migrations, claims, starting>>
  BY DEF storeVars
<1>2. QED
  BY <1>1 DEF CoordinatedInv, StoreInv, CountInv, StoreTypeOK, RowsWellFormed,
     OneLiveMigration, HandoverChain, CommittedLeaseIsCurrent, EpochAccounting, HandoversOf,
     MigrationsOf, HandedOver, LastEpoch, Registered, LiveMigration, MigrationState

\* What their calls do to the store.
CoordinatorCall(m) ==
    \/ UNCHANGED storeVars
    \/ \E t \in Transitions : transition_migration(m, t[1], t[2])
    \/ commit_migration(m)
    \/ \E row \in MigrationRows : InsertsRow(m, row)

\* A coordinator's calls keep what is known of the store (store.py:329-516).
LEMMA CoordinatorKeeps ==
    ASSUME CoordinatedInv, NEW m \in Migrations, CoordinatorCall(m)
    PROVE  CoordinatedInv'
<1>1. StoreInv /\ CountInv
  BY DEF CoordinatedInv
<1>2. CASE UNCHANGED storeVars
  <2>1. UNCHANGED <<agents, migrations, claims, starting>>
    BY <1>2 DEF storeVars
  <2>2. StoreInv'
    BY <1>1, <1>2, StoreInvStep
  <2>3. CountInv'
    BY <1>1, <2>1, CountsKept DEF Registered, HandedOver, MigrationState
  <2>4. QED
    BY <2>1, <2>2, <2>3 DEF CoordinatedInv, Registered
<1>3. ASSUME NEW t \in Transitions, transition_migration(m, t[1], t[2])
      PROVE  CoordinatedInv'
  <2>1. StoreInv'
    BY <1>1, <1>3, StoreInvStep DEF StoreNext, MigrationCalls
  <2>2. CountInv'
    BY <1>1, <1>3, TransitionCounts
  <2>3. QED
    BY <1>3, <2>1, <2>2 DEF CoordinatedInv, Registered, transition_migration
<1>4. CASE commit_migration(m)
  <2>1. StoreInv'
    BY <1>1, <1>4, StoreInvStep DEF StoreNext, MigrationCalls
  <2>2. CountInv'
    BY <1>1, <1>4, CommitCounts
  <2>3. \A a \in Agents : Registered(a)'
    BY <1>1, <1>4, AgentRowsAdvance DEF CoordinatedInv, StoreNext, MigrationCalls, RowAdvances
  <2>4. QED
    BY <1>4, <2>1, <2>2, <2>3 DEF CoordinatedInv, commit_migration
<1>5. ASSUME NEW row \in MigrationRows, InsertsRow(m, row)
      PROVE  CoordinatedInv'
  <2>1. StoreInv' /\ CountInv'
    BY <1>1, <1>5, InsertKeepsStore
  <2>2. QED
    BY <1>5, <2>1 DEF CoordinatedInv, InsertsRow, Registered
<1>6. QED
  BY <1>2, <1>3, <1>4, <1>5 DEF CoordinatorCall

\* The coordinators begin with every agent at an engine, at its first epoch.
LEMMA CoordinatedInit ==
    ASSUME NEW home \in [Agents -> Engines],
           agents = [a \in Agents |-> [owner |-> home[a], epoch |-> InitialEpoch, step |-> 0]],
           migrations = [m \in Migrations |-> NoMigration],
           claims = [a \in Agents |-> [s \in Steps |-> NoClaim]],
           starting = [m \in Migrations |-> NoMigration]
    PROVE  CoordinatedInv
<1>0. \A a \in Agents : agents[a].owner \in Engines /\ agents[a].owner # None
  BY StoreAssumption
<1>1. StoreTypeOK
  BY <1>0, StoreAssumption DEF StoreTypeOK, AgentRows, MigrationRows, ClaimRows,
     NoMigration, NoClaim
<1>2. \A m \in Migrations : /\ MigrationState(m) = "NONE" /\ ~LiveMigration(m)
                            /\ ~HandedOver(m)
  BY DEF MigrationState, NoMigration, LiveMigration, LiveStates, HandedOver
<1>3. RowsWellFormed
  BY DEF RowsWellFormed, NoMigration
<1>4. OneLiveMigration /\ HandoverChain /\ CommittedLeaseIsCurrent
  BY <1>2 DEF OneLiveMigration, HandoverChain, CommittedLeaseIsCurrent, MigrationState
<1>5. CountInv
  <2>1. \A a \in Agents : HandoversOf(a) = {} /\ RecoveriesOf(a) = {}
    BY <1>2 DEF HandoversOf, RecoveriesOf, MigrationsOf
  <2>2. IsFiniteSet({}) /\ Cardinality({}) = 0
    BY FS_EmptySet
  <2>3. \A a \in Agents : agents[a].epoch = InitialEpoch /\ InitialEpoch \in Nat
    BY StoreAssumption
  <2>4. ASSUME NEW a \in Agents
        PROVE  agents[a].epoch = InitialEpoch
                   + Cardinality(HandoversOf(a)) + Cardinality(RecoveriesOf(a))
    <3>1. /\ Cardinality(HandoversOf(a)) = 0 /\ Cardinality(RecoveriesOf(a)) = 0
          /\ agents[a].epoch = InitialEpoch /\ InitialEpoch \in Nat
      BY <2>1, <2>2, <2>3, Zenon
    <3>2. QED
      BY <3>1
  <2>5. EpochAccounting
    BY <2>4 DEF EpochAccounting, HandoversOf, RecoveriesOf
  <2>6. QED
    BY <2>1, <2>2, <2>5 DEF CountInv
<1>6. QED
  BY <1>0, <1>1, <1>3, <1>4, <1>5 DEF CoordinatedInv, StoreInv, Registered

-----------------------------------------------------------------------------
(* The authors of steps. *)

\* Every claim is written under the epoch its agent is at, and completed under it.
LEMMA StepAuthorshipStep ==
    ASSUME StoreInv, StepAuthorship, [StoreNext]_storeVars
    PROVE  StepAuthorship'
<1>0. /\ \A a \in Agents : agents[a] \in AgentRows /\ agents'[a] \in AgentRows
      /\ \A s \in Steps : s \in Nat
      /\ \A a \in Agents, s \in Steps : claims[a][s] \in ClaimRows /\ 1..s \subseteq Steps
  BY StoreAssumption, StoreTypeStep DEF StoreInv, StoreTypeOK, Steps
<1>1. \A a \in Agents : RowAdvances(a)
  BY AgentRowsAdvance
<1>2. CASE claims' = claims
  BY <1>0, <1>1, <1>2 DEF StepAuthorship, RowAdvances, AgentRows, ClaimRows
<1>3. ASSUME NEW a \in Agents, NEW s \in Steps, NEW ep \in HeldEpochs(a), NEW r \in Rids,
             NEW e \in Engines, claim_step(a, s, e, ep, r)
      PROVE  StepAuthorship'
  <2>1. /\ agents' = agents /\ Registered(a) /\ agents[a].epoch = ep
        /\ s = agents[a].step + 1
        /\ claims' = [claims EXCEPT ![a][s] =
                        [status |-> "CLAIMED", epoch |-> ep, rid |-> r]]
    BY <1>3 DEF claim_step
  <2>2. /\ claims'[a][s].status = "CLAIMED" /\ claims'[a][s].epoch = ep
        /\ \A b \in Agents, t \in Steps : b # a \/ t # s => claims'[b][t] = claims[b][t]
    BY <2>1 DEF StoreInv, StoreTypeOK
  <2>3. QED
    BY <1>0, <2>1, <2>2 DEF StepAuthorship, Registered, AgentRows
<1>4. ASSUME NEW a \in Agents, NEW s \in Steps, NEW ep \in HeldEpochs(a), NEW r \in Rids,
             commit_claimed_step(a, s, ep, r)
      PROVE  StepAuthorship'
  <2>1. /\ agents[a].epoch = ep /\ claims[a][s].epoch = ep
        /\ claims[a][s].status = "CLAIMED"
        /\ s = agents[a].step + 1
        /\ agents' = [agents EXCEPT ![a].step = s]
        /\ claims' = [claims EXCEPT ![a][s].status = "COMPLETED"]
    BY <1>4 DEF commit_claimed_step
  <2>2. /\ claims'[a][s].status = "COMPLETED" /\ claims'[a][s].epoch = ep
        /\ \A b \in Agents, t \in Steps : b # a \/ t # s => claims'[b][t] = claims[b][t]
        /\ agents'[a].step = s /\ agents'[a].epoch = ep /\ agents'[a].owner = agents[a].owner
        /\ \A b \in Agents : b # a => agents'[b] = agents[b]
    BY <2>1 DEF StoreInv, StoreTypeOK, ClaimRows, AgentRows
  <2>3. Registered(a) /\ Registered(a)'
    BY <1>1, <2>1 DEF StepAuthorship, RowAdvances
  <2>4. \A t \in Steps : claims[a][t].status = "COMPLETED" =>
           t <= agents[a].step /\ claims[a][t].epoch <= ep
    BY <2>1 DEF StepAuthorship
  <2>5. ASSUME NEW b \in Agents, NEW t \in Steps
        PROVE  /\ claims'[b][t].status # "NONE" =>
                     /\ Registered(b)'
                     /\ t <= agents'[b].step + 1
                     /\ claims'[b][t].epoch <= agents'[b].epoch
               /\ claims'[b][t].status = "COMPLETED" => t <= agents'[b].step
    BY <1>0, <2>1, <2>2, <2>3, <2>4 DEF StepAuthorship, Registered, AgentRows
  <2>6. ASSUME NEW b \in Agents, NEW t \in Steps, claims'[b][t].status = "COMPLETED",
               NEW u \in 1..t, claims'[b][u].status = "COMPLETED"
        PROVE  claims'[b][u].epoch <= claims'[b][t].epoch
    <3>0. u \in Steps
      BY <1>0
    <3>1. CASE b # a \/ (t # s /\ u # s)
      <4>1. claims'[b][t] = claims[b][t] /\ claims'[b][u] = claims[b][u]
        BY <3>0, <3>1, <2>2
      <4>2. claims[b][u].epoch <= claims[b][t].epoch
        BY <2>6, <4>1 DEF StepAuthorship
      <4>3. QED
        BY <4>1, <4>2
    <3>2. CASE b = a /\ t = s
      BY <2>6, <3>0, <3>2, <2>1, <2>2, <2>4, <1>0 DEF AgentRows
    <3>3. CASE b = a /\ t # s /\ u = s
      BY <2>6, <3>0, <3>3, <2>1, <2>2, <2>4, <1>0 DEF AgentRows
    <3>4. QED
      BY <3>1, <3>2, <3>3
  <2>7. QED
    BY <2>5, <2>6 DEF StepAuthorship
<1>5. ASSUME NEW a \in Agents, NEW s \in Steps, NEW r \in Rids, NEW unknown \in BOOLEAN,
             fail_claimed_step(a, s, r, unknown)
      PROVE  StepAuthorship'
  <2>1. /\ agents' = agents
        /\ claims[a][s].status = "CLAIMED"
        /\ claims' = [claims EXCEPT ![a][s].status =
                        IF unknown THEN "UNKNOWN" ELSE "FAILED"]
    BY <1>5 DEF fail_claimed_step
  <2>2. /\ claims'[a][s].status \in {"UNKNOWN", "FAILED"}
        /\ claims'[a][s].epoch = claims[a][s].epoch
        /\ \A b \in Agents, t \in Steps : b # a \/ t # s => claims'[b][t] = claims[b][t]
    BY <2>1 DEF StoreInv, StoreTypeOK, ClaimRows
  <2>3. QED
    BY <1>0, <2>1, <2>2 DEF StepAuthorship, Registered
<1>6. CASE StepCalls
  <2>1. \A a \in Agents, s \in Steps : \A ep \in HeldEpochs(a) :
           commit_step(a, s, ep) => claims' = claims
    BY DEF commit_step
  <2>2. QED
    BY <1>2, <1>3, <1>4, <1>5, <1>6, <2>1 DEF StepCalls
<1>7. CASE MigrationCalls
  <2>1. claims' = claims
    BY <1>7 DEF MigrationCalls, start_migration_check, start_migration_insert,
       transition_migration, commit_migration, recover_committed_migration
  <2>2. QED
    BY <1>2, <2>1
<1>8. CASE \E a \in Agents, e \in Engines : register_agent(a, e)
  BY <1>2, <1>8 DEF register_agent
<1>9. CASE UNCHANGED storeVars
  BY <1>2, <1>9 DEF storeVars
<1>10. QED
  BY <1>6, <1>7, <1>8, <1>9 DEF StoreNext

\* Along the steps of an agent the authoring epochs never go back (step fencing,
\* store.py:264-307 against the hand-overs of :390-499; README.md:14-15).
THEOREM AuthorsNeverGoBack == StoreSpec => []StepAuthorship
<1>1. StoreInit => StepAuthorship
  BY DEF StoreInit, StepAuthorship, NoClaim
<1>2. StoreInv /\ StepAuthorship /\ [StoreNext]_storeVars => StepAuthorship'
  BY StepAuthorshipStep
<1>3. QED
  BY <1>1, <1>2, StoreInvariant, PTL DEF StoreSpec

-----------------------------------------------------------------------------
(* The store implements Ownership. *)

\* The empty tables hold no lease, no progress and no author.
LEMMA OwnershipInitially == StoreInit => Own!OwnershipInit
BY DEF StoreInit, NoAgent, NoClaim, Own!OwnershipInit, Own!Steps, Steps,
       leaseOf, progressOf, authorOf

\* The lease of agent a moves to engine e, and nothing else of the row changes.
HandedTo(a, e) ==
    /\ agents' = [agents EXCEPT ![a] =
                     [owner |-> e, epoch |-> agents[a].epoch + 1, step |-> agents[a].step]]
    /\ claims' = claims

\* A hand-over of the tables is a hand-over of the lease.
LEMMA HandOverMaps ==
    ASSUME agents \in [Agents -> AgentRows], NEW a \in Agents, NEW e \in Engines,
           agents[a].owner # None, HandedTo(a, e)
    PROVE  Own!HandOver(a, e)
<1>1. Own!Holds(a)
  BY DEF Own!Holds, leaseOf
<1>2. /\ agents'[a].owner = e
      /\ agents'[a].epoch = agents[a].epoch + 1
      /\ agents'[a].step = agents[a].step
      /\ \A b \in Agents : b # a => agents'[b] = agents[b]
  BY DEF HandedTo
<1>3. leaseOf' = [leaseOf EXCEPT ![a] = [engine |-> e, epoch |-> leaseOf[a].epoch + 1]]
  BY <1>2 DEF leaseOf
<1>4. progressOf' = progressOf
  BY <1>2 DEF progressOf
<1>5. authorOf' = authorOf
  BY DEF HandedTo, authorOf
<1>6. QED
  BY <1>1, <1>3, <1>4, <1>5 DEF Own!HandOver

\* Every call is a step of Ownership or changes none of its variables.
LEMMA OwnershipStepwise ==
    ASSUME StoreInv, StoreTypeOK', StepAuthorship, [StoreNext]_storeVars
    PROVE  [Own!OwnershipNext]_<<leaseOf, progressOf, authorOf>>
<1> USE DEF Own!Holds, Own!Steps
<1>0. /\ \A a \in Agents : agents[a] \in AgentRows
      /\ \A m \in Migrations : migrations[m] \in MigrationRows
      /\ agents' \in [Agents -> AgentRows]
  BY DEF StoreInv, StoreTypeOK
<1>1. ASSUME NEW a \in Agents, NEW e \in Engines, register_agent(a, e)
      PROVE  Own!OwnershipNext
  <2>1. Own!Grant(a, e)
    BY <1>1 DEF register_agent, Registered, Own!Grant, leaseOf, progressOf, authorOf,
                StoreInv, StoreTypeOK
  <2>2. QED
    BY <2>1 DEF Own!OwnershipNext
<1>2. ASSUME NEW a \in Agents, NEW s \in Steps, NEW ep \in HeldEpochs(a),
             commit_step(a, s, ep)
      PROVE  Own!OwnershipNext
  <2>1. Own!Skip(a, s)
    BY <1>2 DEF commit_step, Registered, Own!Skip, leaseOf, progressOf, authorOf,
                StoreInv, StoreTypeOK, AgentRows
  <2>2. QED
    BY <2>1 DEF Own!OwnershipNext, Steps
<1>3. ASSUME NEW a \in Agents, NEW s \in Steps, NEW ep \in HeldEpochs(a), NEW r \in Rids,
             NEW e \in Engines, claim_step(a, s, e, ep, r)
      PROVE  UNCHANGED <<leaseOf, progressOf, authorOf>>
  BY <1>3 DEF claim_step, leaseOf, progressOf, authorOf, StoreInv, StoreTypeOK
<1>4. ASSUME NEW a \in Agents, NEW s \in Steps, NEW ep \in HeldEpochs(a), NEW r \in Rids,
             commit_claimed_step(a, s, ep, r)
      PROVE  Own!OwnershipNext
  <2>1. Own!Author(a)
    <3>1. Registered(a)
      BY <1>4 DEF commit_claimed_step, StepAuthorship
    <3>2. progressOf[a] + 1 = s /\ progressOf' = [progressOf EXCEPT ![a] = @ + 1]
      <4>1. s = agents[a].step + 1 /\ agents' = [agents EXCEPT ![a].step = s]
        BY <1>4 DEF commit_claimed_step
      <4>2. agents \in [Agents -> AgentRows]
        BY DEF StoreInv, StoreTypeOK
      <4>3. /\ agents'[a].step = s
            /\ \A b \in Agents : b # a => agents'[b].step = agents[b].step
        BY <4>1, <4>2 DEF AgentRows
      <4>4. progressOf[a] = agents[a].step
        BY DEF progressOf
      <4>5. progressOf' = [progressOf EXCEPT ![a] = s]
        BY <4>3 DEF progressOf
      <4>6. QED
        BY <4>1, <4>4, <4>5
    <3>3. authorOf' = [authorOf EXCEPT ![a][s] = leaseOf[a].epoch]
      <4>1. /\ claims[a][s].epoch = leaseOf[a].epoch
            /\ claims' = [claims EXCEPT ![a][s].status = "COMPLETED"]
        BY <1>4 DEF commit_claimed_step, leaseOf
      <4>2. /\ claims'[a][s].status = "COMPLETED" /\ claims'[a][s].epoch = leaseOf[a].epoch
            /\ \A b \in Agents, t \in Steps : b # a \/ t # s => claims'[b][t] = claims[b][t]
        BY <4>1 DEF StoreInv, StoreTypeOK, ClaimRows
      <4>3. \A b \in Agents, t \in Steps :
               authorOf'[b][t] = IF b = a /\ t = s THEN leaseOf[a].epoch ELSE authorOf[b][t]
        BY <4>2 DEF authorOf
      <4>4. authorOf = [b \in Agents |-> [t \in Steps |-> authorOf[b][t]]]
            /\ authorOf' = [b \in Agents |-> [t \in Steps |-> authorOf'[b][t]]]
        BY DEF authorOf
      <4>5. QED
        BY <4>3, <4>4
    <3>4. leaseOf' = leaseOf
      BY <1>4 DEF commit_claimed_step, leaseOf, StoreInv, StoreTypeOK, AgentRows
    <3>5. QED
      BY <3>1, <3>2, <3>3, <3>4 DEF Own!Author, Registered, leaseOf, Steps
  <2>2. QED
    BY <2>1 DEF Own!OwnershipNext
<1>5. ASSUME NEW a \in Agents, NEW s \in Steps, NEW r \in Rids, NEW unknown \in BOOLEAN,
             fail_claimed_step(a, s, r, unknown)
      PROVE  UNCHANGED <<leaseOf, progressOf, authorOf>>
  BY <1>5 DEF fail_claimed_step, leaseOf, progressOf, authorOf, StoreInv, StoreTypeOK, ClaimRows
<1>6. ASSUME NEW m \in Migrations, commit_migration(m)
      PROVE  Own!OwnershipNext
  <2>1. /\ migrations[m].agent \in Agents /\ migrations[m].destination \in Engines
        /\ migrations[m].source \in Engines
    BY <1>6 DEF StoreInv, RowsWellFormed, commit_migration, MigrationState
  <2> DEFINE a == migrations[m].agent
  <2>2. /\ agents[a].owner = migrations[m].source
        /\ agents[a].epoch = migrations[m].epoch
        /\ agents' = [agents EXCEPT ![a] =
                        [owner |-> migrations[m].destination,
                         epoch |-> migrations[m].epoch + 1,
                         step |-> agents[a].step]]
        /\ claims' = claims
    BY <1>6 DEF commit_migration
  <2>3. HandedTo(a, migrations[m].destination)
    BY <2>2 DEF HandedTo
  <2>4. Own!HandOver(a, migrations[m].destination)
    BY <1>0, <2>1, <2>2, <2>3, StoreAssumption, HandOverMaps
  <2>5. QED
    BY <2>1, <2>4 DEF Own!OwnershipNext
<1>7. ASSUME NEW m \in Migrations, NEW e \in Engines, recover_committed_migration(m, e)
      PROVE  Own!OwnershipNext
  <2>1. /\ migrations[m].agent \in Agents /\ migrations[m].destination \in Engines
        /\ migrations[m].epoch \in Nat
    BY <1>0, <1>7
       DEF StoreInv, RowsWellFormed, recover_committed_migration, MigrationState, MigrationRows
  <2> DEFINE a == migrations[m].agent
  <2>2. /\ agents[a].owner = migrations[m].destination
        /\ agents[a].epoch = migrations[m].epoch + 1
        /\ agents' = [agents EXCEPT ![a] =
                        [owner |-> e, epoch |-> migrations[m].epoch + 2,
                         step |-> agents[a].step]]
        /\ claims' = claims
    BY <1>7 DEF recover_committed_migration
  <2>3. migrations[m].epoch + 2 = agents[a].epoch + 1
    BY <2>1, <2>2
  <2>4. HandedTo(a, e)
    BY <2>2, <2>3 DEF HandedTo
  <2>5. Own!HandOver(a, e)
    BY <1>0, <2>1, <2>2, <2>4, StoreAssumption, HandOverMaps
  <2>6. QED
    BY <2>1, <2>5 DEF Own!OwnershipNext
<1>8. CASE UNCHANGED <<agents, claims>>
  BY <1>8 DEF leaseOf, progressOf, authorOf
<1>9. QED
  BY <1>1, <1>2, <1>3, <1>4, <1>5, <1>6, <1>7, <1>8 DEF StoreNext, StepCalls,
     MigrationCalls, storeVars, start_migration_check, start_migration_insert,
     transition_migration

\* The tables implement the abstract lease: it moves one epoch at a time, and a step
\* is authored once, by the epoch that holds the lease when it is committed.
THEOREM StoreImplementsOwnership == StoreSpec => ImplementsOwnership
<1>1. StoreInit => Own!OwnershipInit
  BY OwnershipInitially
<1>2. StoreInv /\ StoreInv' /\ StepAuthorship /\ [StoreNext]_storeVars
        => [Own!OwnershipNext]_(Own!ownershipVars)
  BY OwnershipStepwise DEF Own!ownershipVars, StoreInv
<1>3. QED
  BY <1>1, <1>2, StoreInvariant, AuthorsNeverGoBack, PTL
     DEF StoreSpec, ImplementsOwnership, Own!OwnershipSpec

=============================================================================
