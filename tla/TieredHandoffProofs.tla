-------------------------- MODULE TieredHandoffProofs --------------------------
(***************************************************************************)
(* Theorems about TieredHandoff for every set of agents, engines and       *)
(* handoffs, and every bound on the queue, the pool and the faults.        *)
(*                                                                         *)
(* The argument has two layers.  EngineInv is about the engines alone: a   *)
(* record of a tier operation fits its id and its state, its id is in the  *)
(* queue exactly once while it is QUEUED, and the rows add up.  Every RPC  *)
(* keeps it, but a poll that installs rows keeps it only when they are the *)
(* agent's own and the agent has no pin there, and an export is worth its  *)
(* rows only while its pin holds them.  These are known of the operations  *)
(* that a running call polls (HandoffFits, ParkFits), not of one that a    *)
(* call gave up and left behind: nobody polls those.                       *)
(***************************************************************************)
EXTENDS TieredHandoff, StateStoreProofs

-----------------------------------------------------------------------------
(* The engines. *)

OperationIds == Migrations \X {"export", "import"} \cup Parked \X {"offload", "restore"}

Checkpoints == Migrations \cup Parked

Records ==
    [state : {"NONE", "QUEUED", "COPYING", "COPY_DONE", "COMPLETE", "FAILED"},
     operation : TM!TierKinds \cup {"none"}, checkpoint : Checkpoints \cup {"none"},
     agent : Agents \cup {"none"}, epoch : Nat, release_gpu : BOOLEAN,
     rows : {"own", "other", "none", "blank"}, host : {"own", "other", "none", "partial"}]

HostPrefixes ==
    [agent : Agents \cup {"none"}, epoch : Nat, rows : {"own", "other", "none", "partial"}]

\* The engines' pins and pools.
PoolTyped ==
    /\ prefixes \in [Engines -> [Agents -> Nat]]
    /\ locks \in [Engines -> [Agents -> Nat]]
    /\ cache \in [Engines -> [Agents -> {"own", "other", "absent"}]]
    /\ free \in [Engines -> Nat]

\* Their tables of tier operations.
TierTyped ==
    /\ tier_operations \in [Engines -> [OperationIds -> Records]]
    /\ tier_queue \in [Engines -> Seq(OperationIds)]
    /\ host_prefixes \in [Engines -> [Checkpoints -> HostPrefixes]]
    /\ shared \in [Checkpoints -> {"absent", "partial", "own", "other"}]

\* The kind of an operation is in its id.
KindFits(o, kind) ==
    <<o[2], kind>> \in
        {<<"export", "shared_export">>, <<"import", "shared_import">>,
         <<"offload", "private_offload">>, <<"restore", "private_restore">>}

Reads(o) == o[2] \in {"export", "offload"}

\* A record's rows follow from its id and its state.
RowsFit(o, op) ==
    /\ op.state = "NONE" \/ op.state = "COMPLETE" \/ Reads(o) => op.rows = "none"
    /\ ~Reads(o) /\ op.state \in {"QUEUED", "COPYING"} => op.rows = "blank"
    /\ ~Reads(o) /\ op.state = "COPY_DONE" => op.rows \in {"own", "other"}
    /\ o[2] = "restore" /\ op.state \in {"QUEUED", "COPYING"} => op.host = "own"
    /\ o[2] = "restore" /\ op.state = "COPY_DONE" => op.rows = "own"

RecordFits(o, op) ==
    /\ RowsFit(o, op)
    /\ op.state # "NONE" =>
          /\ KindFits(o, op.operation) /\ op.checkpoint = o[1]
          /\ op.agent \in Agents /\ op.epoch # 0
          /\ op.release_gpu <=> o[2] = "offload"

RecordsFit == \A e \in Engines, o \in OperationIds : RecordFits(o, tier_operations[e][o])

\* An id in the queue is of a record that is QUEUED, and is there once.
QueuesFit ==
    \A e \in Engines :
        /\ \A i \in DOMAIN tier_queue[e] :
              tier_operations[e][tier_queue[e][i]].state = "QUEUED"
        /\ \A i, j \in DOMAIN tier_queue[e] : tier_queue[e][i] = tier_queue[e][j] => i = j

\* The rows of an agent that are in its host's memory are its own.
HostsOwn ==
    \A e \in Engines, c \in Checkpoints :
        host_prefixes[e][c].epoch # 0 => host_prefixes[e][c].rows = "own"

PinsResident == \A e \in Engines, a \in Agents : TM!Pinned(e, a) => TM!Resident(e, a)

PinsLocked == \A e \in Engines, a \in Agents : TM!Pinned(e, a) => locks[e][a] # 0

\* The rows of an engine that are not reserved, and those that are.
ResidentRows(e) == Cardinality({a \in Agents : cache[e][a] # "absent"})

PoolRows(e) == free[e] + ResidentRows(e)

ReservedRows(e) == Cardinality(TM!TierReserved(e))

PoolInv ==
    /\ PoolTyped
    /\ PinsResident
    /\ PinsLocked
    /\ RestoredRowsAreOwn

RecordsInv == TierTyped /\ RecordsFit /\ QueuesFit /\ HostsOwn

EngineInv == PoolInv /\ RecordsInv /\ TierPoolAccounting

-----------------------------------------------------------------------------
(* The calls. *)

\* What a running handoff is at, and the state of its row.
RunningStates ==
    {<<"pin", "PREPARING">>}
      \cup {"export", "exporting", "exportUndo", "import", "importing", "importUndo",
            "undoExport"} \X {"COPYING"}
      \cup {<<"commit", "DEST_READY">>}
      \cup {"cleanExport", "cleanImport", "releaseImported", "undoImported", "undoBoth"}
              \X {"COMMITTED", "SOURCE_RELEASED"}

ParkingStates ==
    {"idle", "offload", "offloading", "offloadUndo", "restore", "restoring", "restoreUndo",
     "release", "cleanRestore", "cleanOffload", "done", "failed"}

Running(m) == task[m].pc \notin {"idle", "lock", "done", "failed"}

CallsTyped ==
    /\ task \in [Migrations ->
          [pc : {"idle", "lock", "done", "failed"} \cup {p[1] : p \in RunningStates},
           agent : Agents \cup {None}, source : Engines \cup {None},
           destination : Engines \cup {None}, epoch : Nat]]
    /\ parking \in [Parked -> ParkingStates]
    /\ handoffLock \in Migrations \cup {None}
    /\ faults \in 0..MaxFaults

\* A row is of an agent that is not parked.
RowFits(m) ==
    migrations[m].state # "NONE" =>
        /\ migrations[m].agent \in Agents \ Parked /\ migrations[m].epoch # 0
        /\ migrations[m].source # migrations[m].destination

\* A running call holds the lock, and its agent has no other live migration.
CallFits(m) ==
    LET t == task[m]
        row == migrations[m]
    IN
    /\ t.pc \in {"idle", "lock"} => row.state = "NONE"
    /\ t.pc = "lock" => t.agent \in Agents \ Parked /\ t.destination \in Engines
    /\ Running(m) =>
          /\ handoffLock = m
          /\ <<t.pc, row.state>> \in RunningStates
          /\ t.agent = row.agent /\ t.source = row.source
          /\ t.destination = row.destination /\ t.epoch = row.epoch
          /\ \A n \in Migrations :
                n # m /\ LiveMigration(n) => migrations[n].agent # row.agent
    /\ faults = 0 => t.pc \notin {"releaseImported", "undoImported", "undoBoth"}

\* An operation that a call is waiting for: it is the call's, and goes on, or was flushed.
Awaited(op, a, epoch) ==
    op.state # "NONE" =>
        /\ op.agent = a /\ op.epoch = epoch
        /\ op.state \in {"QUEUED", "COPYING", "COPY_DONE", "FAILED"}

\* An operation that its call saw complete.
Completed(op) == op.state = "COMPLETE" \/ (op.state = "NONE" /\ faults # 0)

\* The operations of a handoff: until they are started they do not exist, an export reads
\* rows that are pinned and has a whole file when it is complete, and an import finds it
\* and no pin.
OperationsFit(m) ==
    LET t == task[m]
        pc == t.pc
        export == tier_operations[t.source][Export(m)]
        import == tier_operations[t.destination][Import(m)]
    IN
    /\ pc \in {"idle", "lock", "pin", "export"} =>
          \A e \in Engines : TM!TierState(e, Export(m)) = "NONE"
    /\ pc \in {"idle", "lock", "pin", "export", "exporting", "exportUndo", "import"} =>
          \A e \in Engines : TM!TierState(e, Import(m)) = "NONE"
    /\ pc \in {"exporting", "import", "importing"} =>
          \A e \in Engines : e # t.source => TM!TierState(e, Export(m)) = "NONE"
    /\ pc = "exporting" =>
          /\ Awaited(export, t.agent, t.epoch)
          /\ export.state \in {"QUEUED", "COPYING"} /\ export.host = "partial" =>
                shared[m] # "absent"
          /\ export.state = "COPY_DONE" => shared[m] = "own"
          /\ export.state \in {"QUEUED", "COPYING", "COPY_DONE"} =>
                prefixes[t.source][t.agent] = t.epoch
    /\ pc \in {"import", "importing", "commit", "cleanExport"} => Completed(export)
    /\ pc \in {"import", "importing"} => shared[m] = "own"
    /\ pc = "importing" =>
          /\ Awaited(import, t.agent, t.epoch + 1)
          /\ import.state = "COPY_DONE" => import.rows = "own"
          /\ ~TM!Pinned(t.destination, t.agent)
    /\ pc \in {"commit", "cleanExport", "cleanImport"} => Completed(import)

\* The pins of a handoff.
PinsFit(m) ==
    LET row == migrations[m] IN
    /\ row.state \in {"COPYING", "DEST_READY", "COMMITTED"} /\ faults = 0 =>
          prefixes[row.source][row.agent] = row.epoch
    /\ row.state \in {"DEST_READY", "COMMITTED"} /\ faults = 0 =>
          prefixes[row.destination][row.agent] = row.epoch + 1

HandoffFits(m) == RowFits(m) /\ CallFits(m) /\ OperationsFit(m) /\ PinsFit(m)

\* The calls of a parked agent.
ParkFits(a) ==
    LET e == agents[a].owner
        epoch == agents[a].epoch
        pc == parking[a]
        offload == tier_operations[e][<<a, "offload">>]
        restore == tier_operations[e][<<a, "restore">>]
    IN
    /\ pc \in {"idle", "offload"} => offload.state = "NONE"
    /\ pc \in {"idle", "offload", "offloading", "offloadUndo", "restore"} =>
          restore.state = "NONE"
    /\ pc = "offloading" =>
          /\ Awaited(offload, a, epoch)
          /\ offload.state \in {"QUEUED", "COPYING", "COPY_DONE"} => TM!Pinned(e, a)
          /\ offload.state = "COPY_DONE" => offload.host = "own"
    /\ pc = "restoring" => Awaited(restore, a, epoch) /\ ~TM!Pinned(e, a)

HandoffInv ==
    /\ EngineInv
    /\ CallsTyped
    /\ CoordinatedInv
    /\ \A m \in Migrations : HandoffFits(m)
    /\ \A a \in Parked : ParkFits(a)

-----------------------------------------------------------------------------
(* Rows are counted. *)

\* The sets that are counted are finite.
LEMMA FiniteSets ==
    /\ \A S \in SUBSET Agents : IsFiniteSet(S) /\ Cardinality(S) \in Nat
    /\ \A S \in SUBSET OperationIds : IsFiniteSet(S) /\ Cardinality(S) \in Nat
<1>1. IsFiniteSet(Agents) /\ IsFiniteSet(Migrations) /\ IsFiniteSet(Parked)
  BY HandoffAssumption, FS_Subset
<1>2. IsFiniteSet({"export"}) /\ IsFiniteSet({"offload"})
  BY FS_Singleton
<1>3. IsFiniteSet({"export"} \cup {"import"}) /\ IsFiniteSet({"offload"} \cup {"restore"})
  BY <1>2, FS_AddElement
<1>4. IsFiniteSet({"export", "import"}) /\ IsFiniteSet({"offload", "restore"})
  <2>1. /\ {"export", "import"} = {"export"} \cup {"import"}
        /\ {"offload", "restore"} = {"offload"} \cup {"restore"}
    OBVIOUS
  <2>2. QED
    BY <1>3, <2>1
<1>5. IsFiniteSet(OperationIds)
  BY <1>1, <1>4, FS_Product, FS_Union DEF OperationIds
<1>6. QED
  BY <1>1, <1>5, FS_Subset, FS_CardinalityType

\* What is counted of an engine, before a step and after it.
LEMMA RowsCounted ==
    ASSUME NEW e \in Engines
    PROVE  /\ ResidentRows(e) \in Nat /\ ResidentRows(e)' \in Nat
           /\ ReservedRows(e) \in Nat /\ ReservedRows(e)' \in Nat
<1>1. /\ TM!TierReserved(e) \in SUBSET OperationIds
      /\ TM!TierReserved(e)' \in SUBSET OperationIds
  BY DEF TM!TierReserved, OperationIds
<1>2. /\ {a \in Agents : cache[e][a] # "absent"} \in SUBSET Agents
      /\ {a \in Agents : cache'[e][a] # "absent"} \in SUBSET Agents
  OBVIOUS
<1>3. QED
  BY <1>1, <1>2, FiniteSets DEF ReservedRows, ResidentRows

\* What is reserved may become blank or written, and the sum is kept.
Balances ==
    \A e \in Engines :
        PoolRows(e)' + ReservedRows(e)' = PoolRows(e) + ReservedRows(e)

\* Engines whose parts keep what is known of them, and whose rows add up.
LEMMA EngineKept ==
    ASSUME EngineInv, PoolInv', RecordsInv', Balances
    PROVE  EngineInv'
<1>1. TierPoolAccounting'
  BY DEF EngineInv, TierPoolAccounting, Balances, PoolRows, ResidentRows, ReservedRows
<1>2. QED
  BY <1>1 DEF EngineInv

\* An engine's rows in the pool become one more or one less, or stay.
PoolStays == PoolInv' /\ \A x \in Engines : PoolRows(x)' = PoolRows(x)

PoolGains(e) ==
    /\ PoolInv'
    /\ \A x \in Engines : PoolRows(x)' = IF x = e THEN PoolRows(x) + 1 ELSE PoolRows(x)

PoolGives(e) ==
    /\ PoolInv'
    /\ \A x \in Engines : PoolRows(x) = IF x = e THEN PoolRows(x)' + 1 ELSE PoolRows(x)'

\* And so do its reservations.
RecordsStay == RecordsInv' /\ \A x \in Engines : ReservedRows(x)' = ReservedRows(x)

RecordsTake(e) ==
    /\ RecordsInv'
    /\ \A x \in Engines :
          ReservedRows(x)' = IF x = e THEN ReservedRows(x) + 1 ELSE ReservedRows(x)

RecordsReturn(e) ==
    /\ RecordsInv'
    /\ \A x \in Engines :
          ReservedRows(x) = IF x = e THEN ReservedRows(x)' + 1 ELSE ReservedRows(x)'

\* The rows that leave the one are those that the other gets.
LEMMA RowsMove ==
    ASSUME EngineInv, NEW e \in Engines,
           \/ PoolStays /\ RecordsStay
           \/ PoolGains(e) /\ RecordsReturn(e)
           \/ PoolGives(e) /\ RecordsTake(e)
    PROVE  EngineInv'
<1>1. PoolInv' /\ RecordsInv'
  BY DEF PoolStays, PoolGains, PoolGives, RecordsStay, RecordsTake, RecordsReturn
<1>2. ASSUME NEW x \in Engines
      PROVE  PoolRows(x)' + ReservedRows(x)' = PoolRows(x) + ReservedRows(x)
  <2>1. /\ PoolRows(x) \in Nat /\ PoolRows(x)' \in Nat
        /\ ReservedRows(x) \in Nat /\ ReservedRows(x)' \in Nat
    <3>1. /\ free[x] \in Nat /\ free'[x] \in Nat
      BY <1>1 DEF EngineInv, PoolInv, PoolTyped
    <3>2. /\ ResidentRows(x) \in Nat /\ ResidentRows(x)' \in Nat
          /\ ReservedRows(x) \in Nat /\ ReservedRows(x)' \in Nat
      BY RowsCounted
    <3>3. QED
      BY <3>1, <3>2 DEF PoolRows
  <2>2. CASE PoolStays /\ RecordsStay
    BY <2>2 DEF PoolStays, RecordsStay
  <2>3. CASE PoolGains(e) /\ RecordsReturn(e)
    BY <2>1, <2>3 DEF PoolGains, RecordsReturn
  <2>4. CASE PoolGives(e) /\ RecordsTake(e)
    BY <2>1, <2>4 DEF PoolGives, RecordsTake
  <2>5. QED
    BY <2>2, <2>3, <2>4
<1>3. QED
  BY <1>1, <1>2, EngineKept DEF Balances

-----------------------------------------------------------------------------
(* Pins and pools. *)

\* The residents of an engine when one is written.
LEMMA ResidentWritten ==
    ASSUME PoolTyped, NEW e \in Engines, NEW a \in Agents, NEW row,
           cache' = [cache EXCEPT ![e][a] = row]
    PROVE  /\ \A x \in Engines : x # e => ResidentRows(x)' = ResidentRows(x)
           /\ row # "absent" /\ cache[e][a] = "absent" =>
                 ResidentRows(e)' = ResidentRows(e) + 1
           /\ row = "absent" /\ cache[e][a] # "absent" =>
                 ResidentRows(e) = ResidentRows(e)' + 1
<1> DEFINE before == {b \in Agents : cache[e][b] # "absent"}
           after == {b \in Agents : cache'[e][b] # "absent"}
<1>1. /\ \A x \in Engines, b \in Agents :
            cache'[x][b] = IF x = e /\ b = a THEN row ELSE cache[x][b]
      /\ IsFiniteSet(before) /\ IsFiniteSet(after)
  BY FiniteSets DEF PoolTyped
<1>2. ASSUME NEW x \in Engines, x # e
      PROVE  ResidentRows(x)' = ResidentRows(x)
  <2>1. \A b \in Agents : cache'[x][b] = cache[x][b]
    BY <1>1, <1>2
  <2>2. QED
    BY <2>1 DEF ResidentRows
<1>3. ASSUME row # "absent", cache[e][a] = "absent"
      PROVE  ResidentRows(e)' = ResidentRows(e) + 1
  <2>1. after = before \cup {a} /\ a \notin before
    BY <1>1, <1>3
  <2>2. Cardinality(after) = Cardinality(before) + 1
    BY <1>1, <2>1, FS_AddElement
  <2>3. QED
    BY <2>2 DEF ResidentRows
<1>4. ASSUME row = "absent", cache[e][a] # "absent"
      PROVE  ResidentRows(e) = ResidentRows(e)' + 1
  <2>1. before = after \cup {a} /\ a \notin after
    BY <1>1, <1>4
  <2>2. Cardinality(before) = Cardinality(after) + 1
    BY <1>1, <2>1, FS_AddElement
  <2>3. QED
    BY <2>2 DEF ResidentRows
<1>5. QED
  BY <1>2, <1>3, <1>4

\* What follows when one resident is written, and the free rows of its engine change.
PoolChange(e, a, row, n) ==
    /\ cache' \in [Engines -> [Agents -> {"own", "other", "absent"}]]
    /\ free' \in [Engines -> Nat]
    /\ RestoredRowsAreOwn'
    /\ \A x \in Engines, b \in Agents : x # e \/ b # a => cache'[x][b] = cache[x][b]
    /\ cache'[e][a] = row
    /\ \A x \in Engines : x # e => PoolRows(x)' = PoolRows(x)
    /\ row = "own" /\ cache[e][a] = "absent" /\ n = free[e] =>
          PoolRows(e)' = PoolRows(e) + 1
    /\ row = "own" /\ cache[e][a] = "absent" /\ n + 1 = free[e] =>
          PoolRows(e)' = PoolRows(e)
    /\ row = "absent" /\ cache[e][a] # "absent" /\ n = free[e] + 1 =>
          PoolRows(e)' = PoolRows(e)
    /\ row = "absent" /\ cache[e][a] # "absent" /\ n = free[e] =>
          PoolRows(e) = PoolRows(e)' + 1

\* It does.
LEMMA PoolWritten ==
    ASSUME PoolInv, NEW e \in Engines, NEW a \in Agents, NEW row \in {"own", "absent"},
           NEW n \in Nat,
           cache' = [cache EXCEPT ![e][a] = row], free' = [free EXCEPT ![e] = n]
    PROVE  PoolChange(e, a, row, n)
<1>1. PoolTyped
  BY DEF PoolInv
<1>2. /\ cache' \in [Engines -> [Agents -> {"own", "other", "absent"}]]
      /\ free' \in [Engines -> Nat]
      /\ \A x \in Engines, b \in Agents : x # e \/ b # a => cache'[x][b] = cache[x][b]
      /\ cache'[e][a] = row
      /\ \A x \in Engines : free'[x] = IF x = e THEN n ELSE free[x]
      /\ free[e] \in Nat
  BY <1>1 DEF PoolTyped
<1>3. RestoredRowsAreOwn'
  BY <1>2 DEF PoolInv, RestoredRowsAreOwn
<1>4. \A x \in Engines : x # e => PoolRows(x)' = PoolRows(x)
  BY <1>1, <1>2, ResidentWritten DEF PoolRows
<1>5. /\ ResidentRows(e) \in Nat /\ ResidentRows(e)' \in Nat
      /\ row = "own" /\ cache[e][a] = "absent" => ResidentRows(e)' = ResidentRows(e) + 1
      /\ row = "absent" /\ cache[e][a] # "absent" => ResidentRows(e) = ResidentRows(e)' + 1
  BY <1>1, RowsCounted, ResidentWritten
<1>6. PoolRows(e) = free[e] + ResidentRows(e) /\ PoolRows(e)' = n + ResidentRows(e)'
  BY <1>2 DEF PoolRows
<1>7. QED
  <2>1. /\ row = "own" /\ cache[e][a] = "absent" /\ n = free[e] =>
              PoolRows(e)' = PoolRows(e) + 1
        /\ row = "own" /\ cache[e][a] = "absent" /\ n + 1 = free[e] =>
              PoolRows(e)' = PoolRows(e)
        /\ row = "absent" /\ cache[e][a] # "absent" /\ n = free[e] + 1 =>
              PoolRows(e)' = PoolRows(e)
        /\ row = "absent" /\ cache[e][a] # "absent" /\ n = free[e] =>
              PoolRows(e) = PoolRows(e)' + 1
    <3>1. n \in Nat /\ free[e] \in Nat
      BY <1>2
    <3>2. QED
      BY <1>5, <1>6, <3>1, SMTT(30)
  <2>2. QED
    BY <1>2, <1>3, <1>4, <2>1 DEF PoolChange

\* Free rows alone.
LEMMA FreeWritten ==
    ASSUME PoolInv, NEW e \in Engines, NEW n \in Nat,
           UNCHANGED cache, free' = [free EXCEPT ![e] = n]
    PROVE  /\ free' \in [Engines -> Nat]
           /\ \A x \in Engines : x # e => PoolRows(x)' = PoolRows(x)
           /\ n = free[e] + 1 => PoolRows(e)' = PoolRows(e) + 1
           /\ n + 1 = free[e] => PoolRows(e) = PoolRows(e)' + 1
           /\ n = free[e] => PoolRows(e) = PoolRows(e)'
<1>1. /\ free' \in [Engines -> Nat] /\ free[e] \in Nat
      /\ \A x \in Engines : free'[x] = IF x = e THEN n ELSE free[x]
  BY DEF PoolInv, PoolTyped
<1>2. \A x \in Engines : ResidentRows(x)' = ResidentRows(x)
  BY DEF ResidentRows
<1>3. /\ ResidentRows(e) \in Nat
      /\ PoolRows(e) = free[e] + ResidentRows(e) /\ PoolRows(e)' = n + ResidentRows(e)
  BY <1>1, <1>2, RowsCounted DEF PoolRows
<1>4. QED
  BY <1>1, <1>2, <1>3 DEF PoolRows

\* Nothing of the pool changes.
LEMMA PoolRests ==
    ASSUME PoolInv, UNCHANGED <<prefixes, locks, cache, free>>
    PROVE  PoolStays
BY DEF PoolStays, PoolInv, PoolTyped, PinsResident, PinsLocked,
       RestoredRowsAreOwn, PoolRows, ResidentRows, TM!Pinned, TM!Resident

\* A pin is set on a resident prefix (patch:1103-1144).
LEMMA PinKeepsPool ==
    ASSUME PoolInv, NEW e \in Engines, NEW a \in Agents, NEW epoch \in Nat \ {0},
           TM!pin(e, a, epoch)
    PROVE  /\ PoolStays
           /\ prefixes' = [prefixes EXCEPT ![e][a] = epoch]
           /\ prefixes[e][a] \in {0, epoch}
<1>1. /\ prefixes' = [prefixes EXCEPT ![e][a] = epoch]
      /\ locks' = [locks EXCEPT ![e][a] = IF TM!Pinned(e, a) THEN @ ELSE @ + 1]
      /\ UNCHANGED <<cache, free>>
      /\ TM!Pinned(e, a) => prefixes[e][a] = epoch
      /\ ~TM!Pinned(e, a) => TM!Resident(e, a)
  BY DEF TM!pin, TM!PinAllowed, TM!poolVars
<1>2. PoolTyped'
  BY <1>1 DEF PoolInv, PoolTyped
<1>3. PinsResident' /\ PinsLocked' /\ RestoredRowsAreOwn'
  BY <1>1 DEF PoolInv, PoolTyped, PinsResident, PinsLocked, RestoredRowsAreOwn,
              TM!Pinned, TM!Resident
<1>4. QED
  BY <1>1, <1>2, <1>3 DEF PoolStays, PoolInv, PoolRows, ResidentRows, TM!Pinned

\* A resident that is not locked makes room.
LEMMA EvictKeepsPool ==
    ASSUME PoolInv, NEW e \in Engines, NEW b \in TM!Evictable(e), UNCHANGED <<prefixes, locks>>,
           cache' = [cache EXCEPT ![e][b] = "absent"], NEW n \in Nat,
           free' = [free EXCEPT ![e] = n]
    PROVE  /\ PoolInv'
           /\ n = free[e] + 1 => PoolStays
           /\ n = free[e] => PoolGives(e)
<1>1. b \in Agents /\ cache[e][b] # "absent" /\ locks[e][b] = 0
  BY DEF TM!Evictable, TM!Resident
<1>2. "absent" \in {"own", "absent"}
  OBVIOUS
<1>3. PoolChange(e, b, "absent", n)
  BY <1>1, <1>2, PoolWritten
<1>4. /\ cache' \in [Engines -> [Agents -> {"own", "other", "absent"}]]
      /\ free' \in [Engines -> Nat] /\ RestoredRowsAreOwn'
      /\ \A x \in Engines, c \in Agents : x # e \/ c # b => cache'[x][c] = cache[x][c]
      /\ \A x \in Engines : x # e => PoolRows(x)' = PoolRows(x)
      /\ n = free[e] + 1 => PoolRows(e)' = PoolRows(e)
      /\ n = free[e] => PoolRows(e) = PoolRows(e)' + 1
  BY <1>1, <1>3 DEF PoolChange
<1>5. PoolTyped' /\ PinsLocked'
  BY <1>4 DEF PoolInv, PoolTyped, PinsLocked, TM!Pinned
<1>6. PinsResident'
  BY <1>1, <1>4 DEF PoolInv, PinsLocked, PinsResident, TM!Pinned, TM!Resident
<1>7. QED
  BY <1>4, <1>5, <1>6 DEF PoolInv, PoolStays, PoolGives

\* A pin that is released, and the eviction that may follow (patch:1146-1172).
LEMMA ReleaseKeepsPool ==
    ASSUME PoolInv, NEW e \in Engines, NEW a \in Agents, NEW epoch, NEW evicts, NEW missing,
           TM!release(e, a, epoch, evicts, missing)
    PROVE  /\ PoolStays
           /\ prefixes' = [prefixes EXCEPT ![e][a] = 0]
           /\ TM!Pinned(e, a) => prefixes[e][a] = epoch
<1>1. PoolTyped /\ PinsLocked /\ PinsResident /\ RestoredRowsAreOwn
  BY DEF PoolInv
<1>2. CASE ~TM!Pinned(e, a)
  <2>1. UNCHANGED <<prefixes, locks, cache, free>>
    BY <1>2 DEF TM!release, TM!pinVars, TM!poolVars
  <2>2. prefixes' = [prefixes EXCEPT ![e][a] = 0]
    BY <1>1, <1>2, <2>1 DEF PoolTyped, TM!Pinned
  <2>3. QED
    BY <1>2, <2>1, <2>2, PoolRests
<1>3. CASE TM!Pinned(e, a)
  <2>1. /\ prefixes' = [prefixes EXCEPT ![e][a] = 0]
        /\ locks' = [locks EXCEPT ![e][a] = @ - 1]
        /\ prefixes[e][a] = epoch
        /\ \/ /\ \E b \in {b \in Agents : TM!Resident(e, b) /\ locks'[e][b] = 0} :
                    cache' = [cache EXCEPT ![e][b] = "absent"]
              /\ free' = [free EXCEPT ![e] = @ + 1]
           \/ UNCHANGED <<cache, free>>
    BY <1>3 DEF TM!release, TM!ReleaseAllowed, TM!poolVars
  <2>2. /\ prefixes' \in [Engines -> [Agents -> Nat]]
        /\ locks' \in [Engines -> [Agents -> Nat]]
        /\ PinsLocked'
    <3>1. locks[e][a] - 1 \in Nat
      BY <1>1, <1>3 DEF PoolTyped, PinsLocked
    <3>2. locks' \in [Engines -> [Agents -> Nat]]
      BY <1>1, <2>1, <3>1 DEF PoolTyped
    <3>3. QED
      BY <1>1, <2>1, <3>2 DEF PoolTyped, PinsLocked, TM!Pinned
  <2>3. \A x \in Engines, b \in Agents : prefixes'[x][b] # 0 =>
           prefixes[x][b] # 0 /\ locks'[x][b] # 0
    BY <1>1, <2>1, <2>2 DEF PoolTyped, PinsLocked, TM!Pinned
  <2>4. CASE UNCHANGED <<cache, free>>
    <3>1. PinsResident'
      BY <1>1, <2>3, <2>4 DEF PinsResident, TM!Pinned, TM!Resident
    <3>2. QED
      BY <1>1, <2>1, <2>2, <2>4, <3>1
         DEF PoolStays, PoolInv, PoolTyped, RestoredRowsAreOwn, PoolRows, ResidentRows
  <2>5. ASSUME NEW b \in Agents, TM!Resident(e, b), locks'[e][b] = 0,
               cache' = [cache EXCEPT ![e][b] = "absent"], free' = [free EXCEPT ![e] = @ + 1]
        PROVE  PoolStays
    <3>1. PICK n \in Nat : n = free[e] + 1 /\ "absent" \in {"own", "absent"}
      BY <1>1 DEF PoolTyped
    <3>2. PoolChange(e, b, "absent", n)
      BY <2>5, <3>1, PoolWritten
    <3>3. /\ cache' \in [Engines -> [Agents -> {"own", "other", "absent"}]]
          /\ free' \in [Engines -> Nat] /\ RestoredRowsAreOwn'
          /\ \A x \in Engines, c \in Agents : x # e \/ c # b => cache'[x][c] = cache[x][c]
          /\ \A x \in Engines : PoolRows(x)' = PoolRows(x)
      BY <2>5, <3>1, <3>2 DEF PoolChange, TM!Resident
    <3>4. PinsResident'
      BY <1>1, <2>3, <2>5, <3>3 DEF PinsResident, TM!Pinned, TM!Resident
    <3>5. QED
      BY <2>2, <3>3, <3>4 DEF PoolStays, PoolInv, PoolTyped
  <2>6. PoolStays
    BY <2>1, <2>4, <2>5
  <2>7. QED
    BY <2>1, <2>6
<1>4. QED
  BY <1>2, <1>3

\* A reservation takes a free row, or an evicted one (patch:1240-1253).
LEMMA AllocateKeepsPool ==
    ASSUME PoolInv, NEW e \in Engines, TM!AllocatesRow(e), UNCHANGED <<prefixes, locks>>
    PROVE  PoolGives(e)
<1>1. PoolTyped /\ free[e] \in Nat
  BY DEF PoolInv, PoolTyped
<1>2. CASE free[e] > 0 /\ free' = [free EXCEPT ![e] = @ - 1] /\ UNCHANGED cache
  <2>1. PICK n \in Nat : n = free[e] - 1
    BY <1>1, <1>2
  <2>2. free' = [free EXCEPT ![e] = n] /\ n + 1 = free[e]
    BY <1>1, <1>2, <2>1
  <2>3. /\ free' \in [Engines -> Nat]
        /\ \A x \in Engines : x # e => PoolRows(x)' = PoolRows(x)
        /\ PoolRows(e) = PoolRows(e)' + 1
    BY <1>2, <2>2, FreeWritten
  <2>4. PoolInv'
    BY <1>2, <2>3 DEF PoolInv, PoolTyped, PinsResident, PinsLocked,
       RestoredRowsAreOwn, TM!Pinned, TM!Resident
  <2>5. QED
    BY <2>3, <2>4 DEF PoolGives
<1>3. ASSUME NEW b \in TM!Evictable(e), cache' = [cache EXCEPT ![e][b] = "absent"],
             UNCHANGED free
      PROVE  PoolGives(e)
  <2>1. free' = [free EXCEPT ![e] = free[e]]
    BY <1>1, <1>3 DEF PoolTyped
  <2>2. QED
    BY <1>1, <1>3, <2>1, EvictKeepsPool
<1>4. QED
  BY <1>2, <1>3 DEF TM!AllocatesRow

\* Copied rows are installed under a new pin, or freed when the prefix is resident
\* (patch:1413-1450).
LEMMA InstallKeepsPool ==
    ASSUME PoolInv, NEW e \in Engines, NEW a \in Agents, NEW epoch \in Nat \ {0},
           ~TM!Pinned(e, a), TM!InstallsPrefix(e, a, epoch, "own")
    PROVE  PoolGains(e) /\ prefixes' = [prefixes EXCEPT ![e][a] = epoch]
<1>1. PoolTyped /\ free[e] \in Nat /\ "own" \in {"own", "absent"}
  BY DEF PoolInv, PoolTyped
<1>2. /\ prefixes' = [prefixes EXCEPT ![e][a] = epoch]
      /\ locks' = [locks EXCEPT ![e][a] = @ + 1]
  BY DEF TM!InstallsPrefix
<1>3. /\ prefixes' \in [Engines -> [Agents -> Nat]] /\ locks' \in [Engines -> [Agents -> Nat]]
      /\ PinsLocked'
  <2>1. PinsLocked /\ locks[e][a] + 1 \in Nat \ {0}
    BY <1>1 DEF PoolInv, PoolTyped
  <2>2. QED
    BY <1>1, <1>2, <2>1 DEF PoolTyped, PinsLocked, TM!Pinned
<1>4. CASE TM!Resident(e, a)
  <2>0. PICK n \in Nat : n = free[e] + 1
    BY <1>1
  <2>1. free' = [free EXCEPT ![e] = n] /\ UNCHANGED cache
    BY <1>4, <2>0 DEF TM!InstallsPrefix
  <2>2. /\ free' \in [Engines -> Nat]
        /\ \A x \in Engines : x # e => PoolRows(x)' = PoolRows(x)
        /\ PoolRows(e)' = PoolRows(e) + 1
    BY <2>0, <2>1, FreeWritten
  <2>3. PinsResident' /\ RestoredRowsAreOwn'
    BY <1>1, <1>2, <1>4, <2>1
       DEF PoolInv, PoolTyped, PinsResident, RestoredRowsAreOwn, TM!Pinned, TM!Resident
  <2>4. QED
    BY <1>1, <1>2, <1>3, <2>1, <2>2, <2>3 DEF PoolGains, PoolInv, PoolTyped
<1>5. CASE ~TM!Resident(e, a)
  <2>1. cache' = [cache EXCEPT ![e][a] = "own"] /\ free' = [free EXCEPT ![e] = free[e]]
    BY <1>1, <1>5 DEF TM!InstallsPrefix, PoolTyped
  <2>2. PoolChange(e, a, "own", free[e])
    BY <1>1, <2>1, PoolWritten
  <2>3. /\ cache' \in [Engines -> [Agents -> {"own", "other", "absent"}]]
        /\ free' \in [Engines -> Nat] /\ RestoredRowsAreOwn'
        /\ \A x \in Engines, c \in Agents : x # e \/ c # a => cache'[x][c] = cache[x][c]
        /\ cache'[e][a] = "own"
        /\ \A x \in Engines : x # e => PoolRows(x)' = PoolRows(x)
        /\ PoolRows(e)' = PoolRows(e) + 1
    BY <1>1, <1>5, <2>2 DEF PoolChange, TM!Resident
  <2>4. PinsResident'
    BY <1>1, <1>2, <2>3 DEF PoolInv, PoolTyped, PinsResident, TM!Pinned, TM!Resident
  <2>5. QED
    BY <1>2, <1>3, <2>3, <2>4 DEF PoolGains, PoolInv, PoolTyped
<1>6. QED
  BY <1>2, <1>4, <1>5

\* Locks that are added, and locks of another engine, say nothing of the pool.
LEMMA LocksAdded ==
    ASSUME PoolInv, NEW e \in Engines, NEW a \in Agents,
           UNCHANGED prefixes,
           UNCHANGED locks \/ locks' = [locks EXCEPT ![e][a] = @ + 1]
    PROVE  locks' \in [Engines -> [Agents -> Nat]] /\ PinsLocked'
<1>1. PoolTyped /\ PinsLocked
  BY DEF PoolInv
<1>2. locks[e][a] + 1 \in Nat \ {0}
  BY <1>1 DEF PoolTyped
<1>3. CASE UNCHANGED locks
  BY <1>1, <1>3 DEF PoolTyped, PinsLocked, TM!Pinned
<1>4. CASE locks' = [locks EXCEPT ![e][a] = @ + 1]
  <2>1. locks' \in [Engines -> [Agents -> Nat]]
    BY <1>1, <1>2, <1>4 DEF PoolTyped
  <2>2. \A x \in Engines, b \in Agents : locks[x][b] # 0 => locks'[x][b] # 0
    BY <1>1, <1>2, <1>4 DEF PoolTyped
  <2>3. QED
    BY <1>1, <2>1, <2>2 DEF PinsLocked, TM!Pinned
<1>5. QED
  BY <1>3, <1>4

\* A pin that raises leaves its lock (patch:1136-1144).
LEMMA PinFailsKeepsPool ==
    ASSUME PoolInv, NEW e \in Engines, NEW a \in Agents, TM!pin_fails(e, a)
    PROVE  PoolStays /\ UNCHANGED prefixes
<1>1. /\ locks' = [locks EXCEPT ![e][a] = @ + 1] /\ UNCHANGED <<prefixes, cache, free>>
  BY DEF TM!pin_fails, TM!poolVars
<1>2. locks' \in [Engines -> [Agents -> Nat]] /\ PinsLocked'
  BY <1>1, LocksAdded
<1>3. QED
  BY <1>1, <1>2 DEF PoolStays, PoolInv, PoolTyped, PinsResident, RestoredRowsAreOwn, PoolRows,
     ResidentRows, TM!Pinned, TM!Resident

\* Rows are freed, or are inserted without a pin.
LEMMA ReturnKeepsPool ==
    ASSUME PoolInv, NEW e \in Engines, NEW a \in Agents, UNCHANGED prefixes,
           UNCHANGED locks \/ locks' = [locks EXCEPT ![e][a] = @ + 1],
           \/ /\ ~TM!Resident(e, a) /\ cache' = [cache EXCEPT ![e][a] = "own"]
              /\ UNCHANGED free
           \/ free' = [free EXCEPT ![e] = @ + 1] /\ UNCHANGED cache
    PROVE  PoolGains(e)
<1>1. PoolTyped /\ free[e] \in Nat /\ "own" \in {"own", "absent"}
  BY DEF PoolInv, PoolTyped
<1>2. locks' \in [Engines -> [Agents -> Nat]] /\ PinsLocked'
  BY LocksAdded
<1>3. CASE free' = [free EXCEPT ![e] = @ + 1] /\ UNCHANGED cache
  <2>0. PICK n \in Nat : n = free[e] + 1
    BY <1>1
  <2>1. /\ free' \in [Engines -> Nat]
        /\ \A x \in Engines : x # e => PoolRows(x)' = PoolRows(x)
        /\ PoolRows(e)' = PoolRows(e) + 1
    BY <1>1, <1>3, <2>0, FreeWritten
  <2>2. QED
    BY <1>2, <1>3, <2>1 DEF PoolGains, PoolInv, PoolTyped, PinsResident,
       RestoredRowsAreOwn, TM!Pinned, TM!Resident
<1>4. CASE ~TM!Resident(e, a) /\ cache' = [cache EXCEPT ![e][a] = "own"] /\ UNCHANGED free
  <2>1. free' = [free EXCEPT ![e] = free[e]]
    BY <1>1, <1>4 DEF PoolTyped
  <2>2. PoolChange(e, a, "own", free[e])
    BY <1>1, <1>4, <2>1, PoolWritten
  <2>3. /\ cache' \in [Engines -> [Agents -> {"own", "other", "absent"}]]
        /\ free' \in [Engines -> Nat] /\ RestoredRowsAreOwn'
        /\ \A x \in Engines, c \in Agents : x # e \/ c # a => cache'[x][c] = cache[x][c]
        /\ cache'[e][a] = "own"
        /\ \A x \in Engines : x # e => PoolRows(x)' = PoolRows(x)
        /\ PoolRows(e)' = PoolRows(e) + 1
    BY <1>1, <1>4, <2>2 DEF PoolChange, TM!Resident
  <2>4. QED
    BY <1>2, <2>3 DEF PoolGains, PoolInv, PoolTyped, PinsResident, TM!Pinned, TM!Resident
<1>5. QED
  BY <1>3, <1>4

\* A turn computes a prefix, and other traffic evicts one.
LEMMA TrafficKeepsPool ==
    ASSUME PoolInv, NEW e \in Engines, NEW a \in Agents,
           TM!prefill(e, a) \/ TM!evict(e, a)
    PROVE  PoolStays /\ UNCHANGED prefixes
<1>1. PoolTyped /\ free[e] \in Nat /\ "own" \in {"own", "absent"}
  BY DEF PoolInv, PoolTyped
<1>2. CASE TM!evict(e, a)
  <2>0. PICK n \in Nat : n = free[e] + 1
    BY <1>1
  <2>1. /\ UNCHANGED <<prefixes, locks>> /\ a \in TM!Evictable(e)
        /\ cache' = [cache EXCEPT ![e][a] = "absent"]
        /\ free' = [free EXCEPT ![e] = n]
    BY <1>2, <2>0 DEF TM!evict, TM!pinVars
  <2>2. QED
    BY <2>0, <2>1, EvictKeepsPool
<1>3. CASE TM!prefill(e, a)
  <2>1. PICK n \in Nat : n = free[e] - 1
    BY <1>1, <1>3 DEF TM!prefill
  <2>2. /\ n + 1 = free[e] /\ cache[e][a] = "absent" /\ UNCHANGED <<prefixes, locks>>
        /\ free' = [free EXCEPT ![e] = n] /\ cache' = [cache EXCEPT ![e][a] = "own"]
    BY <1>1, <1>3, <2>1 DEF TM!prefill, TM!pinVars, TM!Resident
  <2>3. PoolChange(e, a, "own", n)
    BY <1>1, <2>2, PoolWritten
  <2>4. /\ cache' \in [Engines -> [Agents -> {"own", "other", "absent"}]]
        /\ free' \in [Engines -> Nat] /\ RestoredRowsAreOwn'
        /\ \A x \in Engines, c \in Agents : x # e \/ c # a => cache'[x][c] = cache[x][c]
        /\ cache'[e][a] = "own"
        /\ \A x \in Engines : PoolRows(x)' = PoolRows(x)
    BY <2>2, <2>3 DEF PoolChange
  <2>5. QED
    BY <2>2, <2>4 DEF PoolStays, PoolInv, PoolTyped, PinsResident, PinsLocked,
       TM!Pinned, TM!Resident
<1>4. QED
  BY <1>2, <1>3

-----------------------------------------------------------------------------
(* Records and queues. *)

\* One record is written.
Writes(e, o, r) == tier_operations' = [tier_operations EXCEPT ![e][o] = r]

\* What it says to the counts.
LEMMA ReservedWritten ==
    ASSUME TierTyped, NEW e \in Engines, NEW o \in OperationIds, NEW r \in Records,
           Writes(e, o, r)
    PROVE  LET old == tier_operations[e][o] IN
           /\ \A x \in Engines : x # e => ReservedRows(x)' = ReservedRows(x)
           /\ (r.rows = "none" <=> old.rows = "none") => ReservedRows(e)' = ReservedRows(e)
           /\ r.rows # "none" /\ old.rows = "none" => ReservedRows(e)' = ReservedRows(e) + 1
           /\ r.rows = "none" /\ old.rows # "none" => ReservedRows(e) = ReservedRows(e)' + 1
<1>1. /\ tier_operations'[e][o] = r
      /\ \A x \in Engines, p \in OperationIds : x # e \/ p # o =>
            tier_operations'[x][p] = tier_operations[x][p]
  BY DEF TierTyped, Writes
<1>2. \A x \in Engines :
         /\ TM!TierReserved(x) = {p \in OperationIds : tier_operations[x][p].rows # "none"}
         /\ TM!TierReserved(x)' = {p \in OperationIds : tier_operations'[x][p].rows # "none"}
  BY DEF TM!TierReserved, OperationIds
<1> DEFINE before == {p \in OperationIds : tier_operations[e][p].rows # "none"}
           after == {p \in OperationIds : tier_operations'[e][p].rows # "none"}
<1>3. IsFiniteSet(before) /\ IsFiniteSet(after)
  BY FiniteSets
<1>4. /\ ReservedRows(e) = Cardinality(before) /\ ReservedRows(e)' = Cardinality(after)
  BY <1>2 DEF ReservedRows
<1>5. ASSUME NEW x \in Engines, x # e
      PROVE  ReservedRows(x)' = ReservedRows(x)
  <2>1. \A p \in OperationIds : tier_operations'[x][p] = tier_operations[x][p]
    BY <1>1, <1>5
  <2>2. TM!TierReserved(x)' = TM!TierReserved(x)
    <3>1. {p \in OperationIds : tier_operations'[x][p].rows # "none"} =
          {p \in OperationIds : tier_operations[x][p].rows # "none"}
      BY <2>1
    <3> QED
      BY <1>2, <3>1, ZenonT(60)
  <2>3. QED
    BY <2>2 DEF ReservedRows
<1>6. ASSUME r.rows = "none" <=> tier_operations[e][o].rows = "none"
      PROVE  ReservedRows(e)' = ReservedRows(e)
  <2>1. after = before
    BY <1>1, <1>6
  <2>2. QED
    BY <1>4, <2>1
<1>7. ASSUME r.rows # "none", tier_operations[e][o].rows = "none"
      PROVE  ReservedRows(e)' = ReservedRows(e) + 1
  <2>1. after = before \cup {o} /\ o \notin before
    BY <1>1, <1>7
  <2>2. QED
    BY <1>3, <1>4, <2>1, FS_AddElement
<1>8. ASSUME r.rows = "none", tier_operations[e][o].rows # "none"
      PROVE  ReservedRows(e) = ReservedRows(e)' + 1
  <2>1. before = after \cup {o} /\ o \notin after
    BY <1>1, <1>8
  <2>2. QED
    BY <1>3, <1>4, <2>1, FS_AddElement
<1>9. QED
  BY <1>5, <1>6, <1>7, <1>8

\* A record is written with one that fits.
LEMMA RecordWritten ==
    ASSUME RecordsInv, NEW e \in Engines, NEW o \in OperationIds, NEW r \in Records,
           Writes(e, o, r), RecordFits(o, r), QueuesFit', HostsOwn',
           tier_queue' \in [Engines -> Seq(OperationIds)],
           host_prefixes' \in [Engines -> [Checkpoints -> HostPrefixes]],
           shared' \in [Checkpoints -> {"absent", "partial", "own", "other"}]
    PROVE  LET old == tier_operations[e][o] IN
           /\ RecordsInv'
           /\ (r.rows = "none" <=> old.rows = "none") => RecordsStay
           /\ r.rows # "none" /\ old.rows = "none" => RecordsTake(e)
           /\ r.rows = "none" /\ old.rows # "none" => RecordsReturn(e)
<1>1. TierTyped
  BY DEF RecordsInv
<1>2. /\ tier_operations' \in [Engines -> [OperationIds -> Records]]
      /\ \A x \in Engines, p \in OperationIds :
            tier_operations'[x][p] = IF x = e /\ p = o THEN r ELSE tier_operations[x][p]
  BY <1>1 DEF TierTyped, Writes
<1>3. TierTyped'
  BY <1>2 DEF TierTyped
<1>4. RecordsFit'
  <2>1. \A x \in Engines, p \in OperationIds : RecordFits(p, tier_operations'[x][p])
    BY <1>2 DEF RecordsInv, RecordsFit
  <2>2. QED
    BY <2>1 DEF RecordsFit, RecordFits, RowsFit
<1>5. RecordsInv'
  BY <1>3, <1>4 DEF RecordsInv
<1>6. QED
  BY <1>1, <1>5, ReservedWritten DEF RecordsStay, RecordsTake, RecordsReturn

\* The records rest.
LEMMA RecordsRest ==
    ASSUME RecordsInv, UNCHANGED <<tier_operations, tier_queue, host_prefixes, shared>>
    PROVE  RecordsStay
BY DEF RecordsStay, RecordsInv, TierTyped, RecordsFit, QueuesFit, HostsOwn, ReservedRows,
       TM!TierReserved, TM!TierState

\* A record that is not in the queue is written.
LEMMA QueuesRest ==
    ASSUME RecordsInv, NEW e \in Engines, NEW o \in OperationIds, NEW r \in Records,
           Writes(e, o, r), TM!TierState(e, o) # "QUEUED", UNCHANGED tier_queue
    PROVE  QueuesFit' /\ tier_queue' \in [Engines -> Seq(OperationIds)]
<1>1. /\ \A x \in Engines, p \in OperationIds : x # e \/ p # o =>
            tier_operations'[x][p] = tier_operations[x][p]
      /\ tier_queue \in [Engines -> Seq(OperationIds)]
  BY DEF RecordsInv, TierTyped, Writes
<1>2. ASSUME NEW x \in Engines
      PROVE  /\ \A i \in DOMAIN tier_queue'[x] :
                   tier_operations'[x][tier_queue'[x][i]].state = "QUEUED"
             /\ \A i, j \in DOMAIN tier_queue'[x] :
                   tier_queue'[x][i] = tier_queue'[x][j] => i = j
  <2>1. \A i \in DOMAIN tier_queue[x] : tier_queue[x][i] \in OperationIds
    BY <1>1
  <2>2. QED
    BY <1>1, <2>1 DEF RecordsInv, QueuesFit, TM!TierState
<1>3. QED
  BY <1>1, <1>2 DEF QueuesFit

\* A record is QUEUED, and its id appended.
LEMMA QueuesGrow ==
    ASSUME RecordsInv, NEW e \in Engines, NEW o \in OperationIds, NEW r \in Records,
           Writes(e, o, r), TM!TierState(e, o) # "QUEUED", r.state = "QUEUED",
           tier_queue' = [tier_queue EXCEPT ![e] = Append(@, o)]
    PROVE  QueuesFit' /\ tier_queue' \in [Engines -> Seq(OperationIds)]
<1>1. /\ \A x \in Engines, p \in OperationIds : x # e \/ p # o =>
            tier_operations'[x][p] = tier_operations[x][p]
      /\ tier_operations'[e][o] = r
      /\ tier_queue \in [Engines -> Seq(OperationIds)]
  BY DEF RecordsInv, TierTyped, Writes
<1>2. /\ tier_queue' \in [Engines -> Seq(OperationIds)]
      /\ tier_queue'[e] = Append(tier_queue[e], o)
      /\ \A x \in Engines : x # e => tier_queue'[x] = tier_queue[x]
  BY <1>1
<1>3. ASSUME NEW x \in Engines
      PROVE  /\ \A i \in DOMAIN tier_queue'[x] :
                   tier_operations'[x][tier_queue'[x][i]].state = "QUEUED"
             /\ \A i, j \in DOMAIN tier_queue'[x] :
                   tier_queue'[x][i] = tier_queue'[x][j] => i = j
  <2>1. \A i \in DOMAIN tier_queue[x] :
           /\ tier_queue[x][i] \in OperationIds
           /\ tier_operations[x][tier_queue[x][i]].state = "QUEUED"
           /\ x = e => tier_queue[x][i] # o
    BY <1>1 DEF RecordsInv, QueuesFit, TM!TierState
  <2>2. CASE x # e
    <3>1. tier_queue'[x] = tier_queue[x]
      BY <1>2, <2>2
    <3>2. \A i \in DOMAIN tier_queue[x] :
             tier_operations'[x][tier_queue[x][i]] = tier_operations[x][tier_queue[x][i]]
      BY <1>1, <2>1, <2>2
    <3>3. \A i, j \in DOMAIN tier_queue[x] : tier_queue[x][i] = tier_queue[x][j] => i = j
      BY DEF RecordsInv, QueuesFit
    <3>4. \A i \in DOMAIN tier_queue'[x] :
             tier_operations'[x][tier_queue'[x][i]].state = "QUEUED"
      BY <2>1, <3>1, <3>2, ZenonT(30)
    <3>5. \A i, j \in DOMAIN tier_queue'[x] : tier_queue'[x][i] = tier_queue'[x][j] => i = j
      BY <3>1, <3>3, ZenonT(30)
    <3>6. QED
      BY <3>4, <3>5
  <2>3. CASE x = e
    <3>1. \A i \in DOMAIN tier_queue'[e] :
             \/ i \in DOMAIN tier_queue[e] /\ tier_queue'[e][i] = tier_queue[e][i]
             \/ i = Len(tier_queue[e]) + 1 /\ tier_queue'[e][i] = o
      <4>1. PICK q \in Seq(OperationIds) : q = tier_queue[e]
        BY <1>1
      <4>2. \A i \in DOMAIN Append(q, o) :
               \/ i \in DOMAIN q /\ Append(q, o)[i] = q[i]
               \/ i = Len(q) + 1 /\ Append(q, o)[i] = o
        OBVIOUS
      <4>3. QED
        BY <1>2, <4>1, <4>2
    <3>2. \A i \in DOMAIN tier_queue'[e] : tier_operations'[e][tier_queue'[e][i]].state = "QUEUED"
      BY <1>1, <2>1, <2>3, <3>1 DEF TM!TierState
    <3>3. \A i, j \in DOMAIN tier_queue'[e] :
             tier_queue'[e][i] = tier_queue'[e][j] => i = j
      BY <2>1, <2>3, <3>1 DEF RecordsInv, QueuesFit
    <3>4. QED
      BY <2>3, <3>2, <3>3
  <2>4. QED
    BY <2>2, <2>3
<1>4. QED
  BY <1>2, <1>3 DEF QueuesFit

\* The worker takes the head.
LEMMA QueuesShrink ==
    ASSUME RecordsInv, NEW e \in Engines, NEW r \in Records,
           tier_queue[e] # <<>>, Writes(e, Head(tier_queue[e]), r),
           tier_queue' = [tier_queue EXCEPT ![e] = Tail(@)]
    PROVE  /\ QueuesFit' /\ tier_queue' \in [Engines -> Seq(OperationIds)]
           /\ Head(tier_queue[e]) \in OperationIds
           /\ TM!TierState(e, Head(tier_queue[e])) = "QUEUED"
<1>1. PICK q \in Seq(OperationIds) : q = tier_queue[e] /\ q # <<>>
  BY DEF RecordsInv, TierTyped
<1>2. /\ Head(q) \in OperationIds /\ Tail(q) \in Seq(OperationIds)
      /\ 1 \in DOMAIN q /\ Head(q) = q[1]
      /\ \A i \in DOMAIN Tail(q) : i + 1 \in DOMAIN q /\ i + 1 # 1 /\ Tail(q)[i] = q[i + 1]
  BY <1>1
<1>3. /\ tier_queue' \in [Engines -> Seq(OperationIds)]
      /\ tier_queue'[e] = Tail(q)
      /\ \A x \in Engines : x # e => tier_queue'[x] = tier_queue[x]
  BY <1>1, <1>2 DEF RecordsInv, TierTyped
<1>4. /\ \A i \in DOMAIN q : tier_operations[e][q[i]].state = "QUEUED" /\ q[i] \in OperationIds
      /\ \A i, j \in DOMAIN q : q[i] = q[j] => i = j
  BY <1>1 DEF RecordsInv, QueuesFit
<1>5. \A x \in Engines, p \in OperationIds : x # e \/ p # Head(q) =>
         tier_operations'[x][p] = tier_operations[x][p]
  BY <1>1, <1>2 DEF RecordsInv, TierTyped, Writes
<1>6. ASSUME NEW x \in Engines
      PROVE  /\ \A i \in DOMAIN tier_queue'[x] :
                   tier_operations'[x][tier_queue'[x][i]].state = "QUEUED"
             /\ \A i, j \in DOMAIN tier_queue'[x] :
                   tier_queue'[x][i] = tier_queue'[x][j] => i = j
  <2>1. CASE x # e
    <3>0. tier_queue[x] \in Seq(OperationIds)
      BY DEF RecordsInv, TierTyped
    <3>1. /\ \A i \in DOMAIN tier_queue[x] :
                /\ tier_queue[x][i] \in OperationIds
                /\ tier_operations[x][tier_queue[x][i]].state = "QUEUED"
          /\ \A i, j \in DOMAIN tier_queue[x] :
                tier_queue[x][i] = tier_queue[x][j] => i = j
      BY <3>0 DEF RecordsInv, QueuesFit
    <3>2. \A p \in OperationIds : tier_operations'[x][p] = tier_operations[x][p]
      BY <1>5, <2>1
    <3>3. tier_queue'[x] = tier_queue[x]
      BY <1>3, <2>1
    <3>4. QED
      <4>1. \A i \in DOMAIN tier_queue'[x] :
               tier_operations'[x][tier_queue'[x][i]].state = "QUEUED"
        BY <3>1, <3>2, <3>3, ZenonT(30)
      <4>2. \A i, j \in DOMAIN tier_queue'[x] :
               tier_queue'[x][i] = tier_queue'[x][j] => i = j
        BY <3>1, <3>3, ZenonT(30)
      <4>3. QED
        BY <4>1, <4>2
  <2>2. CASE x = e
    <3>1. \A i \in DOMAIN Tail(q) : Tail(q)[i] # Head(q) /\ Tail(q)[i] \in OperationIds
                                    /\ tier_operations[e][Tail(q)[i]].state = "QUEUED"
      BY <1>2, <1>4
    <3>2. \A i \in DOMAIN Tail(q) : tier_operations'[e][Tail(q)[i]].state = "QUEUED"
      BY <1>5, <3>1 DEF TM!TierState
    <3>3. \A i, j \in DOMAIN Tail(q) : Tail(q)[i] = Tail(q)[j] => i = j
      <4>1. \A i \in DOMAIN Tail(q) : i \in Nat
        BY <1>2
      <4>2. ASSUME NEW i \in DOMAIN Tail(q), NEW j \in DOMAIN Tail(q), Tail(q)[i] = Tail(q)[j]
            PROVE  i = j
        <5>1. i + 1 = j + 1
          BY <1>2, <1>4, <4>2
        <5>2. QED
          BY <4>1, <5>1
      <4>3. QED
        BY <4>2
    <3>4. tier_queue'[x] = Tail(q)
      BY <1>3, <2>2
    <3>5. QED
      BY <2>2, <3>2, <3>3, <3>4
  <2>3. QED
    BY <2>1, <2>2
<1>7. QueuesFit'
  BY <1>6 DEF QueuesFit
<1>8. QED
  BY <1>1, <1>2, <1>3, <1>4, <1>7 DEF TM!TierState

-----------------------------------------------------------------------------
(* The operations of the engines. *)

\* Of the records only one is written, of the pins at most one.
WritesOnly(e, o) ==
    \A x \in Engines, p \in OperationIds :
        x # e \/ p # o => tier_operations'[x][p] = tier_operations[x][p]

PinsOnly(e, a) ==
    \A x \in Engines, b \in Agents : x # e \/ b # a => prefixes'[x][b] = prefixes[x][b]

\* A record that fits becomes one that fits, outside the queue.
LEMMA RecordChanges ==
    ASSUME RecordsInv, NEW e \in Engines, NEW o \in OperationIds, NEW r \in Records,
           Writes(e, o, r), RecordFits(o, r), TM!TierState(e, o) # "QUEUED",
           UNCHANGED tier_queue, HostsOwn',
           host_prefixes' \in [Engines -> [Checkpoints -> HostPrefixes]],
           shared' \in [Checkpoints -> {"absent", "partial", "own", "other"}]
    PROVE  LET old == tier_operations[e][o] IN
           /\ (r.rows = "none" <=> old.rows = "none") => RecordsStay
           /\ r.rows # "none" /\ old.rows = "none" => RecordsTake(e)
           /\ r.rows = "none" /\ old.rows # "none" => RecordsReturn(e)
           /\ WritesOnly(e, o) /\ tier_operations'[e][o] = r
<1>1. QueuesFit' /\ tier_queue' \in [Engines -> Seq(OperationIds)]
  BY QueuesRest
<1>2. WritesOnly(e, o) /\ tier_operations'[e][o] = r
  BY DEF RecordsInv, TierTyped, Writes, WritesOnly
<1>3. QED
  BY <1>1, <1>2, RecordWritten

\* A record is what its type and its id say.
LEMMA RecordOf ==
    ASSUME RecordsInv, NEW e \in Engines, NEW o \in OperationIds
    PROVE  /\ tier_operations[e][o] \in Records
           /\ RecordFits(o, tier_operations[e][o])
           /\ host_prefixes \in [Engines -> [Checkpoints -> HostPrefixes]]
           /\ shared \in [Checkpoints -> {"absent", "partial", "own", "other"}]
BY DEF RecordsInv, TierTyped, RecordsFit

\* An id is of a checkpoint, and of one of four kinds.
LEMMA IdsOf ==
    ASSUME NEW o \in OperationIds
    PROVE  /\ o[1] \in Checkpoints
           /\ o[2] \in {"export", "import", "offload", "restore"}
           /\ o = <<o[1], o[2]>>
BY DEF OperationIds, Checkpoints

\* What the tables that a step leaves alone keep.
LEMMA TablesRest ==
    ASSUME RecordsInv
    PROVE  /\ UNCHANGED host_prefixes =>
                 HostsOwn' /\ host_prefixes' \in [Engines -> [Checkpoints -> HostPrefixes]]
           /\ UNCHANGED shared => shared' \in [Checkpoints -> {"absent", "partial", "own", "other"}]
           /\ \A c \in Checkpoints, content \in {"absent", "partial", "own", "other"} :
                 shared' = [shared EXCEPT ![c] = content] =>
                    shared' \in [Checkpoints -> {"absent", "partial", "own", "other"}]
BY DEF RecordsInv, TierTyped, HostsOwn

\* The worker takes a copy (patch:1667-1672).
LEMMA TakeKeeps ==
    ASSUME EngineInv, NEW e \in Engines, TM!tier_take(e)
    PROVE  /\ EngineInv' /\ UNCHANGED <<prefixes, shared>>
           /\ \E o \in OperationIds :
                 /\ WritesOnly(e, o)
                 /\ tier_operations[e][o].state = "QUEUED"
                 /\ tier_operations'[e][o] = [tier_operations[e][o] EXCEPT !.state = "COPYING"]
<1>1. PICK o : o = Head(tier_queue[e])
  OBVIOUS
<1>2. /\ tier_queue[e] # <<>>
      /\ tier_operations' = [tier_operations EXCEPT ![e][o].state = "COPYING"]
      /\ tier_queue' = [tier_queue EXCEPT ![e] = Tail(@)]
      /\ UNCHANGED <<prefixes, locks, cache, free, host_prefixes, shared>>
  BY <1>1 DEF TM!tier_take, TM!pinVars, TM!poolVars
<1>3. o \in OperationIds /\ TM!TierState(e, o) = "QUEUED"
  <2>1. PICK q \in Seq(OperationIds) : q = tier_queue[e] /\ q # <<>>
    BY <1>2 DEF EngineInv, RecordsInv, TierTyped
  <2>2. 1 \in DOMAIN q /\ Head(q) = q[1] /\ q[1] \in OperationIds
    BY <2>1
  <2>3. QED
    BY <1>1, <2>1, <2>2 DEF EngineInv, RecordsInv, QueuesFit, TM!TierState
<1>4. PICK r : r = [tier_operations[e][o] EXCEPT !.state = "COPYING"]
  OBVIOUS
<1>5. RecordsInv /\ PoolInv
  BY DEF EngineInv
<1>6. tier_operations[e][o] \in Records /\ RecordFits(o, tier_operations[e][o])
  BY <1>3, <1>5, RecordOf
<1>7. r \in Records /\ RecordFits(o, r) /\ r.rows = tier_operations[e][o].rows
  BY <1>3, <1>4, <1>6 DEF Records, RecordFits, RowsFit, TM!TierState
<1>8. Writes(e, o, r) /\ WritesOnly(e, o) /\ tier_operations'[e][o] = r
  BY <1>2, <1>3, <1>4, <1>5 DEF RecordsInv, TierTyped, Writes, WritesOnly
<1>9. QueuesFit' /\ tier_queue' \in [Engines -> Seq(OperationIds)]
  BY <1>1, <1>2, <1>5, <1>7, <1>8, QueuesShrink
<1>10. RecordsStay
  <2>1. /\ HostsOwn' /\ host_prefixes' \in [Engines -> [Checkpoints -> HostPrefixes]]
        /\ shared' \in [Checkpoints -> {"absent", "partial", "own", "other"}]
    BY <1>2, <1>5, TablesRest
  <2>2. QED
    BY <1>3, <1>5, <1>7, <1>8, <1>9, <2>1, RecordWritten
<1>11. PoolStays
  BY <1>2, <1>5, PoolRests
<1>12. QED
  BY <1>2, <1>3, <1>4, <1>8, <1>10, <1>11, RowsMove DEF TM!TierState

\* A step of the worker that is not the get from the queue (patch:1673-1700): a record
\* stays reserved or not.
LEMMA CopyStepKeeps ==
    ASSUME EngineInv, NEW e \in Engines, NEW o \in OperationIds, NEW r \in Records,
           Writes(e, o, r), RecordFits(o, r), TM!TierState(e, o) # "QUEUED",
           r.rows = "none" <=> tier_operations[e][o].rows = "none",
           UNCHANGED <<prefixes, locks, cache, free, tier_queue, host_prefixes>>,
           shared' \in [Checkpoints -> {"absent", "partial", "own", "other"}]
    PROVE  /\ EngineInv' /\ WritesOnly(e, o) /\ tier_operations'[e][o] = r
           /\ UNCHANGED prefixes
<1>1. RecordsInv /\ PoolInv
  BY DEF EngineInv
<1>2. HostsOwn' /\ host_prefixes' \in [Engines -> [Checkpoints -> HostPrefixes]]
  BY <1>1, TablesRest
<1>3. RecordsStay /\ WritesOnly(e, o) /\ tier_operations'[e][o] = r
  BY <1>1, <1>2, RecordChanges
<1>4. PoolStays
  BY <1>1, PoolRests
<1>5. QED
  BY <1>3, <1>4, RowsMove

\* What a step of the worker does to a record and its file.
Worked(e, o) ==
    LET old == tier_operations[e][o]
        new == tier_operations'[e][o]
        kind == o[2]
        c == o[1]
    IN
    /\ WritesOnly(e, o)
    /\ new.agent = old.agent /\ new.epoch = old.epoch
    /\ old.state \in {"QUEUED", "COPYING"}
    /\ new.state \in {"COPYING", "COPY_DONE", "FAILED"}
    /\ \A x \in Checkpoints : x # c \/ kind # "export" => shared'[x] = shared[x]
    /\ kind = "export" =>
          /\ shared[c] # "absent" => shared'[c] # "absent"
          /\ new.state = "COPYING" /\ new.host = "partial" =>
                old.host = "partial" \/ shared'[c] # "absent"
          /\ new.state = "COPY_DONE" /\ cache[e][old.agent] = "own" =>
                /\ old.host = "partial"
                /\ shared[c] # "absent" => shared'[c] = "own"
    /\ kind = "import" /\ new.state = "COPY_DONE" /\ shared[c] = "own" => new.rows = "own"
    /\ kind = "offload" /\ new.state = "COPY_DONE" /\ cache[e][old.agent] = "own" =>
          new.host = "own"

\* An export creates its file (patch:1609-1635).
LEMMA OpensKeeps ==
    ASSUME EngineInv, NEW e \in Engines, NEW o \in OperationIds, TM!export_opens(e, o)
    PROVE  EngineInv' /\ UNCHANGED prefixes /\ Worked(e, o)
<1>1. PICK op : op = tier_operations[e][o]
  OBVIOUS
<1>2. /\ op.state = "COPYING" /\ op.operation = "shared_export"
      /\ shared' = [shared EXCEPT ![op.checkpoint] = "partial"]
      /\ tier_operations' = [tier_operations EXCEPT ![e][o].host = "partial"]
      /\ UNCHANGED <<prefixes, locks, cache, free, tier_queue, host_prefixes>>
  BY <1>1 DEF TM!export_opens, TM!pinVars, TM!poolVars
<1>3. RecordsInv /\ TierTyped
  BY DEF EngineInv, RecordsInv
<1>4. /\ op \in Records /\ RecordFits(o, op)
      /\ shared \in [Checkpoints -> {"absent", "partial", "own", "other"}]
  BY <1>1, <1>3, RecordOf
<1>5. o[2] = "export" /\ op.checkpoint = o[1] /\ o[1] \in Checkpoints
  BY <1>2, <1>4, IdsOf DEF RecordFits, KindFits
<1>6. PICK r : r = [op EXCEPT !.host = "partial"]
  OBVIOUS
<1>7. r \in Records /\ RecordFits(o, r) /\ r.rows = op.rows
  BY <1>4, <1>5, <1>6 DEF Records, RecordFits, RowsFit
<1>8. Writes(e, o, r)
  BY <1>1, <1>2, <1>3, <1>6 DEF Writes, TierTyped
<1>9. shared' \in [Checkpoints -> {"absent", "partial", "own", "other"}]
  BY <1>2, <1>4, <1>5
<1>10. EngineInv' /\ UNCHANGED prefixes /\ WritesOnly(e, o) /\ tier_operations'[e][o] = r
  BY <1>1, <1>2, <1>7, <1>8, <1>9, CopyStepKeeps DEF TM!TierState
<1>11. Worked(e, o)
  BY <1>1, <1>2, <1>4, <1>5, <1>6, <1>10 DEF Worked, Records
<1>12. QED
  BY <1>10, <1>11

\* The worker ends a copy (patch:1673-1700).
LEMMA CopyKeeps ==
    ASSUME EngineInv, NEW e \in Engines, NEW o \in OperationIds, TM!tier_copy(e, o)
    PROVE  EngineInv' /\ UNCHANGED prefixes /\ Worked(e, o)
<1>1. PICK op, source :
         op = tier_operations[e][o] /\ source = IF cache[e][op.agent] = "own" THEN "own" ELSE "other"
  OBVIOUS
<1>2. RecordsInv /\ TierTyped /\ source = TM!SourceRows(e, o)
  BY <1>1 DEF EngineInv, RecordsInv, TM!SourceRows
<1>3. /\ op \in Records /\ RecordFits(o, op) /\ op.state = "COPYING"
      /\ shared \in [Checkpoints -> {"absent", "partial", "own", "other"}]
  BY <1>1, <1>2, RecordOf DEF TM!tier_copy
<1>4. op.checkpoint = o[1] /\ o[1] \in Checkpoints /\ KindFits(o, op.operation)
  BY <1>3, IdsOf DEF RecordFits
<1>5. UNCHANGED <<prefixes, locks, cache, free, tier_queue, host_prefixes>>
  BY DEF TM!tier_copy, TM!pinVars, TM!poolVars
<1>6. ASSUME NEW rows \in {"own", "other", "none", "blank"},
             NEW host \in {"own", "other", "none", "partial"},
             RowsFit(o, [op EXCEPT !.state = "COPY_DONE", !.rows = rows, !.host = host]),
             rows = "none" <=> op.rows = "none", TM!CopyEnds(e, o, rows, host),
             shared' \in [Checkpoints -> {"absent", "partial", "own", "other"}]
      PROVE  /\ EngineInv' /\ UNCHANGED prefixes /\ WritesOnly(e, o)
             /\ tier_operations'[e][o] =
                   [op EXCEPT !.state = "COPY_DONE", !.rows = rows, !.host = host]
  <2>1. PICK r : r = [op EXCEPT !.state = "COPY_DONE", !.rows = rows, !.host = host]
    OBVIOUS
  <2>2. r \in Records /\ RecordFits(o, r) /\ r.rows = rows
    BY <1>3, <1>6, <2>1 DEF Records, RecordFits
  <2>3. Writes(e, o, r)
    BY <1>1, <1>6, <2>1 DEF TM!CopyEnds, Writes
  <2>4. TM!TierState(e, o) # "QUEUED" /\ (r.rows = "none" <=> tier_operations[e][o].rows = "none")
    BY <1>1, <1>3, <1>6, <2>2 DEF TM!TierState
  <2>5. EngineInv' /\ UNCHANGED prefixes /\ WritesOnly(e, o) /\ tier_operations'[e][o] = r
    BY <1>5, <1>6, <2>2, <2>3, <2>4, CopyStepKeeps
  <2>6. QED
    BY <2>1, <2>5
<1>7. CASE /\ op.operation = "private_offload" /\ TM!CopyEnds(e, o, "none", source)
           /\ UNCHANGED shared
  <2>1. o[2] = "offload" /\ op.rows = "none"
    BY <1>3, <1>4, <1>7 DEF KindFits, RecordFits, RowsFit, Reads
  <2>2. RowsFit(o, [op EXCEPT !.state = "COPY_DONE", !.rows = "none", !.host = source])
    BY <1>3, <2>1 DEF RowsFit, Reads, Records
  <2>3. /\ EngineInv' /\ UNCHANGED prefixes /\ WritesOnly(e, o)
        /\ tier_operations'[e][o] =
              [op EXCEPT !.state = "COPY_DONE", !.rows = "none", !.host = source]
    BY <1>1, <1>3, <1>6, <1>7, <2>1, <2>2
  <2>4. Worked(e, o)
    BY <1>1, <1>3, <1>7, <2>1, <2>3 DEF Worked, Records
  <2>5. QED
    BY <2>3, <2>4
<1>8. CASE /\ op.operation = "private_restore" /\ TM!CopyEnds(e, o, op.host, op.host)
           /\ UNCHANGED shared
  <2>1. o[2] = "restore" /\ op.rows = "blank" /\ op.host = "own"
    BY <1>3, <1>4, <1>8 DEF KindFits, RecordFits, RowsFit, Reads
  <2>2. RowsFit(o, [op EXCEPT !.state = "COPY_DONE", !.rows = "own", !.host = "own"])
    BY <1>3, <2>1 DEF RowsFit, Reads, Records
  <2>3. /\ EngineInv' /\ UNCHANGED prefixes /\ WritesOnly(e, o)
        /\ tier_operations'[e][o] =
              [op EXCEPT !.state = "COPY_DONE", !.rows = "own", !.host = "own"]
    BY <1>1, <1>3, <1>6, <1>8, <2>1, <2>2
  <2>4. Worked(e, o)
    BY <1>1, <1>3, <1>8, <2>1, <2>3 DEF Worked, Records
  <2>5. QED
    BY <2>3, <2>4
<1>9. CASE /\ op.operation = "shared_export" /\ op.host = "partial"
           /\ TM!CopyEnds(e, o, "none", source)
           /\ shared' = [shared EXCEPT ![o[1]] = IF @ = "absent" THEN @ ELSE source]
  <2>1. o[2] = "export" /\ op.rows = "none"
    BY <1>3, <1>4, <1>9 DEF KindFits, RecordFits, RowsFit, Reads
  <2>2. RowsFit(o, [op EXCEPT !.state = "COPY_DONE", !.rows = "none", !.host = source])
    BY <1>3, <2>1 DEF RowsFit, Reads, Records
  <2>3. shared' \in [Checkpoints -> {"absent", "partial", "own", "other"}]
    BY <1>1, <1>3, <1>4, <1>9
  <2>4. /\ EngineInv' /\ UNCHANGED prefixes /\ WritesOnly(e, o)
        /\ tier_operations'[e][o] =
              [op EXCEPT !.state = "COPY_DONE", !.rows = "none", !.host = source]
    BY <1>1, <1>3, <1>6, <1>9, <2>1, <2>2, <2>3
  <2>5. Worked(e, o)
    BY <1>1, <1>3, <1>4, <1>9, <2>1, <2>4 DEF Worked, Records
  <2>6. QED
    BY <2>4, <2>5
<1>10. ASSUME op.operation = "shared_import", shared[o[1]] # "absent",
              NEW rows \in {"own", "other"},
              rows = IF shared[o[1]] = "own" THEN "own" ELSE "other",
              TM!CopyEnds(e, o, rows, "none"), UNCHANGED shared
       PROVE  EngineInv' /\ UNCHANGED prefixes /\ Worked(e, o)
  <2>1. o[2] = "import" /\ op.rows = "blank"
    BY <1>3, <1>4, <1>10 DEF KindFits, RecordFits, RowsFit, Reads
  <2>2. RowsFit(o, [op EXCEPT !.state = "COPY_DONE", !.rows = rows, !.host = "none"])
    BY <1>3, <1>10, <2>1 DEF RowsFit, Reads, Records
  <2>3. /\ EngineInv' /\ UNCHANGED prefixes /\ WritesOnly(e, o)
        /\ tier_operations'[e][o] =
              [op EXCEPT !.state = "COPY_DONE", !.rows = rows, !.host = "none"]
    BY <1>1, <1>3, <1>6, <1>10, <2>1, <2>2
  <2>4. Worked(e, o)
    BY <1>1, <1>3, <1>10, <2>1, <2>3 DEF Worked, Records
  <2>5. QED
    BY <2>3, <2>4
<1>11. CASE /\ op.operation = "shared_import" /\ shared[o[1]] # "absent"
            /\ TM!CopyEnds(e, o, IF shared[o[1]] = "own" THEN "own" ELSE "other", "none")
            /\ UNCHANGED shared
  <2>1. PICK rows \in {"own", "other"} : rows = IF shared[o[1]] = "own" THEN "own" ELSE "other"
    OBVIOUS
  <2>2. QED
    BY <1>10, <1>11, <2>1
<1>12. QED
  BY <1>1, <1>2, <1>4, <1>7, <1>8, <1>9, <1>11 DEF TM!tier_copy

\* A copy fails, or finds no file.
LEMMA FailureKeeps ==
    ASSUME EngineInv, NEW e \in Engines, NEW o \in OperationIds,
           TM!import_finds_nothing(e, o) \/ TM!tier_copy_fails(e, o)
    PROVE  EngineInv' /\ UNCHANGED prefixes /\ Worked(e, o)
<1>1. PICK op : op = tier_operations[e][o]
  OBVIOUS
<1>2. /\ op.state = "COPYING"
      /\ tier_operations' = [tier_operations EXCEPT ![e][o].state = "FAILED"]
      /\ UNCHANGED <<prefixes, locks, cache, free, tier_queue, host_prefixes, shared>>
  BY <1>1 DEF TM!import_finds_nothing, TM!tier_copy_fails, TM!pinVars, TM!poolVars, TM!TierState
<1>3. RecordsInv /\ TierTyped
  BY DEF EngineInv, RecordsInv
<1>4. /\ op \in Records /\ RecordFits(o, op)
      /\ shared \in [Checkpoints -> {"absent", "partial", "own", "other"}]
  BY <1>1, <1>3, RecordOf
<1>5. PICK r : r = [op EXCEPT !.state = "FAILED"]
  OBVIOUS
<1>6. r \in Records /\ RecordFits(o, r) /\ r.rows = op.rows
  BY <1>2, <1>4, <1>5 DEF Records, RecordFits, RowsFit
<1>7. Writes(e, o, r)
  BY <1>1, <1>2, <1>3, <1>5 DEF Writes, TierTyped
<1>8. EngineInv' /\ UNCHANGED prefixes /\ WritesOnly(e, o) /\ tier_operations'[e][o] = r
  BY <1>1, <1>2, <1>4, <1>6, <1>7, CopyStepKeeps DEF TM!TierState
<1>9. Worked(e, o)
  BY <1>1, <1>2, <1>4, <1>5, <1>8 DEF Worked, Records
<1>10. QED
  BY <1>8, <1>9

\* So a worker's steps keep the engines (patch:1667-1700).
LEMMA WorkerKeeps ==
    ASSUME EngineInv, NEW e \in Engines, tier_worker(e) \/ tier_worker_fails(e)
    PROVE  /\ EngineInv' /\ UNCHANGED prefixes
           /\ \E o \in OperationIds : Worked(e, o)
<1>1. DOMAIN tier_operations[e] = OperationIds
  BY DEF EngineInv, RecordsInv, TierTyped
<1>2. CASE TM!tier_take(e)
  <2>1. EngineInv' /\ UNCHANGED <<prefixes, shared>>
    BY <1>2, TakeKeeps
  <2>2. PICK o \in OperationIds :
           /\ WritesOnly(e, o)
           /\ tier_operations[e][o].state = "QUEUED"
           /\ tier_operations'[e][o] = [tier_operations[e][o] EXCEPT !.state = "COPYING"]
    BY <1>2, TakeKeeps
  <2>3. tier_operations[e][o] \in Records
    BY RecordOf DEF EngineInv
  <2>4. Worked(e, o)
    BY <2>1, <2>2, <2>3 DEF Worked, Records
  <2>5. QED
    BY <2>1, <2>4
<1>3. ASSUME NEW o \in OperationIds,
             \/ TM!export_opens(e, o) \/ TM!tier_copy(e, o)
             \/ TM!import_finds_nothing(e, o) \/ TM!tier_copy_fails(e, o)
      PROVE  EngineInv' /\ UNCHANGED prefixes /\ Worked(e, o)
  BY <1>3, OpensKeeps, CopyKeeps, FailureKeeps
<1>4. QED
  BY <1>1, <1>2, <1>3 DEF tier_worker, tier_worker_fails

\* A step on the pins and the pool alone.
LEMMA PoolStepKeeps ==
    ASSUME EngineInv, UNCHANGED tierVars, PoolStays
    PROVE  EngineInv'
<1>1. RecordsStay
  BY RecordsRest DEF EngineInv, tierVars
<1>2. \A e \in Engines : EngineInv'
  BY <1>1, RowsMove
<1>3. RecordsInv' /\ PoolInv' /\ RecordsInv /\ PoolInv
  BY <1>1 DEF RecordsStay, PoolStays, EngineInv
<1>4. TierPoolAccounting'
  BY <1>2 DEF TierPoolAccounting, EngineInv
<1>5. QED
  BY <1>3, <1>4 DEF EngineInv

\* An operation that is accepted.
Started(e, o, a, epoch) ==
    LET new == tier_operations'[e][o] IN
    /\ EngineInv' /\ WritesOnly(e, o) /\ UNCHANGED <<prefixes, shared>>
    /\ new.state = "QUEUED" /\ new.agent = a /\ new.epoch = epoch
    /\ o[2] = "export" => new.host = "none"
    /\ Reads(o) => prefixes[e][a] = epoch
    /\ ~Reads(o) => ~TM!Pinned(e, a)

\* It keeps the engines (patch:1702-1794).
LEMMA StartKeeps ==
    ASSUME EngineInv, NEW e \in Engines, NEW o \in OperationIds, NEW operation,
           NEW a \in Agents, NEW epoch \in Nat \ {0}, NEW release_gpu \in BOOLEAN,
           KindFits(o, operation), release_gpu <=> o[2] = "offload",
           TM!TierState(e, o) = "NONE",
           TM!start_tier_operation(e, o, operation, o[1], a, epoch, release_gpu)
    PROVE  Started(e, o, a, epoch)
<1>1. RecordsInv /\ TierTyped /\ PoolInv
  BY DEF EngineInv, RecordsInv
<1>2. PICK op : op = tier_operations[e][o]
  OBVIOUS
<1>3. /\ op \in Records /\ RecordFits(o, op)
      /\ host_prefixes \in [Engines -> [Checkpoints -> HostPrefixes]]
      /\ shared \in [Checkpoints -> {"absent", "partial", "own", "other"}]
      /\ op.state = "NONE" /\ op.rows = "none"
  BY <1>1, <1>2, RecordOf DEF TM!TierState, RecordFits, RowsFit
<1>4. /\ o[1] \in Checkpoints /\ o[2] \in {"export", "import", "offload", "restore"}
      /\ o = <<o[1], o[2]>> /\ operation \in TM!TierKinds
      /\ operation \in TM!Sources <=> Reads(o)
      /\ operation = "private_restore" <=> o[2] = "restore"
  BY IdsOf DEF KindFits, TM!TierKinds, TM!Sources, Reads
<1>5. PICK r : r = [state |-> "QUEUED", operation |-> operation, checkpoint |-> o[1],
                    agent |-> a, epoch |-> epoch, release_gpu |-> release_gpu,
                    rows |-> IF operation \in TM!Sources THEN "none" ELSE "blank",
                    host |-> IF operation = "private_restore"
                             THEN host_prefixes[e][o[1]].rows ELSE "none"]
  OBVIOUS
<1>6. /\ TM!TierChecks(e, operation, o[1], a, epoch)
      /\ tier_operations' = [tier_operations EXCEPT ![e][o] = r]
      /\ tier_queue' = [tier_queue EXCEPT ![e] = Append(@, o)]
      /\ Reads(o) => UNCHANGED <<cache, free>>
      /\ ~Reads(o) => TM!AllocatesRow(e)
      /\ UNCHANGED <<prefixes, locks, host_prefixes, shared>>
  BY <1>4, <1>5 DEF TM!start_tier_operation, TM!TierStartAllowed, TM!poolVars, TM!pinVars
<1>7. host_prefixes[e][o[1]] \in HostPrefixes
  BY <1>3, <1>4
<1>8. o[2] = "restore" => host_prefixes[e][o[1]].rows = "own"
  BY <1>1, <1>4, <1>6, <1>7 DEF TM!TierChecks, TM!Sources, RecordsInv, HostsOwn
<1>9. r \in Records
  BY <1>4, <1>5, <1>7 DEF Records, HostPrefixes
<1>10. RecordFits(o, r)
  BY <1>4, <1>5, <1>8 DEF RecordFits, RowsFit, Reads
<1>11. Writes(e, o, r) /\ WritesOnly(e, o) /\ tier_operations'[e][o] = r
  BY <1>1, <1>6 DEF Writes, WritesOnly, TierTyped
<1>12. QueuesFit' /\ tier_queue' \in [Engines -> Seq(OperationIds)]
  <2>1. TM!TierState(e, o) # "QUEUED" /\ r.state = "QUEUED"
    BY <1>2, <1>3, <1>5 DEF TM!TierState
  <2>2. QED
    BY <1>1, <1>6, <1>9, <1>11, <2>1, QueuesGrow
<1>13. /\ HostsOwn' /\ host_prefixes' \in [Engines -> [Checkpoints -> HostPrefixes]]
       /\ shared' \in [Checkpoints -> {"absent", "partial", "own", "other"}]
  BY <1>1, <1>6, TablesRest
<1>14. /\ (r.rows = "none" <=> op.rows = "none") => RecordsStay
       /\ r.rows # "none" /\ op.rows = "none" => RecordsTake(e)
  BY <1>1, <1>2, <1>9, <1>10, <1>11, <1>12, <1>13, RecordWritten
<1>15. EngineInv'
  <2>1. CASE Reads(o)
    <3>1. RecordsStay /\ PoolStays
      BY <1>1, <1>3, <1>4, <1>5, <1>6, <1>14, <2>1, PoolRests
    <3>2. QED
      BY <3>1, RowsMove
  <2>2. CASE ~Reads(o)
    <3>1. RecordsTake(e)
      BY <1>3, <1>4, <1>5, <1>14, <2>2
    <3>2. PoolGives(e)
      BY <1>1, <1>6, <2>2, AllocateKeepsPool
    <3>3. QED
      BY <3>1, <3>2, RowsMove
  <2>3. QED
    BY <2>1, <2>2
<1>16. IF Reads(o) THEN prefixes[e][a] = epoch ELSE ~TM!Pinned(e, a)
  BY <1>4, <1>6 DEF TM!TierChecks, TM!Sources, Reads, KindFits
<1>17. QED
  BY <1>4, <1>5, <1>6, <1>11, <1>15, <1>16 DEF Reads, Started

\* A refused start may still have evicted a resident.
LEMMA FullKeeps ==
    ASSUME EngineInv, NEW e \in Engines, NEW o, NEW operation, NEW c, NEW a, NEW epoch,
           TM!start_tier_full(e, o, operation, c, a, epoch)
    PROVE  EngineInv' /\ UNCHANGED <<prefixes, tierVars>>
<1>1. /\ PoolInv /\ free[e] \in Nat
      /\ UNCHANGED <<prefixes, locks, tierVars>>
      /\ \E b \in TM!Evictable(e) : cache' = [cache EXCEPT ![e][b] = "absent"]
      /\ free' = [free EXCEPT ![e] = @ + 1]
  BY DEF TM!start_tier_full, TM!pinVars, TM!tierVars, tierVars, EngineInv, PoolInv, PoolTyped
<1>2. PICK n \in Nat : n = free[e] + 1
  BY <1>1
<1>3. PICK b \in TM!Evictable(e) : cache' = [cache EXCEPT ![e][b] = "absent"]
  BY <1>1
<1>4. PoolStays
  BY <1>1, <1>2, <1>3, EvictKeepsPool
<1>5. QED
  BY <1>1, <1>4, PoolStepKeeps

\* A poll that ends an operation may be counted on to do it well: what leaves a GPU and
\* what comes to one are the agent's own rows, and nobody has pinned the prefix before.
Safe(e, o) ==
    LET op == tier_operations[e][o] IN
    op.state = "COPY_DONE" =>
        /\ o[2] = "offload" => op.host = "own"
        /\ ~Reads(o) => op.rows = "own" /\ ~TM!Pinned(e, op.agent)

\* What a poll does (patch:1824-1849).
Polled(e, o) ==
    LET old == tier_operations[e][o]
        new == tier_operations'[e][o]
    IN
    /\ WritesOnly(e, o) /\ PinsOnly(e, old.agent) /\ UNCHANGED shared
    /\ old.state # "COPY_DONE" => new = old /\ UNCHANGED prefixes
    /\ old.state = "COPY_DONE" => new.state \in {"COMPLETE", "FAILED"}
    /\ TM!PolledTierState(e, o) = new.state
    /\ o[2] = "export" => UNCHANGED prefixes
    /\ old.state = "COPY_DONE" /\ ~Reads(o) => prefixes'[e][old.agent] = old.epoch
    /\ old.state = "COPY_DONE" /\ o[2] # "offload" => new.state = "COMPLETE"

\* A record that ends frees its rows.
LEMMA EndsFreeRows ==
    ASSUME EngineInv, NEW e \in Engines, NEW o \in OperationIds, NEW r \in Records,
           Writes(e, o, r), RecordFits(o, r), TM!TierState(e, o) # "QUEUED",
           r.rows = "none", UNCHANGED <<tier_queue, shared>>, HostsOwn',
           host_prefixes' \in [Engines -> [Checkpoints -> HostPrefixes]],
           \/ tier_operations[e][o].rows = "none" /\ PoolStays
           \/ tier_operations[e][o].rows # "none" /\ PoolGains(e)
    PROVE  EngineInv' /\ WritesOnly(e, o) /\ tier_operations'[e][o] = r
<1>1. RecordsInv
  BY DEF EngineInv
<1>2. shared' \in [Checkpoints -> {"absent", "partial", "own", "other"}]
  BY <1>1, TablesRest
<1>3. /\ (r.rows = "none" <=> tier_operations[e][o].rows = "none") => RecordsStay
      /\ r.rows = "none" /\ tier_operations[e][o].rows # "none" => RecordsReturn(e)
      /\ WritesOnly(e, o) /\ tier_operations'[e][o] = r
  BY <1>1, <1>2, RecordChanges
<1>4. EngineInv'
  BY <1>3, RowsMove
<1>5. QED
  BY <1>3, <1>4

\* The end of a copy to a host or a file (patch:1797-1812).
LEMMA SourceEnds ==
    ASSUME EngineInv, NEW e \in Engines, NEW o \in OperationIds, Reads(o),
           TM!TierState(e, o) = "COPY_DONE", Safe(e, o), TM!poll_tier_operation(e, o)
    PROVE  EngineInv' /\ Polled(e, o)
<1>1. PICK op : op = tier_operations[e][o]
  OBVIOUS
<1>2. RecordsInv /\ TierTyped /\ PoolInv
  BY DEF EngineInv, RecordsInv
<1>3. /\ op \in Records /\ RecordFits(o, op) /\ op.state = "COPY_DONE" /\ op.rows = "none"
      /\ host_prefixes \in [Engines -> [Checkpoints -> HostPrefixes]]
      /\ o[1] \in Checkpoints /\ o[2] \in {"export", "offload"}
      /\ op.agent \in Agents /\ op.epoch \in Nat \ {0} /\ op.checkpoint = o[1]
  BY <1>1, <1>2, RecordOf, IdsOf DEF TM!TierState, RecordFits, RowsFit, Reads, Records
<1>4. /\ op.operation \in TM!Sources
      /\ op.operation = "private_offload" <=> o[2] = "offload"
      /\ op.release_gpu <=> o[2] = "offload"
      /\ o[2] = "offload" => op.host = "own"
  BY <1>1, <1>3 DEF RecordFits, KindFits, TM!Sources, Safe
<1>5. PICK state \in {"COMPLETE", "FAILED"} :
         state = IF TM!Finalizable(e, o) THEN "COMPLETE" ELSE "FAILED"
  OBVIOUS
<1>6. PICK r : r = [op EXCEPT !.state = state, !.rows = "none"]
  OBVIOUS
<1>7. /\ tier_operations' = [tier_operations EXCEPT ![e][o] = r]
      /\ host_prefixes' = IF o[2] = "offload"
                          THEN [host_prefixes EXCEPT ![e][o[1]] =
                                  [agent |-> op.agent, epoch |-> op.epoch, rows |-> op.host]]
                          ELSE host_prefixes
      /\ UNCHANGED <<tier_queue, shared>>
      /\ \/ o[2] = "offload" /\ TM!release(e, op.agent, op.epoch, TRUE, FALSE)
         \/ UNCHANGED <<prefixes, locks, cache, free>>
      /\ o[2] = "export" => UNCHANGED <<prefixes, locks, cache, free>>
  BY <1>1, <1>3, <1>4, <1>5, <1>6
     DEF TM!poll_tier_operation, TM!finalize_tier_operation, TM!TierEnds, TM!TierState,
         TM!pinVars, TM!poolVars
<1>8. HostsOwn' /\ host_prefixes' \in [Engines -> [Checkpoints -> HostPrefixes]]
  <2>1. CASE o[2] = "offload"
    <3>1. PICK h : h = [agent |-> op.agent, epoch |-> op.epoch, rows |-> op.host]
      OBVIOUS
    <3>2. h \in HostPrefixes /\ h.rows = "own"
      BY <1>3, <1>4, <2>1, <3>1 DEF HostPrefixes
    <3>3. host_prefixes' = [host_prefixes EXCEPT ![e][o[1]] = h]
      BY <1>7, <2>1, <3>1
    <3>4. QED
      BY <1>2, <1>3, <3>2, <3>3 DEF RecordsInv, HostsOwn
  <2>2. CASE o[2] # "offload"
    BY <1>2, <1>7, <2>2, TablesRest
  <2>3. QED
    BY <2>1, <2>2
<1>9. /\ PoolStays
      /\ PinsOnly(e, op.agent)
      /\ o[2] = "export" => UNCHANGED prefixes
  <2>1. CASE UNCHANGED <<prefixes, locks, cache, free>>
    BY <1>2, <2>1, PoolRests DEF PinsOnly
  <2>2. CASE o[2] = "offload" /\ TM!release(e, op.agent, op.epoch, TRUE, FALSE)
    <3>1. PoolStays /\ prefixes' = [prefixes EXCEPT ![e][op.agent] = 0]
      BY <1>2, <1>3, <2>2, ReleaseKeepsPool
    <3>2. QED
      BY <1>2, <2>2, <3>1 DEF PoolInv, PoolTyped, PinsOnly
  <2>3. QED
    BY <1>7, <2>1, <2>2
<1>10. r \in Records /\ RecordFits(o, r) /\ r.rows = "none" /\ r.state = state
  BY <1>3, <1>5, <1>6 DEF Records, RecordFits, RowsFit, Reads
<1>11. EngineInv' /\ WritesOnly(e, o) /\ tier_operations'[e][o] = r
  <2>1. Writes(e, o, r) /\ UNCHANGED <<tier_queue, shared>>
    BY <1>7 DEF Writes
  <2>2. TM!TierState(e, o) # "QUEUED" /\ tier_operations[e][o].rows = "none"
    BY <1>1, <1>3
  <2>3. QED
    BY <1>8, <1>9, <1>10, <2>1, <2>2, EndsFreeRows
<1>12. o[2] # "offload" => TM!Finalizable(e, o)
  BY <1>1, <1>4 DEF TM!Finalizable
<1>13. TM!PolledTierState(e, o) = state
  BY <1>5 DEF TM!PolledTierState, TM!TierState
<1>14. Polled(e, o)
  BY <1>1, <1>3, <1>5, <1>7, <1>9, <1>10, <1>11, <1>12, <1>13 DEF Polled
<1>15. QED
  BY <1>11, <1>14

\* The end of a copy to the GPU (patch:1413-1450).
LEMMA DestinationEnds ==
    ASSUME EngineInv, NEW e \in Engines, NEW o \in OperationIds, ~Reads(o),
           TM!TierState(e, o) = "COPY_DONE", Safe(e, o), TM!poll_tier_operation(e, o)
    PROVE  EngineInv' /\ Polled(e, o)
<1>1. PICK op : op = tier_operations[e][o]
  OBVIOUS
<1>2. RecordsInv /\ TierTyped /\ PoolInv
  BY DEF EngineInv, RecordsInv
<1>3. /\ op \in Records /\ RecordFits(o, op) /\ op.state = "COPY_DONE"
      /\ op.rows = "own" /\ ~TM!Pinned(e, op.agent)
      /\ o[2] \in {"import", "restore"}
      /\ op.agent \in Agents /\ op.epoch \in Nat \ {0}
  BY <1>1, <1>2, RecordOf, IdsOf DEF TM!TierState, RecordFits, Reads, Records, Safe
<1>4. op.operation \notin TM!Sources /\ op.operation # "private_offload"
  BY <1>1, <1>3 DEF RecordFits, KindFits, TM!Sources
<1>5. TM!Finalizable(e, o)
  BY <1>1, <1>4 DEF TM!Finalizable
<1>6. PICK r : r = [op EXCEPT !.state = "COMPLETE", !.rows = "none"]
  OBVIOUS
<1>7. /\ tier_operations' = [tier_operations EXCEPT ![e][o] = r]
      /\ UNCHANGED <<tier_queue, shared, host_prefixes>>
      /\ TM!InstallsPrefix(e, op.agent, op.epoch, "own")
  BY <1>1, <1>3, <1>4, <1>5, <1>6
     DEF TM!poll_tier_operation, TM!finalize_tier_operation, TM!TierEnds, TM!TierState
<1>8. PoolGains(e) /\ prefixes' = [prefixes EXCEPT ![e][op.agent] = op.epoch]
  BY <1>2, <1>3, <1>7, InstallKeepsPool
<1>9. /\ PinsOnly(e, op.agent) /\ prefixes'[e][op.agent] = op.epoch
  BY <1>2, <1>3, <1>8 DEF PoolInv, PoolTyped, PinsOnly
<1>10. r \in Records /\ RecordFits(o, r) /\ r.rows = "none" /\ r.state = "COMPLETE"
  BY <1>3, <1>6 DEF Records, RecordFits, RowsFit, Reads
<1>11. HostsOwn' /\ host_prefixes' \in [Engines -> [Checkpoints -> HostPrefixes]]
  BY <1>2, <1>7, TablesRest
<1>12. EngineInv' /\ WritesOnly(e, o) /\ tier_operations'[e][o] = r
  <2>1. Writes(e, o, r) /\ UNCHANGED <<tier_queue, shared>>
    BY <1>7 DEF Writes
  <2>2. TM!TierState(e, o) # "QUEUED" /\ tier_operations[e][o].rows # "none"
    BY <1>1, <1>3 DEF TM!TierState
  <2>3. QED
    BY <1>8, <1>10, <1>11, <2>1, <2>2, EndsFreeRows
<1>13. TM!PolledTierState(e, o) = "COMPLETE"
  BY <1>5 DEF TM!PolledTierState, TM!TierState
<1>14. Polled(e, o)
  BY <1>1, <1>3, <1>7, <1>9, <1>10, <1>12, <1>13 DEF Polled, Reads
<1>15. QED
  BY <1>12, <1>14

\* Polls keep the engines.
LEMMA PollKeeps ==
    ASSUME EngineInv, NEW e \in Engines, NEW o \in OperationIds, Safe(e, o),
           TM!poll_tier_operation(e, o)
    PROVE  EngineInv' /\ Polled(e, o)
<1>1. CASE TM!TierState(e, o) # "COPY_DONE"
  <2>1. UNCHANGED <<prefixes, locks, cache, free, tierVars>>
    BY <1>1 DEF TM!poll_tier_operation, TM!pinVars, TM!poolVars, tierVars
  <2>2. EngineInv'
    BY <2>1, PoolRests, PoolStepKeeps DEF EngineInv
  <2>3. TM!PolledTierState(e, o) = TM!TierState(e, o)
    BY <1>1 DEF TM!PolledTierState
  <2>4. Polled(e, o)
    BY <1>1, <2>1, <2>3 DEF Polled, WritesOnly, PinsOnly, TM!TierState, tierVars
  <2>5. QED
    BY <2>2, <2>4
<1>2. QED
  BY <1>1, SourceEnds, DestinationEnds

\* An install that raises (patch:1834-1844).
LEMMA InstallFailsKeeps ==
    ASSUME EngineInv, NEW e \in Engines, NEW o \in OperationIds, Safe(e, o),
           TM!tier_install_fails(e, o)
    PROVE  /\ EngineInv' /\ WritesOnly(e, o) /\ UNCHANGED <<prefixes, shared>>
           /\ ~Reads(o)
<1>1. PICK op : op = tier_operations[e][o]
  OBVIOUS
<1>2. RecordsInv /\ TierTyped /\ PoolInv
  BY DEF EngineInv, RecordsInv
<1>3. op \in Records /\ RecordFits(o, op) /\ op.state = "COPY_DONE"
  BY <1>1, <1>2, RecordOf DEF TM!tier_install_fails
<1>4. ~Reads(o)
  BY <1>1, <1>3 DEF TM!tier_install_fails, TM!Sources, RecordFits, KindFits, Reads
<1>5. op.rows = "own" /\ op.agent \in Agents
  BY <1>1, <1>3, <1>4 DEF Safe, RecordFits
<1>6. PICK r : r = [op EXCEPT !.state = "FAILED", !.rows = "none"]
  OBVIOUS
<1>7. /\ tier_operations' = [tier_operations EXCEPT ![e][o] = r]
      /\ UNCHANGED <<prefixes, tier_queue, shared, host_prefixes>>
      /\ UNCHANGED locks \/ locks' = [locks EXCEPT ![e][op.agent] = @ + 1]
      /\ \/ /\ ~TM!Resident(e, op.agent) /\ cache' = [cache EXCEPT ![e][op.agent] = "own"]
            /\ UNCHANGED free
         \/ free' = [free EXCEPT ![e] = @ + 1] /\ UNCHANGED cache
  BY <1>1, <1>5, <1>6 DEF TM!tier_install_fails, TM!TierEnds, TM!pinVars
<1>8. PoolGains(e)
  BY <1>2, <1>5, <1>7, ReturnKeepsPool
<1>9. r \in Records /\ RecordFits(o, r) /\ r.rows = "none"
  BY <1>3, <1>6 DEF Records, RecordFits, RowsFit, Reads
<1>10. HostsOwn' /\ host_prefixes' \in [Engines -> [Checkpoints -> HostPrefixes]]
  BY <1>2, <1>7, TablesRest
<1>11. /\ Writes(e, o, r) /\ TM!TierState(e, o) # "QUEUED"
       /\ tier_operations[e][o].rows # "none" /\ UNCHANGED <<tier_queue, shared>>
  BY <1>1, <1>3, <1>5, <1>7 DEF Writes, TM!TierState
<1>12. EngineInv' /\ WritesOnly(e, o)
  BY <1>8, <1>9, <1>10, <1>11, EndsFreeRows
<1>13. QED
  BY <1>4, <1>7, <1>12

\* An operation that has ended is forgotten, with its rows and, if the caller asks for
\* it, its checkpoint (patch:1851-1878).
LEMMA CleanupKeeps ==
    ASSUME EngineInv, NEW e \in Engines, NEW o \in OperationIds, NEW drop \in BOOLEAN,
           TM!cleanup_tier_operation(e, o, drop)
    PROVE  /\ EngineInv' /\ WritesOnly(e, o) /\ UNCHANGED prefixes
           /\ \A c \in Checkpoints : c # o[1] => shared'[c] = shared[c]
           /\ ~drop => UNCHANGED shared
<1>1. PICK op : op = tier_operations[e][o]
  OBVIOUS
<1>2. RecordsInv /\ TierTyped /\ PoolInv /\ PoolTyped
  BY DEF EngineInv, RecordsInv, PoolInv
<1>3. /\ op \in Records /\ RecordFits(o, op) /\ op.state \in {"COMPLETE", "FAILED"}
      /\ host_prefixes \in [Engines -> [Checkpoints -> HostPrefixes]]
      /\ shared \in [Checkpoints -> {"absent", "partial", "own", "other"}]
  BY <1>1, <1>2, RecordOf
     DEF TM!cleanup_tier_operation, TM!TierCleanupAllowed, TM!TierState, TM!TerminalStates
<1>4. op.checkpoint = o[1] /\ o[1] \in Checkpoints
  BY <1>3, IdsOf DEF RecordFits
<1>5. PICK r : r = TM!NoTierOperation
  OBVIOUS
<1>6. r \in Records /\ RecordFits(o, r) /\ r.rows = "none"
  BY <1>5 DEF Records, RecordFits, RowsFit, TM!NoTierOperation
<1>7. o \in TM!TierReserved(e) <=> op.rows # "none"
  BY <1>1 DEF TM!TierReserved, OperationIds
<1>8. /\ tier_operations' = [tier_operations EXCEPT ![e][o] = r]
      /\ free' = [free EXCEPT ![e] = IF op.rows # "none" THEN @ + 1 ELSE @]
      /\ host_prefixes' = IF drop THEN [host_prefixes EXCEPT ![e][o[1]] = TM!NoHostPrefix]
                          ELSE host_prefixes
      /\ shared' = IF drop THEN [shared EXCEPT ![o[1]] = "absent"] ELSE shared
      /\ UNCHANGED <<prefixes, locks, cache, tier_queue>>
  BY <1>1, <1>4, <1>5, <1>7 DEF TM!cleanup_tier_operation, TM!pinVars
<1>9. /\ HostsOwn' /\ host_prefixes' \in [Engines -> [Checkpoints -> HostPrefixes]]
      /\ shared' \in [Checkpoints -> {"absent", "partial", "own", "other"}]
      /\ \A c \in Checkpoints : c # o[1] => shared'[c] = shared[c]
      /\ ~drop => UNCHANGED shared
  <2>1. PICK h : h = TM!NoHostPrefix
    OBVIOUS
  <2>2. h \in HostPrefixes /\ h.epoch = 0
    BY <2>1 DEF HostPrefixes, TM!NoHostPrefix
  <2>3. HostsOwn' /\ host_prefixes' \in [Engines -> [Checkpoints -> HostPrefixes]]
    <3>1. CASE drop
      <4>1. host_prefixes' = [host_prefixes EXCEPT ![e][o[1]] = h]
        BY <1>8, <2>1, <3>1
      <4>2. QED
        BY <1>2, <1>3, <1>4, <2>2, <4>1 DEF RecordsInv, HostsOwn
    <3>2. CASE ~drop
      BY <1>2, <1>8, <3>2, TablesRest
    <3>3. QED
      BY <3>1, <3>2
  <2>4. shared' \in [Checkpoints -> {"absent", "partial", "own", "other"}]
    BY <1>3, <1>4, <1>8
  <2>5. QED
    BY <1>3, <1>4, <1>8, <2>3, <2>4
<1>10. /\ Writes(e, o, r) /\ TM!TierState(e, o) # "QUEUED" /\ UNCHANGED tier_queue
       /\ WritesOnly(e, o)
  BY <1>1, <1>2, <1>3, <1>8 DEF Writes, WritesOnly, TierTyped, TM!TierState
<1>11. /\ (r.rows = "none" <=> tier_operations[e][o].rows = "none") => RecordsStay
       /\ r.rows = "none" /\ tier_operations[e][o].rows # "none" => RecordsReturn(e)
  BY <1>2, <1>6, <1>9, <1>10, RecordChanges
<1>12. EngineInv'
  <2>1. CASE op.rows # "none"
    <3>1. free' = [free EXCEPT ![e] = @ + 1] /\ UNCHANGED <<prefixes, locks, cache>>
      BY <1>8, <2>1
    <3>2. \A a \in Agents : PoolGains(e)
      BY <1>2, <3>1, ReturnKeepsPool
    <3>3. Agents # {}
      BY <1>3, <2>1 DEF RecordFits
    <3>4. RecordsReturn(e)
      BY <1>1, <1>6, <1>11, <2>1
    <3>5. QED
      BY <3>2, <3>3, <3>4, RowsMove
  <2>2. CASE op.rows = "none"
    <3>1. UNCHANGED <<prefixes, locks, cache, free>>
      BY <1>2, <1>8, <2>2 DEF PoolTyped
    <3>2. RecordsStay
      BY <1>1, <1>6, <1>11, <2>2
    <3>3. QED
      BY <1>2, <3>1, <3>2, PoolRests, RowsMove
  <2>3. QED
    BY <2>1, <2>2
<1>13. QED
  BY <1>8, <1>9, <1>10, <1>12

\* Pins are set and released, and the other traffic of an engine comes and goes.
LEMMA PinningKeeps ==
    ASSUME EngineInv, UNCHANGED tierVars, NEW e \in Engines, NEW a \in Agents
    PROVE  /\ \A epoch \in Nat \ {0} : TM!pin(e, a, epoch) =>
                 EngineInv' /\ PinsOnly(e, a) /\ prefixes'[e][a] = epoch
           /\ \A epoch \in Nat, evicts, missing \in BOOLEAN :
                 TM!release(e, a, epoch, evicts, missing) => EngineInv' /\ PinsOnly(e, a)
           /\ TM!prefill(e, a) \/ TM!evict(e, a) => EngineInv' /\ UNCHANGED prefixes
           /\ TM!pin_fails(e, a) => EngineInv' /\ UNCHANGED prefixes
<1>1. PoolInv /\ PoolTyped
  BY DEF EngineInv, PoolInv
<1>2. ASSUME NEW epoch \in Nat \ {0}, TM!pin(e, a, epoch)
      PROVE  EngineInv' /\ PinsOnly(e, a) /\ prefixes'[e][a] = epoch
  <2>1. PoolStays /\ prefixes' = [prefixes EXCEPT ![e][a] = epoch]
    BY <1>1, <1>2, PinKeepsPool
  <2>2. QED
    BY <1>1, <2>1, PoolStepKeeps DEF PinsOnly, PoolTyped
<1>3. ASSUME NEW epoch \in Nat, NEW evicts \in BOOLEAN, NEW missing \in BOOLEAN,
             TM!release(e, a, epoch, evicts, missing)
      PROVE  EngineInv' /\ PinsOnly(e, a)
  <2>1. PoolStays /\ prefixes' = [prefixes EXCEPT ![e][a] = 0]
    BY <1>1, <1>3, ReleaseKeepsPool
  <2>2. QED
    BY <1>1, <2>1, PoolStepKeeps DEF PinsOnly, PoolTyped
<1>4. ASSUME TM!prefill(e, a) \/ TM!evict(e, a)
      PROVE  EngineInv' /\ UNCHANGED prefixes
  BY <1>1, <1>4, TrafficKeepsPool, PoolStepKeeps
<1>5. ASSUME TM!pin_fails(e, a)
      PROVE  EngineInv' /\ UNCHANGED prefixes
  BY <1>1, <1>5, PinFailsKeepsPool, PoolStepKeeps
<1>6. QED
  BY <1>2, <1>3, <1>4, <1>5

\* The engine of an idle scheduler is flushed: it is as it was when it came up, and no call's
\* operation was going on (patch:441-453, :1057-1074).
Flushed(e) ==
    /\ \A o \in OperationIds :
          tier_operations[e][o].state \notin {"QUEUED", "COPYING", "COPY_DONE"}
    /\ \A x \in Engines, o \in OperationIds :
          IF x = e THEN tier_operations'[x][o].state = "NONE"
          ELSE tier_operations'[x][o] = tier_operations[x][o]
    /\ \A x \in Engines, a \in Agents :
          IF x = e THEN prefixes'[x][a] = 0 ELSE prefixes'[x][a] = prefixes[x][a]
    /\ UNCHANGED shared

\* Its tables are as they should be.
LEMMA FlushKeepsRecords ==
    ASSUME EngineInv, NEW e \in Engines, TM!tier_flush_cache(e)
    PROVE  /\ RecordsInv' /\ Flushed(e)
           /\ \A x \in Engines : x # e => ReservedRows(x)' = ReservedRows(x)
           /\ ReservedRows(e)' = 0
<1>1. PICK none : none = TM!NoTierOperation
  OBVIOUS
<1>2. PICK gone : gone = TM!NoHostPrefix
  OBVIOUS
<1>3. /\ none \in Records /\ none.state = "NONE" /\ none.rows = "none"
      /\ gone \in HostPrefixes /\ gone.epoch = 0
  BY <1>1, <1>2 DEF Records, HostPrefixes, TM!NoTierOperation, TM!NoHostPrefix
<1>4. PICK cleared : cleared = [o \in OperationIds |-> none]
  OBVIOUS
<1>5. PICK dropped : dropped = [c \in Checkpoints |-> gone]
  OBVIOUS
<1>6. /\ tier_operations' = [tier_operations EXCEPT ![e] = cleared]
      /\ host_prefixes' = [host_prefixes EXCEPT ![e] = dropped]
      /\ UNCHANGED <<tier_queue, shared>>
      /\ prefixes' = [prefixes EXCEPT ![e] = [a \in Agents |-> 0]]
      /\ \A o \in OperationIds :
            tier_operations[e][o].state \notin {"QUEUED", "COPYING", "COPY_DONE"}
  BY <1>1, <1>2, <1>4, <1>5
     DEF TM!tier_flush_cache, TM!ResetsPool, TM!TierState, TM!ActiveStates, OperationIds,
         Checkpoints
<1>7. RecordsInv /\ TierTyped /\ PoolTyped
  BY DEF EngineInv, RecordsInv, PoolInv
<1>8. /\ cleared \in [OperationIds -> Records] /\ (\A o \in OperationIds : cleared[o] = none)
      /\ dropped \in [Checkpoints -> HostPrefixes] /\ (\A c \in Checkpoints : dropped[c] = gone)
  BY <1>3, <1>4, <1>5
<1>9. /\ \A x \in Engines : tier_operations'[x] = IF x = e THEN cleared ELSE tier_operations[x]
      /\ \A x \in Engines : host_prefixes'[x] = IF x = e THEN dropped ELSE host_prefixes[x]
  BY <1>6, <1>7 DEF TierTyped
<1>10. TierTyped'
  <2>1. tier_operations' \in [Engines -> [OperationIds -> Records]]
    BY <1>6, <1>7, <1>8 DEF TierTyped
  <2>2. host_prefixes' \in [Engines -> [Checkpoints -> HostPrefixes]]
    BY <1>6, <1>7, <1>8 DEF TierTyped
  <2>3. QED
    BY <1>6, <1>7, <2>1, <2>2 DEF TierTyped
<1>11. RecordsFit'
  <2>1. \A o \in OperationIds : RecordFits(o, none)
    BY <1>3 DEF RecordFits, RowsFit
  <2>2. QED
    BY <1>7, <1>8, <1>9, <2>1 DEF RecordsInv, RecordsFit
<1>12. QueuesFit'
  <2>1. ASSUME NEW x \in Engines, NEW i \in DOMAIN tier_queue[x]
        PROVE  tier_operations'[x][tier_queue[x][i]].state = "QUEUED"
    <3>1. tier_operations[x][tier_queue[x][i]].state = "QUEUED"
      BY <1>7 DEF RecordsInv, QueuesFit
    <3>2. tier_queue[x][i] \in OperationIds
      BY <1>7 DEF TierTyped
    <3>3. x # e
      BY <1>6, <3>1, <3>2
    <3>4. QED
      BY <1>9, <3>1, <3>3
  <2>2. QED
    BY <1>6, <1>7, <2>1 DEF RecordsInv, QueuesFit
<1>13. HostsOwn'
  BY <1>3, <1>7, <1>8, <1>9 DEF RecordsInv, HostsOwn
<1>14. ASSUME NEW x \in Engines, x # e
       PROVE  ReservedRows(x)' = ReservedRows(x)
  BY <1>9, <1>14 DEF ReservedRows, TM!TierReserved
<1>15. ReservedRows(e)' = 0
  <2>1. \A o \in OperationIds : tier_operations'[e][o].rows = "none"
    BY <1>3, <1>8, <1>9
  <2>2. TM!TierReserved(e)' = {}
    BY <2>1 DEF TM!TierReserved, OperationIds
  <2>3. QED
    BY <2>2, FS_EmptySet DEF ReservedRows
<1>16. Flushed(e)
  <2>1. \A x \in Engines, a \in Agents :
           IF x = e THEN prefixes'[x][a] = 0 ELSE prefixes'[x][a] = prefixes[x][a]
    BY <1>6, <1>7 DEF PoolTyped
  <2>2. \A x \in Engines, o \in OperationIds :
           IF x = e THEN tier_operations'[x][o].state = "NONE"
           ELSE tier_operations'[x][o] = tier_operations[x][o]
    BY <1>3, <1>8, <1>9
  <2>3. QED
    BY <1>6, <2>1, <2>2 DEF Flushed
<1>17. QED
  BY <1>10, <1>11, <1>12, <1>13, <1>14, <1>15, <1>16 DEF RecordsInv

\* And so is its pool.
LEMMA FlushKeeps ==
    ASSUME EngineInv, NEW e \in Engines, TM!tier_flush_cache(e)
    PROVE  EngineInv' /\ Flushed(e)
<1>1. /\ PoolTyped /\ PoolInv /\ Slots \in Nat
      /\ prefixes' = [prefixes EXCEPT ![e] = [a \in Agents |-> 0]]
      /\ locks' = [locks EXCEPT ![e] = [a \in Agents |-> 0]]
      /\ cache' = [cache EXCEPT ![e] = [a \in Agents |-> "absent"]]
      /\ free' = [free EXCEPT ![e] = Slots]
  BY HandoffAssumption DEF EngineInv, PoolInv, TM!tier_flush_cache, TM!ResetsPool
<1>2. PoolTyped'
  BY <1>1 DEF PoolTyped
<1>3. /\ \A x \in Engines, a \in Agents : x # e =>
            /\ prefixes'[x][a] = prefixes[x][a] /\ locks'[x][a] = locks[x][a]
            /\ cache'[x][a] = cache[x][a]
      /\ \A a \in Agents : prefixes'[e][a] = 0 /\ cache'[e][a] = "absent"
      /\ \A x \in Engines : free'[x] = IF x = e THEN Slots ELSE free[x]
  BY <1>1 DEF PoolTyped
<1>4. PoolInv'
  BY <1>1, <1>2, <1>3
     DEF PoolInv, PinsResident, PinsLocked, RestoredRowsAreOwn, TM!Pinned, TM!Resident
<1>5. /\ RecordsInv' /\ Flushed(e) /\ ReservedRows(e)' = 0
      /\ \A x \in Engines : x # e => ReservedRows(x)' = ReservedRows(x)
  BY FlushKeepsRecords
<1>6. TierPoolAccounting'
  <2> SUFFICES ASSUME NEW x \in Engines
               PROVE  (free[x] + ResidentRows(x) + ReservedRows(x))' = Slots
    BY DEF TierPoolAccounting, ResidentRows, ReservedRows
  <2>1. free[x] + ResidentRows(x) + ReservedRows(x) = Slots
    BY DEF EngineInv, TierPoolAccounting, ResidentRows, ReservedRows
  <2>2. CASE x = e
    <3>1. {a \in Agents : cache'[e][a] # "absent"} = {}
      BY <1>3
    <3>2. ResidentRows(e)' = 0
      BY <3>1, FS_EmptySet DEF ResidentRows
    <3>3. free'[e] = Slots
      BY <1>3
    <3>4. QED
      BY <1>1, <1>5, <2>2, <3>2, <3>3
  <2>3. CASE x # e
    <3>1. {a \in Agents : cache'[x][a] # "absent"} = {a \in Agents : cache[x][a] # "absent"}
      BY <1>3, <2>3
    <3>2. ResidentRows(x)' = ResidentRows(x)
      BY <3>1 DEF ResidentRows
    <3>3. free'[x] = free[x]
      BY <1>3, <2>3
    <3>4. QED
      BY <1>5, <2>1, <2>3, <3>2, <3>3
  <2>4. QED
    BY <2>2, <2>3
<1>7. QED
  BY <1>4, <1>5, <1>6 DEF EngineInv

\* The engines that nothing was done to.
LEMMA EnginesRest ==
    ASSUME EngineInv, UNCHANGED tierEngineVars
    PROVE  EngineInv' /\ UNCHANGED <<prefixes, tier_operations, shared>>
<1>1. UNCHANGED <<prefixes, locks, cache, free>> /\ UNCHANGED tierVars
  BY DEF tierEngineVars
<1>2. QED
  BY <1>1, PoolRests, PoolStepKeeps DEF EngineInv, tierVars

-----------------------------------------------------------------------------
(* What calls know. *)

\* An agent is registered, at an epoch.
LEMMA AgentsFit ==
    ASSUME CoordinatedInv, NEW a \in Agents
    PROVE  agents[a].owner \in Engines /\ agents[a].epoch \in Nat \ {0}
<1>1. agents[a] \in AgentRows /\ Registered(a)
  BY DEF CoordinatedInv, StoreInv, StoreTypeOK
<1>2. agents[a].epoch = InitialEpoch + Cardinality(HandoversOf(a))
                          + Cardinality(RecoveriesOf(a))
  BY <1>1 DEF CoordinatedInv, CountInv, EpochAccounting, HandoversOf, RecoveriesOf
<1>3. Cardinality(HandoversOf(a)) \in Nat /\ Cardinality(RecoveriesOf(a)) \in Nat
  BY RecoveriesAreHandovers DEF CoordinatedInv, CountInv
<1>4. InitialEpoch \in Nat \ {0}
  BY StoreAssumption
<1>5. agents[a].epoch # 0
  BY <1>2, <1>3, <1>4
<1>6. QED
  BY <1>1, <1>5 DEF AgentRows, Registered

\* A fault that happens is counted.
FaultsMove == UNCHANGED faults \/ (faults < MaxFaults /\ faults' = faults + 1)

\* It is.
LEMMA FaultsCounted ==
    ASSUME CallsTyped, FaultsMove
    PROVE  /\ faults' \in 0..MaxFaults
           /\ faults' = 0 => faults = 0
           /\ faults # 0 => faults' # 0
           /\ faults' = faults + 1 => faults' # 0
BY HandoffAssumption DEF CallsTyped, FaultsMove

\* The ids of a handoff's operations.
LEMMA IdsOfHandoff ==
    ASSUME NEW m \in Migrations
    PROVE  /\ Export(m) \in OperationIds /\ Import(m) \in OperationIds
           /\ Export(m) # Import(m) /\ m \in Checkpoints
           /\ Export(m)[1] = m /\ Export(m)[2] = "export"
           /\ Import(m)[1] = m /\ Import(m)[2] = "import"
           /\ Reads(Export(m)) /\ ~Reads(Import(m))
BY DEF Export, Import, OperationIds, Checkpoints, Reads

\* What a running call knows of its row and of itself.
RunningFacts(m) ==
    LET t == task[m]
        row == migrations[m]
    IN
    /\ t.agent \in Agents \ Parked /\ t.source \in Engines /\ t.destination \in Engines
    /\ t.source # t.destination /\ t.epoch \in Nat \ {0}
    /\ t.agent = row.agent /\ t.source = row.source /\ t.destination = row.destination
    /\ t.epoch = row.epoch
    /\ handoffLock = m
    /\ <<t.pc, row.state>> \in RunningStates /\ row.state # "NONE"

\* It does.
LEMMA RunningKnows ==
    ASSUME HandoffInv, NEW m \in Migrations, Running(m)
    PROVE  RunningFacts(m)
<1>1. RowFits(m) /\ CallFits(m)
  BY DEF HandoffInv, HandoffFits
<1>2. <<task[m].pc, migrations[m].state>> \in RunningStates
  BY <1>1 DEF CallFits
<1>3. migrations[m].state # "NONE"
  BY <1>2 DEF RunningStates
<1>4. migrations[m] \in MigrationRows
  BY DEF HandoffInv, CoordinatedInv, StoreInv, StoreTypeOK
<1>5. migrations[m].source \in Engines /\ migrations[m].destination \in Engines
  BY <1>3 DEF HandoffInv, CoordinatedInv, StoreInv, RowsWellFormed
<1>6. QED
  BY <1>1, <1>2, <1>3, <1>4, <1>5 DEF CallFits, RowFits, RunningFacts, MigrationRows

\* The engines, but for the operations of k and the pins of a.
Touches(k, a) ==
    /\ \A e \in Engines, o \in OperationIds :
          o[1] # k => tier_operations'[e][o] = tier_operations[e][o]
    /\ \A c \in Checkpoints : c # k => shared'[c] = shared[c]
    /\ \A e \in Engines, b \in Agents : b # a => prefixes'[e][b] = prefixes[e][b]

\* A handoff that a step is not about.
LEMMA HandoffRests ==
    ASSUME HandoffInv, NEW m \in Migrations, NEW k, NEW a, k # m, Touches(k, a),
           task'[m] = task[m], migrations'[m] = migrations[m], faults' = 0 => faults = 0,
           LiveMigration(m) => migrations[m].agent # a,
           Running(m) =>
              /\ UNCHANGED handoffLock
              /\ \A n \in Migrations : LiveMigration(n)' =>
                    LiveMigration(n) /\ migrations'[n].agent = migrations[n].agent
    PROVE  HandoffFits(m)'
<1>1. RowFits(m) /\ CallFits(m) /\ OperationsFit(m) /\ PinsFit(m)
  BY DEF HandoffInv, HandoffFits
<1>2. RowFits(m)'
  BY <1>1 DEF RowFits
<1>3. CallFits(m)'
  BY <1>1 DEF CallFits, Running
<1>4. /\ \A e \in Engines : /\ tier_operations'[e][Export(m)] = tier_operations[e][Export(m)]
                            /\ tier_operations'[e][Import(m)] = tier_operations[e][Import(m)]
      /\ shared'[m] = shared[m]
  BY IdsOfHandoff DEF Touches
<1>5. LiveMigration(m) =>
         \A e \in Engines : prefixes'[e][migrations[m].agent] = prefixes[e][migrations[m].agent]
  <2>1. LiveMigration(m) => migrations[m].agent \in Agents
    BY <1>1 DEF RowFits, LiveMigration, LiveStates, MigrationState
  <2>2. QED
    BY <2>1 DEF Touches
<1>6. OperationsFit(m)'
  <2>1. CASE ~Running(m)
    BY <1>1, <1>4, <2>1 DEF OperationsFit, Running, TM!TierState
  <2>2. CASE Running(m)
    <3>1. RunningFacts(m)
      BY <2>2, RunningKnows
    <3>2. task[m].pc \in {"exporting", "importing"} => LiveMigration(m)
      BY <3>1 DEF RunningFacts, RunningStates, LiveMigration, LiveStates, MigrationState
    <3>3. task[m].pc \in {"exporting", "importing"} =>
             /\ prefixes'[task[m].destination][task[m].agent]
                   = prefixes[task[m].destination][task[m].agent]
             /\ prefixes'[task[m].source][task[m].agent]
                   = prefixes[task[m].source][task[m].agent]
      BY <1>5, <3>1, <3>2 DEF RunningFacts
    <3>4. /\ tier_operations'[task[m].source][Export(m)] =
                tier_operations[task[m].source][Export(m)]
          /\ tier_operations'[task[m].destination][Import(m)] =
                tier_operations[task[m].destination][Import(m)]
      BY <1>4, <3>1 DEF RunningFacts
    <3>5. QED
      BY <1>1, <1>4, <3>3, <3>4
         DEF OperationsFit, Awaited, Completed, TM!TierState, TM!Pinned
  <2>3. QED
    BY <2>1, <2>2
<1>7. PinsFit(m)'
  <2>1. migrations[m].state \in {"COPYING", "DEST_READY", "COMMITTED"} =>
           /\ LiveMigration(m)
           /\ migrations[m].source \in Engines /\ migrations[m].destination \in Engines
    BY DEF HandoffInv, CoordinatedInv, StoreInv, RowsWellFormed, LiveMigration, LiveStates,
           MigrationState
  <2>2. QED
    BY <1>1, <1>5, <2>1 DEF PinsFit
<1>8. QED
  BY <1>2, <1>3, <1>6, <1>7 DEF HandoffFits

\* A parked agent that a step is not about.
LEMMA ParkRests ==
    ASSUME HandoffInv, NEW b \in Parked, NEW k, NEW a, k # b, a # b, Touches(k, a),
           parking'[b] = parking[b], agents'[b] = agents[b]
    PROVE  ParkFits(b)'
<1>1. ParkFits(b) /\ agents[b].owner \in Engines /\ b \in Agents
  BY AgentsFit, HandoffAssumption DEF HandoffInv
<1>2. /\ <<b, "offload">> \in OperationIds /\ <<b, "restore">> \in OperationIds
      /\ <<b, "offload">>[1] = b /\ <<b, "restore">>[1] = b
  BY DEF OperationIds
<1>3. PICK e \in Engines : e = agents[b].owner
  BY <1>1
<1>4. /\ tier_operations'[e][<<b, "offload">>] = tier_operations[e][<<b, "offload">>]
      /\ tier_operations'[e][<<b, "restore">>] = tier_operations[e][<<b, "restore">>]
      /\ prefixes'[e][b] = prefixes[e][b]
  BY <1>1, <1>2 DEF Touches
<1>5. QED
  BY <1>1, <1>3, <1>4 DEF ParkFits, Awaited, TM!Pinned

-----------------------------------------------------------------------------
(* Steps of the calls. *)

\* What a coordinator's call leaves alone.
LEMMA CoordinatorTouches ==
    ASSUME HandoffInv, NEW m \in Migrations, CoordinatorCall(m)
    PROVE  /\ CoordinatedInv'
           /\ \A n \in Migrations : n # m => migrations'[n] = migrations[n]
           /\ \A b \in Parked : agents'[b] = agents[b]
<1>1. CoordinatedInv /\ StoreTypeOK /\ RowFits(m)
  BY DEF HandoffInv, CoordinatedInv, StoreInv, HandoffFits
<1>2. CoordinatedInv'
  BY <1>1, CoordinatorKeeps
<1>3. \A n \in Migrations : n # m => migrations'[n] = migrations[n]
  BY <1>1 DEF CoordinatorCall, transition_migration, commit_migration, InsertsRow,
     storeVars, StoreTypeOK
<1>4. \A b \in Parked : agents'[b] = agents[b]
  <2>1. CASE commit_migration(m)
    <3>1. migrations[m].agent \in Agents \ Parked
      BY <1>1, <2>1 DEF commit_migration, RowFits, MigrationState
    <3>2. Parked \subseteq Agents
      BY HandoffAssumption
    <3>3. \A b \in Agents : b # migrations[m].agent => agents'[b] = agents[b]
      BY <1>1, <2>1 DEF commit_migration, StoreTypeOK
    <3>4. QED
      BY <3>1, <3>2, <3>3
  <2>2. CASE ~commit_migration(m)
    BY <2>2 DEF CoordinatorCall, transition_migration, InsertsRow, storeVars
  <2>3. QED
    BY <2>1, <2>2
<1>5. QED
  BY <1>2, <1>3, <1>4

\* A step of a handoff, or of its acknowledgement, that keeps what is known of it.
LEMMA HandoffKeeps ==
    ASSUME HandoffInv, NEW m \in Migrations, NEW a, a \notin Parked,
           EngineInv', CallsTyped', CoordinatorCall(m), Touches(m, a), HandoffFits(m)',
           UNCHANGED parking, faults' = 0 => faults = 0,
           \A n \in Migrations : n # m =>
              /\ task'[n] = task[n]
              /\ LiveMigration(n) => migrations[n].agent # a
              /\ Running(n) =>
                    /\ UNCHANGED handoffLock
                    /\ LiveMigration(m)' =>
                          LiveMigration(m) /\ migrations'[m].agent = migrations[m].agent
    PROVE  HandoffInv'
<1>1. /\ CoordinatedInv'
      /\ \A n \in Migrations : n # m => migrations'[n] = migrations[n]
      /\ \A b \in Parked : agents'[b] = agents[b]
  BY CoordinatorTouches
<1>2. ASSUME NEW n \in Migrations, n # m
      PROVE  HandoffFits(n)'
  <2>1. ASSUME Running(n), NEW x \in Migrations, LiveMigration(x)'
        PROVE  LiveMigration(x) /\ migrations'[x].agent = migrations[x].agent
    <3>1. CASE x = m
      BY <1>2, <2>1, <3>1
    <3>2. CASE x # m
      BY <1>1, <2>1, <3>2 DEF LiveMigration, MigrationState
    <3>3. QED
      BY <3>1, <3>2
  <2>2. QED
    BY <1>1, <1>2, <2>1, HandoffRests
<1>3. ASSUME NEW b \in Parked
      PROVE  ParkFits(b)'
  <2>1. m # b
    BY HandoffAssumption
  <2>2. QED
    BY <1>1, <2>1, ParkRests
<1>4. QED
  BY <1>1, <1>2, <1>3 DEF HandoffInv

\* A step of a parked agent.
LEMMA ParkKeeps ==
    ASSUME HandoffInv, NEW a \in Parked, EngineInv', FaultsMove, Touches(a, a),
           ParkFits(a)', UNCHANGED <<storeVars, task, handoffLock>>,
           NEW pc \in ParkingStates, parking' = [parking EXCEPT ![a] = pc]
    PROVE  HandoffInv'
<1>1. /\ faults' \in 0..MaxFaults /\ (faults' = 0 => faults = 0)
      /\ CallsTyped /\ UNCHANGED <<agents, migrations, claims, starting>>
  BY FaultsCounted DEF HandoffInv, storeVars
<1>2. CallsTyped'
  BY <1>1 DEF CallsTyped
<1>3. \A m \in Migrations : CoordinatorCall(m)
  BY DEF CoordinatorCall
<1>4. CoordinatedInv'
  BY CoordinatedRests DEF HandoffInv
<1>5. ASSUME NEW m \in Migrations
      PROVE  HandoffFits(m)'
  <2>1. a # m
    BY HandoffAssumption
  <2>2. LiveMigration(m) => migrations[m].agent # a
    BY DEF HandoffInv, HandoffFits, RowFits, LiveMigration, LiveStates, MigrationState
  <2>3. \A n \in Migrations : LiveMigration(n)' => LiveMigration(n)
    BY <1>1 DEF LiveMigration, MigrationState
  <2>4. QED
    BY <1>1, <2>1, <2>2, <2>3, HandoffRests
<1>6. ASSUME NEW b \in Parked, b # a
      PROVE  ParkFits(b)'
  <2>1. parking'[b] = parking[b]
    BY <1>1, <1>6 DEF CallsTyped
  <2>2. QED
    BY <1>1, <1>6, <2>1, ParkRests
<1>7. QED
  BY <1>2, <1>4, <1>5, <1>6 DEF HandoffInv

\* A call is at pc next, and its row in a state.
Moved(m, pc, state) ==
    /\ CoordinatorCall(m) /\ UNCHANGED parking
    /\ \A n \in Migrations : n # m => task'[n] = task[n]
    /\ task' \in [Migrations ->
          [pc : {"idle", "lock", "done", "failed"} \cup {p[1] : p \in RunningStates},
           agent : Agents \cup {None}, source : Engines \cup {None},
           destination : Engines \cup {None}, epoch : Nat]]
    /\ task'[m].pc = pc /\ task'[m].agent = task[m].agent
    /\ task'[m].source = task[m].source /\ task'[m].destination = task[m].destination
    /\ task'[m].epoch = task[m].epoch
    /\ migrations'[m].state = state /\ migrations'[m].agent = migrations[m].agent
    /\ migrations'[m].source = migrations[m].source
    /\ migrations'[m].destination = migrations[m].destination
    /\ migrations'[m].epoch = migrations[m].epoch

\* It goes on.
Continues(m, pc, state) == Moved(m, pc, state) /\ UNCHANGED handoffLock

\* It returns, and its row stays or is aborted.
Ends(m) ==
    /\ \E pc \in {"done", "failed"}, state \in {migrations[m].state, "ABORTED"} :
          Moved(m, pc, state)
    /\ handoffLock' = None

\* What the task and its row are after they are written.
LEMMA MovesFields ==
    ASSUME HandoffInv, NEW m \in Migrations, NEW pc, NEW state,
           pc \in {"done", "failed"} \cup {p[1] : p \in RunningStates},
           task' = [task EXCEPT ![m].pc = pc], UNCHANGED parking, CoordinatorCall(m),
           migrations'[m] = [migrations[m] EXCEPT !.state = state]
    PROVE  Moved(m, pc, state)
<1>1. /\ task \in [Migrations ->
             [pc : {"idle", "lock", "done", "failed"} \cup {p[1] : p \in RunningStates},
              agent : Agents \cup {None}, source : Engines \cup {None},
              destination : Engines \cup {None}, epoch : Nat]]
      /\ migrations \in [Migrations -> MigrationRows]
  BY DEF HandoffInv, CallsTyped, CoordinatedInv, StoreInv, StoreTypeOK
<1>2. /\ migrations[m] \in MigrationRows /\ migrations'[m].state = state
      /\ migrations'[m].agent = migrations[m].agent
      /\ migrations'[m].source = migrations[m].source
      /\ migrations'[m].destination = migrations[m].destination
      /\ migrations'[m].epoch = migrations[m].epoch
  BY <1>1 DEF MigrationRows
<1>3. PICK t : t = [task[m] EXCEPT !.pc = pc]
  OBVIOUS
<1>4. /\ t \in [pc : {"idle", "lock", "done", "failed"} \cup {p[1] : p \in RunningStates},
                agent : Agents \cup {None}, source : Engines \cup {None},
                destination : Engines \cup {None}, epoch : Nat]
      /\ t.pc = pc /\ t.agent = task[m].agent /\ t.source = task[m].source
      /\ t.destination = task[m].destination /\ t.epoch = task[m].epoch
  BY <1>1, <1>3
<1>5. task' = [task EXCEPT ![m] = t]
  BY <1>1, <1>3
<1>6. /\ task' \in [Migrations ->
             [pc : {"idle", "lock", "done", "failed"} \cup {p[1] : p \in RunningStates},
              agent : Agents \cup {None}, source : Engines \cup {None},
              destination : Engines \cup {None}, epoch : Nat]]
      /\ task'[m] = t /\ \A n \in Migrations : n # m => task'[n] = task[n]
  BY <1>1, <1>4, <1>5
<1>7. QED
  BY <1>2, <1>4, <1>6 DEF Moved

\* The task moves on and writes nothing.
LEMMA GotoContinues ==
    ASSUME HandoffInv, NEW m \in Migrations, NEW pc \in {p[1] : p \in RunningStates},
           Goto(m, pc)
    PROVE  Continues(m, pc, migrations[m].state)
<1>1. /\ task' = [task EXCEPT ![m].pc = pc] /\ UNCHANGED <<parking, handoffLock>>
      /\ CoordinatorCall(m) /\ UNCHANGED migrations
  BY DEF Goto, CoordinatorCall, storeVars
<1>2. migrations'[m] = [migrations[m] EXCEPT !.state = migrations[m].state]
  BY <1>1 DEF HandoffInv, CoordinatedInv, StoreInv, StoreTypeOK, MigrationRows
<1>3. QED
  BY <1>1, <1>2, MovesFields DEF Continues

\* It moves on with its row.
LEMMA TransitionContinues ==
    ASSUME HandoffInv, NEW m \in Migrations, NEW pc \in {p[1] : p \in RunningStates},
           NEW t \in Transitions, transition_migration(m, t[1], t[2]),
           task' = [task EXCEPT ![m].pc = pc], UNCHANGED <<parking, handoffLock>>
    PROVE  Continues(m, pc, t[2])
<1>1. CoordinatorCall(m)
  BY DEF CoordinatorCall
<1>2. migrations'[m] = [migrations[m] EXCEPT !.state = t[2]]
  BY DEF transition_migration, HandoffInv, CoordinatedInv, StoreInv, StoreTypeOK
<1>3. QED
  BY <1>1, <1>2, MovesFields DEF Continues

\* The call returns, or raises: a row before the commit is aborted, or escapes.
LEMMA ReturnEnds ==
    ASSUME HandoffInv, NEW m \in Migrations,
           \/ Raises(m)
           \/ Escapes(m)
           \/ Returns(m, "done") /\ UNCHANGED storeVars
    PROVE  /\ Ends(m)
           /\ Raises(m) => migrations'[m].state \notin {"PREPARING", "COPYING"}
<1>1. migrations \in [Migrations -> MigrationRows]
  BY DEF HandoffInv, CoordinatedInv, StoreInv, StoreTypeOK
<1>2. ASSUME UNCHANGED storeVars, NEW pc \in {"done", "failed"}, Returns(m, pc)
      PROVE  Ends(m) /\ UNCHANGED migrations
  <2>1. migrations'[m] = [migrations[m] EXCEPT !.state = migrations[m].state]
    BY <1>1, <1>2 DEF storeVars, MigrationRows
  <2>2. Moved(m, pc, migrations[m].state)
    BY <1>2, <2>1, MovesFields DEF Returns, CoordinatorCall
  <2>3. QED
    BY <1>2, <2>2 DEF Returns, Ends, storeVars
<1>3. ASSUME transition_migration(m, MigrationState(m), "ABORTED"), Returns(m, "failed"),
             MigrationState(m) \in {"PREPARING", "COPYING"}
      PROVE  Ends(m) /\ migrations'[m].state = "ABORTED"
  <2>1. migrations'[m] = [migrations[m] EXCEPT !.state = "ABORTED"]
    BY <1>1, <1>3 DEF transition_migration
  <2>2. PICK t \in Transitions : t = <<MigrationState(m), "ABORTED">>
    BY <1>3 DEF Transitions
  <2>3. CoordinatorCall(m)
    BY <1>3, <2>2 DEF CoordinatorCall
  <2>4. Moved(m, "failed", "ABORTED")
    BY <1>3, <2>1, <2>3, MovesFields DEF Returns
  <2>5. QED
    BY <1>3, <2>4 DEF Returns, Ends, Moved
<1>4. QED
  BY <1>2, <1>3 DEF Raises, Escapes, MigrationState

\* Where a running call goes on to, what is known of it holds again.
LEMMA ContinuesKeeps ==
    ASSUME HandoffInv, NEW m \in Migrations, Running(m), EngineInv', FaultsMove,
           Touches(m, task[m].agent), NEW pc, NEW state, <<pc, state>> \in RunningStates,
           Continues(m, pc, state), OperationsFit(m)', PinsFit(m)',
           faults' = 0 => pc \notin {"releaseImported", "undoImported", "undoBoth"}
    PROVE  HandoffInv'
<1>1. RunningFacts(m)
  BY RunningKnows
<1>2. /\ CallFits(m) /\ RowFits(m) /\ CallsTyped
      /\ \A n \in Migrations : n # m => CallFits(n)
  BY DEF HandoffInv, HandoffFits
<1>3. \A n \in Migrations : n # m => migrations'[n] = migrations[n]
  BY CoordinatorTouches DEF Continues, Moved
<1>4. faults' \in 0..MaxFaults /\ (faults' = 0 => faults = 0)
  BY <1>2, FaultsCounted
<1>5. CallsTyped'
  BY <1>2, <1>4 DEF Continues, Moved, CallsTyped
<1>6. RowFits(m)'
  BY <1>1, <1>2 DEF Continues, Moved, RowFits, RunningFacts
<1>7. pc \notin {"idle", "lock", "done", "failed"}
  BY DEF RunningStates
<1>8. \A n \in Migrations : n # m /\ LiveMigration(n)' => migrations'[n].agent # migrations[m].agent
  BY <1>2, <1>3 DEF CallFits, LiveMigration, MigrationState
<1>9. CallFits(m)'
  BY <1>1, <1>7, <1>8 DEF CallFits, Continues, Moved, RunningFacts, Running
<1>10. HandoffFits(m)'
  BY <1>6, <1>9 DEF HandoffFits
<1>11. \A n \in Migrations : n # m =>
          ~Running(n) /\ (LiveMigration(n) => migrations[n].agent # task[m].agent)
  BY <1>1, <1>2 DEF CallFits, RunningFacts
<1>12. task[m].agent \notin Parked
  BY <1>1 DEF RunningFacts
<1>13. /\ CoordinatorCall(m) /\ UNCHANGED parking
       /\ \A n \in Migrations : n # m => task'[n] = task[n]
  BY DEF Continues, Moved
<1>14. QED
  BY <1>4, <1>5, <1>10, <1>11, <1>12, <1>13, HandoffKeeps

\* And where it ends.
LEMMA EndKeeps ==
    ASSUME HandoffInv, NEW m \in Migrations, Running(m), EngineInv', FaultsMove,
           Touches(m, task[m].agent), Ends(m), PinsFit(m)'
    PROVE  HandoffInv'
<1>1. RunningFacts(m)
  BY RunningKnows
<1>2. /\ CallFits(m) /\ RowFits(m) /\ CallsTyped
      /\ \A n \in Migrations : n # m => CallFits(n)
  BY DEF HandoffInv, HandoffFits
<1>3. PICK pc \in {"done", "failed"}, state \in {migrations[m].state, "ABORTED"} :
         Moved(m, pc, state)
  BY DEF Ends
<1>4. faults' \in 0..MaxFaults /\ (faults' = 0 => faults = 0)
  BY <1>2, FaultsCounted
<1>5. CallsTyped'
  BY <1>2, <1>3, <1>4 DEF Moved, CallsTyped, Ends
<1>6. RowFits(m)'
  BY <1>1, <1>2, <1>3 DEF Moved, RowFits, RunningFacts
<1>7. task'[m].pc \in {"done", "failed"}
  BY <1>3 DEF Moved
<1>8. CallFits(m)' /\ OperationsFit(m)'
  BY <1>7 DEF CallFits, OperationsFit, Running
<1>9. HandoffFits(m)'
  BY <1>6, <1>8 DEF HandoffFits
<1>10. \A n \in Migrations : n # m =>
          ~Running(n) /\ (LiveMigration(n) => migrations[n].agent # task[m].agent)
  BY <1>1, <1>2 DEF CallFits, RunningFacts
<1>11. task[m].agent \notin Parked
  BY <1>1 DEF RunningFacts
<1>12. /\ CoordinatorCall(m) /\ UNCHANGED parking
       /\ \A n \in Migrations : n # m => task'[n] = task[n]
  BY <1>3 DEF Moved
<1>13. QED
  BY <1>4, <1>5, <1>9, <1>10, <1>11, <1>12, HandoffKeeps

\* The pins of a handoff, when its call changes none, or one at the destination that
\* nobody counts on.
PinsCalm(m) ==
    \/ UNCHANGED prefixes
    \/ /\ PinsOnly(task[m].destination, task[m].agent)
       /\ migrations[m].state = "COPYING" \/ faults # 0

\* They are as they should be.
LEMMA PinsStay ==
    ASSUME HandoffInv, NEW m \in Migrations, Running(m), FaultsMove, PinsCalm(m),
           NEW pc, NEW state, Moved(m, pc, state),
           \/ state \in {migrations[m].state, "ABORTED"}
           \/ migrations[m].state = "DEST_READY" /\ state = "COMMITTED"
    PROVE  PinsFit(m)'
<1>1. RunningFacts(m)
  BY RunningKnows
<1>2. /\ PinsFit(m) /\ (faults' = 0 => faults = 0) /\ (faults # 0 => faults' # 0)
  BY FaultsCounted DEF HandoffInv, HandoffFits
<1>3. PICK row : row = migrations[m]
  OBVIOUS
<1>4. /\ row.source \in Engines /\ row.destination \in Engines /\ row.agent \in Agents
      /\ row.source # row.destination
      /\ row.destination = task[m].destination /\ row.agent = task[m].agent
  BY <1>1, <1>3 DEF RunningFacts
<1>5. CASE UNCHANGED prefixes
  BY <1>2, <1>3, <1>5 DEF PinsFit, Moved
<1>6. CASE /\ PinsOnly(task[m].destination, task[m].agent)
           /\ migrations[m].state = "COPYING" \/ faults # 0
  <2>1. prefixes'[row.source][row.agent] = prefixes[row.source][row.agent]
    BY <1>4, <1>6 DEF PinsOnly
  <2>2. QED
    BY <1>2, <1>3, <1>6, <2>1 DEF PinsFit, Moved
<1>7. QED
  BY <1>5, <1>6 DEF PinsCalm

\* The engines after a call of m.
Calm(m) == EngineInv' /\ Touches(m, task[m].agent) /\ PinsCalm(m) /\ FaultsMove

\* So a call that returns, or goes on, keeps what is known.
LEMMA ReturnKeeps ==
    ASSUME HandoffInv, NEW m \in Migrations, Running(m), Calm(m),
           \/ Raises(m)
           \/ Escapes(m)
           \/ Returns(m, "done") /\ UNCHANGED storeVars
    PROVE  HandoffInv'
<1>1. Ends(m)
  BY ReturnEnds
<1>2. PinsFit(m)'
  BY <1>1, PinsStay DEF Ends, Calm
<1>3. QED
  BY <1>1, <1>2, EndKeeps DEF Calm

\* And one that goes on.
LEMMA GotoKeeps ==
    ASSUME HandoffInv, NEW m \in Migrations, Running(m), Calm(m),
           NEW pc, <<pc, migrations[m].state>> \in RunningStates,
           Goto(m, pc), OperationsFit(m)',
           faults' = 0 => pc \notin {"releaseImported", "undoImported", "undoBoth"}
    PROVE  HandoffInv'
<1>1. pc \in {p[1] : p \in RunningStates}
  <2>1. pc = <<pc, migrations[m].state>>[1]
    OBVIOUS
  <2>2. QED
    BY <2>1
<1>2. Continues(m, pc, migrations[m].state)
  BY <1>1, GotoContinues
<1>3. PinsFit(m)'
  BY <1>2, PinsStay DEF Continues, Calm
<1>4. QED
  BY <1>2, <1>3, ContinuesKeeps DEF Calm

\* What a call touches when it writes one of its operations.
LEMMA WritesTouch ==
    ASSUME NEW m \in Migrations, NEW a, NEW e \in Engines, NEW o \in {Export(m), Import(m)},
           WritesOnly(e, o) \/ UNCHANGED tier_operations,
           PinsOnly(e, a) \/ UNCHANGED prefixes,
           \A c \in Checkpoints : c # m => shared'[c] = shared[c]
    PROVE  Touches(m, a)
BY IdsOfHandoff DEF Touches, WritesOnly, PinsOnly

\* An RPC that clears an operation away, or does not.
LEMMA CleansCalm ==
    ASSUME HandoffInv, NEW m \in Migrations, Running(m), FaultsMove,
           NEW e \in Engines, NEW o \in {Export(m), Import(m)}, NEW drop \in BOOLEAN,
           TM!cleanup_tier_operation(e, o, drop) \/ UNCHANGED tierEngineVars
    PROVE  Calm(m) /\ WritesOnly(e, o)
<1>1. EngineInv /\ o \in OperationIds /\ o[1] = m
  BY IdsOfHandoff DEF HandoffInv
<1>2. CASE TM!cleanup_tier_operation(e, o, drop)
  <2>1. /\ EngineInv' /\ WritesOnly(e, o) /\ UNCHANGED prefixes
        /\ \A c \in Checkpoints : c # m => shared'[c] = shared[c]
    BY <1>1, <1>2, CleanupKeeps
  <2>2. QED
    BY <2>1, WritesTouch DEF Calm, PinsCalm
<1>3. CASE UNCHANGED tierEngineVars
  <2>1. EngineInv' /\ UNCHANGED <<prefixes, tier_operations, shared>>
    BY <1>1, <1>3, EnginesRest
  <2>2. WritesOnly(e, o) /\ Touches(m, task[m].agent)
    BY <2>1 DEF WritesOnly, Touches
  <2>3. QED
    BY <2>1, <2>2 DEF Calm, PinsCalm
<1>4. QED
  BY <1>2, <1>3

\* pin_source (tiered.py:156-169).
LEMMA PinSourceKeeps ==
    ASSUME HandoffInv, NEW m \in Migrations, pin_source(m)
    PROVE  HandoffInv'
<1>1. task[m].pc = "pin" /\ Running(m)
  BY DEF pin_source, Running
<1>2. PICK t : t = task[m]
  OBVIOUS
<1>3. RunningFacts(m) /\ EngineInv /\ OperationsFit(m)
  BY <1>1, RunningKnows DEF HandoffInv, HandoffFits
<1>4. /\ t.agent \in Agents /\ t.source \in Engines /\ t.epoch \in Nat \ {0}
      /\ migrations[m].source = t.source /\ migrations[m].agent = t.agent
      /\ migrations[m].epoch = t.epoch /\ migrations[m].state = "PREPARING"
  BY <1>1, <1>2, <1>3 DEF RunningFacts, RunningStates
<1>5. /\ FaultsMove
      /\ \/ TM!pin(t.source, t.agent, t.epoch) /\ UNCHANGED tierVars
         \/ UNCHANGED tierEngineVars
         \/ TM!pin_fails(t.source, t.agent) /\ UNCHANGED tierVars /\ Raises(m)
      /\ \/ /\ TM!pin(t.source, t.agent, t.epoch) /\ UNCHANGED tierVars
            /\ transition_migration(m, "PREPARING", "COPYING")
            /\ task' = [task EXCEPT ![m].pc = "export"]
            /\ UNCHANGED <<parking, handoffLock>>
         \/ Raises(m)
  BY <1>2 DEF pin_source, Pins, Rpc, FaultsMove
<1>6. /\ EngineInv' /\ UNCHANGED <<tier_operations, shared>>
      /\ PinsOnly(t.source, t.agent)
      /\ TM!pin(t.source, t.agent, t.epoch) /\ UNCHANGED tierVars =>
            prefixes'[t.source][t.agent] = t.epoch
  <2>1. CASE TM!pin(t.source, t.agent, t.epoch) /\ UNCHANGED tierVars
    BY <1>3, <1>4, <2>1, PinningKeeps DEF tierVars
  <2>2. CASE UNCHANGED tierEngineVars
    <3>1. EngineInv' /\ UNCHANGED <<prefixes, tier_operations, shared>>
      BY <1>3, <2>2, EnginesRest
    <3>2. CASE TM!pin(t.source, t.agent, t.epoch) /\ UNCHANGED tierVars
      BY <1>3, <1>4, <3>2, PinningKeeps DEF tierVars
    <3>3. CASE ~(TM!pin(t.source, t.agent, t.epoch) /\ UNCHANGED tierVars)
      BY <3>1, <3>3 DEF PinsOnly
    <3>4. QED
      BY <3>2, <3>3
  <2>3. CASE TM!pin_fails(t.source, t.agent) /\ UNCHANGED tierVars
    <3>1. EngineInv' /\ UNCHANGED <<prefixes, tier_operations, shared>>
      BY <1>3, <1>4, <2>3, PinningKeeps DEF tierVars
    <3>2. TM!pin(t.source, t.agent, t.epoch) /\ UNCHANGED tierVars =>
             prefixes'[t.source][t.agent] = t.epoch
      BY <1>3, <1>4, <2>3, PinningKeeps DEF tierVars
    <3>3. QED
      BY <3>1, <3>2 DEF PinsOnly
  <2>4. QED
    BY <1>5, <2>1, <2>2, <2>3
<1>7. Touches(m, t.agent)
  BY <1>6 DEF Touches, PinsOnly
<1>8. CASE Raises(m)
  <2>1. Ends(m) /\ migrations'[m].state \notin {"PREPARING", "COPYING"}
    BY <1>8, ReturnEnds
  <2>2. migrations'[m].state = "ABORTED"
    BY <1>4, <2>1 DEF Ends, Moved
  <2>3. PinsFit(m)'
    BY <2>2 DEF PinsFit
  <2>4. QED
    BY <1>1, <1>2, <1>5, <1>6, <1>7, <2>1, <2>3, EndKeeps
<1>9. CASE /\ TM!pin(t.source, t.agent, t.epoch) /\ UNCHANGED tierVars
           /\ transition_migration(m, "PREPARING", "COPYING")
           /\ task' = [task EXCEPT ![m].pc = "export"]
           /\ UNCHANGED <<parking, handoffLock>>
  <2>1. Continues(m, "export", "COPYING")
    <3>1. PICK u \in Transitions : u = <<"PREPARING", "COPYING">>
      BY DEF Transitions
    <3>2. "export" \in {p[1] : p \in RunningStates}
      <4>1. <<"export", "COPYING">> \in RunningStates /\ <<"export", "COPYING">>[1] = "export"
        BY DEF RunningStates
      <4>2. QED
        BY <4>1
    <3>3. QED
      BY <1>9, <3>1, <3>2, TransitionContinues
  <2>2. PinsFit(m)'
    BY <1>4, <1>6, <1>9, <2>1 DEF PinsFit, Continues, Moved
  <2>3. OperationsFit(m)'
    BY <1>1, <1>3, <1>6, <2>1 DEF OperationsFit, Continues, Moved, TM!TierState
  <2>4. <<"export", "COPYING">> \in RunningStates
    BY DEF RunningStates
  <2>5. QED
    BY <1>1, <1>2, <1>5, <1>6, <1>7, <2>1, <2>2, <2>3, <2>4, ContinuesKeeps
<1>10. QED
  BY <1>5, <1>8, <1>9

\* The operations of a handoff once one of them is written.
LEMMA OperationsMove ==
    ASSUME HandoffInv, NEW m \in Migrations, Running(m), NEW pc, NEW state, Moved(m, pc, state)
    PROVE  LET t == task[m] IN
           /\ t.source \in Engines /\ t.destination \in Engines /\ t.source # t.destination
           /\ task'[m].pc = pc
           /\ WritesOnly(t.source, Export(m)) =>
                 \A e \in Engines : /\ tier_operations'[e][Import(m)] = tier_operations[e][Import(m)]
                                    /\ e # t.source => tier_operations'[e][Export(m)]
                                                          = tier_operations[e][Export(m)]
           /\ WritesOnly(t.destination, Import(m)) =>
                 \A e \in Engines : /\ tier_operations'[e][Export(m)] = tier_operations[e][Export(m)]
                                    /\ e # t.destination => tier_operations'[e][Import(m)]
                                                               = tier_operations[e][Import(m)]
<1>1. RunningFacts(m)
  BY RunningKnows
<1>2. QED
  BY <1>1, IdsOfHandoff DEF RunningFacts, WritesOnly, Moved

\* start of the export (tiered.py:66-74, :170-178).
LEMMA ExportStarts ==
    ASSUME HandoffInv, NEW m \in Migrations, shared_export(m), task[m].pc = "export"
    PROVE  HandoffInv'
<1>1. Running(m)
  BY DEF Running
<1>2. PICK t : t = task[m]
  OBVIOUS
<1>3. RunningFacts(m) /\ EngineInv /\ OperationsFit(m)
  BY <1>1, RunningKnows DEF HandoffInv, HandoffFits
<1>4. /\ t.agent \in Agents /\ t.source \in Engines /\ t.epoch \in Nat \ {0}
      /\ migrations[m].state = "COPYING"
      /\ \A e \in Engines : TM!TierState(e, Export(m)) = "NONE"
      /\ \A e \in Engines : TM!TierState(e, Import(m)) = "NONE"
  BY <1>2, <1>3 DEF RunningFacts, RunningStates, OperationsFit
<1>5. /\ FaultsMove
      /\ \/ TM!start_tier_operation(t.source, Export(m), "shared_export", m, t.agent, t.epoch, FALSE)
         \/ UNCHANGED tierEngineVars
         \/ TM!start_tier_full(t.source, Export(m), "shared_export", m, t.agent, t.epoch)
      /\ \/ /\ TM!start_tier_operation(t.source, Export(m), "shared_export", m, t.agent,
                                       t.epoch, FALSE)
            /\ Goto(m, "exporting")
         \/ Raises(m)
  BY <1>2 DEF shared_export, Starts, Rpc, FaultsMove, ExportReleasesGpu
<1>6. CASE TM!start_tier_operation(t.source, Export(m), "shared_export", m, t.agent,
                                   t.epoch, FALSE)
  <2>1. KindFits(Export(m), "shared_export") /\ (FALSE <=> Export(m)[2] = "offload")
    BY IdsOfHandoff DEF KindFits
  <2>2. /\ EngineInv' /\ WritesOnly(t.source, Export(m)) /\ UNCHANGED <<prefixes, shared>>
        /\ tier_operations'[t.source][Export(m)].state = "QUEUED"
        /\ tier_operations'[t.source][Export(m)].agent = t.agent
        /\ tier_operations'[t.source][Export(m)].epoch = t.epoch
        /\ tier_operations'[t.source][Export(m)].host = "none"
        /\ prefixes[t.source][t.agent] = t.epoch
    <3>1. PICK o \in OperationIds : o = Export(m)
      BY IdsOfHandoff
    <3>2. PICK releases \in BOOLEAN : releases = FALSE
      OBVIOUS
    <3>3. PICK kind : kind = "shared_export"
      OBVIOUS
    <3>4. /\ o[1] = m /\ o[2] = "export" /\ KindFits(o, kind)
          /\ TM!TierState(t.source, o) = "NONE"
      BY <1>4, <2>1, <3>1, <3>3, IdsOfHandoff
    <3>5. releases <=> o[2] = "offload"
      BY <3>2, <3>4
    <3>6. TM!start_tier_operation(t.source, o, kind, o[1], t.agent, t.epoch, releases)
      BY <1>6, <3>1, <3>2, <3>3, <3>4
    <3>7. Started(t.source, o, t.agent, t.epoch)
      BY <1>3, <1>4, <3>4, <3>5, <3>6, StartKeeps
    <3>8. QED
      BY <3>1, <3>4, <3>7 DEF Started, Reads
  <2>3. Calm(m)
    BY <1>2, <1>4, <1>5, <2>2, WritesTouch DEF Calm, PinsCalm
  <2>4. CASE Raises(m)
    BY <1>1, <2>3, <2>4, ReturnKeeps
  <2>5. CASE Goto(m, "exporting")
    <3>1. <<"exporting", migrations[m].state>> \in RunningStates
      BY <1>4 DEF RunningStates
    <3>2. "exporting" \in {p[1] : p \in RunningStates}
      <4>1. <<"exporting", migrations[m].state>>[1] = "exporting"
        OBVIOUS
      <4>2. QED
        BY <3>1, <4>1
    <3>3. Moved(m, "exporting", migrations[m].state)
      BY <2>5, <3>2, GotoContinues DEF Continues
    <3>4. \A e \in Engines :
             /\ tier_operations'[e][Import(m)] = tier_operations[e][Import(m)]
             /\ e # t.source => tier_operations'[e][Export(m)] = tier_operations[e][Export(m)]
      BY <1>1, <1>2, <2>2, <3>3, OperationsMove
    <3>5. OperationsFit(m)'
      BY <1>2, <1>4, <2>2, <3>3, <3>4 DEF OperationsFit, Moved, Awaited, TM!TierState
    <3>6. QED
      BY <1>1, <2>3, <2>5, <3>1, <3>5, GotoKeeps
  <2>6. QED
    BY <1>5, <2>4, <2>5
<1>7. CASE /\ \/ UNCHANGED tierEngineVars
              \/ TM!start_tier_full(t.source, Export(m), "shared_export", m, t.agent, t.epoch)
           /\ Raises(m)
  <2>1. EngineInv' /\ UNCHANGED <<prefixes, tier_operations, shared>>
    BY <1>3, <1>4, <1>7, EnginesRest, FullKeeps DEF tierVars
  <2>2. Calm(m)
    BY <1>5, <2>1 DEF Calm, PinsCalm, Touches
  <2>3. QED
    BY <1>1, <1>7, <2>2, ReturnKeeps
<1>8. QED
  BY <1>5, <1>6, <1>7

\* start of the import (tiered.py:66-74, :179-187).
LEMMA ImportStarts ==
    ASSUME HandoffInv, NEW m \in Migrations, shared_import(m), task[m].pc = "import"
    PROVE  HandoffInv'
<1>1. Running(m)
  BY DEF Running
<1>2. PICK t : t = task[m]
  OBVIOUS
<1>3. RunningFacts(m) /\ EngineInv /\ OperationsFit(m)
  BY <1>1, RunningKnows DEF HandoffInv, HandoffFits
<1>4. PICK epoch \in Nat \ {0} : epoch = t.epoch + 1
  BY <1>2, <1>3 DEF RunningFacts
<1>5. /\ t.agent \in Agents /\ t.destination \in Engines /\ t.source \in Engines
      /\ migrations[m].state = "COPYING"
      /\ TM!TierState(t.destination, Import(m)) = "NONE"
      /\ Completed(tier_operations[t.source][Export(m)])
      /\ shared[m] = "own"
      /\ \A e \in Engines : e # t.source => TM!TierState(e, Export(m)) = "NONE"
  BY <1>2, <1>3 DEF RunningFacts, RunningStates, OperationsFit
<1>6. /\ FaultsMove
      /\ \/ TM!start_tier_operation(t.destination, Import(m), "shared_import", m, t.agent,
                                    epoch, FALSE)
         \/ UNCHANGED tierEngineVars
         \/ TM!start_tier_full(t.destination, Import(m), "shared_import", m, t.agent, epoch)
      /\ \/ /\ TM!start_tier_operation(t.destination, Import(m), "shared_import", m, t.agent,
                                       epoch, FALSE)
            /\ Goto(m, "importing")
         \/ Goto(m, "undoExport")
  BY <1>2, <1>4 DEF shared_import, Starts, Rpc, FaultsMove
<1>7. /\ <<"importing", migrations[m].state>> \in RunningStates
      /\ <<"undoExport", migrations[m].state>> \in RunningStates
  BY <1>5 DEF RunningStates
<1>8. ASSUME Calm(m), Goto(m, "undoExport")
      PROVE  HandoffInv'
  <2>1. OperationsFit(m)'
    <3>1. task'[m].pc = "undoExport"
      BY <1>8 DEF Goto, HandoffInv, CallsTyped
    <3>2. QED
      BY <3>1 DEF OperationsFit
  <2>2. QED
    BY <1>1, <1>7, <1>8, <2>1, GotoKeeps
<1>9. CASE TM!start_tier_operation(t.destination, Import(m), "shared_import", m, t.agent,
                                   epoch, FALSE)
  <2>1. KindFits(Import(m), "shared_import") /\ (FALSE <=> Import(m)[2] = "offload")
    BY IdsOfHandoff DEF KindFits
  <2>2. /\ EngineInv' /\ WritesOnly(t.destination, Import(m)) /\ UNCHANGED <<prefixes, shared>>
        /\ tier_operations'[t.destination][Import(m)].state = "QUEUED"
        /\ tier_operations'[t.destination][Import(m)].agent = t.agent
        /\ tier_operations'[t.destination][Import(m)].epoch = epoch
        /\ ~TM!Pinned(t.destination, t.agent)
    <3>1. PICK o \in OperationIds : o = Import(m)
      BY IdsOfHandoff
    <3>2. PICK releases \in BOOLEAN : releases = FALSE
      OBVIOUS
    <3>3. PICK kind : kind = "shared_import"
      OBVIOUS
    <3>4. /\ o[1] = m /\ o[2] = "import" /\ KindFits(o, kind) /\ ~Reads(o)
          /\ TM!TierState(t.destination, o) = "NONE"
      BY <1>5, <2>1, <3>1, <3>3, IdsOfHandoff
    <3>5. releases <=> o[2] = "offload"
      BY <3>2, <3>4
    <3>6. TM!start_tier_operation(t.destination, o, kind, o[1], t.agent, epoch, releases)
      BY <1>9, <3>1, <3>2, <3>3, <3>4
    <3>7. Started(t.destination, o, t.agent, epoch)
      BY <1>3, <1>4, <1>5, <3>4, <3>5, <3>6, StartKeeps
    <3>8. QED
      BY <3>1, <3>4, <3>7 DEF Started
  <2>3. Calm(m)
    BY <1>2, <1>5, <1>6, <2>2, WritesTouch DEF Calm, PinsCalm
  <2>4. CASE Goto(m, "importing")
    <3>1. "importing" \in {p[1] : p \in RunningStates}
      <4>1. <<"importing", migrations[m].state>>[1] = "importing"
        OBVIOUS
      <4>2. QED
        BY <1>7, <4>1
    <3>2. Moved(m, "importing", migrations[m].state)
      BY <2>4, <3>1, GotoContinues DEF Continues
    <3>3. \A e \in Engines : tier_operations'[e][Export(m)] = tier_operations[e][Export(m)]
      BY <1>1, <1>2, <2>2, <3>2, OperationsMove
    <3>4. Completed(tier_operations[t.source][Export(m)])'
      BY <1>2, <1>5, <1>6, <3>3, FaultsCounted DEF Completed, HandoffInv, Goto
    <3>5. OperationsFit(m)'
      BY <1>2, <1>4, <1>5, <2>2, <3>2, <3>3, <3>4
         DEF OperationsFit, Moved, Awaited, TM!Pinned, TM!TierState
    <3>6. QED
      BY <1>1, <1>7, <2>3, <2>4, <3>5, GotoKeeps
  <2>5. QED
    BY <1>6, <1>8, <2>3, <2>4
<1>10. CASE /\ \/ UNCHANGED tierEngineVars
               \/ TM!start_tier_full(t.destination, Import(m), "shared_import", m, t.agent, epoch)
            /\ Goto(m, "undoExport")
  <2>1. EngineInv' /\ UNCHANGED <<prefixes, tier_operations, shared>>
    BY <1>3, <1>5, <1>10, EnginesRest, FullKeeps DEF tierVars
  <2>2. Calm(m)
    BY <1>6, <2>1 DEF Calm, PinsCalm, Touches
  <2>3. QED
    BY <1>8, <1>10, <2>2
<1>11. QED
  BY <1>6, <1>9, <1>10

\* What a call that waits has done to an operation, and to the engines, when its RPC was
\* answered or not and an install may have raised.
Waited(e, o) ==
    LET old == tier_operations[e][o] IN
    /\ EngineInv' /\ WritesOnly(e, o) /\ UNCHANGED shared
    /\ PinsOnly(e, old.agent)
    /\ ~Reads(o) \/ o[2] = "offload" \/ UNCHANGED prefixes

\* It keeps the engines.
LEMMA WaitKeeps ==
    ASSUME EngineInv, NEW e \in Engines, NEW o \in OperationIds, Safe(e, o),
           \/ TM!poll_tier_operation(e, o) \/ TM!tier_install_fails(e, o)
           \/ UNCHANGED tierEngineVars
    PROVE  /\ Waited(e, o)
           /\ TM!poll_tier_operation(e, o) => Polled(e, o)
<1>1. o[2] = "export" \/ o[2] = "offload" \/ ~Reads(o)
  BY IdsOf DEF Reads
<1>2. ASSUME TM!poll_tier_operation(e, o)
      PROVE  Waited(e, o) /\ Polled(e, o)
  BY <1>1, <1>2, PollKeeps DEF Waited, Polled
<1>3. CASE TM!tier_install_fails(e, o)
  BY <1>2, <1>3, InstallFailsKeeps DEF Waited, PinsOnly
<1>4. CASE UNCHANGED tierEngineVars
  <2>1. EngineInv' /\ UNCHANGED <<prefixes, tier_operations, shared>>
    BY <1>4, EnginesRest
  <2>2. QED
    BY <1>2, <2>1 DEF Waited, WritesOnly, PinsOnly
<1>5. QED
  BY <1>2, <1>3, <1>4

\* A call that writes nothing is where it was.
LEMMA StaysThere ==
    ASSUME HandoffInv, NEW m \in Migrations, UNCHANGED <<storeVars, callVars>>
    PROVE  Goto(m, task[m].pc)
<1>1. UNCHANGED <<storeVars, task, parking, handoffLock>>
  BY DEF callVars
<1>2. task = [task EXCEPT ![m].pc = task[m].pc]
  BY DEF HandoffInv, CallsTyped
<1>3. QED
  BY <1>1, <1>2 DEF Goto

\* A call that moves to a point where its operations need not be anything.
LEMMA LetsGo ==
    ASSUME HandoffInv, NEW m \in Migrations, Running(m), Calm(m),
           NEW pc \in {"importUndo", "undoExport", "releaseImported", "undoImported",
                       "undoBoth"},
           <<pc, migrations[m].state>> \in RunningStates, Goto(m, pc),
           faults' = 0 => pc \notin {"releaseImported", "undoImported", "undoBoth"}
    PROVE  HandoffInv'
<1>1. task'[m].pc = pc
  BY DEF Goto, HandoffInv, CallsTyped
<1>2. OperationsFit(m)'
  BY <1>1 DEF OperationsFit
<1>3. QED
  BY <1>2, GotoKeeps

\* The wait for the export (tiered.py:36-51, :170-178).
LEMMA ExportWaits ==
    ASSUME HandoffInv, NEW m \in Migrations, shared_export(m), task[m].pc = "exporting"
    PROVE  HandoffInv'
<1>1. Running(m)
  BY DEF Running
<1>2. PICK t : t = task[m]
  OBVIOUS
<1>3. PICK o \in OperationIds : o = Export(m)
  BY IdsOfHandoff
<1>4. RunningFacts(m) /\ EngineInv /\ OperationsFit(m)
  BY <1>1, RunningKnows DEF HandoffInv, HandoffFits
<1>5. /\ t.agent \in Agents /\ t.source \in Engines
      /\ migrations[m].state = "COPYING"
      /\ \A e \in Engines : TM!TierState(e, Import(m)) = "NONE"
      /\ \A e \in Engines : e # t.source => TM!TierState(e, Export(m)) = "NONE"
      /\ o[1] = m /\ o[2] = "export" /\ Reads(o)
  BY <1>2, <1>3, <1>4, IdsOfHandoff DEF RunningFacts, RunningStates, OperationsFit
<1>6. PICK old : old = tier_operations[t.source][o]
  OBVIOUS
<1>7. /\ Awaited(old, t.agent, t.epoch)
      /\ old.state \in {"QUEUED", "COPYING"} /\ old.host = "partial" => shared[m] # "absent"
      /\ old.state = "COPY_DONE" => shared[m] = "own"
      /\ old.state \in {"QUEUED", "COPYING", "COPY_DONE"} =>
            prefixes[t.source][t.agent] = t.epoch
  BY <1>2, <1>3, <1>4, <1>6 DEF OperationsFit
<1>8. \/ /\ TM!poll_tier_operation(t.source, o) /\ UNCHANGED faults
         /\ \/ TM!PolledTierState(t.source, o) = "COMPLETE" /\ Goto(m, "import")
            \/ TM!PolledTierState(t.source, o) = "FAILED" /\ Goto(m, "exportUndo")
            \/ /\ TM!PolledTierState(t.source, o) \notin {"COMPLETE", "FAILED"}
               /\ UNCHANGED <<storeVars, callVars>>
      \/ /\ FaultsMove
         /\ \/ TM!poll_tier_operation(t.source, o) \/ TM!tier_install_fails(t.source, o)
            \/ UNCHANGED tierEngineVars
         /\ Goto(m, "exportUndo")
  BY <1>2, <1>3 DEF shared_export, Waits, Rpc, IsComplete, FaultsMove
<1>9. Safe(t.source, o)
  BY <1>5 DEF Safe, Reads
<1>10. /\ FaultsMove
       /\ \/ TM!poll_tier_operation(t.source, o) \/ TM!tier_install_fails(t.source, o)
          \/ UNCHANGED tierEngineVars
  BY <1>8 DEF FaultsMove
<1>11. /\ Waited(t.source, o)
       /\ TM!poll_tier_operation(t.source, o) => Polled(t.source, o)
  BY <1>4, <1>5, <1>9, <1>10, WaitKeeps
<1>12. /\ EngineInv' /\ WritesOnly(t.source, Export(m)) /\ UNCHANGED <<shared, prefixes>>
  BY <1>3, <1>5, <1>11 DEF Waited
<1>13. Calm(m)
  BY <1>2, <1>5, <1>10, <1>12, WritesTouch DEF Calm, PinsCalm
<1>14. ASSUME NEW pc \in {"import", "exporting", "exportUndo"}, Goto(m, pc),
              pc = "import" => tier_operations'[t.source][o].state = "COMPLETE"
                                 /\ shared[m] = "own",
              pc = "exporting" => tier_operations'[t.source][o] = old
       PROVE  HandoffInv'
  <2>1. <<pc, migrations[m].state>> \in RunningStates
    BY <1>5 DEF RunningStates
  <2>2. pc \in {p[1] : p \in RunningStates}
    <3>1. <<pc, migrations[m].state>>[1] = pc
      OBVIOUS
    <3>2. QED
      BY <2>1, <3>1
  <2>3. Moved(m, pc, migrations[m].state)
    BY <1>14, <2>2, GotoContinues DEF Continues
  <2>4. \A e \in Engines :
           /\ tier_operations'[e][Import(m)] = tier_operations[e][Import(m)]
           /\ e # t.source => tier_operations'[e][Export(m)] = tier_operations[e][Export(m)]
    BY <1>1, <1>2, <1>12, <2>3, OperationsMove
  <2>5. OperationsFit(m)'
    <3>1. task'[m].pc = pc /\ task'[m].source = t.source /\ task'[m].agent = t.agent
          /\ task'[m].destination = t.destination /\ task'[m].epoch = t.epoch
      BY <1>2, <2>3 DEF Moved
    <3>2. \A e \in Engines : TM!TierState(e, Import(m))' = "NONE"
      BY <1>5, <2>4 DEF TM!TierState
    <3>3. \A e \in Engines : e # t.source => TM!TierState(e, Export(m))' = "NONE"
      BY <1>5, <2>4 DEF TM!TierState
    <3>4. CASE pc = "import"
      <4>1. tier_operations'[t.source][Export(m)].state = "COMPLETE" /\ shared'[m] = "own"
        BY <1>3, <1>12, <1>14, <3>4
      <4>2. Completed(tier_operations[t.source][Export(m)])'
        BY <4>1 DEF Completed
      <4>3. QED
        BY <3>1, <3>2, <3>3, <3>4, <4>1, <4>2 DEF OperationsFit
    <3>5. CASE pc = "exporting"
      <4>1. /\ tier_operations'[t.source][Export(m)] = old
            /\ shared' = shared /\ prefixes' = prefixes
        BY <1>3, <1>12, <1>14, <3>5
      <4>2. QED
        BY <1>7, <3>1, <3>2, <3>3, <3>5, <4>1 DEF OperationsFit, Awaited
    <3>6. CASE pc = "exportUndo"
      BY <3>1, <3>2, <3>6 DEF OperationsFit
    <3>7. QED
      BY <1>14, <3>4, <3>5, <3>6
  <2>6. QED
    BY <1>1, <1>13, <1>14, <2>1, <2>5, GotoKeeps
<1>15. CASE Goto(m, "exportUndo")
  BY <1>14, <1>15
<1>16. CASE /\ TM!poll_tier_operation(t.source, o)
            /\ TM!PolledTierState(t.source, o) = "COMPLETE" /\ Goto(m, "import")
  <2>1. tier_operations'[t.source][o].state = "COMPLETE"
    BY <1>11, <1>16 DEF Polled
  <2>2. old.state = "COPY_DONE"
    BY <1>6, <1>7, <1>11, <1>16, <2>1 DEF Polled, Awaited
  <2>3. QED
    BY <1>7, <1>14, <1>16, <2>1, <2>2
<1>17. CASE /\ TM!poll_tier_operation(t.source, o)
            /\ TM!PolledTierState(t.source, o) \notin {"COMPLETE", "FAILED"}
            /\ UNCHANGED <<storeVars, callVars>>
  <2>1. tier_operations'[t.source][o] = old
    BY <1>6, <1>11, <1>17 DEF Polled
  <2>2. Goto(m, "exporting")
    BY <1>17, StaysThere
  <2>3. QED
    BY <1>14, <2>1, <2>2
<1>18. QED
  BY <1>8, <1>15, <1>16, <1>17

\* The cleanup of an export that failed (tiered.py:77-79).
LEMMA ExportUndoes ==
    ASSUME HandoffInv, NEW m \in Migrations, shared_export(m), task[m].pc = "exportUndo"
    PROVE  HandoffInv'
<1>1. Running(m)
  BY DEF Running
<1>2. task[m].source \in Engines /\ Export(m) \in {Export(m), Import(m)}
  BY <1>1, RunningKnows DEF RunningFacts
<1>3. PICK drop \in BOOLEAN : drop = FALSE
  OBVIOUS
<1>4. /\ FaultsMove
      /\ \/ TM!cleanup_tier_operation(task[m].source, Export(m), drop)
         \/ UNCHANGED tierEngineVars
      /\ Raises(m)
  BY <1>3 DEF shared_export, Cleans, Rpc, FaultsMove
<1>5. Calm(m)
  BY <1>1, <1>2, <1>4, CleansCalm
<1>6. QED
  BY <1>1, <1>4, <1>5, ReturnKeeps

\* The wait for the import, and its answer (tiered.py:36-51, :179-196).
LEMMA ImportWaits ==
    ASSUME HandoffInv, NEW m \in Migrations, shared_import(m), task[m].pc = "importing"
    PROVE  HandoffInv'
<1>1. Running(m)
  BY DEF Running
<1>2. PICK t : t = task[m]
  OBVIOUS
<1>3. PICK o \in OperationIds : o = Import(m)
  BY IdsOfHandoff
<1>4. RunningFacts(m) /\ EngineInv /\ OperationsFit(m) /\ PinsFit(m)
  BY <1>1, RunningKnows DEF HandoffInv, HandoffFits
<1>5. PICK row : row = migrations[m]
  OBVIOUS
<1>6. /\ t.agent \in Agents /\ t.destination \in Engines /\ t.source \in Engines
      /\ t.source # t.destination /\ t.epoch \in Nat
      /\ row.agent = t.agent /\ row.source = t.source /\ row.destination = t.destination
      /\ row.epoch = t.epoch /\ row.state = "COPYING"
      /\ o[1] = m /\ o[2] = "import" /\ ~Reads(o)
  BY <1>2, <1>3, <1>4, <1>5, IdsOfHandoff DEF RunningFacts, RunningStates
<1>7. PICK old : old = tier_operations[t.destination][o]
  OBVIOUS
<1>8. /\ Awaited(old, t.agent, t.epoch + 1)
      /\ old.state = "COPY_DONE" => old.rows = "own"
      /\ ~TM!Pinned(t.destination, t.agent)
      /\ Completed(tier_operations[t.source][Export(m)]) /\ shared[m] = "own"
      /\ \A e \in Engines : e # t.source => TM!TierState(e, Export(m)) = "NONE"
  BY <1>2, <1>3, <1>4, <1>7 DEF OperationsFit
<1>9. /\ FaultsMove
      /\ \/ TM!poll_tier_operation(t.destination, o)
         \/ TM!tier_install_fails(t.destination, o)
         \/ UNCHANGED tierEngineVars
      /\ \/ /\ TM!poll_tier_operation(t.destination, o)
            /\ TM!PolledTierState(t.destination, o) = "COMPLETE"
            /\ transition_migration(m, "COPYING", "DEST_READY")
            /\ task' = [task EXCEPT ![m].pc = "commit"]
            /\ UNCHANGED <<parking, handoffLock>>
         \/ Goto(m, "importUndo")
         \/ /\ TM!poll_tier_operation(t.destination, o)
            /\ TM!PolledTierState(t.destination, o) \notin {"COMPLETE", "FAILED"}
            /\ UNCHANGED <<storeVars, callVars>>
  BY <1>2, <1>3 DEF shared_import, Waits, Rpc, IsComplete, FaultsMove
<1>10. Safe(t.destination, o)
  BY <1>6, <1>7, <1>8 DEF Safe, Awaited
<1>11. /\ Waited(t.destination, o)
       /\ TM!poll_tier_operation(t.destination, o) => Polled(t.destination, o)
  BY <1>4, <1>6, <1>9, <1>10, WaitKeeps
<1>12. /\ EngineInv' /\ WritesOnly(t.destination, Import(m)) /\ UNCHANGED shared
       /\ PinsOnly(t.destination, t.agent)
  <2>1. EngineInv' /\ WritesOnly(t.destination, Import(m)) /\ UNCHANGED shared
    BY <1>3, <1>11 DEF Waited
  <2>2. PinsOnly(t.destination, t.agent)
    <3>1. CASE old.state # "NONE"
      BY <1>7, <1>8, <1>11, <3>1 DEF Waited, Awaited
    <3>2. CASE old.state = "NONE"
      <4>1. UNCHANGED tierEngineVars
        BY <1>7, <1>9, <3>2
           DEF TM!poll_tier_operation, TM!TierPollAllowed, TM!tier_install_fails, TM!TierState
      <4>2. QED
        BY <1>4, <4>1, EnginesRest DEF PinsOnly
    <3>3. QED
      BY <3>1, <3>2
  <2>3. QED
    BY <2>1, <2>2
<1>13. Calm(m)
  BY <1>2, <1>5, <1>6, <1>9, <1>12, WritesTouch DEF Calm, PinsCalm
<1>14. CASE Goto(m, "importUndo")
  <2>1. <<"importUndo", migrations[m].state>> \in RunningStates
    BY <1>5, <1>6 DEF RunningStates
  <2>2. QED
    BY <1>1, <1>13, <1>14, <2>1, LetsGo
<1>15. CASE /\ TM!poll_tier_operation(t.destination, o)
            /\ TM!PolledTierState(t.destination, o) = "COMPLETE"
            /\ transition_migration(m, "COPYING", "DEST_READY")
            /\ task' = [task EXCEPT ![m].pc = "commit"]
            /\ UNCHANGED <<parking, handoffLock>>
  <2>1. <<"commit", "DEST_READY">> \in RunningStates
    BY DEF RunningStates
  <2>2. Continues(m, "commit", "DEST_READY")
    <3>1. PICK u \in Transitions : u = <<"COPYING", "DEST_READY">>
      BY DEF Transitions
    <3>2. "commit" \in {p[1] : p \in RunningStates}
      <4>1. <<"commit", "DEST_READY">>[1] = "commit"
        OBVIOUS
      <4>2. QED
        BY <2>1, <4>1
    <3>3. QED
      BY <1>15, <3>1, <3>2, TransitionContinues
  <2>3. /\ tier_operations'[t.destination][o].state = "COMPLETE"
        /\ old.state = "COPY_DONE"
    BY <1>7, <1>8, <1>11, <1>15
       DEF Polled, Awaited, TM!poll_tier_operation, TM!TierPollAllowed, TM!TierState
  <2>4. prefixes'[t.destination][t.agent] = t.epoch + 1
    BY <1>6, <1>7, <1>8, <1>11, <1>15, <2>3 DEF Polled, Awaited
  <2>5. faults' = 0 => prefixes'[t.source][t.agent] = t.epoch
    BY <1>4, <1>5, <1>6, <1>9, <1>12, FaultsCounted DEF PinsFit, PinsOnly, HandoffInv
  <2>6. PinsFit(m)'
    BY <1>5, <1>6, <2>2, <2>4, <2>5 DEF PinsFit, Continues, Moved
  <2>7. \A e \in Engines : tier_operations'[e][Export(m)] = tier_operations[e][Export(m)]
    BY <1>1, <1>2, <1>12, <2>2, OperationsMove DEF Continues
  <2>8. OperationsFit(m)'
    <3>1. Completed(tier_operations[t.source][Export(m)])'
      <4>1. faults # 0 => faults' # 0
        BY <1>9, FaultsCounted DEF HandoffInv
      <4>2. tier_operations'[t.source][Export(m)] = tier_operations[t.source][Export(m)]
        BY <1>6, <2>7
      <4>3. QED
        BY <1>8, <4>1, <4>2 DEF Completed
    <3>2. Completed(tier_operations[t.destination][Import(m)])'
      BY <1>3, <2>3 DEF Completed
    <3>3. task'[m].pc = "commit"
      BY <2>2 DEF Continues, Moved
    <3>4. QED
      BY <1>2, <2>2, <3>1, <3>2, <3>3 DEF OperationsFit, Continues, Moved
  <2>9. Touches(m, task[m].agent)
    BY <1>13 DEF Calm
  <2>10. QED
    BY <1>1, <1>9, <1>12, <2>1, <2>2, <2>6, <2>8, <2>9, ContinuesKeeps
<1>16. CASE /\ TM!poll_tier_operation(t.destination, o)
            /\ TM!PolledTierState(t.destination, o) \notin {"COMPLETE", "FAILED"}
            /\ UNCHANGED <<storeVars, callVars>>
  <2>1. tier_operations'[t.destination][o] = old /\ UNCHANGED prefixes
    BY <1>7, <1>11, <1>16 DEF Polled
  <2>2. Goto(m, "importing")
    BY <1>16, StaysThere
  <2>3. <<"importing", migrations[m].state>> \in RunningStates
    BY <1>5, <1>6 DEF RunningStates
  <2>4. Moved(m, "importing", migrations[m].state)
    <3>1. "importing" \in {p[1] : p \in RunningStates}
      <4>1. <<"importing", migrations[m].state>>[1] = "importing"
        OBVIOUS
      <4>2. QED
        BY <2>3, <4>1
    <3>2. QED
      BY <2>2, <3>1, GotoContinues DEF Continues
  <2>5. \A e \in Engines : tier_operations'[e][Export(m)] = tier_operations[e][Export(m)]
    BY <1>1, <1>2, <1>12, <2>4, OperationsMove
  <2>6. OperationsFit(m)'
    <3>1. Completed(tier_operations[t.source][Export(m)])'
      BY <1>6, <1>8, <1>9, <2>5, FaultsCounted DEF Completed, HandoffInv
    <3>2. QED
      BY <1>2, <1>3, <1>6, <1>7, <1>8, <1>12, <2>1, <2>4, <2>5, <3>1
         DEF OperationsFit, Moved, Awaited, TM!Pinned, TM!TierState
  <2>7. QED
    BY <1>1, <1>13, <2>2, <2>3, <2>6, GotoKeeps
<1>17. QED
  BY <1>9, <1>14, <1>15, <1>16

\* The cleanup of an import that failed (tiered.py:77-79).
LEMMA ImportUndoes ==
    ASSUME HandoffInv, NEW m \in Migrations, shared_import(m), task[m].pc = "importUndo"
    PROVE  HandoffInv'
<1>1. Running(m)
  BY DEF Running
<1>2. RunningFacts(m)
  BY <1>1, RunningKnows
<1>3. /\ task[m].destination \in Engines /\ Import(m) \in {Export(m), Import(m)}
      /\ <<"undoExport", migrations[m].state>> \in RunningStates
  BY <1>2 DEF RunningFacts, RunningStates
<1>4. PICK drop \in BOOLEAN : drop = FALSE
  OBVIOUS
<1>5. /\ FaultsMove
      /\ \/ TM!cleanup_tier_operation(task[m].destination, Import(m), drop)
         \/ UNCHANGED tierEngineVars
      /\ Goto(m, "undoExport")
  BY <1>4 DEF shared_import, Cleans, Rpc, FaultsMove
<1>6. Calm(m)
  BY <1>1, <1>3, <1>5, CleansCalm
<1>7. QED
  BY <1>1, <1>3, <1>5, <1>6, LetsGo

\* commit (tiered.py:197).
LEMMA CommitKeeps ==
    ASSUME HandoffInv, NEW m \in Migrations, commit(m)
    PROVE  HandoffInv'
<1>1. Running(m) /\ task[m].pc = "commit"
  BY DEF commit, Running
<1>2. RunningFacts(m) /\ EngineInv /\ OperationsFit(m)
  BY <1>1, RunningKnows DEF HandoffInv, HandoffFits
<1>3. migrations[m].state = "DEST_READY"
  BY <1>1, <1>2 DEF RunningFacts, RunningStates
<1>4. <<"cleanExport", "COMMITTED">> \in RunningStates
  BY DEF RunningStates
<1>5. Continues(m, "cleanExport", "COMMITTED")
  <2>1. "cleanExport" \in {p[1] : p \in RunningStates}
    <3>1. <<"cleanExport", "COMMITTED">>[1] = "cleanExport"
      OBVIOUS
    <3>2. QED
      BY <1>4, <3>1
  <2>2. CoordinatorCall(m)
    BY DEF commit, CoordinatorCall
  <2>3. migrations'[m] = [migrations[m] EXCEPT !.state = "COMMITTED"]
    <3>1. migrations' = [migrations EXCEPT ![m].state = "COMMITTED"]
      BY DEF commit, commit_migration
    <3>2. migrations \in [Migrations -> MigrationRows]
      BY DEF HandoffInv, CoordinatedInv, StoreInv, StoreTypeOK
    <3>3. QED
      BY <3>1, <3>2
  <2>4. Moved(m, "cleanExport", "COMMITTED")
    BY <2>1, <2>2, <2>3, MovesFields DEF commit
  <2>5. QED
    BY <2>4 DEF commit, Continues
<1>6. /\ EngineInv' /\ UNCHANGED <<prefixes, tier_operations, shared>>
  BY <1>2, EnginesRest DEF commit
<1>7. FaultsMove /\ Touches(m, task[m].agent) /\ PinsCalm(m)
  BY <1>6 DEF commit, FaultsMove, Touches, PinsCalm
<1>8. PinsFit(m)'
  BY <1>1, <1>3, <1>5, <1>7, PinsStay DEF Continues
<1>9. OperationsFit(m)'
  BY <1>1, <1>2, <1>5, <1>6 DEF OperationsFit, Completed, Continues, Moved, commit
<1>10. QED
  BY <1>1, <1>4, <1>5, <1>6, <1>7, <1>8, <1>9, ContinuesKeeps

\* The cleanups after the commit (tiered.py:198-201).
LEMMA CleanUpKeeps ==
    ASSUME HandoffInv, NEW m \in Migrations, clean_up(m)
    PROVE  HandoffInv'
<1>1. Running(m)
  BY DEF clean_up, Running
<1>2. PICK t : t = task[m]
  OBVIOUS
<1>3. RunningFacts(m) /\ EngineInv /\ OperationsFit(m) /\ CallsTyped
  BY <1>1, RunningKnows DEF HandoffInv, HandoffFits
<1>4. /\ t.source \in Engines /\ t.destination \in Engines
      /\ Export(m) \in {Export(m), Import(m)} /\ Import(m) \in {Export(m), Import(m)}
      /\ <<t.pc, migrations[m].state>> \in RunningStates
  BY <1>2, <1>3 DEF RunningFacts
<1>5. PICK drop \in BOOLEAN : drop <=> t.pc = "cleanImport"
  OBVIOUS
<1>6. CASE t.pc = "cleanExport"
  <2>1. migrations[m].state \in {"COMMITTED", "SOURCE_RELEASED"}
    BY <1>4, <1>6 DEF RunningStates
  <2>2. drop = FALSE
    BY <1>5, <1>6
  <2>3. faults # 0 \/ TM!TierCleanupAllowed(t.source, Export(m))
    BY <1>2, <1>3, <1>6
       DEF OperationsFit, Completed, TM!TierCleanupAllowed, TM!TierState, TM!TerminalStates
  <2>4. /\ FaultsMove
        /\ \/ TM!cleanup_tier_operation(t.source, Export(m), drop)
           \/ UNCHANGED tierEngineVars
        /\ \/ Goto(m, "cleanImport")
           \/ Goto(m, "releaseImported") /\ (faults # 0 \/ faults' = faults + 1)
    BY <1>2, <1>6, <2>2, <2>3 DEF clean_up, Cleans, Rpc, FaultsMove
  <2>5. Calm(m) /\ WritesOnly(t.source, Export(m))
    BY <1>1, <1>4, <2>4, CleansCalm
  <2>6. CASE Goto(m, "cleanImport")
    <3>1. <<"cleanImport", migrations[m].state>> \in RunningStates
      BY <2>1 DEF RunningStates
    <3>2. Moved(m, "cleanImport", migrations[m].state)
      <4>1. "cleanImport" \in {p[1] : p \in RunningStates}
        <5>1. <<"cleanImport", migrations[m].state>>[1] = "cleanImport"
          OBVIOUS
        <5>2. QED
          BY <3>1, <5>1
      <4>2. QED
        BY <2>6, <4>1, GotoContinues DEF Continues
    <3>3. \A e \in Engines : tier_operations'[e][Import(m)] = tier_operations[e][Import(m)]
      BY <1>1, <1>2, <2>5, <3>2, OperationsMove
    <3>4. Completed(tier_operations[t.destination][Import(m)])'
      BY <1>2, <1>3, <1>4, <1>6, <2>4, <3>2, <3>3, FaultsCounted
         DEF OperationsFit, Completed, Moved
    <3>5. OperationsFit(m)'
      BY <1>2, <1>6, <3>2, <3>4 DEF OperationsFit, Moved
    <3>6. QED
      BY <1>1, <2>5, <2>6, <3>1, <3>5, GotoKeeps
  <2>7. CASE Goto(m, "releaseImported") /\ (faults # 0 \/ faults' = faults + 1)
    <3>1. <<"releaseImported", migrations[m].state>> \in RunningStates
      BY <2>1 DEF RunningStates
    <3>2. faults' # 0
      BY <1>3, <2>4, <2>7, FaultsCounted
    <3>3. QED
      BY <1>1, <2>5, <2>7, <3>1, <3>2, LetsGo
  <2>8. QED
    BY <2>4, <2>6, <2>7
<1>7. CASE t.pc = "cleanImport"
  <2>1. <<"releaseImported", migrations[m].state>> \in RunningStates
    BY <1>4, <1>7 DEF RunningStates
  <2>2. drop = TRUE
    BY <1>5, <1>7
  <2>3. faults # 0 \/ TM!TierCleanupAllowed(t.destination, Import(m))
    BY <1>2, <1>3, <1>7
       DEF OperationsFit, Completed, TM!TierCleanupAllowed, TM!TierState, TM!TerminalStates
  <2>4. /\ FaultsMove
        /\ \/ TM!cleanup_tier_operation(t.destination, Import(m), drop)
           \/ UNCHANGED tierEngineVars
        /\ \/ Returns(m, "done") /\ UNCHANGED storeVars
           \/ Goto(m, "releaseImported") /\ (faults # 0 \/ faults' = faults + 1)
    BY <1>2, <1>7, <2>2, <2>3 DEF clean_up, Cleans, Rpc, FaultsMove
  <2>5. Calm(m)
    BY <1>1, <1>4, <2>4, CleansCalm
  <2>6. CASE Returns(m, "done") /\ UNCHANGED storeVars
    BY <1>1, <2>5, <2>6, ReturnKeeps
  <2>7. CASE Goto(m, "releaseImported") /\ (faults # 0 \/ faults' = faults + 1)
    <3>1. faults' # 0
      BY <1>3, <2>4, <2>7, FaultsCounted
    <3>2. QED
      BY <1>1, <2>1, <2>5, <2>7, <3>1, LetsGo
  <2>8. QED
    BY <2>4, <2>6, <2>7
<1>8. QED
  BY <1>2, <1>6, <1>7 DEF clean_up

\* The except clause (tiered.py:217-243).
LEMMA UndoKeeps ==
    ASSUME HandoffInv, NEW m \in Migrations, undo(m)
    PROVE  HandoffInv'
<1>1. Running(m)
  BY DEF undo, Running
<1>2. PICK t : t = task[m]
  OBVIOUS
<1>3. RunningFacts(m) /\ EngineInv /\ CallFits(m) /\ CallsTyped
  BY <1>1, RunningKnows DEF HandoffInv, HandoffFits
<1>4. /\ t.source \in Engines /\ t.destination \in Engines /\ t.agent \in Agents
      /\ t.epoch \in Nat
      /\ Export(m) \in {Export(m), Import(m)} /\ Import(m) \in {Export(m), Import(m)}
      /\ <<t.pc, migrations[m].state>> \in RunningStates
      /\ t.pc \in {"releaseImported", "undoImported", "undoBoth"} => faults # 0
  BY <1>2, <1>3 DEF RunningFacts, CallFits
<1>5. ASSUME NEW pc \in {"undoImported", "undoBoth"}, Calm(m), Goto(m, pc),
             t.pc \in {"releaseImported", "undoImported", "undoBoth"}
      PROVE  HandoffInv'
  <2>1. <<pc, migrations[m].state>> \in RunningStates
    BY <1>4, <1>5 DEF RunningStates
  <2>2. faults' # 0
    BY <1>3, <1>4, <1>5, FaultsCounted DEF Calm
  <2>3. QED
    BY <1>1, <1>5, <2>1, <2>2, LetsGo
<1>6. CASE t.pc = "releaseImported"
  <2>1. PICK epoch \in Nat : epoch = t.epoch + 1
    BY <1>4
  <2>2. PICK evicts \in BOOLEAN : evicts = TRUE
    OBVIOUS
  <2>3. /\ FaultsMove
        /\ \/ TM!release(t.destination, t.agent, epoch, evicts, evicts) /\ UNCHANGED tierVars
           \/ UNCHANGED tierEngineVars
        /\ Goto(m, "undoImported") \/ Escapes(m)
    BY <1>2, <1>6, <2>1, <2>2 DEF undo, Rpc, FaultsMove
  <2>4. /\ EngineInv' /\ UNCHANGED <<tier_operations, shared>>
        /\ PinsOnly(t.destination, t.agent)
    <3>1. CASE TM!release(t.destination, t.agent, epoch, evicts, evicts) /\ UNCHANGED tierVars
      BY <1>3, <1>4, <3>1, PinningKeeps DEF tierVars
    <3>2. CASE UNCHANGED tierEngineVars
      BY <1>3, <3>2, EnginesRest DEF PinsOnly
    <3>3. QED
      BY <2>3, <3>1, <3>2
  <2>5. Calm(m)
    BY <1>2, <1>4, <1>6, <2>3, <2>4, WritesTouch DEF Calm, PinsCalm
  <2>6. QED
    BY <1>1, <1>5, <1>6, <2>3, <2>5, ReturnKeeps
<1>7. CASE t.pc = "undoImported"
  <2>1. PICK drop \in BOOLEAN : drop = TRUE
    OBVIOUS
  <2>2. /\ FaultsMove
        /\ \/ TM!cleanup_tier_operation(t.destination, Import(m), drop)
           \/ UNCHANGED tierEngineVars
        /\ Goto(m, "undoBoth") \/ Escapes(m)
    BY <1>2, <1>7, <2>1 DEF undo, Cleans, Rpc, FaultsMove
  <2>3. Calm(m)
    BY <1>1, <1>4, <2>2, CleansCalm
  <2>4. QED
    BY <1>1, <1>5, <1>7, <2>2, <2>3, ReturnKeeps
<1>8. CASE t.pc \in {"undoBoth", "undoExport"}
  <2>1. PICK drop \in BOOLEAN : drop <=> t.pc = "undoExport"
    OBVIOUS
  <2>2. /\ FaultsMove
        /\ \/ TM!cleanup_tier_operation(t.source, Export(m), drop)
           \/ UNCHANGED tierEngineVars
        /\ Raises(m) \/ Escapes(m)
    <3>1. CASE t.pc = "undoBoth"
      <4>1. drop = FALSE
        BY <2>1, <3>1
      <4>2. QED
        BY <1>2, <3>1, <4>1 DEF undo, Cleans, Rpc, FaultsMove
    <3>2. CASE t.pc = "undoExport"
      <4>1. drop = TRUE
        BY <2>1, <3>2
      <4>2. QED
        BY <1>2, <3>2, <4>1 DEF undo, Cleans, Rpc, FaultsMove
    <3>3. QED
      BY <1>8, <3>1, <3>2
  <2>3. Calm(m)
    BY <1>1, <1>4, <2>2, CleansCalm
  <2>4. QED
    BY <1>1, <2>2, <2>3, ReturnKeeps
<1>9. QED
  BY <1>2, <1>6, <1>7, <1>8 DEF undo

\* A call that arrives (tiered.py:123-127).
LEMMA HandoffArrives ==
    ASSUME HandoffInv, NEW m \in Migrations, NEW a \in Agents \ Parked, NEW e \in Engines,
           handoff(m, a, e)
    PROVE  HandoffInv'
<1>1. /\ EngineInv /\ CallsTyped /\ HandoffFits(m) /\ migrations[m].state = "NONE"
      /\ task[m].pc = "idle" /\ UNCHANGED <<storeVars, parking, handoffLock, faults>>
      /\ UNCHANGED tierEngineVars
  BY DEF HandoffInv, HandoffFits, CallFits, handoff
<1>2. EngineInv' /\ UNCHANGED <<prefixes, tier_operations, shared>>
  BY <1>1, EnginesRest
<1>3. /\ task'[m] = [pc |-> "lock", agent |-> a, source |-> None, destination |-> e,
                     epoch |-> 0]
      /\ \A n \in Migrations : n # m => task'[n] = task[n]
      /\ CallsTyped'
  BY <1>1 DEF handoff, IdleHandoff, CallsTyped
<1>4. HandoffFits(m)'
  BY <1>1, <1>2, <1>3
     DEF HandoffFits, RowFits, CallFits, OperationsFit, PinsFit, Running, storeVars, TM!TierState
<1>5. CoordinatorCall(m) /\ Touches(m, None)
  BY <1>1, <1>2 DEF CoordinatorCall, Touches
<1>6. None \notin Parked /\ \A b \in Agents : b # None
  BY StoreAssumption, HandoffAssumption
<1>7. \A n \in Migrations : LiveMigration(n) => migrations[n].agent # None
  BY <1>6 DEF HandoffInv, HandoffFits, RowFits, LiveMigration, LiveStates, MigrationState
<1>8. LiveMigration(m)' = LiveMigration(m) /\ migrations' = migrations
  BY <1>1 DEF LiveMigration, MigrationState, storeVars
<1>9. QED
  BY <1>1, <1>2, <1>3, <1>4, <1>5, <1>6, <1>7, <1>8, HandoffKeeps

\* What a call does that has the lock (tiered.py:129-155).
LEMMA SerialKeeps ==
    ASSUME HandoffInv, NEW m \in Migrations, handoff_serial(m)
    PROVE  HandoffInv'
<1>1. PICK t : t = task[m]
  OBVIOUS
<1>2. PICK a \in Agents \ Parked : a = t.agent
  BY <1>1 DEF HandoffInv, HandoffFits, CallFits, handoff_serial
<1>3. /\ EngineInv /\ CallsTyped /\ HandoffFits(m) /\ CoordinatedInv
      /\ migrations[m].state = "NONE" /\ handoffLock = None /\ t.pc = "lock"
      /\ t.destination \in Engines
      /\ agents[a].owner \in Engines /\ agents[a].epoch \in Nat \ {0}
      /\ UNCHANGED tierEngineVars /\ UNCHANGED faults
  BY <1>1, <1>2, AgentsFit DEF HandoffInv, HandoffFits, CallFits, handoff_serial
<1>4. EngineInv' /\ UNCHANGED <<prefixes, tier_operations, shared>>
  BY <1>3, EnginesRest
<1>5. /\ Touches(m, None) /\ None \notin Parked /\ None \notin Migrations
      /\ \A b \in Agents : b # None
  BY <1>4, StoreAssumption, HandoffAssumption DEF Touches
<1>6. /\ \A n \in Migrations : LiveMigration(n) => migrations[n].agent # None
      /\ \A n \in Migrations : ~Running(n)
  <2>1. \A n \in Migrations : LiveMigration(n) => migrations[n].agent # None
    BY <1>5 DEF HandoffInv, HandoffFits, RowFits, LiveMigration, LiveStates, MigrationState
  <2>2. \A n \in Migrations : Running(n) => handoffLock = n
    BY DEF HandoffInv, HandoffFits, CallFits
  <2>3. QED
    BY <1>3, <1>5, <2>1, <2>2
<1>7. CASE Escapes(m)
  <2>1. /\ task'[m] = [t EXCEPT !.pc = "failed"]
        /\ \A n \in Migrations : n # m => task'[n] = task[n]
        /\ CallsTyped' /\ UNCHANGED <<parking, handoffLock>> /\ UNCHANGED storeVars
    BY <1>1, <1>3, <1>7 DEF Escapes, Returns, CallsTyped
  <2>2. HandoffFits(m)'
    BY <1>1, <1>3, <1>4, <2>1
       DEF HandoffFits, RowFits, CallFits, OperationsFit, PinsFit, Running, storeVars,
           CallsTyped
  <2>3. CoordinatorCall(m)
    BY <2>1 DEF CoordinatorCall
  <2>4. QED
    BY <1>3, <1>4, <1>5, <1>6, <2>1, <2>2, <2>3, HandoffKeeps
<1>8. PICK row : row = [agent |-> a, source |-> agents[a].owner, destination |-> t.destination,
                        epoch |-> agents[a].epoch, state |-> "PREPARING"]
  OBVIOUS
<1>9. CASE /\ row.source # row.destination /\ ~HasLiveMigration(a)
           /\ migrations' = [migrations EXCEPT ![m] = row]
           /\ handoffLock' = m
           /\ task' = [task EXCEPT ![m] = [@ EXCEPT !.pc = "pin", !.source = row.source,
                                                    !.epoch = row.epoch]]
           /\ UNCHANGED <<agents, claims, starting, parking>>
  <2>1. row \in MigrationRows
    BY <1>3, <1>8 DEF MigrationRows, LiveStates
  <2>2. CoordinatorCall(m)
    <3>1. Registered(a) /\ MigrationState(m) = "NONE"
      BY <1>3 DEF CoordinatedInv, MigrationState
    <3>2. InsertsRow(m, row)
      BY <1>3, <1>8, <1>9, <2>1, <3>1 DEF InsertsRow
    <3>3. QED
      BY <2>1, <3>2 DEF CoordinatorCall
  <2>3. migrations'[m] = row /\ \A n \in Migrations : n # m => migrations'[n] = migrations[n]
    BY <1>3, <1>9 DEF CoordinatedInv, StoreInv, StoreTypeOK
  <2>4. /\ task'[m] = [pc |-> "pin", agent |-> a, source |-> row.source,
                       destination |-> t.destination, epoch |-> row.epoch]
        /\ \A n \in Migrations : n # m => task'[n] = task[n]
    BY <1>1, <1>2, <1>3, <1>9 DEF CallsTyped
  <2>5. "pin" \in {p[1] : p \in RunningStates} /\ <<"pin", "PREPARING">> \in RunningStates
    <3>1. <<"pin", "PREPARING">> \in RunningStates /\ <<"pin", "PREPARING">>[1] = "pin"
      BY DEF RunningStates
    <3>2. QED
      BY <3>1
  <2>6. CallsTyped'
    <3>1. task'[m] \in [pc : {"idle", "lock", "done", "failed"} \cup {p[1] : p \in RunningStates},
           agent : Agents \cup {None}, source : Engines \cup {None},
           destination : Engines \cup {None}, epoch : Nat]
      BY <1>3, <1>8, <2>4, <2>5
    <3>2. PICK r : r = task'[m]
      OBVIOUS
    <3>3. task' = [task EXCEPT ![m] = r]
      BY <1>3, <1>9, <2>4, <3>2 DEF CallsTyped
    <3>4. QED
      BY <1>3, <1>9, <3>1, <3>2, <3>3 DEF CallsTyped
  <2>7. RowFits(m)' /\ PinsFit(m)'
    BY <1>3, <1>8, <1>9, <2>3 DEF RowFits, PinsFit
  <2>8. CallFits(m)'
    <3>1. \A n \in Migrations : n # m /\ LiveMigration(n)' => migrations'[n].agent # row.agent
      BY <1>8, <1>9, <2>3 DEF HasLiveMigration, LiveMigration, MigrationState
    <3>2. /\ task'[m].pc = "pin" /\ task'[m].agent = row.agent
          /\ task'[m].source = row.source /\ task'[m].destination = row.destination
          /\ task'[m].epoch = row.epoch /\ row.state = "PREPARING"
      BY <1>8, <2>4
    <3>3. <<task'[m].pc, migrations'[m].state>> \in RunningStates
      BY <2>3, <2>5, <3>2
    <3>4. QED
      BY <1>9, <2>3, <3>1, <3>2, <3>3 DEF CallFits
  <2>9. OperationsFit(m)'
    BY <1>1, <1>3, <1>4, <2>4 DEF HandoffFits, OperationsFit, TM!TierState
  <2>10. QED
    BY <1>3, <1>4, <1>5, <1>6, <1>9, <2>2, <2>4, <2>6, <2>7, <2>8, <2>9, HandoffKeeps
       DEF HandoffFits
<1>10. QED
  BY <1>1, <1>2, <1>7, <1>8, <1>9 DEF handoff_serial

\* acknowledge_destination (tiered.py:245-260).
LEMMA AcknowledgementKeeps ==
    ASSUME HandoffInv, NEW m \in Migrations, acknowledge_destination(m)
    PROVE  HandoffInv'
<1>1. PICK row : row = migrations[m]
  OBVIOUS
<1>2. /\ EngineInv /\ CallsTyped /\ HandoffFits(m) /\ row.state = "COMMITTED"
      /\ StoreTypeOK /\ OneLiveMigration /\ LiveMigration(m) /\ row \in MigrationRows
      /\ row.agent \in Agents \ Parked /\ row.source \in Engines /\ row.epoch \in Nat
      /\ row.destination \in Engines /\ row.source # row.destination
  BY <1>1 DEF HandoffInv, HandoffFits, RowFits, acknowledge_destination, CoordinatedInv,
     StoreInv, StoreTypeOK, RowsWellFormed, LiveMigration, LiveStates, MigrationState,
     MigrationRows
<1>3. PICK evicts \in BOOLEAN : evicts = TRUE
  OBVIOUS
<1>4. /\ FaultsMove /\ UNCHANGED callVars
      /\ \/ /\ TM!release(row.source, row.agent, row.epoch, evicts, evicts)
            /\ UNCHANGED tierVars
         \/ UNCHANGED tierEngineVars
      /\ \/ transition_migration(m, "COMMITTED", "SOURCE_RELEASED")
         \/ /\ UNCHANGED storeVars
            /\ UNCHANGED tierEngineVars \/ faults' = faults + 1
  BY <1>1, <1>3 DEF acknowledge_destination, Rpc, FaultsMove
<1>5. /\ EngineInv' /\ UNCHANGED <<tier_operations, shared>>
      /\ PinsOnly(row.source, row.agent)
      /\ UNCHANGED tierEngineVars => UNCHANGED prefixes
  <2>1. CASE TM!release(row.source, row.agent, row.epoch, evicts, evicts) /\ UNCHANGED tierVars
    BY <1>2, <2>1, PinningKeeps DEF tierVars, tierEngineVars
  <2>2. CASE UNCHANGED tierEngineVars
    BY <1>2, <2>2, EnginesRest DEF PinsOnly
  <2>3. QED
    BY <1>4, <2>1, <2>2
<1>6. Touches(m, row.agent)
  BY <1>2, <1>5 DEF Touches, PinsOnly
<1>7. PICK state \in {"COMMITTED", "SOURCE_RELEASED"} :
         /\ migrations'[m] = [row EXCEPT !.state = state]
         /\ \A n \in Migrations : n # m => migrations'[n] = migrations[n]
         /\ state = "COMMITTED" => UNCHANGED tierEngineVars \/ faults' = faults + 1
  <2>1. CASE transition_migration(m, "COMMITTED", "SOURCE_RELEASED")
    BY <1>1, <1>2, <2>1 DEF transition_migration, StoreTypeOK
  <2>2. CASE /\ UNCHANGED storeVars
             /\ UNCHANGED tierEngineVars \/ faults' = faults + 1
    BY <1>1, <1>2, <2>2 DEF storeVars, MigrationRows
  <2>3. QED
    BY <1>4, <2>1, <2>2
<1>8. CoordinatorCall(m)
  <2>1. CASE transition_migration(m, "COMMITTED", "SOURCE_RELEASED")
    <3>1. PICK u \in Transitions : u = <<"COMMITTED", "SOURCE_RELEASED">>
      BY DEF Transitions
    <3>2. transition_migration(m, u[1], u[2])
      BY <2>1, <3>1
    <3>3. QED
      BY <3>2 DEF CoordinatorCall
  <2>2. QED
    BY <1>4, <2>1 DEF CoordinatorCall
<1>9. /\ UNCHANGED <<task, parking, handoffLock>>
      /\ faults' \in 0..MaxFaults /\ (faults' = 0 => faults = 0)
      /\ faults' = faults + 1 => faults' # 0
  BY <1>2, <1>4, FaultsCounted DEF callVars
<1>10. HandoffFits(m)'
  <2>1. RowFits(m)'
    BY <1>1, <1>2, <1>7 DEF HandoffFits, RowFits, MigrationRows
  <2>2. CallFits(m)'
    <3>1. CASE Running(m)
      <4>1. RunningFacts(m) /\ CallFits(m)
        BY <1>2, <3>1, RunningKnows DEF HandoffFits
      <4>2. <<task[m].pc, state>> \in RunningStates
        BY <1>1, <1>2, <1>7, <4>1 DEF RunningFacts, RunningStates
      <4>3. \A n \in Migrations : n # m /\ LiveMigration(n)' =>
               migrations'[n].agent # migrations'[m].agent
        BY <1>1, <1>2, <1>7, <3>1, <4>1 DEF CallFits, LiveMigration, MigrationState, MigrationRows
      <4>4. QED
        BY <1>1, <1>2, <1>7, <1>9, <3>1, <4>1, <4>2, <4>3
           DEF CallFits, Running, MigrationRows
    <3>2. CASE ~Running(m)
      BY <1>1, <1>2, <1>7, <1>9, <3>2 DEF HandoffFits, CallFits, Running
    <3>3. QED
      BY <3>1, <3>2
  <2>3. OperationsFit(m)'
    <3>1. task[m].pc \notin {"exporting", "importing"}
      <4>1. CASE Running(m)
        BY <1>1, <1>2, <4>1, RunningKnows DEF RunningFacts, RunningStates
      <4>2. QED
        BY <4>1 DEF Running
    <3>2. QED
      BY <1>2, <1>5, <1>9, <3>1 DEF HandoffFits, OperationsFit, Completed, TM!TierState
  <2>4. PinsFit(m)'
    <3>1. CASE state = "COMMITTED" /\ UNCHANGED tierEngineVars
      BY <1>1, <1>2, <1>5, <1>7, <1>9, <3>1 DEF HandoffFits, PinsFit, MigrationRows
    <3>2. CASE state = "COMMITTED" /\ faults' = faults + 1
      BY <1>2, <1>7, <1>9, <3>2 DEF PinsFit, MigrationRows
    <3>3. CASE state = "SOURCE_RELEASED"
      BY <1>2, <1>7, <3>3 DEF PinsFit, MigrationRows
    <3>4. QED
      BY <1>7, <3>1, <3>2, <3>3
  <2>5. QED
    BY <2>1, <2>2, <2>3, <2>4 DEF HandoffFits
<1>11. CallsTyped'
  BY <1>2, <1>9 DEF CallsTyped
<1>12. /\ migrations'[m].agent = migrations[m].agent
       /\ \A n \in Migrations : n # m /\ LiveMigration(n) => migrations[n].agent # row.agent
  BY <1>1, <1>2, <1>7 DEF OneLiveMigration, MigrationRows
<1>13. QED
  BY <1>2, <1>5, <1>6, <1>8, <1>9, <1>10, <1>11, <1>12, HandoffKeeps

\* The steps of a call keep what is known.
LEMMA HandoffStepKeeps ==
    ASSUME HandoffInv, NEW m \in Migrations, HandoffStep(m)
    PROVE  HandoffInv'
<1>1. CASE shared_export(m)
  BY <1>1, ExportStarts, ExportWaits, ExportUndoes DEF shared_export
<1>2. CASE shared_import(m)
  BY <1>2, ImportStarts, ImportWaits, ImportUndoes DEF shared_import
<1>3. QED
  BY <1>1, <1>2, SerialKeeps, PinSourceKeeps, CommitKeeps, CleanUpKeeps, UndoKeeps
     DEF HandoffStep

-----------------------------------------------------------------------------
(* Steps of the parked agents. *)

\* What is known of a parked agent, and of the ids of its operations.
LEMMA ParkKnows ==
    ASSUME HandoffInv, NEW a \in Parked
    PROVE  /\ EngineInv /\ ParkFits(a) /\ a \in Agents
           /\ agents[a].owner \in Engines /\ agents[a].epoch \in Nat \ {0}
           /\ <<a, "offload">> \in OperationIds /\ <<a, "restore">> \in OperationIds
           /\ <<a, "offload">>[1] = a /\ <<a, "offload">>[2] = "offload"
           /\ <<a, "restore">>[1] = a /\ <<a, "restore">>[2] = "restore"
BY AgentsFit, HandoffAssumption DEF HandoffInv, OperationIds

\* The engines after a step of a parked agent.
ParkCalm(a) == EngineInv' /\ Touches(a, a) /\ FaultsMove

\* What it touches when it writes one of its operations.
LEMMA ParkTouches ==
    ASSUME NEW a, NEW e \in Engines, NEW o \in OperationIds, o[1] = a, EngineInv', FaultsMove,
           WritesOnly(e, o) \/ UNCHANGED tier_operations,
           PinsOnly(e, a) \/ UNCHANGED prefixes,
           \A c \in Checkpoints : c # a => shared'[c] = shared[c]
    PROVE  ParkCalm(a)
BY DEF ParkCalm, Touches, WritesOnly, PinsOnly

\* A step to a point where nothing need be known of its operations.
LEMMA ParkLetsGo ==
    ASSUME HandoffInv, NEW a \in Parked, ParkCalm(a),
           NEW pc \in {"restoreUndo", "release", "cleanRestore", "cleanOffload", "done",
                       "failed"},
           ParkGoto(a, pc)
    PROVE  HandoffInv'
<1>1. /\ parking' = [parking EXCEPT ![a] = pc] /\ UNCHANGED <<storeVars, task, handoffLock>>
      /\ pc \in ParkingStates
  BY DEF ParkGoto, ParkingStates
<1>2. parking'[a] = pc
  BY <1>1 DEF HandoffInv, CallsTyped
<1>3. ParkFits(a)'
  BY <1>2 DEF ParkFits
<1>4. QED
  BY <1>1, <1>3, ParkKeeps DEF ParkCalm

\* One to a point where something is.
LEMMA ParkGoes ==
    ASSUME HandoffInv, NEW a \in Parked, ParkCalm(a), NEW e \in Engines, e = agents[a].owner,
           NEW pc \in {"offload", "offloading", "offloadUndo", "restore", "restoring"},
           ParkGoto(a, pc),
           pc # "restoring" => tier_operations'[e][<<a, "restore">>].state = "NONE",
           pc = "offload" => tier_operations'[e][<<a, "offload">>].state = "NONE",
           pc = "offloading" =>
              /\ Awaited(tier_operations'[e][<<a, "offload">>], a, agents[a].epoch)
              /\ tier_operations'[e][<<a, "offload">>].state
                    \in {"QUEUED", "COPYING", "COPY_DONE"} => prefixes'[e][a] # 0
              /\ tier_operations'[e][<<a, "offload">>].state = "COPY_DONE" =>
                    tier_operations'[e][<<a, "offload">>].host = "own",
           pc = "restoring" =>
              /\ Awaited(tier_operations'[e][<<a, "restore">>], a, agents[a].epoch)
              /\ prefixes'[e][a] = 0
    PROVE  HandoffInv'
<1>1. /\ parking' = [parking EXCEPT ![a] = pc] /\ UNCHANGED <<storeVars, task, handoffLock>>
      /\ pc \in ParkingStates
  BY DEF ParkGoto, ParkingStates
<1>2. parking'[a] = pc /\ agents' = agents
  BY <1>1 DEF HandoffInv, CallsTyped, storeVars
<1>3. ParkFits(a)'
  BY <1>2 DEF ParkFits, Awaited, TM!Pinned
<1>4. QED
  BY <1>1, <1>3, ParkKeeps DEF ParkCalm

\* The pin (benchmark_hotspot.py:212).
LEMMA ParkPins ==
    ASSUME HandoffInv, NEW a \in Parked, park(a), parking[a] = "idle"
    PROVE  HandoffInv'
<1>1. PICK e \in Engines : e = agents[a].owner
  BY ParkKnows
<1>2. PICK epoch \in Nat \ {0} : epoch = agents[a].epoch
  BY ParkKnows
<1>3. /\ FaultsMove
      /\ \/ TM!pin(e, a, epoch) /\ UNCHANGED tierVars
         \/ TM!pin_fails(e, a) /\ UNCHANGED tierVars
         \/ UNCHANGED tierEngineVars
      /\ \/ TM!pin(e, a, epoch) /\ UNCHANGED tierVars /\ ParkGoto(a, "offload")
         \/ ParkGoto(a, "failed")
  BY <1>1, <1>2 DEF park, Pins, Rpc, FaultsMove
<1>4. /\ EngineInv' /\ UNCHANGED <<tier_operations, shared>> /\ PinsOnly(e, a)
      /\ TM!pin(e, a, epoch) /\ UNCHANGED tierVars => prefixes'[e][a] = epoch
  <2>1. TM!pin(e, a, epoch) /\ UNCHANGED tierVars =>
           /\ EngineInv' /\ UNCHANGED <<tier_operations, shared>>
           /\ PinsOnly(e, a) /\ prefixes'[e][a] = epoch
    <3>1. SUFFICES ASSUME TM!pin(e, a, epoch), UNCHANGED tierVars
                   PROVE  /\ EngineInv' /\ UNCHANGED <<tier_operations, shared>>
                          /\ PinsOnly(e, a) /\ prefixes'[e][a] = epoch
      OBVIOUS
    <3>2. EngineInv /\ a \in Agents
      BY ParkKnows
    <3>3. UNCHANGED <<tier_operations, shared>>
      BY <3>1 DEF tierVars
    <3>4. QED
      <4>1. UNCHANGED tierVars
        BY <3>1
      <4>2. EngineInv' /\ PinsOnly(e, a) /\ prefixes'[e][a] = epoch
        BY <3>1, <3>2, <4>1, PinningKeeps
      <4>3. QED
        BY <3>3, <4>2
  <2>2. UNCHANGED tierEngineVars =>
           EngineInv' /\ UNCHANGED <<prefixes, tier_operations, shared>>
    BY ParkKnows, EnginesRest
  <2>3. TM!pin_fails(e, a) /\ UNCHANGED tierVars =>
           EngineInv' /\ UNCHANGED <<prefixes, tier_operations, shared>>
    <3>1. SUFFICES ASSUME TM!pin_fails(e, a), UNCHANGED tierVars
                   PROVE  EngineInv' /\ UNCHANGED <<prefixes, tier_operations, shared>>
      OBVIOUS
    <3>2. EngineInv' /\ UNCHANGED prefixes
      BY <3>1, ParkKnows, PinningKeeps
    <3>3. QED
      BY <3>1, <3>2 DEF tierVars
  <2>4. QED
    BY <1>3, <2>1, <2>2, <2>3 DEF PinsOnly
<1>5. ParkCalm(a)
  BY <1>3, <1>4, ParkKnows, ParkTouches
<1>6. /\ tier_operations'[e][<<a, "offload">>].state = "NONE"
      /\ tier_operations'[e][<<a, "restore">>].state = "NONE"
  BY <1>1, <1>4, ParkKnows DEF ParkFits
<1>7. CASE TM!pin(e, a, epoch) /\ UNCHANGED tierVars /\ ParkGoto(a, "offload")
  <2>1. prefixes'[e][a] # 0
    BY <1>4, <1>7
  <2>2. QED
    BY <1>1, <1>5, <1>6, <1>7, <2>1, ParkGoes
<1>8. CASE ParkGoto(a, "failed")
  BY <1>5, <1>8, ParkLetsGo
<1>9. QED
  BY <1>3, <1>7, <1>8

\* start of the offload (benchmark_hotspot.py:216-226).
LEMMA OffloadStarts ==
    ASSUME HandoffInv, NEW a \in Parked, park(a), parking[a] = "offload"
    PROVE  HandoffInv'
<1>1. PICK e \in Engines : e = agents[a].owner
  BY ParkKnows
<1>2. PICK epoch \in Nat \ {0} : epoch = agents[a].epoch
  BY ParkKnows
<1>3. PICK o \in OperationIds : o = <<a, "offload">>
  BY ParkKnows
<1>4. PICK releases \in BOOLEAN : releases = TRUE
  OBVIOUS
<1>5. PICK kind : kind = "private_offload"
  OBVIOUS
<1>6. /\ EngineInv /\ a \in Agents /\ o[1] = a /\ o[2] = "offload"
      /\ tier_operations[e][o].state = "NONE"
      /\ tier_operations[e][<<a, "restore">>].state = "NONE"
      /\ KindFits(o, kind) /\ TM!TierState(e, o) = "NONE"
  BY <1>1, <1>3, <1>5, ParkKnows DEF ParkFits, TM!TierState, KindFits
<1>7. releases <=> o[2] = "offload"
  BY <1>4, <1>6
<1>8. /\ FaultsMove
      /\ \/ TM!start_tier_operation(e, o, kind, o[1], a, epoch, releases)
         \/ UNCHANGED tierEngineVars
         \/ TM!start_tier_full(e, o, kind, o[1], a, epoch)
      /\ \/ /\ TM!start_tier_operation(e, o, kind, o[1], a, epoch, releases)
            /\ ParkGoto(a, "offloading")
         \/ ParkGoto(a, "failed")
  BY <1>1, <1>2, <1>3, <1>4, <1>5, <1>6 DEF park, Starts, Rpc, FaultsMove
<1>9. CASE TM!start_tier_operation(e, o, kind, o[1], a, epoch, releases)
  <2>1. Started(e, o, a, epoch)
    BY <1>6, <1>7, <1>9, StartKeeps
  <2>2. ParkCalm(a)
    BY <1>6, <1>8, <2>1, ParkTouches DEF Started
  <2>3. CASE ParkGoto(a, "offloading")
    <3>1. PICK r : r = tier_operations'[e][o]
      OBVIOUS
    <3>2. Awaited(r, a, agents[a].epoch) /\ r.state = "QUEUED" /\ prefixes'[e][a] # 0
      BY <1>2, <1>6, <2>1, <3>1 DEF Started, Reads, Awaited
    <3>3. tier_operations'[e][<<a, "restore">>].state = "NONE"
      BY <1>3, <1>6, <2>1, ParkKnows DEF Started, WritesOnly
    <3>4. QED
      BY <1>1, <1>3, <2>2, <2>3, <3>1, <3>2, <3>3, ParkGoes
  <2>4. QED
    BY <1>8, <2>2, <2>3, ParkLetsGo
<1>10. CASE /\ UNCHANGED tierEngineVars \/ TM!start_tier_full(e, o, kind, o[1], a, epoch)
            /\ ParkGoto(a, "failed")
  <2>1. EngineInv' /\ UNCHANGED <<prefixes, tier_operations, shared>>
    BY <1>6, <1>10, EnginesRest, FullKeeps DEF tierVars
  <2>2. ParkCalm(a)
    BY <1>6, <1>8, <2>1, ParkTouches
  <2>3. QED
    BY <1>10, <2>2, ParkLetsGo
<1>11. QED
  BY <1>8, <1>9, <1>10

\* The wait for the offload (tiered.py:36-51, benchmark_hotspot.py:216-226).
LEMMA OffloadWaits ==
    ASSUME HandoffInv, NEW a \in Parked, park(a), parking[a] = "offloading"
    PROVE  HandoffInv'
<1>1. PICK e \in Engines : e = agents[a].owner
  BY ParkKnows
<1>2. PICK o \in OperationIds : o = <<a, "offload">>
  BY ParkKnows
<1>3. PICK old : old = tier_operations[e][o]
  OBVIOUS
<1>4. /\ EngineInv /\ a \in Agents /\ o[1] = a /\ o[2] = "offload"
      /\ Awaited(old, a, agents[a].epoch)
      /\ old.state \in {"QUEUED", "COPYING", "COPY_DONE"} => prefixes[e][a] # 0
      /\ old.state = "COPY_DONE" => old.host = "own"
      /\ tier_operations[e][<<a, "restore">>].state = "NONE"
  BY <1>1, <1>2, <1>3, ParkKnows DEF ParkFits, TM!Pinned
<1>5. /\ FaultsMove
      /\ \/ TM!poll_tier_operation(e, o) \/ TM!tier_install_fails(e, o)
         \/ UNCHANGED tierEngineVars
      /\ \/ ParkGoto(a, "restore") \/ ParkGoto(a, "offloadUndo")
         \/ /\ TM!poll_tier_operation(e, o)
            /\ TM!PolledTierState(e, o) \notin {"COMPLETE", "FAILED"}
            /\ UNCHANGED <<storeVars, callVars>>
  BY <1>1, <1>2, <1>4 DEF park, Waits, Rpc, IsComplete, FaultsMove
<1>6. Safe(e, o)
  BY <1>3, <1>4 DEF Safe, Reads
<1>7. Waited(e, o) /\ (TM!poll_tier_operation(e, o) => Polled(e, o))
  BY <1>4, <1>5, <1>6, WaitKeeps
<1>8. ParkCalm(a)
  <2>1. PinsOnly(e, a) \/ UNCHANGED prefixes
    <3>1. CASE old.state # "NONE"
      BY <1>3, <1>4, <1>7, <3>1 DEF Waited, Awaited
    <3>2. CASE old.state = "NONE"
      <4>1. UNCHANGED tierEngineVars
        BY <1>3, <1>5, <3>2
           DEF TM!poll_tier_operation, TM!TierPollAllowed, TM!tier_install_fails, TM!TierState
      <4>2. QED
        BY <1>4, <4>1, EnginesRest
    <3>3. QED
      BY <3>1, <3>2
  <2>2. QED
    BY <1>4, <1>5, <1>7, <2>1, ParkTouches DEF Waited
<1>9. tier_operations'[e][<<a, "restore">>].state = "NONE"
  BY <1>2, <1>4, <1>7, ParkKnows DEF Waited, WritesOnly
<1>10. CASE ParkGoto(a, "restore") \/ ParkGoto(a, "offloadUndo")
  BY <1>1, <1>8, <1>9, <1>10, ParkGoes
<1>11. CASE /\ TM!poll_tier_operation(e, o)
            /\ TM!PolledTierState(e, o) \notin {"COMPLETE", "FAILED"}
            /\ UNCHANGED <<storeVars, callVars>>
  <2>1. tier_operations'[e][<<a, "offload">>] = old /\ UNCHANGED prefixes
    BY <1>2, <1>3, <1>7, <1>11 DEF Polled
  <2>2. ParkGoto(a, "offloading")
    BY <1>11 DEF ParkGoto, callVars, HandoffInv, CallsTyped
  <2>3. QED
    BY <1>1, <1>4, <1>8, <1>9, <2>1, <2>2, ParkGoes
<1>12. QED
  BY <1>5, <1>10, <1>11

\* start of the restore (benchmark_hotspot.py:229-239).
LEMMA RestoreStarts ==
    ASSUME HandoffInv, NEW a \in Parked, park(a), parking[a] = "restore"
    PROVE  HandoffInv'
<1>1. PICK e \in Engines : e = agents[a].owner
  BY ParkKnows
<1>2. PICK epoch \in Nat \ {0} : epoch = agents[a].epoch
  BY ParkKnows
<1>3. PICK o \in OperationIds : o = <<a, "restore">>
  BY ParkKnows
<1>4. PICK releases \in BOOLEAN : releases = FALSE
  OBVIOUS
<1>5. PICK kind : kind = "private_restore"
  OBVIOUS
<1>6. /\ EngineInv /\ a \in Agents /\ o[1] = a /\ o[2] = "restore" /\ ~Reads(o)
      /\ tier_operations[e][o].state = "NONE"
      /\ KindFits(o, kind) /\ TM!TierState(e, o) = "NONE"
  BY <1>1, <1>3, <1>5, ParkKnows DEF ParkFits, TM!TierState, KindFits, Reads
<1>7. releases <=> o[2] = "offload"
  BY <1>4, <1>6
<1>8. /\ FaultsMove
      /\ \/ TM!start_tier_operation(e, o, kind, o[1], a, epoch, releases)
         \/ UNCHANGED tierEngineVars
         \/ TM!start_tier_full(e, o, kind, o[1], a, epoch)
      /\ \/ /\ TM!start_tier_operation(e, o, kind, o[1], a, epoch, releases)
            /\ ParkGoto(a, "restoring")
         \/ ParkGoto(a, "failed")
  BY <1>1, <1>2, <1>3, <1>4, <1>5, <1>6 DEF park, Starts, Rpc, FaultsMove
<1>9. CASE TM!start_tier_operation(e, o, kind, o[1], a, epoch, releases)
  <2>1. Started(e, o, a, epoch)
    BY <1>6, <1>7, <1>9, StartKeeps
  <2>2. ParkCalm(a)
    BY <1>6, <1>8, <2>1, ParkTouches DEF Started
  <2>3. CASE ParkGoto(a, "restoring")
    <3>1. PICK r : r = tier_operations'[e][o]
      OBVIOUS
    <3>2. Awaited(r, a, agents[a].epoch) /\ prefixes'[e][a] = 0
      BY <1>2, <1>6, <2>1, <3>1 DEF Started, Awaited, TM!Pinned
    <3>3. QED
      BY <1>1, <1>3, <2>2, <2>3, <3>1, <3>2, ParkGoes
  <2>4. QED
    BY <1>8, <2>2, <2>3, ParkLetsGo
<1>10. CASE /\ UNCHANGED tierEngineVars \/ TM!start_tier_full(e, o, kind, o[1], a, epoch)
            /\ ParkGoto(a, "failed")
  <2>1. EngineInv' /\ UNCHANGED <<prefixes, tier_operations, shared>>
    BY <1>6, <1>10, EnginesRest, FullKeeps DEF tierVars
  <2>2. ParkCalm(a)
    BY <1>6, <1>8, <2>1, ParkTouches
  <2>3. QED
    BY <1>10, <2>2, ParkLetsGo
<1>11. QED
  BY <1>8, <1>9, <1>10

\* The wait for the restore (tiered.py:36-51, benchmark_hotspot.py:229-239).
LEMMA RestoreWaits ==
    ASSUME HandoffInv, NEW a \in Parked, park(a), parking[a] = "restoring"
    PROVE  HandoffInv'
<1>1. PICK e \in Engines : e = agents[a].owner
  BY ParkKnows
<1>2. PICK o \in OperationIds : o = <<a, "restore">>
  BY ParkKnows
<1>3. PICK old : old = tier_operations[e][o]
  OBVIOUS
<1>4. /\ EngineInv /\ a \in Agents /\ o[1] = a /\ o[2] = "restore" /\ ~Reads(o)
      /\ Awaited(old, a, agents[a].epoch) /\ prefixes[e][a] = 0
      /\ RecordFits(o, old)
  BY <1>1, <1>2, <1>3, ParkKnows, RecordOf
     DEF ParkFits, TM!Pinned, EngineInv, RecordsInv, Reads
<1>5. /\ FaultsMove
      /\ \/ TM!poll_tier_operation(e, o) \/ TM!tier_install_fails(e, o)
         \/ UNCHANGED tierEngineVars
      /\ \/ ParkGoto(a, "release") \/ ParkGoto(a, "restoreUndo")
         \/ /\ TM!poll_tier_operation(e, o)
            /\ TM!PolledTierState(e, o) \notin {"COMPLETE", "FAILED"}
            /\ UNCHANGED <<storeVars, callVars>>
  BY <1>1, <1>2, <1>4 DEF park, Waits, Rpc, IsComplete, FaultsMove
<1>6. Safe(e, o)
  BY <1>3, <1>4 DEF Safe, Awaited, RecordFits, RowsFit, TM!Pinned
<1>7. Waited(e, o) /\ (TM!poll_tier_operation(e, o) => Polled(e, o))
  BY <1>4, <1>5, <1>6, WaitKeeps
<1>8. ParkCalm(a)
  <2>1. PinsOnly(e, a) \/ UNCHANGED prefixes
    <3>1. CASE old.state # "NONE"
      BY <1>3, <1>4, <1>7, <3>1 DEF Waited, Awaited
    <3>2. CASE old.state = "NONE"
      <4>1. UNCHANGED tierEngineVars
        BY <1>3, <1>5, <3>2
           DEF TM!poll_tier_operation, TM!TierPollAllowed, TM!tier_install_fails, TM!TierState
      <4>2. QED
        BY <1>4, <4>1, EnginesRest
    <3>3. QED
      BY <3>1, <3>2
  <2>2. QED
    BY <1>4, <1>5, <1>7, <2>1, ParkTouches DEF Waited
<1>9. CASE ParkGoto(a, "release") \/ ParkGoto(a, "restoreUndo")
  BY <1>8, <1>9, ParkLetsGo
<1>10. CASE /\ TM!poll_tier_operation(e, o)
            /\ TM!PolledTierState(e, o) \notin {"COMPLETE", "FAILED"}
            /\ UNCHANGED <<storeVars, callVars>>
  <2>1. tier_operations'[e][<<a, "restore">>] = old /\ UNCHANGED prefixes
    BY <1>2, <1>3, <1>7, <1>10 DEF Polled
  <2>2. ParkGoto(a, "restoring")
    BY <1>10 DEF ParkGoto, callVars, HandoffInv, CallsTyped
  <2>3. QED
    BY <1>1, <1>4, <1>8, <2>1, <2>2, ParkGoes
<1>11. QED
  BY <1>5, <1>9, <1>10

\* The cleanups, and the release of the restored prefix (tiered.py:77-79, :92-102,
\* benchmark_hotspot.py:253-257).
LEMMA ParkCleans ==
    ASSUME HandoffInv, NEW a \in Parked, park(a),
           parking[a] \in {"offloadUndo", "restoreUndo", "release", "cleanRestore",
                           "cleanOffload"}
    PROVE  HandoffInv'
<1>1. PICK e \in Engines : e = agents[a].owner
  BY ParkKnows
<1>2. CASE parking[a] = "release"
  <2>1. PICK epoch \in Nat : epoch = agents[a].epoch
    BY ParkKnows
  <2>2. PICK evicts \in BOOLEAN, missing \in BOOLEAN : evicts = TRUE /\ missing = FALSE
    OBVIOUS
  <2>3. /\ FaultsMove
        /\ \/ TM!release(e, a, epoch, evicts, missing) /\ UNCHANGED tierVars
           \/ UNCHANGED tierEngineVars
        /\ ParkGoto(a, "cleanRestore") \/ ParkGoto(a, "failed")
    BY <1>1, <1>2, <2>1, <2>2 DEF park, Rpc, FaultsMove
  <2>4. /\ EngineInv' /\ UNCHANGED <<tier_operations, shared>>
        /\ PinsOnly(e, a) \/ UNCHANGED prefixes
    <3>1. CASE TM!release(e, a, epoch, evicts, missing) /\ UNCHANGED tierVars
      <4>1. EngineInv /\ a \in Agents
        BY ParkKnows
      <4>2. EngineInv' /\ PinsOnly(e, a)
        BY <3>1, <4>1, PinningKeeps
      <4>3. QED
        BY <3>1, <4>2 DEF tierVars
    <3>2. CASE UNCHANGED tierEngineVars
      BY <3>2, ParkKnows, EnginesRest
    <3>3. QED
      BY <2>3, <3>1, <3>2
  <2>5. ParkCalm(a)
    BY <2>3, <2>4, ParkKnows, ParkTouches
  <2>6. QED
    BY <2>3, <2>5, ParkLetsGo
<1>3. CASE parking[a] # "release"
  <2>1. PICK o \in {<<a, "offload">>, <<a, "restore">>} :
           o = <<a, "offload">> <=> parking[a] \in {"offloadUndo", "cleanOffload"}
    OBVIOUS
  <2>2. PICK drop \in BOOLEAN : drop <=> parking[a] = "cleanOffload"
    OBVIOUS
  <2>3. o \in OperationIds /\ o[1] = a
    <3>1. o = <<a, "offload">> \/ o = <<a, "restore">>
      BY <2>1
    <3>2. CASE o = <<a, "offload">>
      BY <3>2, ParkKnows
    <3>3. CASE o = <<a, "restore">>
      BY <3>3, ParkKnows
    <3>4. QED
      BY <3>1, <3>2, <3>3
  <2>4. <<a, "offload">> # <<a, "restore">>
    OBVIOUS
  <2>5. /\ FaultsMove
        /\ TM!cleanup_tier_operation(e, o, drop) \/ UNCHANGED tierEngineVars
        /\ \/ ParkGoto(a, "failed") \/ ParkGoto(a, "cleanOffload") \/ ParkGoto(a, "done")
    <3>1. CASE parking[a] = "cleanOffload"
      <4>1. drop = TRUE /\ o = <<a, "offload">>
        BY <2>1, <2>2, <3>1
      <4>2. QED
        BY <1>1, <3>1, <4>1 DEF park, Cleans, Rpc, FaultsMove
    <3>2. CASE parking[a] = "offloadUndo"
      <4>1. drop = FALSE /\ o = <<a, "offload">>
        BY <2>1, <2>2, <3>2
      <4>2. QED
        BY <1>1, <3>2, <4>1 DEF park, Cleans, Rpc, FaultsMove
    <3>3. CASE parking[a] \in {"restoreUndo", "cleanRestore"}
      <4>1. drop = FALSE /\ o = <<a, "restore">>
        BY <2>1, <2>2, <2>4, <3>3
      <4>2. QED
        BY <1>1, <3>3, <4>1 DEF park, Cleans, Rpc, FaultsMove
    <3>4. QED
      BY <1>3, <3>1, <3>2, <3>3
  <2>6. /\ WritesOnly(e, o) \/ UNCHANGED tier_operations
        /\ EngineInv' /\ UNCHANGED prefixes
        /\ \A c \in Checkpoints : c # a => shared'[c] = shared[c]
    <3>1. CASE TM!cleanup_tier_operation(e, o, drop)
      <4>1. EngineInv
        BY ParkKnows
      <4>2. QED
        BY <2>3, <3>1, <4>1, CleanupKeeps
    <3>2. CASE UNCHANGED tierEngineVars
      BY <3>2, ParkKnows, EnginesRest
    <3>3. QED
      BY <2>5, <3>1, <3>2
  <2>7. ParkCalm(a)
    BY <2>3, <2>5, <2>6, ParkTouches
  <2>8. QED
    BY <2>5, <2>7, ParkLetsGo
<1>4. QED
  BY <1>2, <1>3

\* The steps of a parked agent keep what is known.
LEMMA ParkStepKeeps ==
    ASSUME HandoffInv, NEW a \in Parked, park(a)
    PROVE  HandoffInv'
<1>1. parking[a] \in {"idle", "offload", "offloading", "offloadUndo", "restore", "restoring",
                      "restoreUndo", "release", "cleanRestore", "cleanOffload"}
  BY DEF park
<1>2. QED
  BY <1>1, ParkPins, OffloadStarts, OffloadWaits, RestoreStarts, RestoreWaits, ParkCleans

-----------------------------------------------------------------------------
(* Steps of the engines. *)

\* What is pinned is the agent's own.
LEMMA PinnedIsOwn ==
    ASSUME EngineInv, NEW e \in Engines, NEW a \in Agents, prefixes[e][a] # 0
    PROVE  cache[e][a] = "own"
<1>1. cache[e][a] \in {"own", "other", "absent"} /\ cache[e][a] # "other"
  BY DEF EngineInv, PoolInv, PoolTyped, RestoredRowsAreOwn
<1>2. cache[e][a] # "absent"
  BY DEF EngineInv, PoolInv, PinsResident, TM!Pinned, TM!Resident
<1>3. QED
  BY <1>1, <1>2

\* A handoff whose operation a worker is at.
LEMMA WorkerHelps ==
    ASSUME HandoffInv, NEW m \in Migrations, NEW e \in Engines, NEW o \in OperationIds,
           o[1] = m, Worked(e, o), UNCHANGED <<prefixes, storeVars, callVars>>, FaultsMove
    PROVE  HandoffFits(m)'
<1>1. PICK t : t = task[m]
  OBVIOUS
<1>2. /\ RowFits(m) /\ CallFits(m) /\ OperationsFit(m) /\ PinsFit(m) /\ EngineInv
      /\ UNCHANGED <<prefixes, agents, migrations, task, handoffLock>>
      /\ faults' = 0 => faults = 0
  BY FaultsCounted DEF HandoffInv, HandoffFits, storeVars, callVars
<1>3. RowFits(m)' /\ CallFits(m)' /\ PinsFit(m)'
  BY <1>2 DEF RowFits, CallFits, PinsFit, Running, LiveMigration, MigrationState
<1>4. o = Export(m) \/ o = Import(m)
  BY IdsOf, HandoffAssumption DEF OperationIds, Export, Import
<1>5. PICK old : old = tier_operations[e][o]
  OBVIOUS
<1>6. PICK new : new = tier_operations'[e][o]
  OBVIOUS
<1>7. /\ new.agent = old.agent /\ new.epoch = old.epoch
      /\ old.state \in {"QUEUED", "COPYING"}
      /\ new.state \in {"COPYING", "COPY_DONE", "FAILED"}
      /\ TM!TierState(e, o) \notin {"NONE", "COMPLETE"}
  BY <1>5, <1>6 DEF Worked, TM!TierState
<1>8. \A x \in Engines, p \in OperationIds :
         x # e \/ p # o => tier_operations'[x][p] = tier_operations[x][p]
  BY DEF Worked, WritesOnly
<1>9. CASE t.pc = "exporting"
  <2>1. /\ RunningFacts(m) /\ migrations[m].state = "COPYING"
        /\ t.source \in Engines /\ t.destination \in Engines /\ t.agent \in Agents
    <3>1. RunningFacts(m)
      BY <1>1, <1>9, RunningKnows DEF Running
    <3>2. migrations[m].state = "COPYING"
      BY <1>1, <1>9, <3>1 DEF RunningFacts, RunningStates
    <3>3. QED
      BY <1>1, <3>1, <3>2 DEF RunningFacts
  <2>2. o = Export(m) /\ e = t.source
    BY <1>1, <1>2, <1>4, <1>7, <1>9 DEF OperationsFit
  <2>3. /\ Awaited(old, t.agent, t.epoch)
        /\ old.host = "partial" => shared[m] # "absent"
        /\ prefixes[t.source][t.agent] = t.epoch
    BY <1>1, <1>2, <1>5, <1>7, <1>9, <2>2 DEF OperationsFit
  <2>4. cache[e][old.agent] = "own"
    <3>1. prefixes[e][t.agent] # 0
      BY <1>1, <2>1, <2>2, <2>3 DEF RunningFacts
    <3>2. old.agent = t.agent
      BY <1>7, <2>3 DEF Awaited
    <3>3. QED
      BY <1>2, <2>1, <2>2, <3>1, <3>2, PinnedIsOwn
  <2>5. /\ Awaited(new, t.agent, t.epoch)
        /\ new.state \in {"QUEUED", "COPYING"} /\ new.host = "partial" => shared'[m] # "absent"
        /\ new.state = "COPY_DONE" => shared'[m] = "own"
    BY <1>5, <1>6, <1>7, <2>2, <2>3, <2>4, IdsOfHandoff DEF Worked, Awaited
  <2>6. /\ \A x \in Engines : tier_operations'[x][Import(m)] = tier_operations[x][Import(m)]
        /\ \A x \in Engines : x # t.source =>
              tier_operations'[x][Export(m)] = tier_operations[x][Export(m)]
    BY <1>8, <2>2, IdsOfHandoff
  <2>7. OperationsFit(m)'
    BY <1>1, <1>2, <1>6, <1>9, <2>2, <2>3, <2>5, <2>6 DEF OperationsFit, TM!TierState
  <2>8. QED
    BY <1>3, <2>7 DEF HandoffFits
<1>10. CASE t.pc = "importing"
  <2>1. t.source \in Engines /\ t.destination \in Engines /\ t.agent \in Agents
    BY <1>1, <1>10, RunningKnows DEF Running, RunningFacts
  <2>2. o = Import(m)
    <3>1. CASE o = Export(m) /\ e # t.source
      BY <1>1, <1>2, <1>7, <1>10, <3>1 DEF OperationsFit
    <3>2. CASE o = Export(m) /\ e = t.source
      <4>1. Completed(old)
        BY <1>1, <1>2, <1>5, <1>10, <3>2 DEF OperationsFit
      <4>2. QED
        BY <1>7, <4>1 DEF Completed
    <3>3. QED
      BY <1>4, <3>1, <3>2
  <2>3. \A x \in Engines : tier_operations'[x][Export(m)] = tier_operations[x][Export(m)]
    BY <1>8, <2>2, IdsOfHandoff
  <2>4. shared'[m] = shared[m] /\ shared[m] = "own"
    BY <1>1, <1>2, <1>10, <2>2, IdsOfHandoff DEF Worked, OperationsFit
  <2>5. PICK import : import = tier_operations'[t.destination][Import(m)]
    OBVIOUS
  <2>6. Awaited(import, t.agent, t.epoch + 1) /\ (import.state = "COPY_DONE" => import.rows = "own")
    <3>1. CASE e = t.destination
      <4>1. Awaited(old, t.agent, t.epoch + 1)
        BY <1>1, <1>2, <1>5, <1>10, <2>2, <3>1 DEF OperationsFit
      <4>2. new.state = "COPY_DONE" => new.rows = "own"
        BY <1>6, <2>2, <2>4, IdsOfHandoff DEF Worked
      <4>3. QED
        BY <1>6, <1>7, <2>2, <2>5, <3>1, <4>1, <4>2 DEF Awaited
    <3>2. CASE e # t.destination
      BY <1>1, <1>2, <1>8, <1>10, <2>1, <2>5, <3>2, IdsOfHandoff DEF OperationsFit
    <3>3. QED
      BY <3>1, <3>2
  <2>7. OperationsFit(m)'
    BY <1>1, <1>2, <1>10, <2>1, <2>3, <2>4, <2>5, <2>6
       DEF OperationsFit, Completed, TM!TierState, TM!Pinned
  <2>8. QED
    BY <1>3, <2>7 DEF HandoffFits
<1>11. CASE t.pc \in {"idle", "lock", "pin", "export"}
  <2>1. FALSE
    BY <1>1, <1>2, <1>4, <1>5, <1>7, <1>11 DEF OperationsFit, TM!TierState
  <2>2. QED
    BY <2>1
<1>12. CASE t.pc = "exportUndo"
  <2>1. o = Export(m)
    BY <1>1, <1>2, <1>4, <1>7, <1>12 DEF OperationsFit
  <2>2. \A x \in Engines : tier_operations'[x][Import(m)] = tier_operations[x][Import(m)]
    BY <1>8, <2>1, IdsOfHandoff
  <2>3. OperationsFit(m)'
    BY <1>1, <1>2, <1>12, <2>2 DEF OperationsFit, TM!TierState
  <2>4. QED
    BY <1>3, <2>3 DEF HandoffFits
<1>13. CASE t.pc \notin {"idle", "lock", "pin", "export", "exporting", "exportUndo", "importing"}
  <2>1. ASSUME NEW x \in Engines, NEW p \in OperationIds,
               Completed(tier_operations[x][p])
        PROVE  Completed(tier_operations[x][p])'
    BY <1>2, <1>5, <1>7, <1>8, <2>1 DEF Completed
  <2>2. t.pc \in {"import", "commit", "cleanExport", "cleanImport"} =>
           t.source \in Engines /\ t.destination \in Engines
    BY <1>1, RunningKnows DEF Running, RunningFacts
  <2>3. t.pc = "import" =>
           /\ \A x \in Engines : /\ tier_operations'[x][Export(m)] = tier_operations[x][Export(m)]
                                 /\ tier_operations'[x][Import(m)] = tier_operations[x][Import(m)]
           /\ shared'[m] = shared[m]
    <3>1. SUFFICES ASSUME t.pc = "import"
                   PROVE  FALSE
      OBVIOUS
    <3>2. o = Export(m) /\ e = t.source
      BY <1>1, <1>2, <1>4, <1>7, <3>1 DEF OperationsFit
    <3>3. Completed(old)
      BY <1>1, <1>2, <1>5, <3>1, <3>2 DEF OperationsFit
    <3>4. QED
      BY <1>7, <3>3 DEF Completed
  <2>4. OperationsFit(m)'
    BY <1>1, <1>2, <1>13, <2>1, <2>2, <2>3, IdsOfHandoff DEF OperationsFit, TM!TierState
  <2>5. QED
    BY <1>3, <2>4 DEF HandoffFits
<1>14. QED
  BY <1>9, <1>10, <1>11, <1>12, <1>13

\* A parked agent whose operation a worker is at.
LEMMA WorkerParks ==
    ASSUME HandoffInv, NEW a \in Parked, NEW e \in Engines, NEW o \in OperationIds,
           o[1] = a, Worked(e, o), UNCHANGED <<prefixes, storeVars, callVars>>
    PROVE  ParkFits(a)'
<1>1. PICK x \in Engines : x = agents[a].owner
  BY ParkKnows
<1>2. /\ EngineInv /\ ParkFits(a) /\ a \in Agents
      /\ UNCHANGED <<prefixes, agents, parking>>
  BY ParkKnows DEF storeVars, callVars
<1>3. o = <<a, "offload">> \/ o = <<a, "restore">>
  BY IdsOf, HandoffAssumption DEF OperationIds
<1>4. PICK old : old = tier_operations[e][o]
  OBVIOUS
<1>5. PICK new : new = tier_operations'[e][o]
  OBVIOUS
<1>6. /\ new.agent = old.agent /\ new.epoch = old.epoch
      /\ old.state \in {"QUEUED", "COPYING"}
      /\ new.state \in {"COPYING", "COPY_DONE", "FAILED"}
  BY <1>4, <1>5 DEF Worked
<1>7. \A y \in Engines, p \in OperationIds :
         y # e \/ p # o => tier_operations'[y][p] = tier_operations[y][p]
  BY DEF Worked, WritesOnly
<1>8. <<a, "offload">> # <<a, "restore">>
  OBVIOUS
<1>9. CASE e # x
  BY <1>1, <1>2, <1>7, <1>9, ParkKnows DEF ParkFits, TM!Pinned
<1>10. CASE e = x /\ o = <<a, "offload">>
  <2>1. tier_operations'[x][<<a, "restore">>] = tier_operations[x][<<a, "restore">>]
    BY <1>7, <1>8, <1>10, ParkKnows
  <2>2. parking[a] \notin {"idle", "offload"}
    BY <1>1, <1>2, <1>4, <1>6, <1>10 DEF ParkFits
  <2>3. parking[a] = "offloading" =>
           /\ Awaited(new, a, agents[a].epoch)
           /\ new.state = "COPY_DONE" => new.host = "own"
    <3>1. ASSUME parking[a] = "offloading"
          PROVE  Awaited(old, a, agents[a].epoch) /\ cache[e][a] = "own"
      <4>1. Awaited(old, a, agents[a].epoch) /\ prefixes[e][a] # 0
        BY <1>1, <1>2, <1>4, <1>6, <1>10, <3>1 DEF ParkFits, TM!Pinned
      <4>2. QED
        BY <1>2, <4>1, PinnedIsOwn
    <3>2. QED
      BY <1>4, <1>5, <1>6, <1>10, <3>1, ParkKnows DEF Awaited, Worked
  <2>4. parking[a] = "offloading" => TM!Pinned(x, a)
    BY <1>1, <1>2, <1>4, <1>6, <1>10 DEF ParkFits
  <2>5. QED
    BY <1>1, <1>2, <1>5, <1>10, <2>1, <2>2, <2>3, <2>4 DEF ParkFits, TM!Pinned
<1>11. CASE e = x /\ o = <<a, "restore">>
  <2>1. tier_operations'[x][<<a, "offload">>] = tier_operations[x][<<a, "offload">>]
    BY <1>7, <1>8, <1>11, ParkKnows
  <2>2. parking[a] \notin {"idle", "offload", "offloading", "offloadUndo", "restore"}
    BY <1>1, <1>2, <1>4, <1>6, <1>11 DEF ParkFits
  <2>3. parking[a] = "restoring" => Awaited(new, a, agents[a].epoch)
    BY <1>1, <1>2, <1>4, <1>6, <1>11 DEF ParkFits, Awaited
  <2>4. QED
    BY <1>1, <1>2, <1>5, <1>11, <2>1, <2>2, <2>3 DEF ParkFits, TM!Pinned
<1>12. QED
  BY <1>3, <1>9, <1>10, <1>11

\* A worker's steps keep what is known.
LEMMA WorkerStepKeeps ==
    ASSUME HandoffInv, NEW e \in Engines, tier_worker(e) \/ tier_worker_fails(e)
    PROVE  HandoffInv'
<1>1. /\ UNCHANGED <<storeVars, callVars>> /\ FaultsMove /\ CallsTyped /\ EngineInv
      /\ UNCHANGED <<agents, migrations, claims, starting, task, parking, handoffLock>>
  BY DEF tier_worker, tier_worker_fails, FaultsMove, HandoffInv, storeVars, callVars
<1>2. EngineInv' /\ UNCHANGED prefixes
  BY <1>1, WorkerKeeps
<1>3. PICK o \in OperationIds : Worked(e, o)
  BY <1>1, WorkerKeeps
<1>4. PICK k : k = o[1]
  OBVIOUS
<1>5. Touches(k, None)
  BY <1>2, <1>3, <1>4 DEF Touches, Worked, WritesOnly
<1>6. CallsTyped' /\ (faults' = 0 => faults = 0)
  BY <1>1, FaultsCounted DEF CallsTyped
<1>7. CoordinatedInv'
  BY <1>1, CoordinatedRests DEF HandoffInv
<1>8. \A b \in Agents : b # None
  BY StoreAssumption
<1>9. ASSUME NEW m \in Migrations
      PROVE  HandoffFits(m)'
  <2>1. CASE m = k
    BY <1>1, <1>2, <1>3, <1>4, <2>1, WorkerHelps
  <2>2. CASE m # k
    <3>1. LiveMigration(m) => migrations[m].agent # None
      BY <1>8 DEF HandoffInv, HandoffFits, RowFits, LiveMigration, LiveStates, MigrationState
    <3>2. \A n \in Migrations : LiveMigration(n)' => LiveMigration(n)
      BY <1>1 DEF LiveMigration, MigrationState
    <3>3. QED
      BY <1>1, <1>5, <1>6, <2>2, <3>1, <3>2, HandoffRests
  <2>3. QED
    BY <2>1, <2>2
<1>10. ASSUME NEW a \in Parked
       PROVE  ParkFits(a)'
  <2>1. CASE a = k
    BY <1>1, <1>2, <1>3, <1>4, <2>1, WorkerParks
  <2>2. CASE a # k
    <3>1. a # None
      BY <1>8, HandoffAssumption
    <3>2. QED
      BY <1>1, <1>5, <2>2, <3>1, ParkRests
  <2>3. QED
    BY <2>1, <2>2
<1>11. QED
  BY <1>2, <1>6, <1>7, <1>9, <1>10 DEF HandoffInv

\* A flush may take the operations and the pins of any call that is not in the middle of a
\* copy: of an operation that is awaited or complete, none is left, and a fault is counted.
LEMMA FlushHelps ==
    ASSUME HandoffInv, NEW m \in Migrations, NEW e \in Engines, Flushed(e),
           UNCHANGED <<storeVars, callVars>>, faults' # 0
    PROVE  HandoffFits(m)'
<1>1. PICK t : t = task[m]
  OBVIOUS
<1>2. /\ RowFits(m) /\ CallFits(m) /\ OperationsFit(m) /\ PinsFit(m)
      /\ UNCHANGED <<agents, migrations, task, handoffLock>>
  BY DEF HandoffInv, HandoffFits, storeVars, callVars
<1>3. RowFits(m)' /\ CallFits(m)' /\ PinsFit(m)'
  BY <1>2 DEF RowFits, CallFits, PinsFit, Running, LiveMigration, MigrationState
<1>4. /\ shared' = shared /\ Export(m) \in OperationIds /\ Import(m) \in OperationIds
      /\ \A x \in Engines, o \in OperationIds :
            \/ tier_operations'[x][o] = tier_operations[x][o]
            \/ tier_operations'[x][o].state = "NONE"
  BY IdsOfHandoff DEF Flushed
<1>5. /\ \A x \in Engines : TM!TierState(x, Export(m)) = "NONE" => TM!TierState(x, Export(m))' = "NONE"
      /\ \A x \in Engines : TM!TierState(x, Import(m)) = "NONE" => TM!TierState(x, Import(m))' = "NONE"
  BY <1>4 DEF TM!TierState
<1>6. CASE ~Running(m)
  BY <1>1, <1>2, <1>3, <1>5, <1>6 DEF HandoffFits, OperationsFit, Running
<1>7. CASE Running(m)
  <2>1. t.source \in Engines /\ t.destination \in Engines /\ t.agent \in Agents
    BY <1>1, <1>7, RunningKnows DEF RunningFacts
  <2>2. ASSUME NEW x \in Engines, NEW o \in OperationIds, Completed(tier_operations[x][o])
        PROVE  Completed(tier_operations[x][o])'
    BY <1>4, <2>2 DEF Completed
  <2>3. ASSUME NEW x \in Engines, NEW o \in OperationIds, NEW a, NEW epoch,
               Awaited(tier_operations[x][o], a, epoch)
        PROVE  Awaited(tier_operations'[x][o], a, epoch)
    BY <1>4, <2>3 DEF Awaited
  <2>4. t.pc = "exporting" =>
           LET export == tier_operations'[t.source][Export(m)] IN
           /\ export.state \in {"QUEUED", "COPYING"} /\ export.host = "partial" =>
                 shared'[m] # "absent"
           /\ export.state = "COPY_DONE" => shared'[m] = "own"
           /\ export.state \in {"QUEUED", "COPYING", "COPY_DONE"} =>
                 prefixes'[t.source][t.agent] = t.epoch
    <3>1. CASE t.source = e
      BY <1>4, <2>1, <3>1 DEF Flushed
    <3>2. CASE t.source # e
      <4>1. /\ tier_operations'[t.source][Export(m)] = tier_operations[t.source][Export(m)]
            /\ prefixes'[t.source][t.agent] = prefixes[t.source][t.agent]
        BY <1>4, <2>1, <3>2 DEF Flushed
      <4>2. QED
        BY <1>1, <1>2, <1>4, <4>1 DEF OperationsFit
    <3>3. QED
      BY <3>1, <3>2
  <2>5. t.pc = "importing" =>
           /\ tier_operations'[t.destination][Import(m)].state = "COPY_DONE" =>
                 tier_operations'[t.destination][Import(m)].rows = "own"
           /\ prefixes'[t.destination][t.agent] = 0
    <3>1. CASE t.destination = e
      BY <1>4, <2>1, <3>1 DEF Flushed
    <3>2. CASE t.destination # e
      <4>1. /\ tier_operations'[t.destination][Import(m)]
                  = tier_operations[t.destination][Import(m)]
            /\ prefixes'[t.destination][t.agent] = prefixes[t.destination][t.agent]
        BY <1>4, <2>1, <3>2 DEF Flushed
      <4>2. QED
        BY <1>1, <1>2, <4>1 DEF OperationsFit, TM!Pinned
    <3>3. QED
      BY <3>1, <3>2
  <2>6. OperationsFit(m)'
    BY <1>1, <1>2, <1>4, <1>5, <2>1, <2>2, <2>3, <2>4, <2>5 DEF OperationsFit, TM!Pinned
  <2>7. QED
    BY <1>3, <2>6 DEF HandoffFits
<1>8. QED
  BY <1>6, <1>7

\* So may it those of a parked agent.
LEMMA FlushParks ==
    ASSUME HandoffInv, NEW a \in Parked, NEW e \in Engines, Flushed(e),
           UNCHANGED <<storeVars, callVars>>
    PROVE  ParkFits(a)'
<1>1. PICK x \in Engines : x = agents[a].owner
  BY ParkKnows
<1>2. /\ ParkFits(a) /\ a \in Agents /\ UNCHANGED <<agents, parking>>
      /\ <<a, "offload">> \in OperationIds /\ <<a, "restore">> \in OperationIds
  BY ParkKnows DEF storeVars, callVars
<1>3. CASE x = e
  <2>1. /\ tier_operations'[x][<<a, "offload">>].state = "NONE"
        /\ tier_operations'[x][<<a, "restore">>].state = "NONE"
        /\ prefixes'[x][a] = 0
    BY <1>2, <1>3 DEF Flushed
  <2>2. QED
    BY <1>1, <1>2, <2>1 DEF ParkFits, Awaited, TM!Pinned
<1>4. CASE x # e
  <2>1. /\ tier_operations'[x][<<a, "offload">>] = tier_operations[x][<<a, "offload">>]
        /\ tier_operations'[x][<<a, "restore">>] = tier_operations[x][<<a, "restore">>]
        /\ prefixes'[x][a] = prefixes[x][a]
    BY <1>2, <1>4 DEF Flushed
  <2>2. QED
    BY <1>1, <1>2, <2>1 DEF ParkFits, TM!Pinned
<1>5. QED
  BY <1>3, <1>4

\* A flush keeps what is known.
LEMMA FlushStepKeeps ==
    ASSUME HandoffInv, NEW e \in Engines, engine_flushed(e)
    PROVE  HandoffInv'
<1>1. /\ UNCHANGED <<storeVars, callVars>> /\ FaultsMove /\ CallsTyped /\ EngineInv
      /\ UNCHANGED <<agents, migrations, claims, starting, task, parking, handoffLock>>
      /\ faults' = faults + 1 /\ TM!tier_flush_cache(e)
  BY DEF engine_flushed, FaultsMove, HandoffInv, storeVars, callVars
<1>2. EngineInv' /\ Flushed(e)
  BY <1>1, FlushKeeps
<1>3. CallsTyped' /\ faults' # 0
  BY <1>1, FaultsCounted DEF CallsTyped
<1>4. CoordinatedInv'
  BY <1>1, CoordinatedRests DEF HandoffInv
<1>5. \A m \in Migrations : HandoffFits(m)'
  BY <1>1, <1>2, <1>3, FlushHelps
<1>6. \A a \in Parked : ParkFits(a)'
  BY <1>1, <1>2, FlushParks
<1>7. QED
  BY <1>2, <1>3, <1>4, <1>5, <1>6 DEF HandoffInv

\* So does the other traffic, and a step that does nothing.
LEMMA TrafficKeeps ==
    ASSUME HandoffInv, (\E a \in Agents : engine_traffic(a)) \/ UNCHANGED handoffVars
    PROVE  HandoffInv'
<1>1. /\ UNCHANGED tierVars /\ UNCHANGED <<storeVars, callVars, faults>> /\ EngineInv
      /\ CallsTyped /\ UNCHANGED storeVars
      /\ UNCHANGED <<agents, migrations, claims, starting, task, parking, handoffLock, faults>>
  BY DEF engine_traffic, handoffVars, HandoffInv, storeVars, callVars, tierEngineVars
<1>2. EngineInv' /\ UNCHANGED prefixes
  <2>1. CASE UNCHANGED handoffVars
    <3>1. UNCHANGED tierEngineVars
      BY <2>1 DEF handoffVars
    <3>2. QED
      BY <1>1, <3>1, EnginesRest
  <2>2. ASSUME NEW a \in Agents, engine_traffic(a)
        PROVE  EngineInv' /\ UNCHANGED prefixes
    <3>1. agents[a].owner \in Engines
      BY AgentsFit DEF HandoffInv
    <3>2. PICK e \in Engines : TM!prefill(e, a) \/ TM!evict(e, a)
      BY <2>2, <3>1 DEF engine_traffic
    <3>3. QED
      BY <1>1, <3>2, PinningKeeps
  <2>3. QED
    BY <2>1, <2>2
<1>3. Touches(None, None)
  BY <1>1, <1>2 DEF Touches, tierVars
<1>4. CallsTyped'
  BY <1>1 DEF CallsTyped
<1>5. CoordinatedInv'
  BY <1>1, CoordinatedRests DEF HandoffInv
<1>6. (\A b \in Agents : b # None) /\ (\A m \in Migrations : m # None)
  BY StoreAssumption, HandoffAssumption
<1>7. ASSUME NEW m \in Migrations
      PROVE  HandoffFits(m)'
  <2>1. LiveMigration(m) => migrations[m].agent # None
    BY <1>6 DEF HandoffInv, HandoffFits, RowFits, LiveMigration, LiveStates, MigrationState
  <2>2. \A n \in Migrations : LiveMigration(n)' => LiveMigration(n)
    BY <1>1 DEF LiveMigration, MigrationState
  <2>3. QED
    BY <1>1, <1>3, <1>6, <2>1, <2>2, HandoffRests
<1>8. ASSUME NEW a \in Parked
      PROVE  ParkFits(a)'
  <2>1. a # None
    BY <1>6, HandoffAssumption
  <2>2. QED
    BY <1>1, <1>3, <2>1, ParkRests
<1>9. QED
  BY <1>2, <1>4, <1>5, <1>7, <1>8 DEF HandoffInv

-----------------------------------------------------------------------------
(* The locks. *)

\* What TierLocksFollowPins says of a step.
Balanced(e, a) == locks'[e][a] + TierPinLocks(e, a) = locks[e][a] + TierPinLocks(e, a)'

Follows(e, a) ==
    \/ Balanced(e, a)
    \/ /\ faults' > faults
       /\ \/ prefixes'[e][a] = prefixes[e][a] /\ locks'[e][a] = locks[e][a] + 1
          \/ prefixes'[e][a] = 0 /\ locks'[e][a] = 0

AllFollow == \A e \in Engines, a \in Agents : Follows(e, a)

\* Steps that touch neither pins nor locks.
LEMMA PinsRest ==
    ASSUME UNCHANGED <<prefixes, locks>>
    PROVE  AllFollow
BY DEF AllFollow, Follows, Balanced, TierPinLocks

\* A pin is written, and its lock.
LEMMA PinWritten ==
    ASSUME PoolTyped, NEW e \in Engines, NEW a \in Agents, NEW q \in Nat, NEW n \in Nat,
           prefixes' = [prefixes EXCEPT ![e][a] = q], locks' = [locks EXCEPT ![e][a] = n],
           \/ prefixes[e][a] # 0 /\ q # 0 /\ n = locks[e][a]
           \/ prefixes[e][a] = 0 /\ q # 0 /\ n = locks[e][a] + 1
           \/ prefixes[e][a] # 0 /\ q = 0 /\ n = locks[e][a] - 1
    PROVE  AllFollow
<1>1. /\ prefixes'[e][a] = q /\ locks'[e][a] = n
      /\ \A x \in Engines, b \in Agents : x # e \/ b # a =>
            prefixes'[x][b] = prefixes[x][b] /\ locks'[x][b] = locks[x][b]
      /\ prefixes[e][a] \in Nat /\ locks[e][a] \in Nat
  BY DEF PoolTyped
<1>2. Balanced(e, a)
  BY <1>1 DEF Balanced, TierPinLocks
<1>3. ASSUME NEW x \in Engines, NEW b \in Agents, x # e \/ b # a
      PROVE  Balanced(x, b)
  BY <1>1, <1>3 DEF Balanced, TierPinLocks
<1>4. QED
  BY <1>2, <1>3 DEF AllFollow, Follows

\* A lock is left behind by an operation that raised.
LEMMA LockLeft ==
    ASSUME PoolTyped, CallsTyped, NEW e \in Engines, NEW a \in Agents, UNCHANGED prefixes,
           UNCHANGED locks \/ locks' = [locks EXCEPT ![e][a] = @ + 1], faults' = faults + 1
    PROVE  AllFollow
<1>1. faults' > faults
  BY HandoffAssumption DEF CallsTyped
<1>2. CASE UNCHANGED locks
  BY <1>2, PinsRest
<1>3. CASE locks' = [locks EXCEPT ![e][a] = @ + 1]
  <2>1. /\ locks'[e][a] = locks[e][a] + 1
        /\ \A x \in Engines, b \in Agents : x # e \/ b # a => locks'[x][b] = locks[x][b]
    BY <1>3 DEF PoolTyped
  <2>2. Follows(e, a)
    BY <1>1, <2>1 DEF Follows
  <2>3. ASSUME NEW x \in Engines, NEW b \in Agents, x # e \/ b # a
        PROVE  Balanced(x, b)
    BY <2>1, <2>3 DEF Balanced, TierPinLocks
  <2>4. QED
    BY <2>2, <2>3 DEF AllFollow, Follows
<1>4. QED
  BY <1>2, <1>3

\* Pins, failed ones too, and releases (patch:1103-1172).
LEMMA PinsFollow ==
    ASSUME EngineInv, NEW e \in Engines, NEW a \in Agents
    PROVE  /\ \A epoch \in Nat \ {0} : TM!pin(e, a, epoch) => AllFollow
           /\ \A epoch \in Nat, evicts, missing \in BOOLEAN :
                 TM!release(e, a, epoch, evicts, missing) => AllFollow
           /\ CallsTyped /\ faults' = faults + 1 /\ TM!pin_fails(e, a) => AllFollow
<1>1. PoolTyped /\ PinsLocked /\ prefixes[e][a] \in Nat /\ locks[e][a] \in Nat
  BY DEF EngineInv, PoolInv, PoolTyped
<1>2. ASSUME NEW epoch \in Nat \ {0}, TM!pin(e, a, epoch)
      PROVE  AllFollow
  <2>1. PICK n \in Nat : n = IF prefixes[e][a] # 0 THEN locks[e][a] ELSE locks[e][a] + 1
    BY <1>1
  <2>2. /\ prefixes' = [prefixes EXCEPT ![e][a] = epoch]
        /\ locks' = [locks EXCEPT ![e][a] = n]
    BY <1>1, <1>2, <2>1 DEF TM!pin, TM!Pinned
  <2>3. QED
    BY <1>1, <2>1, <2>2, PinWritten
<1>3. ASSUME NEW epoch \in Nat, NEW evicts \in BOOLEAN, NEW missing \in BOOLEAN,
             TM!release(e, a, epoch, evicts, missing)
      PROVE  AllFollow
  <2>1. CASE ~TM!Pinned(e, a)
    BY <1>3, <2>1, PinsRest DEF TM!release, TM!pinVars
  <2>2. CASE TM!Pinned(e, a)
    <3>1. PICK n \in Nat : n = locks[e][a] - 1
      BY <1>1, <2>2 DEF PinsLocked
    <3>2. /\ prefixes' = [prefixes EXCEPT ![e][a] = 0]
          /\ locks' = [locks EXCEPT ![e][a] = n]
      BY <1>1, <1>3, <2>2, <3>1 DEF TM!release
    <3>3. prefixes[e][a] # 0
      BY <2>2 DEF TM!Pinned
    <3>4. PICK q \in Nat : q = 0
      OBVIOUS
    <3>5. QED
      BY <1>1, <3>1, <3>2, <3>3, <3>4, PinWritten
  <2>3. QED
    BY <2>1, <2>2
<1>4. ASSUME CallsTyped, faults' = faults + 1, TM!pin_fails(e, a)
      PROVE  AllFollow
  BY <1>1, <1>4, LockLeft DEF TM!pin_fails
<1>5. QED
  BY <1>2, <1>3, <1>4

\* A poll installs a prefix only where none is pinned, and releases what is (patch:1796-1849).
LEMMA PollFollows ==
    ASSUME EngineInv, NEW e \in Engines, NEW o \in OperationIds, Safe(e, o),
           TM!poll_tier_operation(e, o)
    PROVE  AllFollow
<1>1. PICK op : op = tier_operations[e][o]
  OBVIOUS
<1>2. RecordsInv /\ PoolTyped
  BY DEF EngineInv, PoolInv
<1>3. op \in Records /\ RecordFits(o, op)
  BY <1>1, <1>2, RecordOf
<1>4. CASE op.state # "COPY_DONE"
  BY <1>1, <1>4, PinsRest DEF TM!poll_tier_operation, TM!TierState, TM!pinVars
<1>5. CASE op.state = "COPY_DONE"
  <2>1. op.agent \in Agents /\ op.epoch \in Nat \ {0}
    BY <1>3, <1>5 DEF RecordFits, Records
  <2>2. op.operation \in TM!Sources <=> Reads(o)
    BY <1>3, <1>5 DEF RecordFits, KindFits, TM!Sources, Reads
  <2>3. CASE op.operation \in TM!Sources
    <3>1. PICK evicts \in BOOLEAN, missing \in BOOLEAN : evicts = TRUE /\ missing = FALSE
      OBVIOUS
    <3>2. \/ TM!release(e, op.agent, op.epoch, evicts, missing)
          \/ UNCHANGED <<prefixes, locks>>
      BY <1>1, <1>5, <2>3, <3>1
         DEF TM!poll_tier_operation, TM!finalize_tier_operation, TM!TierState, TM!pinVars
    <3>3. QED
      BY <2>1, <3>2, PinsFollow, PinsRest
  <2>4. CASE op.operation \notin TM!Sources
    <3>1. ~TM!Pinned(e, op.agent)
      BY <1>1, <1>5, <2>2, <2>4 DEF Safe
    <3>2. PICK n \in Nat : n = locks[e][op.agent] + 1
      BY <1>2, <2>1 DEF PoolTyped
    <3>3. /\ prefixes' = [prefixes EXCEPT ![e][op.agent] = op.epoch]
          /\ locks' = [locks EXCEPT ![e][op.agent] = n]
      BY <1>1, <1>2, <1>5, <2>1, <2>4, <3>2
         DEF TM!poll_tier_operation, TM!finalize_tier_operation, TM!InstallsPrefix, TM!TierState
    <3>4. prefixes[e][op.agent] = 0
      BY <3>1 DEF TM!Pinned
    <3>5. QED
      BY <1>2, <2>1, <3>2, <3>3, <3>4, PinWritten
  <2>5. QED
    BY <2>3, <2>4
<1>6. QED
  BY <1>4, <1>5

\* An install that raises may leave its lock (patch:1438-1450).
LEMMA InstallFailsFollows ==
    ASSUME EngineInv, CallsTyped, NEW e \in Engines, NEW o \in OperationIds,
           TM!tier_install_fails(e, o), faults' = faults + 1
    PROVE  AllFollow
<1>1. PICK op : op = tier_operations[e][o]
  OBVIOUS
<1>2. RecordsInv /\ PoolTyped
  BY DEF EngineInv, PoolInv
<1>3. op \in Records /\ RecordFits(o, op) /\ op.state = "COPY_DONE"
  BY <1>1, <1>2, RecordOf DEF TM!tier_install_fails
<1>4. op.agent \in Agents
  BY <1>3 DEF RecordFits
<1>5. /\ UNCHANGED prefixes
      /\ UNCHANGED locks \/ locks' = [locks EXCEPT ![e][op.agent] = @ + 1]
  BY <1>1 DEF TM!tier_install_fails
<1>6. QED
  BY <1>2, <1>4, <1>5, LockLeft

\* What a waiting call does.
LEMMA WaitFollows ==
    ASSUME EngineInv, CallsTyped, NEW e \in Engines, NEW o \in OperationIds, Safe(e, o),
           \/ TM!poll_tier_operation(e, o)
           \/ TM!tier_install_fails(e, o) /\ faults' = faults + 1
           \/ UNCHANGED tierEngineVars
    PROVE  AllFollow
<1>1. CASE UNCHANGED tierEngineVars
  BY <1>1, PinsRest DEF tierEngineVars
<1>2. QED
  BY <1>1, PollFollows, InstallFailsFollows

\* The operation that a call waits for may be counted on.
LEMMA WaitsAreSafe ==
    ASSUME HandoffInv
    PROVE  /\ \A m \in Migrations :
                 /\ task[m].pc = "exporting" => Safe(task[m].source, Export(m))
                 /\ task[m].pc = "importing" => Safe(task[m].destination, Import(m))
           /\ \A a \in Parked :
                 /\ parking[a] = "offloading" => Safe(agents[a].owner, <<a, "offload">>)
                 /\ parking[a] = "restoring" => Safe(agents[a].owner, <<a, "restore">>)
<1>1. ASSUME NEW m \in Migrations, task[m].pc = "exporting"
      PROVE  Safe(task[m].source, Export(m))
  BY IdsOfHandoff DEF Safe
<1>2. ASSUME NEW m \in Migrations, task[m].pc = "importing"
      PROVE  Safe(task[m].destination, Import(m))
  <2>1. PICK old : old = tier_operations[task[m].destination][Import(m)]
    OBVIOUS
  <2>2. /\ Awaited(old, task[m].agent, task[m].epoch + 1)
        /\ old.state = "COPY_DONE" => old.rows = "own"
        /\ ~TM!Pinned(task[m].destination, task[m].agent)
    BY <1>2, <2>1 DEF HandoffInv, HandoffFits, OperationsFit
  <2>3. Import(m)[2] # "offload"
    BY IdsOfHandoff
  <2>4. QED
    BY <2>1, <2>2, <2>3 DEF Safe, Awaited
<1>3. ASSUME NEW a \in Parked, parking[a] = "offloading"
      PROVE  Safe(agents[a].owner, <<a, "offload">>)
  <2>1. Reads(<<a, "offload">>)
    BY DEF Reads
  <2>2. QED
    BY <1>3, <2>1, ParkKnows DEF ParkFits, Safe
<1>4. ASSUME NEW a \in Parked, parking[a] = "restoring"
      PROVE  Safe(agents[a].owner, <<a, "restore">>)
  <2>1. PICK e \in Engines, o \in OperationIds :
           e = agents[a].owner /\ o = <<a, "restore">>
    BY ParkKnows
  <2>2. PICK old : old = tier_operations[e][o]
    OBVIOUS
  <2>3. /\ Awaited(old, a, agents[a].epoch) /\ ~TM!Pinned(e, a) /\ RecordFits(o, old)
        /\ o[2] = "restore"
    BY <1>4, <2>1, <2>2, ParkKnows, RecordOf DEF ParkFits, EngineInv, RecordsInv
  <2>4. QED
    BY <2>1, <2>2, <2>3 DEF Safe, Awaited, RecordFits, RowsFit
<1>5. QED
  BY <1>1, <1>2, <1>3, <1>4

\* The steps of a handoff.
LEMMA HandoffFollows ==
    ASSUME HandoffInv, NEW m \in Migrations, HandoffStep(m)
    PROVE  AllFollow
<1>1. PICK t : t = task[m]
  OBVIOUS
<1>2. EngineInv /\ CallsTyped
  BY DEF HandoffInv
<1>3. Running(m) =>
         /\ t.agent \in Agents /\ t.source \in Engines /\ t.destination \in Engines
         /\ t.epoch \in Nat \ {0}
         /\ Export(m) \in OperationIds /\ Import(m) \in OperationIds
  BY <1>1, RunningKnows, IdsOfHandoff DEF RunningFacts
<1>4. CASE handoff_serial(m) \/ commit(m)
  BY <1>4, PinsRest DEF handoff_serial, commit, tierEngineVars
<1>5. CASE pin_source(m)
  <2>1. Running(m)
    BY <1>5 DEF pin_source, Running
  <2>2. \/ TM!pin(t.source, t.agent, t.epoch)
        \/ TM!pin_fails(t.source, t.agent) /\ faults' = faults + 1
        \/ UNCHANGED tierEngineVars
    BY <1>1, <1>5 DEF pin_source, Pins, Rpc
  <2>3. QED
    BY <1>2, <1>3, <2>1, <2>2, PinsFollow, PinsRest DEF tierEngineVars
<1>6. CASE shared_export(m)
  <2>1. Running(m) /\ t.pc \in {"export", "exporting", "exportUndo"}
    BY <1>1, <1>6 DEF shared_export, Running
  <2>2. CASE t.pc = "export"
    <3>1. UNCHANGED <<prefixes, locks>>
      BY <1>1, <1>6, <2>2
         DEF shared_export, Starts, Rpc, TM!start_tier_operation, TM!start_tier_full,
             TM!pinVars, tierEngineVars
    <3>2. QED
      BY <3>1, PinsRest
  <2>3. CASE t.pc = "exporting"
    <3>1. \/ TM!poll_tier_operation(t.source, Export(m))
          \/ TM!tier_install_fails(t.source, Export(m)) /\ faults' = faults + 1
          \/ UNCHANGED tierEngineVars
      BY <1>1, <1>6, <2>3 DEF shared_export, Waits, Rpc
    <3>2. QED
      BY <1>1, <1>2, <1>3, <2>1, <2>3, <3>1, WaitsAreSafe, WaitFollows
  <2>4. CASE t.pc = "exportUndo"
    <3>1. UNCHANGED <<prefixes, locks>>
      BY <1>1, <1>6, <2>4
         DEF shared_export, Cleans, Rpc, TM!cleanup_tier_operation, TM!pinVars, tierEngineVars
    <3>2. QED
      BY <3>1, PinsRest
  <2>5. QED
    BY <2>1, <2>2, <2>3, <2>4
<1>7. CASE shared_import(m)
  <2>1. Running(m) /\ t.pc \in {"import", "importing", "importUndo"}
    BY <1>1, <1>7 DEF shared_import, Running
  <2>2. CASE t.pc = "import"
    <3>1. UNCHANGED <<prefixes, locks>>
      BY <1>1, <1>7, <2>2
         DEF shared_import, Starts, Rpc, TM!start_tier_operation, TM!start_tier_full,
             TM!pinVars, tierEngineVars
    <3>2. QED
      BY <3>1, PinsRest
  <2>3. CASE t.pc = "importing"
    <3>1. \/ TM!poll_tier_operation(t.destination, Import(m))
          \/ TM!tier_install_fails(t.destination, Import(m)) /\ faults' = faults + 1
          \/ UNCHANGED tierEngineVars
      BY <1>1, <1>7, <2>3 DEF shared_import, Waits, Rpc
    <3>2. QED
      BY <1>1, <1>2, <1>3, <2>1, <2>3, <3>1, WaitsAreSafe, WaitFollows
  <2>4. CASE t.pc = "importUndo"
    <3>1. UNCHANGED <<prefixes, locks>>
      BY <1>1, <1>7, <2>4
         DEF shared_import, Cleans, Rpc, TM!cleanup_tier_operation, TM!pinVars, tierEngineVars
    <3>2. QED
      BY <3>1, PinsRest
  <2>5. QED
    BY <2>1, <2>2, <2>3, <2>4
<1>8. CASE clean_up(m)
  <2>1. UNCHANGED <<prefixes, locks>>
    BY <1>8 DEF clean_up, Cleans, Rpc, TM!cleanup_tier_operation, TM!pinVars, tierEngineVars
  <2>2. QED
    BY <2>1, PinsRest
<1>9. CASE undo(m)
  <2>1. Running(m)
    BY <1>9 DEF undo, Running
  <2>2. PICK epoch \in Nat : epoch = t.epoch + 1
    BY <1>3, <2>1
  <2>3. PICK allowed \in BOOLEAN : allowed = TRUE
    OBVIOUS
  <2>4. \/ TM!release(t.destination, t.agent, epoch, allowed, allowed)
        \/ UNCHANGED <<prefixes, locks>>
    <3>1. CASE t.pc = "releaseImported"
      BY <1>1, <1>9, <2>2, <2>3, <3>1 DEF undo, Rpc, tierEngineVars
    <3>2. CASE t.pc # "releaseImported"
      BY <1>1, <1>9, <3>2
         DEF undo, Cleans, Rpc, TM!cleanup_tier_operation, TM!pinVars, tierEngineVars
    <3>3. QED
      BY <3>1, <3>2
  <2>5. QED
    BY <1>2, <1>3, <2>1, <2>4, PinsFollow, PinsRest
<1>10. QED
  BY <1>4, <1>5, <1>6, <1>7, <1>8, <1>9 DEF HandoffStep

\* The acknowledgement.
LEMMA AcknowledgementFollows ==
    ASSUME HandoffInv, NEW m \in Migrations, acknowledge_destination(m)
    PROVE  AllFollow
<1>1. PICK row : row = migrations[m]
  OBVIOUS
<1>2. /\ EngineInv /\ row.state = "COMMITTED"
      /\ row.agent \in Agents /\ row.source \in Engines /\ row.epoch \in Nat
  BY <1>1 DEF HandoffInv, HandoffFits, RowFits, acknowledge_destination, CoordinatedInv,
     StoreInv, StoreTypeOK, RowsWellFormed, MigrationRows
<1>3. PICK allowed \in BOOLEAN : allowed = TRUE
  OBVIOUS
<1>4. \/ TM!release(row.source, row.agent, row.epoch, allowed, allowed)
      \/ UNCHANGED <<prefixes, locks>>
  BY <1>1, <1>3 DEF acknowledge_destination, Rpc, tierEngineVars
<1>5. QED
  BY <1>2, <1>4, PinsFollow, PinsRest

\* The steps of a parked agent.
LEMMA ParkFollows ==
    ASSUME HandoffInv, NEW a \in Parked, park(a)
    PROVE  AllFollow
<1>1. PICK e \in Engines, epoch \in Nat \ {0} :
         e = agents[a].owner /\ epoch = agents[a].epoch
  BY ParkKnows
<1>2. /\ EngineInv /\ CallsTyped /\ a \in Agents
      /\ <<a, "offload">> \in OperationIds /\ <<a, "restore">> \in OperationIds
  BY ParkKnows DEF HandoffInv
<1>3. CASE parking[a] = "idle"
  <2>1. \/ TM!pin(e, a, epoch)
        \/ TM!pin_fails(e, a) /\ faults' = faults + 1
        \/ UNCHANGED <<prefixes, locks>>
    BY <1>1, <1>3 DEF park, Pins, Rpc, tierEngineVars
  <2>2. QED
    BY <1>2, <2>1, PinsFollow, PinsRest
<1>4. CASE parking[a] \in {"offload", "restore"}
  <2>1. UNCHANGED <<prefixes, locks>>
    BY <1>4
       DEF park, Starts, Rpc, TM!start_tier_operation, TM!start_tier_full, TM!pinVars,
           tierEngineVars
  <2>2. QED
    BY <2>1, PinsRest
<1>5. CASE parking[a] = "offloading"
  <2>1. \/ TM!poll_tier_operation(e, <<a, "offload">>)
        \/ TM!tier_install_fails(e, <<a, "offload">>) /\ faults' = faults + 1
        \/ UNCHANGED tierEngineVars
    BY <1>1, <1>5 DEF park, Waits, Rpc
  <2>2. QED
    BY <1>1, <1>2, <1>5, <2>1, WaitsAreSafe, WaitFollows
<1>6. CASE parking[a] = "restoring"
  <2>1. \/ TM!poll_tier_operation(e, <<a, "restore">>)
        \/ TM!tier_install_fails(e, <<a, "restore">>) /\ faults' = faults + 1
        \/ UNCHANGED tierEngineVars
    BY <1>1, <1>6 DEF park, Waits, Rpc
  <2>2. QED
    BY <1>1, <1>2, <1>6, <2>1, WaitsAreSafe, WaitFollows
<1>7. CASE parking[a] \in {"offloadUndo", "restoreUndo", "cleanRestore", "cleanOffload"}
  <2>1. UNCHANGED <<prefixes, locks>>
    BY <1>7 DEF park, Cleans, Rpc, TM!cleanup_tier_operation, TM!pinVars, tierEngineVars
  <2>2. QED
    BY <2>1, PinsRest
<1>8. CASE parking[a] = "release"
  <2>1. PICK evicts \in BOOLEAN, missing \in BOOLEAN : evicts = TRUE /\ missing = FALSE
    OBVIOUS
  <2>2. TM!release(e, a, epoch, evicts, missing) \/ UNCHANGED <<prefixes, locks>>
    BY <1>1, <1>8, <2>1 DEF park, Rpc, tierEngineVars
  <2>3. QED
    BY <1>2, <2>2, PinsFollow, PinsRest
<1>9. QED
  BY <1>3, <1>4, <1>5, <1>6, <1>7, <1>8 DEF park

\* Every step moves the locks as it moves the pins.
LEMMA StepsFollow ==
    ASSUME HandoffInv, [HandoffNext]_handoffVars
    PROVE  AllFollow
<1>1. ASSUME NEW m \in Migrations, NEW a \in Agents \ Parked, NEW e \in Engines,
             handoff(m, a, e)
      PROVE  AllFollow
  BY <1>1, PinsRest DEF handoff, tierEngineVars
<1>2. ASSUME NEW e \in Engines, tier_worker(e) \/ tier_worker_fails(e)
      PROVE  AllFollow
  BY <1>2, PinsRest
     DEF tier_worker, tier_worker_fails, TM!tier_take, TM!export_opens, TM!tier_copy,
         TM!import_finds_nothing, TM!tier_copy_fails, TM!pinVars
<1>3. ASSUME NEW e \in Engines, engine_flushed(e)
      PROVE  AllFollow
  <2>1. PoolTyped /\ faults' > faults
    BY <1>3, HandoffAssumption
       DEF engine_flushed, HandoffInv, EngineInv, PoolInv, CallsTyped
  <2>2. /\ prefixes' = [prefixes EXCEPT ![e] = [a \in Agents |-> 0]]
        /\ locks' = [locks EXCEPT ![e] = [a \in Agents |-> 0]]
    BY <1>3 DEF engine_flushed, TM!tier_flush_cache, TM!ResetsPool
  <2>3. ASSUME NEW x \in Engines, NEW a \in Agents
        PROVE  Follows(x, a)
    <3>1. CASE x = e
      BY <2>1, <2>2, <3>1 DEF PoolTyped, Follows
    <3>2. CASE x # e
      BY <2>1, <2>2, <3>2 DEF PoolTyped, Follows, Balanced, TierPinLocks
    <3>3. QED
      BY <3>1, <3>2
  <2>4. QED
    BY <2>3 DEF AllFollow
<1>4. CASE (\E a \in Agents : engine_traffic(a)) \/ UNCHANGED handoffVars
  <2>1. UNCHANGED <<prefixes, locks>>
    BY <1>4
       DEF engine_traffic, TM!prefill, TM!evict, TM!pinVars, handoffVars, tierEngineVars
  <2>2. QED
    BY <2>1, PinsRest
<1>5. QED
  BY <1>1, <1>2, <1>3, <1>4, HandoffFollows, AcknowledgementFollows, ParkFollows
     DEF HandoffNext

-----------------------------------------------------------------------------
(* The theorems. *)

\* HandoffInv holds when the controller starts: no pins, no operations, all rows free.
LEMMA HandoffInvInit == HandoffInit => HandoffInv
<1> SUFFICES ASSUME HandoffInit
             PROVE  HandoffInv
  OBVIOUS
<1>1. /\ prefixes = [e \in Engines |-> [a \in Agents |-> 0]]
      /\ locks = [e \in Engines |-> [a \in Agents |-> 0]]
      /\ cache = [e \in Engines |-> [a \in Agents |-> "absent"]]
      /\ free = [e \in Engines |-> Slots]
      /\ task = [m \in Migrations |-> IdleHandoff]
      /\ parking = [a \in Parked |-> "idle"]
      /\ handoffLock = None /\ faults = 0
      /\ migrations = [m \in Migrations |-> NoMigration]
  BY DEF HandoffInit
<1>2. /\ tier_operations = [e \in Engines |-> [o \in OperationIds |-> TM!NoTierOperation]]
      /\ tier_queue = [e \in Engines |-> <<>>]
      /\ host_prefixes = [e \in Engines |-> [c \in Checkpoints |-> TM!NoHostPrefix]]
      /\ shared = [c \in Checkpoints |-> "absent"]
  BY DEF HandoffInit, TM!TierInit, OperationIds, Checkpoints
<1>3. CoordinatedInv
  BY HandoffAssumption, CoordinatedInit DEF HandoffInit
<1>4. PoolInv
  BY <1>1, HandoffAssumption
     DEF PoolInv, PoolTyped, PinsResident, PinsLocked, RestoredRowsAreOwn, TM!Pinned
<1>5. RecordsInv
  <2>1. PICK r : r = TM!NoTierOperation
    OBVIOUS
  <2>2. r \in Records /\ r.state = "NONE" /\ r.rows = "none"
    BY <2>1 DEF Records, TM!NoTierOperation
  <2>3. TM!NoHostPrefix \in HostPrefixes /\ TM!NoHostPrefix.epoch = 0
    BY DEF HostPrefixes, TM!NoHostPrefix
  <2>4. TierTyped /\ QueuesFit /\ HostsOwn
    BY <1>2, <2>1, <2>2, <2>3 DEF TierTyped, QueuesFit, HostsOwn
  <2>5. RecordsFit
    BY <1>2, <2>1, <2>2 DEF RecordsFit, RecordFits, RowsFit
  <2>6. QED
    BY <2>4, <2>5 DEF RecordsInv
<1>6. TierPoolAccounting
  <2> SUFFICES ASSUME NEW e \in Engines
               PROVE  free[e] + Cardinality({a \in Agents : cache[e][a] # "absent"})
                         + Cardinality(TM!TierReserved(e)) = Slots
    BY DEF TierPoolAccounting
  <2>1. {a \in Agents : cache[e][a] # "absent"} = {}
    BY <1>1
  <2>2. TM!TierReserved(e) = {}
    <3>1. \A o \in OperationIds : tier_operations[e][o].rows = "none"
      BY <1>2 DEF TM!NoTierOperation
    <3>2. QED
      BY <3>1 DEF TM!TierReserved, OperationIds
  <2>3. Cardinality({}) = 0 /\ free[e] = Slots /\ Slots \in Nat
    BY <1>1, FS_EmptySet, HandoffAssumption
  <2>4. QED
    BY <2>1, <2>2, <2>3
<1>7. CallsTyped
  BY <1>1, HandoffAssumption DEF CallsTyped, IdleHandoff, ParkingStates
<1>8. ASSUME NEW m \in Migrations
      PROVE  HandoffFits(m)
  <2>1. task[m].pc = "idle" /\ migrations[m].state = "NONE"
    BY <1>1 DEF IdleHandoff, NoMigration
  <2>2. \A e \in Engines : TM!TierState(e, Export(m)) = "NONE" /\ TM!TierState(e, Import(m)) = "NONE"
    BY <1>2, IdsOfHandoff DEF TM!TierState, TM!NoTierOperation
  <2>3. QED
    BY <2>1, <2>2 DEF HandoffFits, RowFits, CallFits, Running, OperationsFit, PinsFit
<1>9. ASSUME NEW a \in Parked
      PROVE  ParkFits(a)
  <2>1. agents[a].owner \in Engines /\ parking[a] = "idle"
    BY <1>1, <1>3, AgentsFit, HandoffAssumption
  <2>2. <<a, "offload">> \in OperationIds /\ <<a, "restore">> \in OperationIds
    BY DEF OperationIds
  <2>3. QED
    BY <1>2, <2>1, <2>2 DEF ParkFits, TM!NoTierOperation
<1>10. QED
  BY <1>3, <1>4, <1>5, <1>6, <1>7, <1>8, <1>9 DEF HandoffInv, EngineInv

\* Every step keeps it.
LEMMA HandoffInvStep == HandoffInv /\ [HandoffNext]_handoffVars => HandoffInv'
<1> SUFFICES ASSUME HandoffInv, [HandoffNext]_handoffVars
             PROVE  HandoffInv'
  OBVIOUS
<1>1. ASSUME NEW m \in Migrations, NEW a \in Agents \ Parked, NEW e \in Engines,
             handoff(m, a, e)
      PROVE  HandoffInv'
  BY <1>1, HandoffArrives
<1>2. ASSUME NEW m \in Migrations, HandoffStep(m)
      PROVE  HandoffInv'
  BY <1>2, HandoffStepKeeps
<1>3. ASSUME NEW m \in Migrations, acknowledge_destination(m)
      PROVE  HandoffInv'
  BY <1>3, AcknowledgementKeeps
<1>4. ASSUME NEW a \in Parked, park(a)
      PROVE  HandoffInv'
  BY <1>4, ParkStepKeeps
<1>5. ASSUME NEW e \in Engines, tier_worker(e) \/ tier_worker_fails(e)
      PROVE  HandoffInv'
  BY <1>5, WorkerStepKeeps
<1>6. CASE (\E a \in Agents : engine_traffic(a)) \/ UNCHANGED handoffVars
  BY <1>6, TrafficKeeps
<1>7. ASSUME NEW e \in Engines, engine_flushed(e)
      PROVE  HandoffInv'
  BY <1>7, FlushStepKeeps
<1>8. QED
  BY <1>1, <1>2, <1>3, <1>4, <1>5, <1>6, <1>7 DEF HandoffNext

\* The types, the records, what calls know of their operations and of their pins: always,
\* for any number of agents, engines, handoffs and faults.
THEOREM HandoffInvariant == HandoffSpec => []HandoffInv
<1>1. HandoffInit => HandoffInv
  BY HandoffInvInit
<1>2. HandoffInv /\ [HandoffNext]_handoffVars => HandoffInv'
  BY HandoffInvStep
<1>3. QED
  BY <1>1, <1>2, PTL DEF HandoffSpec

\* No row is lost or counted twice: those that are free, resident, or reserved by a tier
\* operation are all the engine has (patch:1255-1268, :737-746).
THEOREM TieredRowsAddUp == HandoffSpec => []TierPoolAccounting
<1>1. HandoffInv => TierPoolAccounting
  BY DEF HandoffInv, EngineInv
<1>2. QED
  BY <1>1, HandoffInvariant, PTL

\* What comes back from a host or a file is the agent's own (patch:1529-1665), although
\* files have their full size from the start and calls may give up at any time.
THEOREM TieredRowsAreOwn == HandoffSpec => []RestoredRowsAreOwn
<1>1. HandoffInv => RestoredRowsAreOwn
  BY DEF HandoffInv, EngineInv, PoolInv
<1>2. QED
  BY <1>1, HandoffInvariant, PTL

\* A prefix is locked and unlocked as its pin comes and goes (patch:1103-1172, :1413-1450),
\* but for the lock that a failed pin or install leaves, and for a flush: no late install
\* meets a pin, whatever was lost, timed out or flushed meanwhile.
THEOREM TieredPinsHoldTheLocks == HandoffSpec => TierLocksFollowPins
<1>1. HandoffInit => HandoffInv
  BY HandoffInvInit
<1>2. HandoffInv /\ [HandoffNext]_handoffVars => HandoffInv'
  BY HandoffInvStep
<1>3. HandoffInv /\ [HandoffNext]_handoffVars =>
        [\A e \in Engines, a \in Agents :
           \/ locks'[e][a] + TierPinLocks(e, a) = locks[e][a] + TierPinLocks(e, a)'
           \/ /\ faults' > faults
              /\ \/ prefixes'[e][a] = prefixes[e][a] /\ locks'[e][a] = locks[e][a] + 1
                 \/ prefixes'[e][a] = 0 /\ locks'[e][a] = 0]_handoffVars
  BY StepsFollow DEF AllFollow, Follows, Balanced
<1>4. QED
  BY <1>1, <1>2, <1>3, PTL DEF HandoffSpec, TierLocksFollowPins

\* While no RPC is lost, nothing fails and no cache is flushed, the source keeps its copy
\* until the acknowledgement and the destination has its own from the commit on
\* (tiered.py:156-201, :245-260).
THEOREM HandoffsKeepTheirCopies == HandoffSpec => []HandoffCopiesKept
<1>1. HandoffInv => HandoffCopiesKept
  BY DEF HandoffInv, HandoffFits, PinsFit, HandoffCopiesKept
<1>2. QED
  BY <1>1, HandoffInvariant, PTL

\* The leases of agents that are handed off or parked are as the store promises them.
THEOREM HandoffKeepsLeases ==
    HandoffSpec => [](/\ OneLiveMigration
                      /\ HandoverChain
                      /\ EpochAccounting
                      /\ CommittedLeaseIsCurrent)
<1>1. HandoffInv => /\ OneLiveMigration
                    /\ HandoverChain
                    /\ EpochAccounting
                    /\ CommittedLeaseIsCurrent
  BY DEF HandoffInv, CoordinatedInv, StoreInv, CountInv
<1>2. QED
  BY <1>1, HandoffInvariant, PTL

=============================================================================
