-------------------------- MODULE PrefixManagerProofs --------------------------
(***************************************************************************)
(* The tables of the prefix managers stay consistent under any order of    *)
(* control calls, transfers, faults and restarts, for any number of        *)
(* engines, agents and transfers.  What has to be known beyond the         *)
(* properties is the shape of a transfer record in each of its states      *)
(* (Records), that the queue holds QUEUED records only, each once          *)
(* (QueueIsSound), and that a transfer exists only where groups do.        *)
(***************************************************************************)
EXTENDS PrefixManager, FiniteSetTheorems, SequenceTheorems, TLAPS

\* The agents whose rows are in an engine's RadixCache.
Residents(e) == {a \in Agents : Resident(e, a)}

\* What a record holds in each state.
Records ==
    \A e \in Engines, m \in Migrations :
        LET t == transfers[e][m] IN
        /\ t.state # "NONE" => t.agent \in Agents /\ groups[e] # {}
        /\ t.state = "NONE" => t.rows = "none"
        /\ t.state \in {"QUEUED", "COPYING"} /\ t.role = "destination" => t.rows = "blank"
        /\ t.state = "COPY_DONE" => t.rows \in Contents

\* QueueMatchesTable of an engine, without its counting.
QueueIsSoundAt(e) ==
    /\ \A i, j \in DOMAIN queue[e] : queue[e][i] = queue[e][j] => i = j
    /\ \A i \in DOMAIN queue[e] : TransferState(e, queue[e][i]) = "QUEUED"
    /\ \A m \in Migrations : TransferState(e, m) = "QUEUED" =>
          \E i \in DOMAIN queue[e] : queue[e][i] = m
    /\ \A m, n \in Migrations :
          TransferState(e, m) = "COPYING" /\ TransferState(e, n) = "COPYING" => m = n

QueueIsSound == \A e \in Engines : QueueIsSoundAt(e)

\* PrefixTypeOK, but for the bound of free, which takes the accounting.
Typed ==
    /\ prefixes \in [Engines -> [Agents -> 0..MaxEpoch]]
    /\ locks \in [Engines -> [Agents -> Nat]]
    /\ cache \in [Engines -> [Agents -> Contents \cup {"absent"}]]
    /\ free \in [Engines -> Nat]
    /\ transfers \in [Engines -> [Migrations -> Transfers]]
    /\ queue \in [Engines -> Seq(Migrations)]
    /\ groups \in [Engines -> SUBSET Pairs]

PrefixInv ==
    /\ Typed
    /\ Records
    /\ QueueIsSound
    /\ PoolAccounting
    /\ PinnedRowsResident

-----------------------------------------------------------------------------
(* Counting rows. *)

\* Rows and reservations are finitely many.
LEMMA Counts ==
    ASSUME NEW e \in Engines
    PROVE  /\ IsFiniteSet(Residents(e)) /\ Cardinality(Residents(e)) \in Nat
           /\ IsFiniteSet(Reserved(e)) /\ Cardinality(Reserved(e)) \in Nat
<1>1. Residents(e) \subseteq Agents /\ Reserved(e) \subseteq Migrations
  BY DEF Residents, Reserved
<1>2. IsFiniteSet(Residents(e)) /\ IsFiniteSet(Reserved(e))
  BY <1>1, FS_Subset, PrefixAssumption
<1>3. QED
  BY <1>2, FS_CardinalityType

\* Writing rows under a key that had none.
LEMMA RowsAdded ==
    ASSUME Typed, NEW e \in Engines, NEW a \in Agents, NEW rows \in Contents,
           ~Resident(e, a), cache' = [cache EXCEPT ![e][a] = rows]
    PROVE  /\ Cardinality(Residents(e))' = Cardinality(Residents(e)) + 1
           /\ \A x \in Engines : x # e => Residents(x)' = Residents(x)
           /\ cache' \in [Engines -> [Agents -> Contents \cup {"absent"}]]
           /\ \A b \in Agents : Resident(e, b)' <=> Resident(e, b) \/ b = a
<1>1. Residents(e)' = Residents(e) \cup {a} /\ a \notin Residents(e)
  BY DEF Residents, Resident, Typed, Contents
<1>2. Cardinality(Residents(e)') = Cardinality(Residents(e)) + 1
  BY <1>1, Counts, FS_AddElement
<1>3. /\ \A x \in Engines : x # e => Residents(x)' = Residents(x)
      /\ cache' \in [Engines -> [Agents -> Contents \cup {"absent"}]]
      /\ \A b \in Agents : Resident(e, b)' <=> Resident(e, b) \/ b = a
  BY DEF Residents, Resident, Typed, Contents
<1>4. QED
  BY <1>2, <1>3

\* Evicting a key.
LEMMA RowsEvicted ==
    ASSUME Typed, NEW e \in Engines, NEW a \in Agents,
           Resident(e, a), cache' = [cache EXCEPT ![e][a] = "absent"]
    PROVE  /\ Cardinality(Residents(e))' = Cardinality(Residents(e)) - 1
           /\ \A x \in Engines : x # e => Residents(x)' = Residents(x)
           /\ cache' \in [Engines -> [Agents -> Contents \cup {"absent"}]]
           /\ \A b \in Agents : Resident(e, b)' <=> Resident(e, b) /\ b # a
<1>1. Residents(e)' = Residents(e) \ {a} /\ a \in Residents(e)
  BY DEF Residents, Resident, Typed
<1>2. Cardinality(Residents(e)') = Cardinality(Residents(e)) - 1
  BY <1>1, Counts, FS_RemoveElement
<1>3. /\ \A x \in Engines : x # e => Residents(x)' = Residents(x)
      /\ cache' \in [Engines -> [Agents -> Contents \cup {"absent"}]]
      /\ \A b \in Agents : Resident(e, b)' <=> Resident(e, b) /\ b # a
  BY DEF Residents, Resident, Typed
<1>4. QED
  BY <1>2, <1>3

\* The reservations of the other engines stay.
LEMMA ReservedElsewhere ==
    ASSUME Typed, NEW e \in Engines, NEW m \in Migrations, NEW t \in Transfers,
           transfers' = [transfers EXCEPT ![e][m] = t]
    PROVE  \A x \in Engines : x # e => Reserved(x)' = Reserved(x)
<1>1. \A x \in Engines, n \in Migrations : x # e => transfers'[x][n] = transfers[x][n]
  BY DEF Typed
<1>2. QED
  BY <1>1 DEF Reserved

\* A record that comes to hold rows is one reservation more.
LEMMA ReservationAdded ==
    ASSUME Typed, NEW e \in Engines, NEW m \in Migrations, NEW t \in Transfers,
           transfers' = [transfers EXCEPT ![e][m] = t],
           t.rows # "none", transfers[e][m].rows = "none"
    PROVE  Cardinality(Reserved(e))' = Cardinality(Reserved(e)) + 1
<1>0. /\ transfers'[e][m] = t
      /\ \A n \in Migrations : n # m => transfers'[e][n] = transfers[e][n]
  BY DEF Typed
<1>1. Reserved(e)' = Reserved(e) \cup {m} /\ m \notin Reserved(e)
  BY <1>0 DEF Reserved
<1>2. IsFiniteSet(Reserved(e))
  BY Counts
<1>3. Cardinality(Reserved(e) \cup {m}) = Cardinality(Reserved(e)) + 1
  BY <1>1, <1>2, FS_AddElement
<1>4. QED
  BY <1>1, <1>3

\* A record that holds rows no longer is one reservation less.
LEMMA ReservationDropped ==
    ASSUME Typed, NEW e \in Engines, NEW m \in Migrations, NEW t \in Transfers,
           transfers' = [transfers EXCEPT ![e][m] = t],
           t.rows = "none", transfers[e][m].rows # "none"
    PROVE  Cardinality(Reserved(e))' = Cardinality(Reserved(e)) - 1
<1>0. /\ transfers'[e][m] = t
      /\ \A n \in Migrations : n # m => transfers'[e][n] = transfers[e][n]
  BY DEF Typed
<1>1. Reserved(e)' = Reserved(e) \ {m} /\ m \in Reserved(e)
  BY <1>0 DEF Reserved
<1>2. IsFiniteSet(Reserved(e))
  BY Counts
<1>3. Cardinality(Reserved(e) \ {m}) = Cardinality(Reserved(e)) - 1
  BY <1>1, <1>2, FS_RemoveElement
<1>4. QED
  BY <1>1, <1>3

\* Otherwise the reservations of its engine stay too.
LEMMA ReservationKept ==
    ASSUME Typed, NEW e \in Engines, NEW m \in Migrations, NEW t \in Transfers,
           transfers' = [transfers EXCEPT ![e][m] = t],
           (t.rows = "none") <=> (transfers[e][m].rows = "none")
    PROVE  Reserved(e)' = Reserved(e)
<1>1. /\ transfers'[e][m] = t
      /\ \A n \in Migrations : n # m => transfers'[e][n] = transfers[e][n]
  BY DEF Typed
<1>2. QED
  BY <1>1 DEF Reserved

\* Changing the state of a record.
LEMMA StateWritten ==
    ASSUME Typed, NEW e \in Engines, NEW m \in Migrations,
           NEW state \in ActiveStates \cup TerminalStates,
           transfers' = [transfers EXCEPT ![e][m].state = state]
    PROVE  LET t == [transfers[e][m] EXCEPT !.state = state] IN
           /\ t \in Transfers
           /\ transfers' = [transfers EXCEPT ![e][m] = t]
           /\ t.state = state /\ t.rows = transfers[e][m].rows
           /\ t.agent = transfers[e][m].agent /\ t.role = transfers[e][m].role
<1>1. transfers[e][m] \in Transfers
  BY DEF Typed
<1>2. QED
  BY <1>1 DEF Transfers

-----------------------------------------------------------------------------
(* Control calls on pins. *)

\* Rows of engine x that are free, resident or reserved.
Rows(x) == free[x] + Cardinality(Residents(x)) + Cardinality(Reserved(x))

\* Calls that leave transfers alone keep what is said of transfers.
LEMMA TransfersKept ==
    ASSUME PrefixInv, UNCHANGED <<transferVars, groups>>,
           Typed', PinnedRowsResident', \A x \in Engines : Rows(x)' = Rows(x)
    PROVE  PrefixInv'
<1>1. Records' /\ QueueIsSound'
  BY DEF PrefixInv, Records, QueueIsSound, QueueIsSoundAt, TransferState, transferVars
<1>2. PoolAccounting'
  BY DEF PrefixInv, PoolAccounting, Rows, Residents
<1>3. QED
  BY <1>1, <1>2 DEF PrefixInv

\* Where neither rows nor reservations change, their number does not.
LEMMA RowsUnchanged ==
    ASSUME UNCHANGED <<poolVars, transferVars>>
    PROVE  \A x \in Engines : Rows(x)' = Rows(x)
<1>1. \A x \in Engines : Residents(x)' = Residents(x) /\ Reserved(x)' = Reserved(x)
  BY DEF Residents, Resident, Reserved, poolVars, transferVars
<1>2. QED
  BY <1>1 DEF Rows, poolVars

\* A row changes from free to resident or back.
LEMMA FreeAndResident ==
    ASSUME Typed, NEW e \in Engines, UNCHANGED transfers,
           NEW d \in {-1, 1}, free'[e] = free[e] - d,
           \A x \in Engines : x # e => free'[x] = free[x],
           Cardinality(Residents(e))' = Cardinality(Residents(e)) + d,
           \A x \in Engines : x # e => Residents(x)' = Residents(x)
    PROVE  \A x \in Engines : Rows(x)' = Rows(x)
<1>1. \A x \in Engines : Reserved(x)' = Reserved(x)
  BY DEF Reserved
<1>2. Rows(e)' = Rows(e)
  BY <1>1, Counts DEF Rows, Typed
<1>3. \A x \in Engines : x # e => Rows(x)' = Rows(x)
  BY <1>1 DEF Rows, Typed
<1>4. QED
  BY <1>2, <1>3

\* A step of something else.
LEMMA NothingMoves == ASSUME PrefixInv, UNCHANGED prefixVars PROVE PrefixInv'
<1>1. Typed' /\ PinnedRowsResident'
  BY DEF PrefixInv, Typed, PinnedRowsResident, Pinned, Resident, prefixVars
<1>2. UNCHANGED <<poolVars, transferVars, groups>>
  BY DEF prefixVars, poolVars, transferVars
<1>3. QED
  BY <1>1, <1>2, RowsUnchanged, TransfersKept

\* pin (patch:1103-1144) locks rows that are resident.
LEMMA PinKeepsInv ==
    ASSUME PrefixInv, NEW e \in Engines, NEW a \in Agents, NEW epoch \in Epochs,
           pin(e, a, epoch)
    PROVE  PrefixInv'
<1>1. Typed'
  BY PrefixAssumption DEF PrefixInv, Typed, pin, poolVars, transferVars, Epochs
<1>2. \A x \in Engines, b \in Agents :
         /\ cache'[x][b] = cache[x][b]
         /\ x # e \/ b # a => /\ prefixes'[x][b] = prefixes[x][b]
                              /\ locks'[x][b] = locks[x][b]
  BY DEF PrefixInv, Typed, pin, poolVars
<1>3. Resident(e, a) /\ locks'[e][a] > 0
  BY DEF PrefixInv, Typed, PinnedRowsResident, pin, PinAllowed
<1>4. PinnedRowsResident'
  BY <1>2, <1>3 DEF PrefixInv, PinnedRowsResident, Pinned, Resident
<1>5. UNCHANGED <<poolVars, transferVars, groups>>
  BY DEF pin
<1>6. QED
  BY <1>1, <1>4, <1>5, RowsUnchanged, TransfersKept

\* A pin that raises (patch:1136-1139) adds a lock and nothing else.
LEMMA PinFailsKeepsInv ==
    ASSUME PrefixInv, NEW e \in Engines, NEW a \in Agents, pin_fails(e, a)
    PROVE  PrefixInv'
<1>1. Typed'
  BY DEF PrefixInv, Typed, pin_fails, poolVars, transferVars
<1>2. PinnedRowsResident'
  BY DEF PrefixInv, Typed, PinnedRowsResident, pin_fails, Pinned, Resident, poolVars
<1>3. UNCHANGED <<poolVars, transferVars, groups>>
  BY DEF pin_fails
<1>4. QED
  BY <1>1, <1>2, <1>3, RowsUnchanged, TransfersKept

\* rebind (patch:1174-1190) touches the epoch of a pin only.
LEMMA RebindKeepsInv ==
    ASSUME PrefixInv, NEW e \in Engines, NEW a \in Agents, NEW epoch \in Epochs,
           NEW new \in Epochs, rebind(e, a, epoch, new)
    PROVE  PrefixInv'
<1>1. Typed'
  BY PrefixAssumption DEF PrefixInv, Typed, rebind, poolVars, transferVars, Epochs
<1>2. \A x \in Engines, b \in Agents : Pinned(x, b)' => Pinned(x, b)
  BY DEF PrefixInv, Typed, rebind, RebindAllowed, Pinned
<1>3. PinnedRowsResident'
  BY <1>2 DEF PrefixInv, PinnedRowsResident, Resident, rebind, poolVars
<1>4. UNCHANGED <<poolVars, transferVars, groups>>
  BY DEF rebind
<1>5. QED
  BY <1>1, <1>3, <1>4, RowsUnchanged, TransfersKept

\* Evicting what no lock holds, whatever pins were dropped before.
LEMMA EvictionKeepsInv ==
    ASSUME PrefixInv, NEW e \in Engines, NEW b \in Agents,
           Resident(e, b), locks'[e][b] = 0,
           cache' = [cache EXCEPT ![e][b] = "absent"],
           free' = [free EXCEPT ![e] = @ + 1],
           UNCHANGED <<transferVars, groups>>,
           prefixes' \in [Engines -> [Agents -> 0..MaxEpoch]],
           locks' \in [Engines -> [Agents -> Nat]],
           \A x \in Engines, c \in Agents : Pinned(x, c)' =>
              Pinned(x, c) /\ locks'[x][c] = locks[x][c]
    PROVE  PrefixInv'
<1>1. /\ Cardinality(Residents(e))' = Cardinality(Residents(e)) - 1
      /\ \A x \in Engines : x # e => Residents(x)' = Residents(x)
      /\ cache' \in [Engines -> [Agents -> Contents \cup {"absent"}]]
      /\ \A c \in Agents : Resident(e, c)' <=> Resident(e, c) /\ c # b
  BY RowsEvicted DEF PrefixInv
<1>2. Typed'
  BY <1>1 DEF PrefixInv, Typed, transferVars
<1>3. \A x \in Engines, c \in Agents : x # e => Resident(x, c)' = Resident(x, c)
  BY DEF PrefixInv, Typed, Resident
<1>4. PinnedRowsResident'
  BY <1>1, <1>3 DEF PrefixInv, PinnedRowsResident
<1>5. \A x \in Engines : Rows(x)' = Rows(x)
  <2>1. /\ free'[e] = free[e] - (-1)
        /\ \A x \in Engines : x # e => free'[x] = free[x]
    BY DEF PrefixInv, Typed
  <2>2. Cardinality(Residents(e))' = Cardinality(Residents(e)) + (-1)
    BY <1>1, Counts
  <2>3. QED
    BY <1>1, <2>1, <2>2, FreeAndResident DEF PrefixInv, transferVars
<1>6. QED
  BY <1>2, <1>4, <1>5, TransfersKept

\* release (patch:1146-1172) may evict, but only what no pin holds.
LEMMA ReleaseKeepsInv ==
    ASSUME PrefixInv, NEW e \in Engines, NEW a \in Agents, NEW epoch \in Epochs,
           NEW evicts \in BOOLEAN, NEW missing \in BOOLEAN,
           release(e, a, epoch, evicts, missing)
    PROVE  PrefixInv'
<1>1. CASE ~Pinned(e, a)
  <2>1. UNCHANGED prefixVars
    BY <1>1 DEF release, prefixVars, pinVars, poolVars, transferVars
  <2>2. QED
    BY <2>1, NothingMoves
<1>2. CASE Pinned(e, a)
  <2>1. /\ prefixes' = [prefixes EXCEPT ![e][a] = 0]
        /\ locks' = [locks EXCEPT ![e][a] = @ - 1]
        /\ UNCHANGED <<transferVars, groups>>
    BY <1>2 DEF release
  <2>2. /\ prefixes' \in [Engines -> [Agents -> 0..MaxEpoch]]
        /\ locks' \in [Engines -> [Agents -> Nat]]
        /\ \A x \in Engines, b \in Agents : Pinned(x, b)' =>
              Pinned(x, b) /\ locks'[x][b] = locks[x][b]
    BY <1>2, <2>1, PrefixAssumption
    DEF PrefixInv, Typed, PinnedRowsResident, Pinned
  <2>3. CASE UNCHANGED poolVars
    <3>1. Typed' /\ PinnedRowsResident'
      BY <2>1, <2>2, <2>3
      DEF PrefixInv, Typed, PinnedRowsResident, Resident, poolVars, transferVars
    <3>2. QED
      BY <2>1, <2>3, <3>1, RowsUnchanged, TransfersKept
  <2>4. ASSUME NEW b \in Agents, Resident(e, b), locks'[e][b] = 0,
               cache' = [cache EXCEPT ![e][b] = "absent"],
               free' = [free EXCEPT ![e] = @ + 1]
        PROVE  PrefixInv'
    BY <2>1, <2>2, <2>4, EvictionKeepsInv
  <2>5. QED
    BY <1>2, <2>3, <2>4 DEF release, poolVars
<1>3. QED
  BY <1>1, <1>2

-----------------------------------------------------------------------------
(* Starting transfers. *)

\* init_transfer_group (patch:1192-1227): groups are only added.
LEMMA GroupKeepsInv ==
    ASSUME PrefixInv, NEW p \in Pairs, init_transfer_group(p[1], p[2])
    PROVE  PrefixInv'
<1>1. p \in Engines \X Engines /\ p = <<p[1], p[2]>>
  BY PrefixAssumption
<1>2. /\ groups' \in [Engines -> SUBSET Pairs]
      /\ \A x \in Engines : groups[x] \subseteq groups'[x]
      /\ UNCHANGED <<pinVars, poolVars, transferVars>>
  BY <1>1 DEF PrefixInv, Typed, init_transfer_group
<1>3. Typed' /\ PinnedRowsResident'
  BY <1>2 DEF PrefixInv, Typed, PinnedRowsResident, Pinned, Resident, pinVars, poolVars,
              transferVars
<1>4. Records'
  BY <1>2 DEF PrefixInv, Records, transferVars
<1>5. QueueIsSound'
  BY <1>2 DEF PrefixInv, QueueIsSound, QueueIsSoundAt, TransferState, transferVars
<1>6. PoolAccounting'
  BY <1>2, RowsUnchanged DEF PrefixInv, PoolAccounting, Rows, Residents
<1>7. QED
  BY <1>3, <1>4, <1>5, <1>6 DEF PrefixInv

\* _allocate_destination (patch:1240-1253) takes one row that no pin holds.
LEMMA Allocates ==
    ASSUME PrefixInv, NEW e \in Engines, AllocatesRow(e)
    PROVE  /\ cache' \in [Engines -> [Agents -> Contents \cup {"absent"}]]
           /\ free' \in [Engines -> Nat]
           /\ \A x \in Engines : x # e => /\ free'[x] = free[x]
                                          /\ Residents(x)' = Residents(x)
           /\ free'[e] + Cardinality(Residents(e))'
                 = free[e] + Cardinality(Residents(e)) - 1
           /\ \A x \in Engines, b \in Agents : Pinned(x, b) => Resident(x, b)'
<1>1. CASE /\ free[e] > 0
           /\ free' = [free EXCEPT ![e] = @ - 1]
           /\ UNCHANGED cache
  <2>1. \A x \in Engines : Residents(x)' = Residents(x)
    BY <1>1 DEF Residents, Resident
  <2>2. /\ free' \in [Engines -> Nat] /\ free'[e] = free[e] - 1 /\ free[e] \in Nat
        /\ \A x \in Engines : x # e => free'[x] = free[x]
    BY <1>1 DEF PrefixInv, Typed
  <2>3. \A x \in Engines, b \in Agents : Pinned(x, b) => Resident(x, b)'
    BY <1>1 DEF PrefixInv, PinnedRowsResident, Resident
  <2>4. QED
    BY <1>1, <2>1, <2>2, <2>3, Counts DEF PrefixInv, Typed
<1>2. ASSUME NEW b \in Evictable(e), cache' = [cache EXCEPT ![e][b] = "absent"],
             UNCHANGED free
      PROVE  /\ cache' \in [Engines -> [Agents -> Contents \cup {"absent"}]]
             /\ \A x \in Engines : x # e => Residents(x)' = Residents(x)
             /\ Cardinality(Residents(e))' = Cardinality(Residents(e)) - 1
             /\ \A x \in Engines, c \in Agents : Pinned(x, c) => Resident(x, c)'
  <2>1. b \in Agents /\ Resident(e, b) /\ locks[e][b] = 0
    BY <1>2 DEF Evictable
  <2>2. ~Pinned(e, b)
    BY <2>1 DEF PrefixInv, PinnedRowsResident
  <2>3. \A x \in Engines, c \in Agents : x # e => Resident(x, c)' = Resident(x, c)
    BY <1>2 DEF PrefixInv, Typed, Resident
  <2>4. Typed /\ \A x \in Engines, c \in Agents : Pinned(x, c) => Resident(x, c)
    BY DEF PrefixInv, PinnedRowsResident
  <2>5. /\ cache' \in [Engines -> [Agents -> Contents \cup {"absent"}]]
        /\ \A x \in Engines : x # e => Residents(x)' = Residents(x)
        /\ Cardinality(Residents(e))' = Cardinality(Residents(e)) - 1
        /\ \A c \in Agents : Resident(e, c)' <=> Resident(e, c) /\ c # b
    BY <1>2, <2>1, <2>4, RowsEvicted
  <2>6. \A x \in Engines, c \in Agents : Pinned(x, c) => Resident(x, c)'
    BY <2>2, <2>3, <2>4, <2>5
  <2>7. QED
    BY <2>5, <2>6
<1>3. QED
  BY <1>1, <1>2, Counts DEF AllocatesRow, PrefixInv, Typed

\* An engine's queue stays sound while its ids wait, none is added, and the worker
\* begins nothing.
LEMMA QueueKept ==
    ASSUME NEW x \in Engines, QueueIsSoundAt(x), queue'[x] = queue[x],
           \A m \in Migrations :
              /\ (transfers'[x][m].state = "QUEUED") <=> (transfers[x][m].state = "QUEUED")
              /\ transfers'[x][m].state = "COPYING" => transfers[x][m].state = "COPYING",
           queue[x] \in Seq(Migrations)
    PROVE  QueueIsSoundAt(x)'
<1>1. \A i \in DOMAIN queue[x] : queue[x][i] \in Migrations
  OBVIOUS
<1>2. \A i, j \in DOMAIN queue'[x] : queue'[x][i] = queue'[x][j] => i = j
  BY DEF QueueIsSoundAt
<1>3. \A i \in DOMAIN queue'[x] : transfers'[x][queue'[x][i]].state = "QUEUED"
  BY <1>1 DEF QueueIsSoundAt, TransferState
<1>4. \A n \in Migrations : transfers'[x][n].state = "QUEUED" =>
         \E i \in DOMAIN queue'[x] : queue'[x][i] = n
  BY DEF QueueIsSoundAt, TransferState
<1>5. \A n, o \in Migrations :
         transfers'[x][n].state = "COPYING" /\ transfers'[x][o].state = "COPYING" => n = o
  BY DEF QueueIsSoundAt, TransferState
<1>6. QED
  BY <1>2, <1>3, <1>4, <1>5 DEF QueueIsSoundAt, TransferState

\* A record that was not there is queued: its id is new to the queue.
LEMMA QueueAppended ==
    ASSUME PrefixInv, NEW e \in Engines, NEW m \in Migrations, NEW t \in Transfers,
           TransferState(e, m) = "NONE", t.state = "QUEUED",
           transfers' = [transfers EXCEPT ![e][m] = t],
           queue' = [queue EXCEPT ![e] = Append(@, m)]
    PROVE  QueueIsSound' /\ queue' \in [Engines -> Seq(Migrations)]
<1>1. /\ transfers'[e][m] = t
      /\ \A x \in Engines, n \in Migrations :
            x # e \/ n # m => transfers'[x][n] = transfers[x][n]
  BY DEF PrefixInv, Typed
<1>2. queue[e] \in Seq(Migrations) /\ queue'[e] = Append(queue[e], m)
  BY DEF PrefixInv, Typed
<1>3. queue' \in [Engines -> Seq(Migrations)]
  BY <1>2 DEF PrefixInv, Typed
<1>4. \A x \in Engines : x # e => queue'[x] = queue[x] /\ queue[x] \in Seq(Migrations)
  BY DEF PrefixInv, Typed
<1>5. DOMAIN queue[e] = 1..Len(queue[e]) /\ Len(queue[e]) \in Nat
  BY <1>2
<1>6. /\ DOMAIN queue'[e] = 1..(Len(queue[e]) + 1)
      /\ \A i \in DOMAIN queue[e] : queue'[e][i] = queue[e][i]
      /\ queue'[e][Len(queue[e]) + 1] = m
  BY <1>2
<1>7. \A i \in DOMAIN queue[e] : queue[e][i] \in Migrations /\ queue[e][i] # m
  BY <1>2 DEF PrefixInv, QueueIsSound, QueueIsSoundAt
<1>8. \A i, j \in DOMAIN queue'[e] : queue'[e][i] = queue'[e][j] => i = j
  BY <1>5, <1>6, <1>7 DEF PrefixInv, QueueIsSound, QueueIsSoundAt
<1>9. \A i \in DOMAIN queue'[e] : transfers'[e][queue'[e][i]].state = "QUEUED"
  BY <1>1, <1>5, <1>6, <1>7 DEF PrefixInv, QueueIsSound, QueueIsSoundAt, TransferState
<1>10. \A n \in Migrations : transfers'[e][n].state = "QUEUED" =>
          \E i \in DOMAIN queue'[e] : queue'[e][i] = n
  <2> SUFFICES ASSUME NEW n \in Migrations, transfers'[e][n].state = "QUEUED"
               PROVE  \E i \in DOMAIN queue'[e] : queue'[e][i] = n
    OBVIOUS
  <2>1. CASE n = m
    BY <1>5, <1>6, <2>1
  <2>2. CASE n # m
    <3>1. PICK i \in DOMAIN queue[e] : queue[e][i] = n
      BY <1>1, <2>2 DEF PrefixInv, QueueIsSound, QueueIsSoundAt, TransferState
    <3>2. i \in DOMAIN queue'[e] /\ queue'[e][i] = n
      BY <1>5, <1>6, <3>1
    <3>3. QED
      BY <3>2
  <2>3. QED
    BY <2>1, <2>2
<1>11. \A n, o \in Migrations :
          transfers'[e][n].state = "COPYING" /\ transfers'[e][o].state = "COPYING" => n = o
  BY <1>1 DEF PrefixInv, QueueIsSound, QueueIsSoundAt, TransferState
<1>12. ASSUME NEW x \in Engines, x # e
       PROVE  QueueIsSoundAt(x)'
  <2>1. queue'[x] = queue[x] /\ queue[x] \in Seq(Migrations)
    BY <1>4, <1>12
  <2>2. \A n \in Migrations : transfers'[x][n] = transfers[x][n]
    BY <1>1, <1>12
  <2>3. QueueIsSoundAt(x)
    BY DEF PrefixInv, QueueIsSound
  <2>4. QED
    BY <2>1, <2>2, <2>3, QueueKept
<1>13. QueueIsSoundAt(e)'
  BY <1>8, <1>9, <1>10, <1>11 DEF QueueIsSoundAt, TransferState
<1>14. QED
  BY <1>3, <1>12, <1>13 DEF QueueIsSound

\* start_transfer (patch:1343-1411) reserves a row for a destination, none for a source.
LEMMA StartKeepsInv ==
    ASSUME PrefixInv, NEW e \in Engines, NEW role \in {"source", "destination"},
           NEW m \in Migrations, NEW a \in Agents, NEW epoch \in Epochs, NEW pair \in Pairs,
           start_transfer(e, role, m, a, epoch, pair)
    PROVE  PrefixInv'
<1>1. CASE TransferState(e, m) # "NONE"
  <2>1. UNCHANGED prefixVars
    BY <1>1 DEF start_transfer, prefixVars, pinVars, poolVars, transferVars
  <2>2. QED
    BY <2>1, NothingMoves
<1>2. CASE TransferState(e, m) = "NONE"
  <2> DEFINE t == [state |-> "QUEUED", role |-> role, agent |-> a, epoch |-> epoch,
                   pair |-> pair,
                   rows |-> IF role = "destination" THEN "blank" ELSE "none"]
  <2>1. /\ transfers' = [transfers EXCEPT ![e][m] = t]
        /\ queue' = [queue EXCEPT ![e] = Append(@, m)]
        /\ IF role = "destination" THEN AllocatesRow(e) ELSE UNCHANGED poolVars
        /\ UNCHANGED <<pinVars, groups>>
        /\ groups[e] # {}
    BY <1>2 DEF start_transfer, StartAllowed, StartChecks
  <2>2. t \in Transfers /\ transfers[e][m].rows = "none"
    BY <1>2, PrefixAssumption
    DEF Transfers, ActiveStates, Epochs, PrefixInv, Records, TransferState
  <2> HIDE DEF t
  <2>3. /\ transfers' \in [Engines -> [Migrations -> Transfers]]
        /\ transfers'[e][m] = t
        /\ \A x \in Engines, n \in Migrations :
              x # e \/ n # m => transfers'[x][n] = transfers[x][n]
        /\ \A x \in Engines : x # e => Reserved(x)' = Reserved(x)
        /\ t.rows # "none" => Cardinality(Reserved(e))' = Cardinality(Reserved(e)) + 1
        /\ t.rows = "none" => Reserved(e)' = Reserved(e)
    <3>1. Typed
      BY DEF PrefixInv
    <3>2. transfers' = [transfers EXCEPT ![e][m] = t]
      BY <2>1
    <3>3. t.rows # "none" => Cardinality(Reserved(e))' = Cardinality(Reserved(e)) + 1
      BY <2>2, <3>1, <3>2, ReservationAdded
    <3>4. t.rows = "none" => Reserved(e)' = Reserved(e)
      BY <2>2, <3>1, <3>2, ReservationKept
    <3>5. \A x \in Engines : x # e => Reserved(x)' = Reserved(x)
      BY <2>2, <3>1, <3>2, ReservedElsewhere
    <3>6. /\ transfers' \in [Engines -> [Migrations -> Transfers]]
          /\ transfers'[e][m] = t
          /\ \A x \in Engines, n \in Migrations :
                x # e \/ n # m => transfers'[x][n] = transfers[x][n]
      BY <2>2, <3>1, <3>2 DEF Typed
    <3>7. QED
      BY <3>3, <3>4, <3>5, <3>6
  <2>4. QueueIsSound' /\ queue' \in [Engines -> Seq(Migrations)]
    BY <1>2, <2>1, <2>2, QueueAppended DEF t
  <2>5. Records'
    BY <2>1, <2>3 DEF PrefixInv, Records, t
  <2>6. CASE role = "source"
    <3>1. t.rows = "none" /\ UNCHANGED <<cache, free>>
      BY <2>1, <2>6 DEF t, poolVars
    <3>2. \A x \in Engines : Rows(x)' = Rows(x)
      <4>1. \A x \in Engines : Residents(x)' = Residents(x)
        BY <3>1 DEF Residents, Resident
      <4>2. QED
        <5>1. Cardinality(Reserved(e))' = Cardinality(Reserved(e))
          BY <2>3, <3>1
        <5>2. QED
          BY <2>3, <3>1, <4>1, <5>1 DEF Rows
    <3>3. Typed' /\ PinnedRowsResident'
      BY <2>1, <2>3, <2>4, <3>1
      DEF PrefixInv, Typed, PinnedRowsResident, Pinned, Resident, pinVars
    <3>4. PoolAccounting'
      BY <3>2 DEF PrefixInv, PoolAccounting, Rows, Residents
    <3>5. QED
      BY <2>4, <2>5, <3>3, <3>4 DEF PrefixInv
  <2>7. CASE role = "destination"
    <3>1. /\ cache' \in [Engines -> [Agents -> Contents \cup {"absent"}]]
          /\ free' \in [Engines -> Nat]
          /\ \A x \in Engines : x # e => /\ free'[x] = free[x]
                                         /\ Residents(x)' = Residents(x)
          /\ free'[e] + Cardinality(Residents(e))'
                = free[e] + Cardinality(Residents(e)) - 1
          /\ \A x \in Engines, b \in Agents : Pinned(x, b) => Resident(x, b)'
      BY <2>1, <2>7, Allocates
    <3>2. \A x \in Engines : Rows(x)' = Rows(x)
      <4>1. t.rows = "blank"
        BY <2>7 DEF t
      <4>2. /\ Cardinality(Residents(e)) \in Nat /\ Cardinality(Reserved(e)) \in Nat
            /\ free[e] \in Nat /\ free'[e] \in Nat
        BY <3>1, Counts DEF PrefixInv, Typed
      <4>3. Cardinality(Residents(e))' \in Nat
        <5>1. Residents(e)' \subseteq Agents
          BY DEF Residents
        <5>2. QED
          BY <5>1, FS_Subset, FS_CardinalityType, PrefixAssumption
      <4>4. Rows(e)' = Rows(e)
        <5>1. Cardinality(Reserved(e))' = Cardinality(Reserved(e)) + 1
          BY <2>3, <4>1
        <5>2. QED
          BY <3>1, <4>2, <4>3, <5>1 DEF Rows
      <4>5. \A x \in Engines : x # e => Rows(x)' = Rows(x)
        BY <2>3, <3>1 DEF Rows
      <4>6. QED
        BY <4>4, <4>5
    <3>3. Typed' /\ PinnedRowsResident'
      BY <2>1, <2>3, <2>4, <3>1
      DEF PrefixInv, Typed, PinnedRowsResident, Pinned, pinVars
    <3>4. PoolAccounting'
      BY <3>2 DEF PrefixInv, PoolAccounting, Rows, Residents
    <3>5. QED
      BY <2>4, <2>5, <3>3, <3>4 DEF PrefixInv
  <2>8. QED
    BY <2>6, <2>7
<1>3. QED
  BY <1>1, <1>2

\* start_transfer_full: the eviction outlives the rollback (patch:1398-1407).
LEMMA FullKeepsInv ==
    ASSUME PrefixInv, NEW e \in Engines, NEW b \in Evictable(e),
           cache' = [cache EXCEPT ![e][b] = "absent"],
           free' = [free EXCEPT ![e] = @ + 1],
           UNCHANGED <<pinVars, transferVars, groups>>
    PROVE  PrefixInv'
<1>1. b \in Agents /\ Resident(e, b) /\ locks'[e][b] = 0
  BY DEF Evictable, pinVars
<1>2. /\ prefixes' \in [Engines -> [Agents -> 0..MaxEpoch]]
      /\ locks' \in [Engines -> [Agents -> Nat]]
      /\ \A x \in Engines, c \in Agents : Pinned(x, c)' =>
            Pinned(x, c) /\ locks'[x][c] = locks[x][c]
  BY DEF PrefixInv, Typed, Pinned, pinVars
<1>3. QED
  BY <1>1, <1>2, EvictionKeepsInv

\* A turn computes a prefix on rows that were free.
LEMMA PrefillKeepsInv ==
    ASSUME PrefixInv, NEW e \in Engines, NEW a \in Agents, prefill(e, a)
    PROVE  PrefixInv'
<1>1. /\ ~Resident(e, a) /\ "own" \in Contents /\ free[e] > 0
      /\ cache' = [cache EXCEPT ![e][a] = "own"]
      /\ free' = [free EXCEPT ![e] = @ - 1]
      /\ UNCHANGED <<pinVars, transferVars, groups>>
  BY DEF prefill, Contents
<1>2. /\ Cardinality(Residents(e))' = Cardinality(Residents(e)) + 1
      /\ \A x \in Engines : x # e => Residents(x)' = Residents(x)
      /\ cache' \in [Engines -> [Agents -> Contents \cup {"absent"}]]
      /\ \A b \in Agents : Resident(e, b)' <=> Resident(e, b) \/ b = a
  BY <1>1, RowsAdded DEF PrefixInv
<1>3. Typed'
  BY <1>1, <1>2 DEF PrefixInv, Typed, pinVars, transferVars
<1>4. \A x \in Engines, c \in Agents : x # e => Resident(x, c)' = Resident(x, c)
  BY <1>1 DEF PrefixInv, Typed, Resident
<1>5. PinnedRowsResident'
  BY <1>1, <1>2, <1>4 DEF PrefixInv, PinnedRowsResident, Pinned, pinVars
<1>6. \A x \in Engines : Rows(x)' = Rows(x)
  <2>1. /\ free'[e] = free[e] - 1
        /\ \A x \in Engines : x # e => free'[x] = free[x]
    BY <1>1 DEF PrefixInv, Typed
  <2>2. QED
    BY <1>1, <1>2, <2>1, FreeAndResident DEF PrefixInv, transferVars
<1>7. QED
  BY <1>1, <1>3, <1>5, <1>6, TransfersKept

-----------------------------------------------------------------------------
(* The life of a transfer. *)

\* The moves of a record after it has left the queue.
Finishes(t, u) ==
    /\ \/ t.state = "COPYING" /\ u.state \in {"COPY_DONE"} \cup TerminalStates
       \/ t.state = "COPY_DONE" /\ u.state \in TerminalStates
       \/ t.state \in TerminalStates /\ u.state = "NONE" /\ u.rows = "none"
    /\ u.state # "NONE" => u.agent = t.agent
    /\ u.state = "COPY_DONE" => u.rows \in Contents

\* A step that makes no other move.
OnlyFinishes ==
    \A x \in Engines, n \in Migrations :
       transfers'[x][n] = transfers[x][n] \/ Finishes(transfers[x][n], transfers'[x][n])

\* Such moves keep what is said of records and queues.
LEMMA FinishingKeepsRecords ==
    ASSUME PrefixInv, UNCHANGED <<queue, groups>>, OnlyFinishes
    PROVE  Records' /\ QueueIsSound'
<1>1. Records'
  <2> SUFFICES ASSUME NEW x \in Engines, NEW n \in Migrations
               PROVE  LET t == transfers'[x][n] IN
                      /\ t.state # "NONE" => t.agent \in Agents /\ groups'[x] # {}
                      /\ t.state = "NONE" => t.rows = "none"
                      /\ t.state \in {"QUEUED", "COPYING"} /\ t.role = "destination"
                            => t.rows = "blank"
                      /\ t.state = "COPY_DONE" => t.rows \in Contents
    BY DEF Records
  <2>1. CASE transfers'[x][n] = transfers[x][n]
    BY <2>1 DEF PrefixInv, Records
  <2>2. CASE Finishes(transfers[x][n], transfers'[x][n])
    BY <2>2 DEF PrefixInv, Records, Finishes, TerminalStates
  <2>3. QED
    BY <2>1, <2>2 DEF OnlyFinishes
<1>2. ASSUME NEW x \in Engines PROVE QueueIsSoundAt(x)'
  <2>1. QueueIsSoundAt(x) /\ queue'[x] = queue[x] /\ queue[x] \in Seq(Migrations)
    BY DEF PrefixInv, QueueIsSound, Typed
  <2>2. \A n \in Migrations :
           /\ (transfers'[x][n].state = "QUEUED") <=> (transfers[x][n].state = "QUEUED")
           /\ transfers'[x][n].state = "COPYING" => transfers[x][n].state = "COPYING"
    BY DEF OnlyFinishes, Finishes, TerminalStates
  <2>3. QED
    BY <2>1, <2>2, QueueKept
<1>3. QED
  BY <1>1, <1>2 DEF QueueIsSound

\* One record moves on, and its engine's rows are accounted for.
LEMMA RecordFinishes ==
    ASSUME PrefixInv, NEW e \in Engines, NEW m \in Migrations, NEW t \in Transfers,
           transfers' = [transfers EXCEPT ![e][m] = t],
           Finishes(transfers[e][m], t), UNCHANGED <<queue, groups>>,
           prefixes' \in [Engines -> [Agents -> 0..MaxEpoch]],
           locks' \in [Engines -> [Agents -> Nat]],
           cache' \in [Engines -> [Agents -> Contents \cup {"absent"}]],
           free' \in [Engines -> Nat],
           PinnedRowsResident', \A x \in Engines : Rows(x)' = Rows(x)
    PROVE  PrefixInv' /\ OnlyFinishes
<1>1. /\ transfers' \in [Engines -> [Migrations -> Transfers]]
      /\ transfers'[e][m] = t
      /\ \A x \in Engines, n \in Migrations :
            x # e \/ n # m => transfers'[x][n] = transfers[x][n]
  BY DEF PrefixInv, Typed
<1>2. OnlyFinishes
  BY <1>1 DEF OnlyFinishes
<1>5. Records' /\ QueueIsSound'
  BY <1>2, FinishingKeepsRecords
<1>3. Typed' /\ PoolAccounting'
  BY <1>1 DEF PrefixInv, Typed, PoolAccounting, Rows, Residents
<1>4. QED
  BY <1>2, <1>3, <1>5 DEF PrefixInv

\* Nor does a step change rows that changes records but not what they hold.
LEMMA RowsKept ==
    ASSUME UNCHANGED poolVars,
           \A x \in Engines, n \in Migrations :
              (transfers'[x][n].rows # "none") <=> (transfers[x][n].rows # "none")
    PROVE  \A x \in Engines : Rows(x)' = Rows(x)
<1>1. \A x \in Engines : Residents(x)' = Residents(x) /\ Reserved(x)' = Reserved(x)
  BY DEF Residents, Resident, Reserved, poolVars
<1>2. QED
  BY <1>1 DEF Rows, poolVars

\* The worker's get (patch:1284-1289): the oldest id leaves the queue.
LEMMA TakeKeepsInv ==
    ASSUME PrefixInv, NEW e \in Engines, worker_take(e)
    PROVE  PrefixInv'
<1> DEFINE q == queue[e]
           m == Head(queue[e])
<1>1. /\ q \in Seq(Migrations) /\ q # <<>> /\ QueueIsSoundAt(e)
      /\ \A n \in Migrations : TransferState(e, n) # "COPYING"
  BY DEF PrefixInv, Typed, QueueIsSound, worker_take, Working
<1>2. /\ m \in Migrations /\ Len(q) \in Nat \ {0} /\ DOMAIN q = 1..Len(q)
      /\ m = q[1] /\ 1 \in DOMAIN q /\ Tail(q) \in Seq(Migrations)
      /\ DOMAIN Tail(q) = 1..(Len(q) - 1)
      /\ \A i \in 1..(Len(q) - 1) : Tail(q)[i] = q[i + 1] /\ i + 1 \in DOMAIN q
  <2>1. /\ m \in Migrations /\ m = q[1] /\ Tail(q) \in Seq(Migrations)
        /\ Len(Tail(q)) = Len(q) - 1
        /\ \A i \in 1..Len(Tail(q)) : Tail(q)[i] = q[i + 1]
    BY <1>1, HeadTailProperties
  <2>2. Len(q) \in Nat \ {0} /\ DOMAIN q = 1..Len(q) /\ 1 \in DOMAIN q
    BY <1>1, EmptySeq
  <2>3. DOMAIN Tail(q) = 1..(Len(q) - 1)
    BY <2>1
  <2>4. \A i \in 1..(Len(q) - 1) : i + 1 \in DOMAIN q
    BY <2>2
  <2>5. QED
    BY <2>1, <2>2, <2>3, <2>4
<1>3. TransferState(e, m) = "QUEUED"
  <2>1. \A i \in DOMAIN q : TransferState(e, q[i]) = "QUEUED"
    BY <1>1 DEF QueueIsSoundAt
  <2>2. QED
    BY <1>2, <2>1
<1>once. \A i, j \in 1..Len(q) : q[i] = q[j] => i = j
  <2>1. \A i, j \in DOMAIN q : q[i] = q[j] => i = j
    BY <1>1 DEF QueueIsSoundAt
  <2>2. QED
    BY <1>2, <2>1
<1> HIDE DEF m
<1>4. /\ transfers' \in [Engines -> [Migrations -> Transfers]]
      /\ transfers'[e][m] = [transfers[e][m] EXCEPT !.state = "COPYING"]
      /\ \A x \in Engines, n \in Migrations :
            x # e \/ n # m => transfers'[x][n] = transfers[x][n]
  <2> DEFINE t == [transfers[e][m] EXCEPT !.state = "COPYING"]
  <2>1. transfers' = [transfers EXCEPT ![e][m].state = "COPYING"]
    BY DEF worker_take, m, q
  <2>2. "COPYING" \in ActiveStates \cup TerminalStates /\ Typed
    BY DEF ActiveStates, PrefixInv
  <2>3. t \in Transfers /\ transfers' = [transfers EXCEPT ![e][m] = t]
    BY <1>2, <2>1, <2>2, StateWritten
  <2> HIDE DEF t
  <2>4. /\ transfers' \in [Engines -> [Migrations -> Transfers]]
        /\ transfers'[e][m] = t
        /\ \A x \in Engines, n \in Migrations :
              x # e \/ n # m => transfers'[x][n] = transfers[x][n]
    BY <1>2, <2>2, <2>3 DEF Typed
  <2>5. QED
    BY <2>4 DEF t
<1>5. /\ queue' \in [Engines -> Seq(Migrations)] /\ queue'[e] = Tail(q)
      /\ \A x \in Engines : x # e => queue'[x] = queue[x]
  BY <1>2 DEF PrefixInv, Typed, worker_take
<1> HIDE DEF q
<1>6. transfers[e][m] \in Transfers
  BY <1>2 DEF PrefixInv, Typed
<1>7. /\ transfers'[e][m].state = "COPYING" /\ transfers'[e][m].role = transfers[e][m].role
      /\ transfers'[e][m].rows = transfers[e][m].rows
      /\ transfers'[e][m].agent = transfers[e][m].agent
  BY <1>4, <1>6 DEF Transfers
<1>8. UNCHANGED <<pinVars, poolVars, groups>>
  BY DEF worker_take
<1>9. Typed' /\ PinnedRowsResident'
  BY <1>4, <1>5, <1>8 DEF PrefixInv, Typed, PinnedRowsResident, Pinned, Resident, pinVars,
                          poolVars
<1>10. PoolAccounting'
  <2>1. \A x \in Engines, n \in Migrations :
           (transfers'[x][n].rows # "none") <=> (transfers[x][n].rows # "none")
    BY <1>4, <1>7
  <2>2. QED
    BY <1>8, <2>1, RowsKept DEF PrefixInv, PoolAccounting, Rows, Residents
<1>11. Records'
  <2> SUFFICES ASSUME NEW x \in Engines, NEW n \in Migrations
               PROVE  LET t == transfers'[x][n] IN
                      /\ t.state # "NONE" => t.agent \in Agents /\ groups'[x] # {}
                      /\ t.state = "NONE" => t.rows = "none"
                      /\ t.state \in {"QUEUED", "COPYING"} /\ t.role = "destination"
                            => t.rows = "blank"
                      /\ t.state = "COPY_DONE" => t.rows \in Contents
    BY DEF Records
  <2>1. CASE x = e /\ n = m
    BY <1>2, <1>3, <1>7, <1>8, <2>1 DEF PrefixInv, Records, TransferState
  <2>2. CASE x # e \/ n # m
    BY <1>4, <1>8, <2>2 DEF PrefixInv, Records
  <2>3. QED
    BY <2>1, <2>2
<1>12. QueueIsSoundAt(e)'
  <2>1. \A i, j \in DOMAIN queue'[e] : queue'[e][i] = queue'[e][j] => i = j
    BY <1>2, <1>5, <1>once
  <2>2. \A i \in DOMAIN queue'[e] :
           queue'[e][i] \in Migrations /\ queue'[e][i] # m
    BY <1>2, <1>5, <1>once
  <2>3. \A i \in DOMAIN queue'[e] : transfers'[e][queue'[e][i]].state = "QUEUED"
    BY <1>1, <1>2, <1>4, <1>5, <2>2 DEF QueueIsSoundAt, TransferState, q
  <2>4. \A n \in Migrations : transfers'[e][n].state = "QUEUED" =>
           \E i \in DOMAIN queue'[e] : queue'[e][i] = n
    <3> SUFFICES ASSUME NEW n \in Migrations, transfers'[e][n].state = "QUEUED"
                 PROVE  \E i \in DOMAIN queue'[e] : queue'[e][i] = n
      OBVIOUS
    <3>1. n # m /\ TransferState(e, n) = "QUEUED"
      BY <1>4, <1>7 DEF TransferState
    <3>2. PICK i \in DOMAIN q : q[i] = n
      BY <1>1, <3>1 DEF QueueIsSoundAt, q
    <3>3. i - 1 \in 1..(Len(q) - 1) /\ i - 1 + 1 = i
      BY <1>2, <3>1, <3>2
    <3>4. i - 1 \in DOMAIN queue'[e] /\ queue'[e][i - 1] = n
      BY <1>2, <1>5, <3>2, <3>3
    <3>5. QED
      BY <3>4
  <2>5. \A n, o \in Migrations :
           transfers'[e][n].state = "COPYING" /\ transfers'[e][o].state = "COPYING"
              => n = o
    BY <1>1, <1>4 DEF TransferState
  <2>6. QED
    BY <2>1, <2>3, <2>4, <2>5 DEF QueueIsSoundAt, TransferState
<1>13. ASSUME NEW x \in Engines, x # e PROVE QueueIsSoundAt(x)'
  <2>1. QueueIsSoundAt(x) /\ queue'[x] = queue[x] /\ queue[x] \in Seq(Migrations)
    BY <1>5, <1>13 DEF PrefixInv, QueueIsSound, Typed
  <2>2. \A n \in Migrations : transfers'[x][n] = transfers[x][n]
    BY <1>4, <1>13
  <2>3. QED
    BY <2>1, <2>2, QueueKept
<1>14. QED
  BY <1>9, <1>10, <1>11, <1>12, <1>13 DEF PrefixInv, QueueIsSound

\* An exception in the worker (patch:1291-1301) leaves its reservation.
LEMMA CopyFailsKeepsInv ==
    ASSUME PrefixInv, NEW e \in Engines, NEW m \in Migrations, copy_fails(e, m)
    PROVE  PrefixInv' /\ OnlyFinishes
<1> DEFINE t == [transfers[e][m] EXCEPT !.state = "FAILED"]
<1>1. /\ Typed /\ "FAILED" \in ActiveStates \cup TerminalStates
      /\ transfers' = [transfers EXCEPT ![e][m].state = "FAILED"]
      /\ UNCHANGED <<pinVars, poolVars, queue, groups>>
      /\ transfers[e][m].state = "COPYING"
  BY DEF PrefixInv, copy_fails, TransferState, TerminalStates
<1>2. /\ t \in Transfers /\ transfers' = [transfers EXCEPT ![e][m] = t]
      /\ t.state = "FAILED" /\ t.rows = transfers[e][m].rows
      /\ t.agent = transfers[e][m].agent
  <2>1. t \in Transfers /\ transfers' = [transfers EXCEPT ![e][m] = t]
    BY <1>1, StateWritten
  <2>2. transfers[e][m] \in Transfers
    BY <1>1 DEF Typed
  <2>3. QED
    BY <2>1, <2>2 DEF Transfers
<1> HIDE DEF t
<1>3. Finishes(transfers[e][m], t)
  BY <1>1, <1>2 DEF Finishes, TerminalStates
<1>4. \A x \in Engines, n \in Migrations :
         (transfers'[x][n].rows # "none") <=> (transfers[x][n].rows # "none")
  BY <1>1, <1>2 DEF Typed
<1>5. \A x \in Engines : Rows(x)' = Rows(x)
  BY <1>1, <1>4, RowsKept
<1>6. /\ prefixes' \in [Engines -> [Agents -> 0..MaxEpoch]]
      /\ locks' \in [Engines -> [Agents -> Nat]]
      /\ cache' \in [Engines -> [Agents -> Contents \cup {"absent"}]]
      /\ free' \in [Engines -> Nat]
      /\ PinnedRowsResident'
  BY <1>1 DEF PrefixInv, Typed, PinnedRowsResident, Pinned, Resident, pinVars, poolVars
<1>7. QED
  BY <1>1, <1>2, <1>3, <1>5, <1>6, RecordFinishes

\* cleanup_transfer (patch:1490-1506) frees what the record still holds.
LEMMA CleanupKeepsInv ==
    ASSUME PrefixInv, NEW e \in Engines, NEW m \in Migrations, cleanup_transfer(e, m)
    PROVE  PrefixInv' /\ OnlyFinishes
<1>1. /\ transfers[e][m].state \in TerminalStates
      /\ free' = [free EXCEPT ![e] = IF m \in Reserved(e) THEN @ + 1 ELSE @]
      /\ transfers' = [transfers EXCEPT ![e][m] = NoTransfer]
      /\ UNCHANGED <<pinVars, cache, queue, groups>>
  BY DEF cleanup_transfer, CleanupAllowed, TransferState
<1>2. NoTransfer \in Transfers /\ Finishes(transfers[e][m], NoTransfer)
  BY <1>1, PrefixAssumption DEF NoTransfer, Transfers, Finishes
<1>3. /\ free' \in [Engines -> Nat] /\ free[e] \in Nat
      /\ free'[e] = IF transfers[e][m].rows # "none" THEN free[e] + 1 ELSE free[e]
      /\ \A x \in Engines : x # e => free'[x] = free[x]
  BY <1>1 DEF PrefixInv, Typed, Reserved
<1>4. /\ \A x \in Engines : x # e => Reserved(x)' = Reserved(x)
      /\ transfers[e][m].rows # "none" =>
            Cardinality(Reserved(e))' = Cardinality(Reserved(e)) - 1
      /\ transfers[e][m].rows = "none" => Reserved(e)' = Reserved(e)
  <2>1. Typed /\ NoTransfer.rows = "none"
    BY DEF PrefixInv, NoTransfer
  <2>2. transfers[e][m].rows # "none" =>
            Cardinality(Reserved(e))' = Cardinality(Reserved(e)) - 1
    BY <1>1, <1>2, <2>1, ReservationDropped
  <2>3. transfers[e][m].rows = "none" => Reserved(e)' = Reserved(e)
    BY <1>1, <1>2, <2>1, ReservationKept
  <2>4. \A x \in Engines : x # e => Reserved(x)' = Reserved(x)
    BY <1>1, <1>2, <2>1, ReservedElsewhere
  <2>5. QED
    BY <2>2, <2>3, <2>4
<1>5. \A x \in Engines : Residents(x)' = Residents(x)
  BY <1>1 DEF Residents, Resident
<1>6. \A x \in Engines : Rows(x)' = Rows(x)
  <2>1. Rows(e)' = Rows(e)
    <3>1. CASE transfers[e][m].rows # "none"
      BY <1>3, <1>4, <1>5, <3>1, Counts DEF Rows
    <3>2. CASE transfers[e][m].rows = "none"
      BY <1>3, <1>4, <1>5, <3>2 DEF Rows
    <3>3. QED
      BY <3>1, <3>2
  <2>2. \A x \in Engines : x # e => Rows(x)' = Rows(x)
    BY <1>3, <1>4, <1>5 DEF Rows
  <2>3. QED
    BY <2>1, <2>2
<1>7. /\ prefixes' \in [Engines -> [Agents -> 0..MaxEpoch]]
      /\ locks' \in [Engines -> [Agents -> Nat]]
      /\ cache' \in [Engines -> [Agents -> Contents \cup {"absent"}]]
      /\ PinnedRowsResident'
  BY <1>1 DEF PrefixInv, Typed, PinnedRowsResident, Pinned, Resident, pinVars
<1>8. QED
  BY <1>1, <1>2, <1>3, <1>6, <1>7, RecordFinishes

\* What the engine owes for copied rows passes from the record to the RadixCache, or
\* to the free rows.
LEMMA RowsHandedOver ==
    ASSUME PrefixInv, NEW e \in Engines, NEW m \in Migrations, NEW t \in Transfers,
           transfers' = [transfers EXCEPT ![e][m] = t],
           transfers[e][m].rows # "none", t.rows = "none", NEW a \in Agents,
           \/ /\ ~Resident(e, a)
              /\ cache' = [cache EXCEPT ![e][a] = transfers[e][m].rows]
              /\ transfers[e][m].rows \in Contents
              /\ UNCHANGED free
           \/ free' = [free EXCEPT ![e] = @ + 1] /\ UNCHANGED cache
    PROVE  /\ cache' \in [Engines -> [Agents -> Contents \cup {"absent"}]]
           /\ free' \in [Engines -> Nat]
           /\ \A x \in Engines : Rows(x)' = Rows(x)
           /\ \A x \in Engines, b \in Agents : Resident(x, b) => Resident(x, b)'
<1>1. Typed
  BY DEF PrefixInv
<1>2. \A x \in Engines : x # e => Reserved(x)' = Reserved(x)
  BY <1>1, ReservedElsewhere
<1>3. Cardinality(Reserved(e))' = Cardinality(Reserved(e)) - 1
  BY <1>1, ReservationDropped
<1>4. CASE free' = [free EXCEPT ![e] = @ + 1] /\ UNCHANGED cache
  <2>1. \A x \in Engines : Residents(x)' = Residents(x)
    BY <1>4 DEF Residents, Resident
  <2>2. /\ free' \in [Engines -> Nat] /\ free[e] \in Nat /\ free'[e] = free[e] + 1
        /\ \A x \in Engines : x # e => free'[x] = free[x]
    BY <1>1, <1>4 DEF Typed
  <2>3. Rows(e)' = Rows(e)
    BY <1>3, <2>1, <2>2, Counts DEF Rows
  <2>4. \A x \in Engines : x # e => Rows(x)' = Rows(x)
    BY <1>2, <2>1, <2>2 DEF Rows
  <2>5. QED
    BY <1>1, <1>4, <2>2, <2>3, <2>4 DEF Typed, Resident
<1>5. CASE /\ ~Resident(e, a)
           /\ cache' = [cache EXCEPT ![e][a] = transfers[e][m].rows]
           /\ transfers[e][m].rows \in Contents
           /\ UNCHANGED free
  <2>1. /\ Cardinality(Residents(e))' = Cardinality(Residents(e)) + 1
        /\ \A x \in Engines : x # e => Residents(x)' = Residents(x)
        /\ cache' \in [Engines -> [Agents -> Contents \cup {"absent"}]]
        /\ \A b \in Agents : Resident(e, b)' <=> Resident(e, b) \/ b = a
    BY <1>1, <1>5, RowsAdded
  <2>2. Rows(e)' = Rows(e)
    <3>1. free[e] \in Nat /\ free'[e] = free[e]
      BY <1>1, <1>5 DEF Typed
    <3>2. QED
      BY <1>3, <2>1, <3>1, Counts DEF Rows
  <2>3. \A x \in Engines : x # e => Rows(x)' = Rows(x)
    BY <1>2, <1>5, <2>1 DEF Rows
  <2>4. \A x \in Engines, b \in Agents : x # e => Resident(x, b)' = Resident(x, b)
    BY <1>1, <1>5 DEF Typed, Resident
  <2>5. free' \in [Engines -> Nat] /\ cache' \in [Engines -> [Agents -> Contents \cup {"absent"}]]
    BY <1>1, <1>5, <2>1 DEF Typed
  <2>6. \A x \in Engines : Rows(x)' = Rows(x)
    BY <2>2, <2>3
  <2>7. \A x \in Engines, b \in Agents : Resident(x, b) => Resident(x, b)'
    BY <2>1, <2>4
  <2>8. QED
    BY <2>5, <2>6, <2>7
<1>6. QED
  BY <1>4, <1>5

\* install_fails (patch:1438-1484) pins nothing, and takes no lock away.
LEMMA InstallFailsKeepsInv ==
    ASSUME PrefixInv, NEW e \in Engines, NEW m \in Migrations, install_fails(e, m)
    PROVE  PrefixInv' /\ OnlyFinishes
<1> DEFINE t == [transfers[e][m] EXCEPT !.state = "FAILED", !.rows = "none"]
           a == transfers[e][m].agent
<1>1. /\ transfers[e][m].state = "COPY_DONE"
      /\ \/ /\ ~Resident(e, a)
            /\ cache' = [cache EXCEPT ![e][a] = transfers[e][m].rows]
            /\ UNCHANGED free
         \/ free' = [free EXCEPT ![e] = @ + 1] /\ UNCHANGED cache
      /\ \/ UNCHANGED locks
         \/ locks' = [locks EXCEPT ![e][a] = @ + 1]
      /\ transfers' = [transfers EXCEPT ![e][m] = t]
      /\ UNCHANGED <<prefixes, queue, groups>>
  BY DEF install_fails, TransferState
<1>2. transfers[e][m] \in Transfers /\ a \in Agents /\ transfers[e][m].rows \in Contents
  BY <1>1 DEF PrefixInv, Typed, Records
<1>3. /\ t \in Transfers /\ t.state = "FAILED" /\ t.rows = "none" /\ t.agent = a
      /\ transfers[e][m].rows # "none"
  BY <1>2 DEF Transfers, TerminalStates, Contents
<1> HIDE DEF t, a
<1>4. Finishes(transfers[e][m], t)
  BY <1>1, <1>3 DEF Finishes, TerminalStates, a
<1>5. /\ cache' \in [Engines -> [Agents -> Contents \cup {"absent"}]]
      /\ free' \in [Engines -> Nat]
      /\ \A x \in Engines : Rows(x)' = Rows(x)
      /\ \A x \in Engines, b \in Agents : Resident(x, b) => Resident(x, b)'
  BY <1>1, <1>2, <1>3, RowsHandedOver
<1>6. /\ locks' \in [Engines -> [Agents -> Nat]]
      /\ \A x \in Engines, b \in Agents : locks'[x][b] >= locks[x][b]
  <2>1. locks \in [Engines -> [Agents -> Nat]]
    BY DEF PrefixInv, Typed
  <2>2. CASE UNCHANGED locks
    BY <2>1, <2>2
  <2>3. CASE locks' = [locks EXCEPT ![e][a] = @ + 1]
    BY <1>2, <2>1, <2>3
  <2>4. QED
    BY <1>1, <2>2, <2>3
<1>7. /\ prefixes' \in [Engines -> [Agents -> 0..MaxEpoch]]
      /\ PinnedRowsResident'
  BY <1>1, <1>5, <1>6 DEF PrefixInv, Typed, PinnedRowsResident, Pinned
<1>8. QED
  BY <1>1, <1>3, <1>4, <1>5, <1>6, <1>7, RecordFinishes

\* poll_transfer (patch:1463-1488) pins what it installs.
LEMMA PollKeepsInv ==
    ASSUME PrefixInv, NEW e \in Engines, NEW m \in Migrations, poll_transfer(e, m)
    PROVE  PrefixInv' /\ OnlyFinishes
<1>1. CASE TransferState(e, m) # "COPY_DONE"
  <2>1. UNCHANGED prefixVars
    BY <1>1 DEF poll_transfer, prefixVars, pinVars, poolVars
  <2>2. QED
    BY <2>1, NothingMoves DEF OnlyFinishes, prefixVars
<1>2. CASE TransferState(e, m) = "COPY_DONE"
  <2> DEFINE t == [transfers[e][m] EXCEPT !.state = "COMPLETE", !.rows = "none"]
  <2>0. PICK a \in Agents : a = transfers[e][m].agent
    BY <1>2 DEF PrefixInv, Records, TransferState
  <2>1. /\ transfers[e][m].state = "COPY_DONE"
        /\ \/ /\ ~Resident(e, a)
              /\ cache' = [cache EXCEPT ![e][a] = transfers[e][m].rows]
              /\ UNCHANGED free
           \/ /\ Resident(e, a)
              /\ free' = [free EXCEPT ![e] = @ + 1] /\ UNCHANGED cache
        /\ transfers' = [transfers EXCEPT ![e][m] = t]
        /\ locks' = [locks EXCEPT ![e][a] = @ + 1]
        /\ prefixes' = [prefixes EXCEPT ![e][a] = transfers[e][m].epoch]
        /\ UNCHANGED <<queue, groups>>
    BY <1>2, <2>0 DEF poll_transfer, install, TransferState
  <2>2. transfers[e][m] \in Transfers /\ transfers[e][m].rows \in Contents
    BY <2>1 DEF PrefixInv, Typed, Records
  <2>3. /\ t \in Transfers /\ t.state = "COMPLETE" /\ t.rows = "none" /\ t.agent = a
        /\ transfers[e][m].rows # "none" /\ transfers[e][m].epoch \in 0..MaxEpoch
    BY <2>0, <2>2 DEF Transfers, TerminalStates, Contents
  <2> HIDE DEF t
  <2>4. Finishes(transfers[e][m], t)
    BY <2>0, <2>1, <2>3 DEF Finishes, TerminalStates
  <2>5. /\ cache' \in [Engines -> [Agents -> Contents \cup {"absent"}]]
        /\ free' \in [Engines -> Nat]
        /\ \A x \in Engines : Rows(x)' = Rows(x)
        /\ \A x \in Engines, b \in Agents : Resident(x, b) => Resident(x, b)'
    BY <2>1, <2>2, <2>3, RowsHandedOver
  <2>6. Resident(e, a)'
    <3>1. CASE Resident(e, a)
      BY <2>2, <2>5, <3>1
    <3>2. CASE ~Resident(e, a)
      <4>1. cache' = [cache EXCEPT ![e][a] = transfers[e][m].rows]
        BY <2>1, <3>2
      <4>2. cache'[e][a] = transfers[e][m].rows
        BY <2>2, <4>1 DEF PrefixInv, Typed
      <4>3. QED
        BY <2>2, <4>2 DEF Resident, Contents
    <3>3. QED
      BY <3>1, <3>2
  <2>7. /\ prefixes' \in [Engines -> [Agents -> 0..MaxEpoch]]
        /\ locks' \in [Engines -> [Agents -> Nat]] /\ locks'[e][a] > 0
        /\ \A x \in Engines, b \in Agents : x # e \/ b # a =>
              prefixes'[x][b] = prefixes[x][b] /\ locks'[x][b] = locks[x][b]
    BY <2>1, <2>2, <2>3 DEF PrefixInv, Typed
  <2>8. PinnedRowsResident'
    <3> SUFFICES ASSUME NEW x \in Engines, NEW b \in Agents, prefixes'[x][b] # 0
                 PROVE  Resident(x, b)' /\ locks'[x][b] > 0
      BY DEF PinnedRowsResident, Pinned
    <3>1. CASE x = e /\ b = a
      BY <2>6, <2>7, <3>1
    <3>2. CASE x # e \/ b # a
      <4>1. prefixes[x][b] # 0 /\ locks'[x][b] = locks[x][b]
        BY <2>7, <3>2
      <4>2. Resident(x, b) /\ locks[x][b] > 0
        BY <4>1 DEF PrefixInv, PinnedRowsResident, Pinned
      <4>3. QED
        BY <2>5, <4>1, <4>2
    <3>3. QED
      BY <3>1, <3>2
  <2>9. QED
    BY <2>1, <2>3, <2>4, <2>5, <2>7, <2>8, RecordFinishes
<1>3. QED
  BY <1>1, <1>2

\* A matched send and receive (patch:1312-1341) moves two records, of two engines.
LEMMA CopyKeepsInv ==
    ASSUME PrefixInv, NEW s \in Engines, NEW d \in Engines, s # d,
           NEW m \in Migrations, NEW n \in Migrations, copy_kv(s, d, m, n)
    PROVE  PrefixInv' /\ OnlyFinishes
<1> DEFINE rows == IF /\ transfers[s][m].agent = transfers[d][n].agent
                      /\ cache[s][transfers[s][m].agent] = "own"
                   THEN "own" ELSE "other"
           u == [transfers[s][m] EXCEPT !.state = "COMPLETE"]
           v == [transfers[d][n] EXCEPT !.state = "COPY_DONE", !.rows = rows]
<1>1. /\ transfers[s][m].state = "COPYING"
      /\ transfers[d][n].state = "COPYING" /\ transfers[d][n].role = "destination"
      /\ transfers' = [transfers EXCEPT ![s][m].state = "COMPLETE",
             ![d][n] = [@ EXCEPT !.state = "COPY_DONE", !.rows = rows]]
      /\ UNCHANGED <<pinVars, poolVars, queue, groups>>
  BY DEF copy_kv, AtWorker, TransferState
<1>2. transfers[s][m] \in Transfers /\ transfers[d][n] \in Transfers /\ rows \in Contents
  BY DEF PrefixInv, Typed, Contents
<1>3. transfers[d][n].rows = "blank"
  BY <1>1 DEF PrefixInv, Records
<1> HIDE DEF rows
<1>4. /\ u \in Transfers /\ u.state = "COMPLETE" /\ u.rows = transfers[s][m].rows
      /\ u.agent = transfers[s][m].agent
  BY <1>2 DEF Transfers, TerminalStates
<1>5. /\ v \in Transfers /\ v.state = "COPY_DONE" /\ v.rows = rows
      /\ v.agent = transfers[d][n].agent
  BY <1>2, ZenonT(60) DEF Transfers, ActiveStates, Contents
<1>6. /\ transfers'[s][m] = u /\ transfers'[d][n] = v
      /\ \A x \in Engines, o \in Migrations :
            ~(x = s /\ o = m) /\ ~(x = d /\ o = n) => transfers'[x][o] = transfers[x][o]
      /\ DOMAIN transfers' = Engines
      /\ transfers' = [x \in Engines |-> transfers'[x]]
      /\ \A x \in Engines : /\ DOMAIN transfers'[x] = Migrations
                             /\ transfers'[x] = [o \in Migrations |-> transfers'[x][o]]
  BY <1>1 DEF PrefixInv, Typed
<1> HIDE DEF u, v
<1>7. transfers' \in [Engines -> [Migrations -> Transfers]]
  <2>1. \A x \in Engines, o \in Migrations : transfers'[x][o] \in Transfers
    <3> SUFFICES ASSUME NEW x \in Engines, NEW o \in Migrations
                 PROVE  transfers'[x][o] \in Transfers
      OBVIOUS
    <3>1. CASE x = s /\ o = m
      BY <1>4, <1>6, <3>1
    <3>2. CASE x = d /\ o = n
      BY <1>5, <1>6, <3>2
    <3>3. CASE ~(x = s /\ o = m) /\ ~(x = d /\ o = n)
      BY <1>6, <3>3 DEF PrefixInv, Typed
    <3>4. QED
      BY <3>1, <3>2, <3>3
  <2>2. QED
    BY <1>6, <2>1
<1>8. Finishes(transfers[s][m], u) /\ Finishes(transfers[d][n], v)
  BY <1>1, <1>2, <1>4, <1>5 DEF Finishes, TerminalStates
<1>9. OnlyFinishes
  <2> SUFFICES ASSUME NEW x \in Engines, NEW o \in Migrations
               PROVE  \/ transfers'[x][o] = transfers[x][o]
                      \/ Finishes(transfers[x][o], transfers'[x][o])
    BY DEF OnlyFinishes
  <2>1. CASE x = s /\ o = m
    BY <1>6, <1>8, <2>1
  <2>2. CASE x = d /\ o = n
    BY <1>6, <1>8, <2>2
  <2>3. QED
    BY <1>6, <2>1, <2>2
<1>10. \A x \in Engines, o \in Migrations :
          (transfers'[x][o].rows # "none") <=> (transfers[x][o].rows # "none")
  BY <1>2, <1>3, <1>4, <1>5, <1>6 DEF Contents
<1>11. \A x \in Engines : Rows(x)' = Rows(x)
  BY <1>1, <1>10, RowsKept
<1>12. Typed' /\ PinnedRowsResident'
  BY <1>1, <1>7 DEF PrefixInv, Typed, PinnedRowsResident, Pinned, Resident, pinVars, poolVars
<1>13. PoolAccounting'
  BY <1>11 DEF PrefixInv, PoolAccounting, Rows, Residents
<1>14. QED
  BY <1>1, <1>9, <1>12, <1>13, FinishingKeepsRecords DEF PrefixInv

-----------------------------------------------------------------------------
(* Flushes and restarts. *)

\* All rows of the engine are free again; no other engine notices.
LEMMA ResetFreesAll ==
    ASSUME PrefixInv, NEW e \in Engines, ResetsTables(e)
    PROVE  /\ prefixes' \in [Engines -> [Agents -> 0..MaxEpoch]]
           /\ locks' \in [Engines -> [Agents -> Nat]]
           /\ cache' \in [Engines -> [Agents -> Contents \cup {"absent"}]]
           /\ free' \in [Engines -> Nat]
           /\ transfers' \in [Engines -> [Migrations -> Transfers]]
           /\ \A m \in Migrations : transfers'[e][m] = NoTransfer
           /\ \A x \in Engines : x # e => transfers'[x] = transfers[x]
           /\ PinnedRowsResident' /\ PoolAccounting'
<1>1. NoTransfer \in Transfers /\ NoTransfer.rows = "none"
  BY PrefixAssumption DEF NoTransfer, Transfers
<1>2. /\ transfers' \in [Engines -> [Migrations -> Transfers]]
      /\ \A m \in Migrations : transfers'[e][m] = NoTransfer
      /\ \A x \in Engines : x # e => transfers'[x] = transfers[x]
  BY <1>1 DEF PrefixInv, Typed, ResetsTables, ResetsPool
<1>3. /\ prefixes' \in [Engines -> [Agents -> 0..MaxEpoch]]
      /\ locks' \in [Engines -> [Agents -> Nat]]
      /\ \A a \in Agents : prefixes'[e][a] = 0
      /\ \A x \in Engines : x # e => prefixes'[x] = prefixes[x] /\ locks'[x] = locks[x]
  BY PrefixAssumption DEF PrefixInv, Typed, ResetsTables, ResetsPool
<1>4. /\ cache' \in [Engines -> [Agents -> Contents \cup {"absent"}]]
      /\ free' \in [Engines -> Nat] /\ free'[e] = Slots
      /\ \A a \in Agents : cache'[e][a] = "absent"
      /\ \A x \in Engines : x # e => cache'[x] = cache[x] /\ free'[x] = free[x]
  <2>1. Slots \in Nat
    BY PrefixAssumption
  <2>2. "absent" \in Contents \cup {"absent"}
    OBVIOUS
  <2>3. /\ cache' = [cache EXCEPT ![e] = [a \in Agents |-> "absent"]]
        /\ free' = [free EXCEPT ![e] = Slots]
        /\ cache \in [Engines -> [Agents -> Contents \cup {"absent"}]]
        /\ free \in [Engines -> Nat]
    BY DEF PrefixInv, Typed, ResetsTables, ResetsPool
  <2>4. free' \in [Engines -> Nat] /\ free'[e] = Slots
    BY <2>1, <2>3
  <2>5. [a \in Agents |-> "absent"] \in [Agents -> Contents \cup {"absent"}]
    BY <2>2
  <2>6. cache' \in [Engines -> [Agents -> Contents \cup {"absent"}]]
    BY <2>3, <2>5
  <2>7. /\ \A a \in Agents : cache'[e][a] = "absent"
        /\ \A x \in Engines : x # e => cache'[x] = cache[x] /\ free'[x] = free[x]
    BY <2>3
  <2>8. QED
    BY <2>4, <2>6, <2>7
<1>5. PinnedRowsResident'
  <2>1. \A a \in Agents : ~Pinned(e, a)'
    BY <1>3 DEF Pinned
  <2>2. ASSUME NEW x \in Engines, NEW a \in Agents, x # e, Pinned(x, a)'
        PROVE  Resident(x, a)' /\ locks'[x][a] > 0
    <3>1. Resident(x, a) /\ locks[x][a] > 0
      BY <1>3, <2>2 DEF PrefixInv, PinnedRowsResident, Pinned
    <3>2. QED
      BY <1>3, <1>4, <2>2, <3>1 DEF Resident
  <2>3. QED
    BY <2>1, <2>2 DEF PinnedRowsResident
<1>6. PoolAccounting'
  <2>1. Residents(e)' = {} /\ Reserved(e)' = {}
    BY <1>1, <1>2, <1>4 DEF Residents, Resident, Reserved
  <2>2. Rows(e)' = Slots
    BY <1>4, <2>1, FS_EmptySet, PrefixAssumption DEF Rows
  <2>3. \A x \in Engines : x # e => Rows(x)' = Rows(x)
    <3>1. \A x \in Engines : x # e => Residents(x)' = Residents(x) /\ Reserved(x)' = Reserved(x)
      BY <1>2, <1>4 DEF Residents, Resident, Reserved
    <3>2. QED
      BY <1>4, <3>1 DEF Rows
  <2>4. QED
    BY <2>2, <2>3 DEF PrefixInv, PoolAccounting, Rows, Residents
<1>7. QED
  BY <1>2, <1>3, <1>4, <1>5, <1>6

\* flush_cache (patch:441-453) happens while nothing is in the queue.
LEMMA FlushKeepsInv ==
    ASSUME PrefixInv, NEW e \in Engines, flush_cache(e)
    PROVE  PrefixInv'
<1>1. /\ ResetsTables(e) /\ UNCHANGED <<queue, groups>>
      /\ \A m \in Migrations : transfers[e][m].state \notin ActiveStates
  BY DEF flush_cache, ActiveTransfer, TransferState
<1>2. /\ \A m \in Migrations : transfers'[e][m] = NoTransfer
      /\ \A x \in Engines : x # e => transfers'[x] = transfers[x]
  BY <1>1, ResetFreesAll
<1>3. NoTransfer.state = "NONE" /\ NoTransfer.rows = "none"
  BY DEF NoTransfer
<1>4. Records'
  BY <1>1, <1>2, <1>3 DEF PrefixInv, Records
<1>5. ASSUME NEW x \in Engines PROVE QueueIsSoundAt(x)'
  <2>1. QueueIsSoundAt(x) /\ queue'[x] = queue[x] /\ queue[x] \in Seq(Migrations)
    BY <1>1 DEF PrefixInv, QueueIsSound, Typed
  <2>2. \A n \in Migrations :
           /\ (transfers'[x][n].state = "QUEUED") <=> (transfers[x][n].state = "QUEUED")
           /\ transfers'[x][n].state = "COPYING" => transfers[x][n].state = "COPYING"
    BY <1>1, <1>2, <1>3 DEF ActiveStates
  <2>3. QED
    BY <2>1, <2>2, QueueKept
<1>6. Typed'
  BY <1>1, ResetFreesAll DEF PrefixInv, Typed
<1>7. PoolAccounting' /\ PinnedRowsResident'
  BY <1>1, ResetFreesAll
<1>8. QED
  BY <1>4, <1>5, <1>6, <1>7 DEF PrefixInv, QueueIsSound

\* A restarted engine has an empty queue.
LEMMA RestartKeepsInv ==
    ASSUME PrefixInv, NEW e \in Engines, engine_restart(e)
    PROVE  PrefixInv'
<1>1. /\ ResetsTables(e)
      /\ queue' = [queue EXCEPT ![e] = <<>>]
      /\ groups' = [groups EXCEPT ![e] = {}]
  BY DEF engine_restart
<1>2. /\ \A m \in Migrations : transfers'[e][m] = NoTransfer
      /\ \A x \in Engines : x # e => transfers'[x] = transfers[x]
  BY <1>1, ResetFreesAll
<1>3. NoTransfer.state = "NONE" /\ NoTransfer.rows = "none"
  BY DEF NoTransfer
<1>4. /\ queue' \in [Engines -> Seq(Migrations)] /\ queue'[e] = <<>>
      /\ groups' \in [Engines -> SUBSET Pairs]
      /\ \A x \in Engines : x # e => queue'[x] = queue[x] /\ groups'[x] = groups[x]
  BY <1>1 DEF PrefixInv, Typed
<1>5. Records'
  <2> SUFFICES ASSUME NEW x \in Engines, NEW n \in Migrations
               PROVE  LET t == transfers'[x][n] IN
                      /\ t.state # "NONE" => t.agent \in Agents /\ groups'[x] # {}
                      /\ t.state = "NONE" => t.rows = "none"
                      /\ t.state \in {"QUEUED", "COPYING"} /\ t.role = "destination"
                            => t.rows = "blank"
                      /\ t.state = "COPY_DONE" => t.rows \in Contents
    BY DEF Records
  <2>1. CASE x = e
    BY <1>2, <1>3, <2>1
  <2>2. CASE x # e
    BY <1>2, <1>4, <2>2 DEF PrefixInv, Records
  <2>3. QED
    BY <2>1, <2>2
<1>6. ASSUME NEW x \in Engines PROVE QueueIsSoundAt(x)'
  <2>1. CASE x = e
    BY <1>2, <1>3, <1>4, <2>1 DEF QueueIsSoundAt, TransferState
  <2>2. CASE x # e
    <3>1. QueueIsSoundAt(x) /\ queue'[x] = queue[x] /\ queue[x] \in Seq(Migrations)
      BY <1>4, <2>2 DEF PrefixInv, QueueIsSound, Typed
    <3>2. \A n \in Migrations : transfers'[x][n] = transfers[x][n]
      BY <1>2, <2>2
    <3>3. QED
      BY <3>1, <3>2, QueueKept
  <2>3. QED
    BY <2>1, <2>2
<1>7. Typed'
  BY <1>1, <1>4, ResetFreesAll DEF PrefixInv, Typed
<1>8. PoolAccounting' /\ PinnedRowsResident'
  BY <1>1, ResetFreesAll
<1>9. QED
  BY <1>5, <1>6, <1>7, <1>8 DEF PrefixInv, QueueIsSound

-----------------------------------------------------------------------------
(* The invariant. *)

\* It holds of engines that have just started.
LEMMA PrefixInvInit == PrefixInit => PrefixInv
<1> SUFFICES ASSUME PrefixInit PROVE PrefixInv
  OBVIOUS
<1>1. NoTransfer \in Transfers /\ NoTransfer.state = "NONE" /\ NoTransfer.rows = "none"
  BY PrefixAssumption DEF NoTransfer, Transfers
<1>2. Typed
  BY <1>1, PrefixAssumption DEF PrefixInit, Typed
<1>3. Records
  BY <1>1 DEF PrefixInit, Records
<1>4. QueueIsSound
  BY <1>1 DEF PrefixInit, QueueIsSound, QueueIsSoundAt, TransferState
<1>5. PinnedRowsResident
  BY DEF PrefixInit, PinnedRowsResident, Pinned
<1>6. PoolAccounting
  <2> SUFFICES ASSUME NEW e \in Engines PROVE Rows(e) = Slots
    BY DEF PoolAccounting, Rows, Residents
  <2>1. Residents(e) = {} /\ Reserved(e) = {} /\ free[e] = Slots
    BY <1>1 DEF PrefixInit, Residents, Resident, Reserved
  <2>2. QED
    BY <2>1, FS_EmptySet, PrefixAssumption DEF Rows
<1>7. QED
  BY <1>2, <1>3, <1>4, <1>5, <1>6 DEF PrefixInv

\* Every call, worker step and engine event keeps it.
LEMMA PrefixInvStep == PrefixInv /\ [PrefixNext]_prefixVars => PrefixInv'
<1> SUFFICES ASSUME PrefixInv, [PrefixNext]_prefixVars PROVE PrefixInv'
  OBVIOUS
<1>1. CASE UNCHANGED prefixVars
  BY <1>1, NothingMoves
<1>2. ASSUME NEW e \in Engines, PinCalls(e) PROVE PrefixInv'
  BY <1>2, PinKeepsInv, PinFailsKeepsInv, ReleaseKeepsInv, RebindKeepsInv DEF PinCalls
<1>3. ASSUME NEW e \in Engines, TransferCalls(e) PROVE PrefixInv'
  <2>1. ASSUME NEW m \in Migrations, NEW a \in Agents, NEW epoch \in Epochs,
               NEW pair \in Pairs, start_transfer_full(e, m, a, epoch, pair)
        PROVE  PrefixInv'
    BY <2>1, FullKeepsInv DEF start_transfer_full
  <2>2. ASSUME NEW m \in Migrations, NEW a \in Agents, NEW epoch \in Epochs,
               NEW pair \in Pairs,
               \/ start_transfer(e, "source", m, a, epoch, pair)
               \/ start_transfer(e, "destination", m, a, epoch, pair)
        PROVE  PrefixInv'
    BY <2>2, StartKeepsInv
  <2>3. ASSUME NEW m \in Migrations,
               poll_transfer(e, m) \/ install_fails(e, m) \/ cleanup_transfer(e, m)
        PROVE  PrefixInv'
    BY <2>3, PollKeepsInv, InstallFailsKeepsInv, CleanupKeepsInv
  <2>4. QED
    BY <1>3, <2>1, <2>2, <2>3 DEF TransferCalls
<1>4. ASSUME NEW e \in Engines, EngineEvents(e) PROVE PrefixInv'
  <2>1. ASSUME NEW a \in Agents, evict(e, a) PROVE PrefixInv'
    BY <2>1, FullKeepsInv DEF evict
  <2>2. QED
    BY <1>4, <2>1, FlushKeepsInv, RestartKeepsInv, PrefillKeepsInv DEF EngineEvents
<1>5. ASSUME NEW p \in Pairs, init_transfer_group(p[1], p[2]) PROVE PrefixInv'
  BY <1>5, GroupKeepsInv
<1>6. ASSUME Workers PROVE PrefixInv'
  <2>1. ASSUME NEW p \in Pairs, NEW m \in Migrations, NEW n \in Migrations,
               copy_kv(p[1], p[2], m, n)
        PROVE  PrefixInv'
    <3>1. p[1] \in Engines /\ p[2] \in Engines /\ p[1] # p[2]
      BY PrefixAssumption
    <3>2. QED
      BY <2>1, <3>1, CopyKeepsInv
  <2>2. QED
    BY <1>6, <2>1, TakeKeepsInv, CopyFailsKeepsInv DEF Workers
<1>7. QED
  BY <1>1, <1>2, <1>3, <1>4, <1>5, <1>6 DEF PrefixNext

\* PrefixInv holds of every reachable state.
THEOREM PrefixInvariant == PrefixSpec => []PrefixInv
<1>1. QED
  BY PrefixInvInit, PrefixInvStep, PTL DEF PrefixSpec

\* The tables keep their types, and no engine ever has more free rows than rows: an
\* eviction, an install, a cleanup or a rollback frees no row twice.
THEOREM PrefixTypeCorrect == PrefixSpec => []PrefixTypeOK
<1>1. ASSUME PrefixInv PROVE PrefixTypeOK
  <2>1. Typed /\ PoolAccounting
    BY <1>1 DEF PrefixInv
  <2>2. ASSUME NEW e \in Engines PROVE free[e] \in 0..Slots
    <3>1. free[e] + Cardinality(Residents(e)) + Cardinality(Reserved(e)) = Slots
      BY <2>1 DEF PoolAccounting, Residents
    <3>2. free[e] \in Nat
      BY <2>1 DEF Typed
    <3>3. QED
      BY <3>1, <3>2, Counts, PrefixAssumption
  <2>3. QED
    BY <2>1, <2>2 DEF Typed, PrefixTypeOK
<1>2. QED
  BY <1>1, PrefixInvariant, PTL

\* No call loses a row or frees one twice (PoolAccounting).
THEOREM NoRowIsLost == PrefixSpec => []PoolAccounting
<1>1. PrefixInv => PoolAccounting
  BY DEF PrefixInv
<1>2. QED
  BY <1>1, PrefixInvariant, PTL

\* Nothing takes the rows of a pinned prefix (PinnedRowsResident).
THEOREM PinsHold == PrefixSpec => []PinnedRowsResident
<1>1. PrefixInv => PinnedRowsResident
  BY DEF PrefixInv
<1>2. QED
  BY <1>1, PrefixInvariant, PTL

\* The transfer queue and the table of transfers agree (QueueMatchesTable).
THEOREM QueueAgreesWithTable == PrefixSpec => []QueueMatchesTable
<1>1. ASSUME PrefixInv PROVE QueueMatchesTable
  <2> SUFFICES ASSUME NEW e \in Engines
               PROVE  /\ IsInjective(queue[e])
                      /\ ToSet(queue[e]) = {m \in Migrations : TransferState(e, m) = "QUEUED"}
                      /\ Cardinality({m \in Migrations : TransferState(e, m) = "COPYING"}) <= 1
    BY DEF QueueMatchesTable
  <2>1. QueueIsSoundAt(e) /\ queue[e] \in Seq(Migrations)
    BY <1>1 DEF PrefixInv, QueueIsSound, Typed
  <2>2. IsInjective(queue[e])
    BY <2>1 DEF IsInjective, QueueIsSoundAt
  <2>3. ToSet(queue[e]) = {m \in Migrations : TransferState(e, m) = "QUEUED"}
    <3>1. \A i \in DOMAIN queue[e] : queue[e][i] \in Migrations
      BY <2>1
    <3>2. QED
      BY <2>1, <3>1 DEF ToSet, QueueIsSoundAt
  <2>4. Cardinality({m \in Migrations : TransferState(e, m) = "COPYING"}) <= 1
    <3> DEFINE C == {m \in Migrations : TransferState(e, m) = "COPYING"}
    <3>1. CASE C = {}
      BY <3>1, FS_EmptySet
    <3>2. CASE C # {}
      <4>1. PICK m \in C : TRUE
        BY <3>2
      <4>2. C = {m}
        BY <2>1, <4>1 DEF QueueIsSoundAt
      <4>3. Cardinality(C) = 1
        BY <4>2, FS_Singleton
      <4>4. QED
        BY <4>3
    <3>3. QED
      BY <3>1, <3>2
  <2>5. QED
    BY <2>2, <2>3, <2>4
<1>2. QED
  BY <1>1, PrefixInvariant, PTL

-----------------------------------------------------------------------------
(* Transfers only move forward. *)

\* A record of engine e that is active stays, and does not go back.
Advances(e, m) ==
    /\ TransferState(e, m)' # "NONE"
    /\ Stage(TransferState(e, m)') >= Stage(TransferState(e, m))

\* What the order of the states is.
LEMMA Stages ==
    /\ Stage("QUEUED") = 0 /\ Stage("COPYING") = 1 /\ Stage("COPY_DONE") = 2
    /\ Stage("COMPLETE") = 3 /\ Stage("FAILED") = 3
BY DEF Stage

\* Steps that leave the record as it is.
LEMMA UnchangedAdvances ==
    ASSUME NEW e \in Engines, NEW m \in Migrations, ActiveTransfer(e, m),
           transfers'[e][m] = transfers[e][m]
    PROVE  Advances(e, m)
<1>1. /\ transfers[e][m].state \in {"QUEUED", "COPYING", "COPY_DONE"}
      /\ TransferState(e, m)' = TransferState(e, m)
  BY DEF ActiveTransfer, ActiveStates, TransferState
<1>2. QED
  BY <1>1, Stages DEF Advances, TransferState

\* Moves that finish an active record move it forward.
LEMMA FinishingAdvances ==
    ASSUME NEW e \in Engines, NEW m \in Migrations, ActiveTransfer(e, m), OnlyFinishes
    PROVE  Advances(e, m)
<1>1. CASE transfers'[e][m] = transfers[e][m]
  BY <1>1, UnchangedAdvances
<1>2. CASE Finishes(transfers[e][m], transfers'[e][m])
  <2>1. \/ /\ transfers[e][m].state = "COPYING"
           /\ transfers'[e][m].state \in {"COPY_DONE", "COMPLETE", "FAILED"}
        \/ /\ transfers[e][m].state = "COPY_DONE"
           /\ transfers'[e][m].state \in {"COMPLETE", "FAILED"}
    BY <1>2 DEF Finishes, ActiveTransfer, ActiveStates, TerminalStates, TransferState
  <2>2. QED
    BY <2>1, Stages DEF Advances, TransferState
<1>3. QED
  BY <1>1, <1>2 DEF OnlyFinishes

\* The worker moves one record forward.
LEMMA TakeAdvances ==
    ASSUME PrefixInv, NEW x \in Engines, worker_take(x),
           NEW e \in Engines, NEW m \in Migrations, ActiveTransfer(e, m)
    PROVE  Advances(e, m)
<1> DEFINE h == Head(queue[x])
<1>1. /\ queue[x] \in Seq(Migrations) /\ queue[x] # <<>> /\ QueueIsSoundAt(x)
      /\ transfers' = [transfers EXCEPT ![x][h].state = "COPYING"]
  BY DEF PrefixInv, Typed, QueueIsSound, worker_take
<1>2. h \in Migrations /\ h = queue[x][1] /\ 1 \in DOMAIN queue[x]
  BY <1>1, EmptySeq
<1>3. TransferState(x, h) = "QUEUED"
  <2>1. \A i \in DOMAIN queue[x] : TransferState(x, queue[x][i]) = "QUEUED"
    BY <1>1 DEF QueueIsSoundAt
  <2>2. QED
    BY <1>2, <2>1
<1> HIDE DEF h
<1>4. CASE e = x /\ m = h
  <2>1. transfers[e][m] \in Transfers
    BY DEF PrefixInv, Typed
  <2>2. transfers'[e][m].state = "COPYING"
    BY <1>1, <1>2, <1>4, <2>1 DEF PrefixInv, Typed, Transfers
  <2>3. QED
    BY <1>3, <1>4, <2>2, Stages DEF Advances, TransferState
<1>5. CASE ~(e = x /\ m = h)
  <2>1. transfers'[e][m] = transfers[e][m]
    BY <1>1, <1>2, <1>5 DEF PrefixInv, Typed
  <2>2. QED
    BY <2>1, UnchangedAdvances
<1>6. QED
  BY <1>4, <1>5

\* No step but the restart of its engine drops an active record or sets it back.
LEMMA StepAdvances ==
    ASSUME PrefixInv, PrefixNext, NEW e \in Engines, NEW m \in Migrations,
           ActiveTransfer(e, m), ~(groups[e] # {} /\ groups'[e] = {})
    PROVE  Advances(e, m)
<1>1. CASE UNCHANGED transfers
  BY <1>1, UnchangedAdvances
<1>2. ASSUME NEW x \in Engines, PinCalls(x) PROVE Advances(e, m)
  BY <1>1, <1>2 DEF PinCalls, pin, pin_fails, release, rebind, transferVars
<1>3. ASSUME NEW x \in Engines, TransferCalls(x) PROVE Advances(e, m)
  <2>1. ASSUME NEW n \in Migrations, NEW a \in Agents, NEW epoch \in Epochs,
               NEW pair \in Pairs, NEW role \in {"source", "destination"},
               start_transfer(x, role, n, a, epoch, pair)
        PROVE  Advances(e, m)
    <3>1. CASE TransferState(x, n) # "NONE"
      BY <1>1, <2>1, <3>1 DEF start_transfer, transferVars
    <3>2. CASE TransferState(x, n) = "NONE"
      <4>1. ~(e = x /\ m = n)
        BY <3>2 DEF ActiveTransfer, ActiveStates
      <4>2. transfers'[e][m] = transfers[e][m]
        BY <2>1, <3>2, <4>1 DEF PrefixInv, Typed, start_transfer
      <4>3. QED
        BY <4>2, UnchangedAdvances
    <3>3. QED
      BY <3>1, <3>2
  <2>2. ASSUME NEW n \in Migrations, NEW a \in Agents, NEW epoch \in Epochs,
               NEW pair \in Pairs, start_transfer_full(x, n, a, epoch, pair)
        PROVE  Advances(e, m)
    BY <1>1, <2>2 DEF start_transfer_full, transferVars
  <2>3. ASSUME NEW n \in Migrations,
               poll_transfer(x, n) \/ install_fails(x, n) \/ cleanup_transfer(x, n)
        PROVE  Advances(e, m)
    <3>1. OnlyFinishes
      BY <2>3, PollKeepsInv, InstallFailsKeepsInv, CleanupKeepsInv
    <3>2. QED
      BY <3>1, FinishingAdvances
  <2>4. QED
    BY <1>3, <2>1, <2>2, <2>3 DEF TransferCalls
<1>4. ASSUME NEW x \in Engines, EngineEvents(x) PROVE Advances(e, m)
  <2>1. ASSUME ResetsTables(x), x # e PROVE Advances(e, m)
    <3>1. transfers'[e][m] = transfers[e][m]
      BY <2>1, ResetFreesAll
    <3>2. QED
      BY <3>1, UnchangedAdvances
  <2>2. CASE flush_cache(x)
    BY <2>1, <2>2 DEF flush_cache
  <2>3. CASE engine_restart(x)
    <3>1. transfers[e][m].state # "NONE"
      BY DEF ActiveTransfer, ActiveStates, TransferState
    <3>2. groups[e] # {}
      BY <3>1 DEF PrefixInv, Records
    <3>3. x # e
      BY <2>3, <3>2 DEF PrefixInv, Typed, engine_restart
    <3>4. QED
      BY <2>1, <2>3, <3>3 DEF engine_restart
  <2>4. CASE \E a \in Agents : prefill(x, a) \/ evict(x, a)
    BY <1>1, <2>4 DEF prefill, evict, transferVars
  <2>5. QED
    BY <1>4, <2>2, <2>3, <2>4 DEF EngineEvents
<1>5. ASSUME NEW p \in Pairs, init_transfer_group(p[1], p[2]) PROVE Advances(e, m)
  BY <1>1, <1>5 DEF init_transfer_group, transferVars
<1>6. ASSUME Workers PROVE Advances(e, m)
  <2>1. ASSUME NEW p \in Pairs, NEW n \in Migrations, NEW o \in Migrations,
               copy_kv(p[1], p[2], n, o)
        PROVE  OnlyFinishes
    <3>1. p[1] \in Engines /\ p[2] \in Engines /\ p[1] # p[2]
      BY PrefixAssumption
    <3>2. QED
      BY <2>1, <3>1, CopyKeepsInv
  <2>2. ASSUME NEW x \in Engines, NEW n \in Migrations, copy_fails(x, n)
        PROVE  OnlyFinishes
    BY <2>2, CopyFailsKeepsInv
  <2>3. QED
    BY <1>6, <2>1, <2>2, TakeAdvances, FinishingAdvances DEF Workers
<1>7. QED
  BY <1>2, <1>3, <1>4, <1>5, <1>6 DEF PrefixNext

\* While its engine stays up, a transfer that has not finished is never dropped and
\* never goes back (ActiveTransfersAdvance).
THEOREM TransfersAdvance == PrefixSpec => ActiveTransfersAdvance
<1> DEFINE A == \A e \in Engines, m \in Migrations :
                   ActiveTransfer(e, m) /\ ~(groups[e] # {} /\ groups'[e] = {}) =>
                       /\ TransferState(e, m)' # "NONE"
                       /\ Stage(TransferState(e, m)') >= Stage(TransferState(e, m))
<1>1. PrefixInv /\ [PrefixNext]_prefixVars => [A]_prefixVars
  BY StepAdvances DEF Advances
<1>2. QED
  BY <1>1, PrefixInvariant, PTL DEF PrefixSpec, ActiveTransfersAdvance
=============================================================================
