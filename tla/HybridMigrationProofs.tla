------------------------- MODULE HybridMigrationProofs -------------------------
(***************************************************************************)
(* Theorems about HybridMigration for every set of agents, engines, calls  *)
(* and token sequences, and every bound on the faults.                     *)
(*                                                                         *)
(* HybridInv adds to the properties what ties a request in an engine's     *)
(* queue to the call that sent it (RequestsFit, NoneTwice), the keys in a  *)
(* group's store to the sequence numbers of its two sides (KeysFit), and a *)
(* transfer in progress to its keys (ServingFits, CopiesAgreed).  That two *)
(* engines that copy to each other are in one transfer follows: each has   *)
(* found the other's key under its own number, and a side's keys have      *)
(* different numbers.                                                      *)
(***************************************************************************)
EXTENDS HybridMigration, StateStoreProofs

-----------------------------------------------------------------------------
(* The inductive invariant. *)

\* The requests of a client.
Requests ==
    [call : Migrations, kind : {"init", "transfer"}, role : HC!Roles, pair : HC!Pairs,
     tokens : Tokens, phase : {"waiting", "prepare", "copy", "ready"}, sequence : Nat]

Keys == [sequence : Nat, rank : HC!Roles, tokens : Tokens, error : BOOLEAN]

\* The requests and what they find at the engines.
ControlTyped ==
    /\ requests \in [Engines -> Seq(Requests)]
    /\ serving \in [Engines -> Requests \cup {None}]
    /\ groups \in [Engines -> [HC!Pairs ->
          [rank : HC!Roles \cup {"none"}, sequence : Nat, failed : BOOLEAN]]]
    /\ published \in [HC!Pairs -> SUBSET Keys]
    /\ ready \in [HC!Pairs -> SUBSET [sequence : Nat, rank : HC!Roles]]
    /\ prefixes \in [Engines -> [Tokens -> HC!Contents]]
    /\ answers \in [Migrations -> [HC!Roles -> {"none", "success", "failed", "raised"}]]

\* The coordinator's variables.
CallsTyped ==
    /\ task \in [Migrations ->
          [pc : {"idle", "group", "init", "copying", "commit", "done", "failed"},
           source : Engines \cup {None}, destination : Engines \cup {None},
           tokens : Tokens \cup {None}]]
    /\ _groups \subseteq HC!Pairs
    /\ group_lock \in [HC!Pairs -> Migrations \cup {None}]
    /\ faults \in 0..MaxFaults

HybridTyped == ControlTyped /\ CallsTyped

\* What a call is at, and the state of its row.
CallStates ==
    {<<"idle", "NONE">>, <<"group", "PREPARING">>, <<"init", "PREPARING">>,
     <<"copying", "COPYING">>, <<"commit", "DEST_READY">>, <<"done", "COMMITTED">>,
     <<"failed", "ABORTED">>}

\* A call and the row of its migration agree.
CallFits(m) ==
    LET t == task[m]
        row == migrations[m]
    IN
    /\ <<t.pc, row.state>> \in CallStates
    /\ t.pc # "idle" =>
          /\ t.source \in Engines /\ t.destination \in Engines /\ t.source # t.destination
          /\ row.agent \in Agents /\ row.destination = t.destination
          /\ t.tokens \in Tokens /\ t.tokens = TokensOf[row.agent]

CallsFit == \A m \in Migrations : CallFits(m)

\* The state has come, when the destination says that it has.
Arrived(m) == prefixes[task[m].destination][task[m].tokens] # "absent"

StateArrived ==
    \A m \in Migrations :
        \/ task[m].pc = "copying" /\ answers[m]["destination"] = "success"
        \/ task[m].pc \in {"commit", "done"}
        => Arrived(m)

\* A request is at the engine that its call sent it to, and unanswered while its call
\* makes a group.
RequestFits(e, r) ==
    LET t == task[r.call] IN
    /\ t.pc \notin {"idle", "group"}
    /\ r.pair = PairOf(r.call) /\ r.tokens = t.tokens
    /\ e = IF r.role = "source" THEN t.source ELSE t.destination
    /\ t.pc = "init" => r.kind = "init" /\ answers[r.call][r.role] # "success"
    /\ t.pc = "copying" => r.kind = "transfer"

Queued(e, r) == \E i \in DOMAIN requests[e] : requests[e][i] = r

Served(e, r) == serving[e] # None /\ serving[e] = r

RequestsFit ==
    \A e \in Engines, r \in Requests :
        /\ Queued(e, r) => RequestFits(e, r) /\ r.phase = "waiting"
        /\ Served(e, r) => RequestFits(e, r)

\* An engine has a call's request once.
NoneTwice ==
    \A e \in Engines :
        /\ \A i, j \in DOMAIN requests[e] :
              requests[e][i].call = requests[e][j].call => i = j
        /\ serving[e] # None =>
              \A i \in DOMAIN requests[e] : requests[e][i].call # serving[e].call

\* The two members of a group have different ranks, a side's keys have different
\* numbers, and it has counted up to the last.
KeysFit ==
    \A p \in HC!Pairs :
        /\ \A e, f \in p : e # f /\ groups[e][p].rank = groups[f][p].rank =>
              groups[e][p].rank = "none"
        /\ \A e \in p, k \in published[p] : k.rank = groups[e][p].rank =>
              k.sequence <= groups[e][p].sequence
        /\ \A k, l \in published[p] : k.rank = l.rank /\ k.sequence = l.sequence => k = l

\* What the key of a transfer tells of its side.
KeyFits(e, r, k) ==
    /\ k.tokens = r.tokens
    /\ ~k.error => r.role = k.rank /\ (r.role = "source" => HC!Matches(e, r.tokens))

\* A transfer in progress has the last number of its side.
ServingFit(e) ==
    LET r == serving[e]
        group == groups[e][r.pair]
    IN
    /\ r.phase = "waiting" <=> r.kind = "init"
    /\ r.phase # "waiting" =>
          /\ group.rank # "none" /\ group.sequence = r.sequence
          /\ \A k \in HC!KeysOf(r, group.rank) : KeyFits(e, r, k)
    /\ r.phase = "ready" /\ r.role = "destination" => prefixes[e][r.tokens] # "absent"

ServingFits == \A e \in Engines : serving[e] # None => ServingFit(e)

\* An engine that copies has found both keys, and they agree.
CopyAgreed(e) ==
    LET r == serving[e]
        rank == groups[e][r.pair].rank
    IN
    r.phase = "copy" =>
        \E k \in HC!KeysOf(r, rank), l \in HC!KeysOf(r, HC!OtherRole(rank)) : HC!Agree(k, l)

CopiesAgreed == \A e \in Engines : serving[e] # None => CopyAgreed(e)

HybridInv ==
    /\ HybridTyped
    /\ CoordinatedInv
    /\ CallsFit
    /\ StateArrived
    /\ RequestsFit
    /\ NoneTwice
    /\ KeysFit
    /\ ServingFits
    /\ CopiesAgreed
    /\ PublishedStateIsOwn

-----------------------------------------------------------------------------
(* Requests, answers and queues. *)

\* The two engines of a call are a pair.
LEMMA PairOfTwo ==
    ASSUME NEW e \in Engines, NEW f \in Engines, e # f
    PROVE  {e, f} \in HC!Pairs
<1>1. \A S : HC!Cardinality(S) = Cardinality(S)
  BY DEF HC!Cardinality, Cardinality
<1>2. IsFiniteSet({e}) /\ Cardinality({e}) = 1
  BY FS_Singleton
<1>3. Cardinality({e} \cup {f}) = 2
  BY <1>2, FS_AddElement
<1>4. {e} \cup {f} = {e, f}
  OBVIOUS
<1>5. QED
  BY <1>1, <1>3, <1>4 DEF HC!Pairs

\* The head and the tail of a queue.
LEMMA QueueTail ==
    ASSUME NEW q \in Seq(Requests), q # <<>>
    PROVE  /\ Head(q) \in Requests /\ Tail(q) \in Seq(Requests)
           /\ 1 \in DOMAIN q /\ Head(q) = q[1]
           /\ \A i \in DOMAIN Tail(q) :
                 i + 1 \in DOMAIN q /\ i + 1 # 1 /\ Tail(q)[i] = q[i + 1]
OBVIOUS

\* The elements of a queue with one more.
LEMMA QueueAppend ==
    ASSUME NEW q \in Seq(Requests), NEW r \in Requests
    PROVE  /\ Append(q, r) \in Seq(Requests)
           /\ Len(q) + 1 \in DOMAIN Append(q, r)
           /\ Append(q, r)[Len(q) + 1] = r
           /\ \A i \in DOMAIN Append(q, r) : i # Len(q) + 1 =>
                 i \in DOMAIN q /\ Append(q, r)[i] = q[i]
OBVIOUS

\* What an answer writes.
LEMMA AnswerEffect ==
    ASSUME ControlTyped, NEW r \in Requests, NEW o \in {"success", "failed", "raised"},
           HC!Answer(r, o)
    PROVE  /\ answers' \in [Migrations -> [HC!Roles -> {"none", "success", "failed", "raised"}]]
           /\ \A c \in Migrations, role \in HC!Roles :
                 answers'[c][role] # answers[c][role] =>
                    c = r.call /\ role = r.role /\ answers'[c][role] = o
<1>1. /\ r.call \in Migrations /\ r.role \in HC!Roles
      /\ answers \in [Migrations -> [HC!Roles -> {"none", "success", "failed", "raised"}]]
  BY DEF Requests, ControlTyped
<1>2. answers' = [answers EXCEPT ![r.call][r.role] =
                     IF @ = "none" THEN o ELSE @]
  BY DEF HC!Answer
<1>3. QED
  BY <1>1, <1>2

\* A request that is taken is the head of the queue.
LEMMA TakesEffect ==
    ASSUME ControlTyped, NEW e \in Engines, NEW r \in HC!ToSet(requests[e]), HC!Takes(e, r)
    PROVE  /\ r \in Requests /\ r = Head(requests[e]) /\ requests[e] # <<>>
           /\ serving[e] = None
           /\ requests' = [requests EXCEPT ![e] = Tail(@)]
<1>1. requests[e] \in Seq(Requests)
  BY DEF ControlTyped
<1>2. QED
  BY <1>1, QueueTail DEF HC!Takes

-----------------------------------------------------------------------------
(* What a step of an engine may do. *)

\* One request with the same sender and purpose as another.
SameRequest(r, q) ==
    /\ r.call = q.call /\ r.kind = q.kind /\ r.role = q.role
    /\ r.pair = q.pair /\ r.tokens = q.tokens

\* A queue gives its head to the scheduler or drops it; what is served stays or ends.
QueueMove(e) ==
    \/ /\ requests'[e] = requests[e]
       /\ serving'[e] # None => serving[e] # None /\ SameRequest(serving'[e], serving[e])
    \/ /\ serving[e] = None /\ requests[e] # <<>>
       /\ requests'[e] = Tail(requests[e])
       /\ serving'[e] # None => SameRequest(serving'[e], Head(requests[e]))

\* A request of a call in one of its roles is in flight at an engine.
Asked(e, c, role) ==
    \/ \E i \in DOMAIN requests[e] : requests[e][i].call = c /\ requests[e][i].role = role
    \/ serving[e] # None /\ serving[e].call = c /\ serving[e].role = role

\* What becomes of the answers: a success of a call that makes its group is the end of
\* its request, one of a transfer is the state's arrival.
AnswersMove ==
    \A c \in Migrations, role \in HC!Roles :
        answers'[c][role] = "success" /\ answers[c][role] # "success" =>
            /\ task[c].pc = "init" => \A e \in Engines : ~Asked(e, c, role)'
            /\ task[c].pc = "copying" /\ role = "destination" => Arrived(c)

\* A state that has come is evicted at worst, and none is mixed up.
PrefixesMove ==
    \A e \in Engines, t \in Tokens :
        /\ prefixes[e][t] # "absent" => prefixes'[e][t] # "absent"
        /\ prefixes[e][t] # "other" => prefixes'[e][t] # "other"

EngineMove ==
    /\ ControlTyped'
    /\ \A e \in Engines : QueueMove(e)
    /\ AnswersMove
    /\ PrefixesMove
    /\ KeysFit'
    /\ ServingFits'
    /\ CopiesAgreed'

\* A transfer that a step does not disturb.
LEMMA ServingRests ==
    ASSUME NEW e \in Engines, serving[e] # None, NEW p, p = serving[e].pair,
           serving'[e] = serving[e],
           groups'[e][p].rank = groups[e][p].rank,
           groups'[e][p].sequence = groups[e][p].sequence,
           published[p] \subseteq published'[p],
           HC!KeysOf(serving[e], groups[e][p].rank)' \subseteq
              HC!KeysOf(serving[e], groups[e][p].rank),
           ServingFit(e), CopyAgreed(e),
           serving[e].role = "source" => prefixes'[e] = prefixes[e],
           prefixes[e][serving[e].tokens] # "absent" =>
              prefixes'[e][serving[e].tokens] # "absent"
    PROVE  ServingFit(e)' /\ CopyAgreed(e)'
<1>1. ServingFit(e)'
  BY DEF ServingFit, KeyFits, HC!Matches
<1>2. CopyAgreed(e)'
  BY DEF CopyAgreed, HC!KeysOf
<1>3. QED
  BY <1>1, <1>2

\* A queue that moves keeps its requests where they belong, and single.
LEMMA QueuesKept ==
    ASSUME HybridInv, \A e \in Engines : QueueMove(e), AnswersMove, UNCHANGED task, ControlTyped'
    PROVE  RequestsFit' /\ NoneTwice'
<1>1. ASSUME NEW e \in Engines, NEW r, NEW q, SameRequest(r, q), RequestFits(e, q),
             r \in Requests,
             Asked(e, r.call, r.role)'
      PROVE  RequestFits(e, r)'
  <2>1. answers'[r.call][r.role] = "success" /\ task[r.call].pc = "init" =>
           answers[r.call][r.role] = "success"
    BY <1>1 DEF AnswersMove, Requests
  <2>2. QED
    BY <1>1, <2>1 DEF SameRequest, RequestFits, PairOf
<1>2. ASSUME NEW e \in Engines, NEW r \in Requests
      PROVE  /\ Queued(e, r)' => Queued(e, r)
             /\ Served(e, r)' => \E q \in Requests :
                   SameRequest(r, q) /\ (Queued(e, q) \/ Served(e, q))
             /\ Queued(e, r)' \/ Served(e, r)' => Asked(e, r.call, r.role)'
  <2>1. requests[e] \in Seq(Requests) /\ serving[e] \in Requests \cup {None}
    BY DEF HybridInv, HybridTyped, ControlTyped
  <2>2. Queued(e, r)' => Queued(e, r)
    <3>1. CASE requests'[e] = requests[e]
      BY <3>1 DEF Queued
    <3>2. CASE requests[e] # <<>> /\ requests'[e] = Tail(requests[e])
      BY <2>1, <3>2, QueueTail DEF Queued
    <3>3. QED
      BY <3>1, <3>2 DEF QueueMove
  <2>3. Served(e, r)' => \E q \in Requests :
           SameRequest(r, q) /\ (Queued(e, q) \/ Served(e, q))
    <3>1. CASE serving[e] # None /\ SameRequest(serving'[e], serving[e])
      BY <2>1, <3>1 DEF Served
    <3>2. CASE requests[e] # <<>> /\ SameRequest(serving'[e], Head(requests[e]))
      BY <2>1, <3>2, QueueTail DEF Served, Queued
    <3>3. QED
      BY <3>1, <3>2 DEF QueueMove, Served
  <2>4. Queued(e, r)' \/ Served(e, r)' => Asked(e, r.call, r.role)'
    BY DEF Queued, Served, Asked
  <2>5. QED
    BY <2>2, <2>3, <2>4
<1>3. RequestsFit'
  <2>1. ASSUME NEW e \in Engines, NEW r \in Requests
        PROVE  /\ Queued(e, r)' => RequestFits(e, r)' /\ r.phase = "waiting"
               /\ Served(e, r)' => RequestFits(e, r)'
    <3>1. Queued(e, r)' => RequestFits(e, r)' /\ r.phase = "waiting"
      BY <1>1, <1>2 DEF SameRequest, HybridInv, RequestsFit
    <3>2. Served(e, r)' => RequestFits(e, r)'
      BY <1>1, <1>2 DEF HybridInv, RequestsFit
    <3>3. QED
      BY <3>1, <3>2
  <2>2. QED
    BY <2>1 DEF RequestsFit
<1>4. NoneTwice'
  <2>1. ASSUME NEW e \in Engines
        PROVE  /\ \A i, j \in DOMAIN requests'[e] :
                     requests'[e][i].call = requests'[e][j].call => i = j
               /\ serving'[e] # None =>
                     \A i \in DOMAIN requests'[e] : requests'[e][i].call # serving'[e].call
    <3>1. requests[e] \in Seq(Requests)
      BY DEF HybridInv, HybridTyped, ControlTyped
    <3>2. /\ \A i, j \in DOMAIN requests[e] :
                requests[e][i].call = requests[e][j].call => i = j
          /\ serving[e] # None =>
                \A i \in DOMAIN requests[e] : requests[e][i].call # serving[e].call
      BY DEF HybridInv, NoneTwice
    <3>3. CASE /\ requests'[e] = requests[e]
               /\ serving'[e] # None => serving[e] # None /\ SameRequest(serving'[e], serving[e])
      BY <3>1, <3>2, <3>3 DEF SameRequest
    <3>4. CASE /\ requests[e] # <<>> /\ requests'[e] = Tail(requests[e])
               /\ serving'[e] # None => SameRequest(serving'[e], Head(requests[e]))
      <4>1. /\ requests[e] # <<>> /\ requests'[e] = Tail(requests[e])
            /\ serving'[e] # None => SameRequest(serving'[e], Head(requests[e]))
        BY <3>4
      <4>2. /\ Head(requests[e]) = requests[e][1] /\ 1 \in DOMAIN requests[e]
            /\ \A i \in DOMAIN requests'[e] : /\ i + 1 \in DOMAIN requests[e] /\ i + 1 # 1
                                              /\ requests'[e][i] = requests[e][i + 1]
        BY <3>1, <4>1, QueueTail
      <4>3. \A i \in DOMAIN requests'[e] : i \in Nat
        BY <3>1, <4>1
      <4>4. QED
        BY <3>2, <4>1, <4>2, <4>3 DEF SameRequest
    <3>5. QED
      BY <3>3, <3>4 DEF QueueMove
  <2>2. QED
    BY <2>1 DEF NoneTwice
<1>5. QED
  BY <1>3, <1>4

\* The side of a group at an engine is as before, or gone.
SideKept(e, p) ==
    \/ /\ groups'[e][p].rank = groups[e][p].rank
       /\ groups'[e][p].sequence = groups[e][p].sequence
    \/ groups'[e][p].rank = "none" /\ serving'[e] = None

\* A step that neither publishes a key nor moves a transfer to its next phase.
QuietStep ==
    /\ published' = published
    /\ PrefixesMove
    /\ \A e \in Engines, p \in HC!Pairs : SideKept(e, p)
    /\ \A e \in Engines :
          \/ serving'[e] = None
          \/ serving'[e].phase = "waiting" /\ serving'[e].kind = "init"
          \/ /\ serving[e] # None /\ serving'[e] = serving[e]
             /\ serving[e].role = "source" => prefixes'[e] = prefixes[e]

\* A transfer's pair, and the engines of one.
LEMMA ServedRequest ==
    ASSUME HybridInv, NEW e \in Engines, serving[e] # None
    PROVE  /\ serving[e] \in Requests /\ RequestFits(e, serving[e])
           /\ ServingFit(e) /\ CopyAgreed(e)
           /\ serving[e].pair \in HC!Pairs /\ e \in serving[e].pair
<1>1. serving[e] \in Requests
  BY DEF HybridInv, HybridTyped, ControlTyped
<1>2. PICK r \in Requests : r = serving[e]
  BY <1>1
<1>3. RequestFits(e, r)
  BY <1>2 DEF HybridInv, RequestsFit, Served
<1>4. ServingFit(e) /\ CopyAgreed(e)
  BY DEF HybridInv, ServingFits, CopiesAgreed
<1>5. serving[e].pair \in HC!Pairs /\ e \in serving[e].pair
  BY <1>2, <1>3 DEF Requests, RequestFits, PairOf
<1>6. QED
  BY <1>2, <1>3, <1>4, <1>5

\* A quiet step keeps the keys and the transfers as they are.
LEMMA QuietStepKeeps ==
    ASSUME HybridInv, ControlTyped', QuietStep
    PROVE  KeysFit' /\ ServingFits' /\ CopiesAgreed'
<1>1. KeysFit'
  <2>1. \A p \in HC!Pairs : \A e \in p : e \in Engines
    BY DEF HC!Pairs
  <2>2. KeysFit
    BY DEF HybridInv
  <2>3. \A p \in HC!Pairs : \A k \in published[p] : k.rank # "none"
    <3>1. published \in [HC!Pairs -> SUBSET Keys]
      BY DEF HybridInv, HybridTyped, ControlTyped
    <3>2. \A k \in Keys : k.rank # "none"
      BY DEF Keys, HC!Roles
    <3>3. QED
      BY <3>1, <3>2
  <2>4. ASSUME NEW p \in HC!Pairs
        PROVE  /\ \A e, f \in p : e # f /\ groups'[e][p].rank = groups'[f][p].rank =>
                     groups'[e][p].rank = "none"
               /\ \A e \in p, k \in published'[p] : k.rank = groups'[e][p].rank =>
                     k.sequence <= groups'[e][p].sequence
               /\ \A k, l \in published'[p] :
                     k.rank = l.rank /\ k.sequence = l.sequence => k = l
    <3>1. \A e \in p : SideKept(e, p)
      BY <2>1 DEF QuietStep
    <3>2. published' = published
      BY DEF QuietStep
    <3>3. \A e \in p : \/ /\ groups'[e][p].rank = groups[e][p].rank
                         /\ groups'[e][p].sequence = groups[e][p].sequence
                      \/ groups'[e][p].rank = "none"
      BY <3>1 DEF SideKept
    <3>4. \A e, f \in p : e # f /\ groups[e][p].rank = groups[f][p].rank =>
             groups[e][p].rank = "none"
      BY <2>2 DEF KeysFit
    <3>5. /\ \A e \in p, k \in published[p] : k.rank = groups[e][p].rank =>
                k.sequence <= groups[e][p].sequence
          /\ \A k, l \in published[p] : k.rank = l.rank /\ k.sequence = l.sequence => k = l
      BY <2>2 DEF KeysFit
    <3>6. \A e, f \in p : e # f /\ groups'[e][p].rank = groups'[f][p].rank =>
             groups'[e][p].rank = "none"
      BY <3>3, <3>4
    <3>7. \A e \in p, k \in published'[p] : k.rank = groups'[e][p].rank =>
             k.sequence <= groups'[e][p].sequence
      BY <2>3, <3>2, <3>3, <3>5
    <3>8. QED
      BY <3>2, <3>5, <3>6, <3>7
  <2>5. QED
    BY <2>4 DEF KeysFit
<1>2. ASSUME NEW e \in Engines, serving'[e] # None
      PROVE  ServingFit(e)' /\ CopyAgreed(e)'
  <2>1. CASE serving'[e].phase = "waiting" /\ serving'[e].kind = "init"
    BY <2>1 DEF ServingFit, CopyAgreed
  <2>2. CASE /\ serving[e] # None /\ serving'[e] = serving[e]
             /\ serving[e].role = "source" => prefixes'[e] = prefixes[e]
    <3>1. PICK p \in HC!Pairs : p = serving[e].pair
      BY <2>2, ServedRequest
    <3>2. SideKept(e, p) /\ ~(serving'[e] = None)
      BY <1>2 DEF QuietStep
    <3>3. /\ groups'[e][p].rank = groups[e][p].rank
          /\ groups'[e][p].sequence = groups[e][p].sequence
          /\ published' = published
      BY <3>2 DEF SideKept, QuietStep
    <3>4. HC!KeysOf(serving[e], groups[e][p].rank)' = HC!KeysOf(serving[e], groups[e][p].rank)
      BY <2>2, <3>3 DEF HC!KeysOf
    <3>5. ServingFit(e) /\ CopyAgreed(e) /\ serving[e].tokens \in Tokens
      BY <2>2, ServedRequest DEF Requests
    <3>6. prefixes[e][serving[e].tokens] # "absent" =>
             prefixes'[e][serving[e].tokens] # "absent"
      BY <3>5 DEF QuietStep, PrefixesMove
    <3>7. QED
      BY <2>2, <3>1, <3>3, <3>4, <3>5, <3>6, ServingRests
  <2>3. QED
    BY <1>2, <2>1, <2>2 DEF QuietStep
<1>3. QED
  BY <1>1, <1>2 DEF ServingFits, CopiesAgreed

\* An answer that is no success moves nothing on.
LEMMA AnswerMoves ==
    ASSUME HybridInv, NEW r \in Requests, NEW o \in {"failed", "raised"}, HC!Answer(r, o)
    PROVE  AnswersMove
BY AnswerEffect DEF AnswersMove, HybridInv, HybridTyped

-----------------------------------------------------------------------------
(* The steps of an engine. *)

\* A request that is dropped, with an answer for its caller.
Dropped(e, o) ==
    /\ serving[e] = None /\ requests[e] # <<>>
    /\ requests' = [requests EXCEPT ![e] = Tail(@)]
    /\ HC!Answer(Head(requests[e]), o)
    /\ UNCHANGED <<serving, HC!groupVars, prefixes>>

\* Dropping the head of a queue disturbs nothing that is served (hybrid_control.py).
LEMMA DroppedMoves ==
    ASSUME HybridInv, NEW e \in Engines, NEW o \in {"failed", "raised"}, Dropped(e, o)
    PROVE  EngineMove
<1>1. /\ requests[e] \in Seq(Requests) /\ requests \in [Engines -> Seq(Requests)]
      /\ ControlTyped
  BY DEF HybridInv, HybridTyped, ControlTyped
<1>2. Head(requests[e]) \in Requests /\ Tail(requests[e]) \in Seq(Requests)
  BY <1>1, QueueTail DEF Dropped
<1>3. ControlTyped'
  BY <1>1, <1>2, AnswerEffect DEF Dropped, ControlTyped, HC!groupVars
<1>4. \A x \in Engines : QueueMove(x)
  BY <1>1 DEF Dropped, QueueMove, SameRequest
<1>5. QuietStep
  BY DEF Dropped, QuietStep, SideKept, PrefixesMove, HC!groupVars
<1>6. AnswersMove
  BY <1>2, AnswerMoves DEF Dropped
<1>7. PrefixesMove
  BY <1>5 DEF QuietStep
<1>8. QED
  BY <1>3, <1>4, <1>5, <1>6, <1>7, QuietStepKeeps DEF EngineMove

\* The client gives up on a request that is executed.
LEMMA LateAnswerMoves ==
    ASSUME HybridInv, NEW e \in Engines, serving[e] # None, HC!Answer(serving[e], "raised"),
           UNCHANGED <<requests, serving, HC!groupVars, prefixes>>
    PROVE  EngineMove
<1>1. serving[e] \in Requests
  BY ServedRequest
<1>2. ControlTyped'
  BY <1>1, AnswerEffect DEF HybridInv, HybridTyped, ControlTyped, HC!groupVars
<1>3. \A x \in Engines : QueueMove(x)
  BY DEF QueueMove, SameRequest
<1>4. QuietStep /\ PrefixesMove
  BY DEF QuietStep, SideKept, PrefixesMove, HC!groupVars
<1>5. AnswersMove
  BY <1>1, AnswerMoves
<1>6. QED
  BY <1>2, <1>3, <1>4, <1>5, QuietStepKeeps DEF EngineMove

\* A group is going to be made.
LEMMA InitGroupMoves ==
    ASSUME HybridInv, NEW e \in Engines, HC!init_group(e)
    PROVE  EngineMove
<1>1. ControlTyped /\ requests \in [Engines -> Seq(Requests)]
  BY DEF HybridInv, HybridTyped, ControlTyped
<1>2. PICK r \in HC!ToSet(requests[e]) :
         /\ HC!Takes(e, r) /\ r.kind = "init"
         /\ serving' = [serving EXCEPT ![e] = r]
  BY DEF HC!init_group
<1>3. /\ r \in Requests /\ r = Head(requests[e]) /\ requests[e] # <<>>
      /\ serving[e] = None /\ requests' = [requests EXCEPT ![e] = Tail(@)]
  BY <1>1, <1>2, TakesEffect
<1>4. Tail(requests[e]) \in Seq(Requests) /\ Queued(e, r)
  BY <1>1, <1>3, QueueTail DEF Queued
<1>5. r.phase = "waiting"
  BY <1>3, <1>4 DEF HybridInv, RequestsFit
<1>6. /\ serving' \in [Engines -> Requests \cup {None}]
      /\ serving'[e] = r /\ \A x \in Engines : x # e => serving'[x] = serving[x]
  BY <1>1, <1>2, <1>3 DEF ControlTyped
<1>7. ControlTyped'
  BY <1>1, <1>3, <1>4, <1>6 DEF HC!init_group, HC!groupVars, ControlTyped
<1>8. \A x \in Engines : QueueMove(x)
  BY <1>1, <1>3, <1>6 DEF QueueMove, SameRequest
<1>9. QuietStep /\ PrefixesMove
  BY <1>2, <1>5, <1>6 DEF HC!init_group, QuietStep, SideKept, PrefixesMove, HC!groupVars
<1>10. AnswersMove
  BY DEF HC!init_group, AnswersMove
<1>11. QED
  BY <1>7, <1>8, <1>9, <1>10, QuietStepKeeps DEF EngineMove

\* A request ends; what it leaves at its engine besides the answer is a group that is
\* not used again.
Ended(e) ==
    /\ serving' = [serving EXCEPT ![e] = None]
    /\ UNCHANGED <<requests, published, ready>>
    /\ groups' \in [Engines -> [HC!Pairs ->
          [rank : HC!Roles \cup {"none"}, sequence : Nat, failed : BOOLEAN]]]
    /\ \A x \in Engines, p \in HC!Pairs :
          \/ /\ groups'[x][p].rank = groups[x][p].rank
             /\ groups'[x][p].sequence = groups[x][p].sequence
          \/ x = e /\ groups'[x][p].rank = "none"
    /\ prefixes' \in [Engines -> [Tokens -> HC!Contents]]
    /\ PrefixesMove
    /\ \A x \in Engines : x # e => prefixes'[x] = prefixes[x]

\* The end of what an engine serves leaves its keys, and nobody copies with them.
LEMMA EndedMoves ==
    ASSUME HybridInv, NEW e \in Engines, Ended(e), AnswersMove,
           answers' \in [Migrations -> [HC!Roles -> {"none", "success", "failed", "raised"}]]
    PROVE  EngineMove
<1>1. ControlTyped
  BY DEF HybridInv, HybridTyped
<1>2. /\ serving' \in [Engines -> Requests \cup {None}] /\ serving'[e] = None
      /\ \A x \in Engines : x # e => serving'[x] = serving[x]
  BY <1>1 DEF Ended, ControlTyped
<1>3. ControlTyped'
  BY <1>1, <1>2 DEF Ended, ControlTyped
<1>4. \A x \in Engines : QueueMove(x)
  BY <1>2 DEF Ended, QueueMove, SameRequest
<1>5. QuietStep
  BY <1>2 DEF Ended, QuietStep, SideKept
<1>6. QED
  BY <1>3, <1>4, <1>5, QuietStepKeeps DEF EngineMove, Ended

\* A request ends without success.
LEMMA FailsMoves ==
    ASSUME HybridInv, NEW e \in Engines, serving[e] # None, HC!Fails(e),
           UNCHANGED <<requests, published, ready, prefixes>>
    PROVE  EngineMove
<1>1. PICK r \in Requests : r = serving[e]
  BY ServedRequest
<1>2. ControlTyped
  BY DEF HybridInv, HybridTyped
<1>3. /\ answers' \in [Migrations -> [HC!Roles -> {"none", "success", "failed", "raised"}]]
      /\ AnswersMove
  BY <1>1, <1>2, AnswerEffect, AnswerMoves DEF HC!Fails
<1>4. /\ groups' \in [Engines -> [HC!Pairs ->
            [rank : HC!Roles \cup {"none"}, sequence : Nat, failed : BOOLEAN]]]
      /\ \A x \in Engines, p \in HC!Pairs :
            /\ groups'[x][p].rank = groups[x][p].rank
            /\ groups'[x][p].sequence = groups[x][p].sequence
  <2>1. r.pair \in HC!Pairs
    BY <1>1 DEF Requests
  <2>2. CASE groups' = groups
    BY <1>2, <2>2 DEF ControlTyped
  <2>3. CASE groups' = [groups EXCEPT ![e][r.pair].failed = TRUE]
    <3>1. groups \in [Engines -> [HC!Pairs ->
             [rank : HC!Roles \cup {"none"}, sequence : Nat, failed : BOOLEAN]]]
      BY <1>2 DEF ControlTyped
    <3>2. PICK side \in [rank : HC!Roles \cup {"none"}, sequence : Nat, failed : BOOLEAN] :
             /\ side.rank = groups[e][r.pair].rank
             /\ side.sequence = groups[e][r.pair].sequence
             /\ groups' = [groups EXCEPT ![e][r.pair] = side]
      <4>1. PICK g \in [rank : HC!Roles \cup {"none"}, sequence : Nat, failed : BOOLEAN] :
               g = groups[e][r.pair]
        BY <2>1, <3>1
      <4>2. [g EXCEPT !.failed = TRUE] \in
               [rank : HC!Roles \cup {"none"}, sequence : Nat, failed : BOOLEAN]
        OBVIOUS
      <4>3. groups' = [groups EXCEPT ![e][r.pair] = [g EXCEPT !.failed = TRUE]]
        BY <2>1, <2>3, <3>1, <4>1
      <4>4. QED
        BY <4>1, <4>2, <4>3
    <3>3. QED
      BY <2>1, <3>1, <3>2
  <2>4. QED
    BY <1>1, <2>2, <2>3 DEF HC!Fails
<1>5. Ended(e)
  BY <1>2, <1>4 DEF HC!Fails, Ended, ControlTyped, PrefixesMove
<1>6. QED
  BY <1>3, <1>5, EndedMoves

\* The transfer of a side is over.
LEMMA CompletesMoves ==
    ASSUME HybridInv, NEW e \in Engines, HC!completes(e)
    PROVE  EngineMove
<1>1. PICK r \in Requests : r = serving[e]
  BY ServedRequest DEF HC!completes
<1>2. /\ serving[e] # None /\ r.phase = "ready" /\ HC!Answer(r, "success")
      /\ serving' = [serving EXCEPT ![e] = None]
      /\ UNCHANGED <<requests, groups, published, ready, prefixes>>
  BY <1>1 DEF HC!completes, HC!groupVars
<1>3. ControlTyped
  BY DEF HybridInv, HybridTyped
<1>4. /\ RequestFits(e, r) /\ r.kind # "init"
      /\ r.role = "destination" => prefixes[e][r.tokens] # "absent"
  BY <1>1, <1>2, ServedRequest DEF ServingFit
<1>5. /\ answers' \in [Migrations -> [HC!Roles -> {"none", "success", "failed", "raised"}]]
      /\ \A c \in Migrations, role \in HC!Roles :
            answers'[c][role] # answers[c][role] => c = r.call /\ role = r.role
  BY <1>2, <1>3, AnswerEffect
<1>6. AnswersMove
  <2>1. task[r.call].pc # "init"
    BY <1>4 DEF RequestFits
  <2>2. r.role = "destination" => Arrived(r.call)
    BY <1>4 DEF RequestFits, Arrived
  <2>3. QED
    BY <1>5, <2>1, <2>2 DEF AnswersMove
<1>7. Ended(e)
  BY <1>2, <1>3 DEF Ended, ControlTyped, PrefixesMove
<1>8. QED
  BY <1>5, <1>6, <1>7, EndedMoves

\* An engine restarts: its groups, its tree and the request in progress are gone.
LEMMA RestartsMoves ==
    ASSUME HybridInv, NEW e \in Engines, HC!restarts(e)
    PROVE  EngineMove
<1>1. ControlTyped
  BY DEF HybridInv, HybridTyped
<1>2. /\ answers' \in [Migrations -> [HC!Roles -> {"none", "success", "failed", "raised"}]]
      /\ AnswersMove
  <2>1. CASE serving[e] = None
    BY <1>1, <2>1 DEF HC!restarts, ControlTyped, AnswersMove
  <2>2. CASE serving[e] # None
    <3>1. serving[e] \in Requests /\ HC!Answer(serving[e], "raised")
      BY <2>2, ServedRequest DEF HC!restarts
    <3>2. QED
      BY <1>1, <3>1, AnswerEffect, AnswerMoves
  <2>3. QED
    BY <2>1, <2>2
<1>3. /\ groups' \in [Engines -> [HC!Pairs ->
            [rank : HC!Roles \cup {"none"}, sequence : Nat, failed : BOOLEAN]]]
      /\ \A p \in HC!Pairs : groups'[e][p].rank = "none"
      /\ \A x \in Engines : x # e => groups'[x] = groups[x]
  BY <1>1 DEF HC!restarts, HC!NoGroup, ControlTyped
<1>4. /\ prefixes' \in [Engines -> [Tokens -> HC!Contents]]
      /\ \A t \in Tokens : prefixes'[e][t] \in {"absent", "evicted"}
      /\ \A t \in Tokens : prefixes[e][t] # "absent" => prefixes'[e][t] # "absent"
      /\ \A x \in Engines : x # e => prefixes'[x] = prefixes[x]
  BY <1>1 DEF HC!restarts, HC!Contents, ControlTyped
<1>5. PrefixesMove
  BY <1>4 DEF PrefixesMove
<1>6. Ended(e)
  BY <1>3, <1>4, <1>5 DEF HC!restarts, Ended
<1>7. QED
  BY <1>2, <1>6, EndedMoves

\* A prefix is computed or evicted at an idle engine.
LEMMA PrefixMoves ==
    ASSUME HybridInv, NEW e \in Engines, NEW t \in Tokens,
           HC!computes(e, t) \/ HC!evicts(e, t)
    PROVE  EngineMove
<1>1. ControlTyped
  BY DEF HybridInv, HybridTyped
<1>2. PICK c \in {"own", "evicted"} : prefixes' = [prefixes EXCEPT ![e][t] = c]
  BY DEF HC!computes, HC!evicts
<1>3. /\ serving[e] = None /\ UNCHANGED <<requests, serving, groups, published, ready, answers>>
  BY DEF HC!computes, HC!evicts, HC!groupVars
<1>4. /\ prefixes' \in [Engines -> [Tokens -> HC!Contents]]
      /\ \A x \in Engines : x # e => prefixes'[x] = prefixes[x]
      /\ PrefixesMove
  BY <1>1, <1>2 DEF ControlTyped, HC!Contents, PrefixesMove
<1>5. ControlTyped'
  BY <1>1, <1>3, <1>4 DEF ControlTyped
<1>6. \A x \in Engines : QueueMove(x)
  BY <1>3 DEF QueueMove, SameRequest
<1>7. QuietStep
  BY <1>3, <1>4 DEF QuietStep, SideKept
<1>8. AnswersMove
  BY <1>3 DEF AnswersMove
<1>9. QED
  BY <1>4, <1>5, <1>6, <1>7, <1>8, QuietStepKeeps DEF EngineMove

\* What an engine that copies knows: its own key and the other's, which agree.
LEMMA CopyKnows ==
    ASSUME HybridInv, NEW e \in Engines, serving[e] # None,
           NEW r \in Requests, r = serving[e], r.phase = "copy",
           NEW rank, rank = groups[e][r.pair].rank
    PROVE  /\ rank \in HC!Roles /\ r.role = rank
           /\ groups[e][r.pair].sequence = r.sequence
           /\ r.role = "source" => HC!Matches(e, r.tokens)
           /\ \E l \in published[r.pair] :
                 /\ l.sequence = r.sequence /\ l.rank = HC!OtherRole(rank)
                 /\ l.tokens = r.tokens
<1>1. ServingFit(e) /\ CopyAgreed(e)
  BY ServedRequest
<1>2. PICK k \in HC!KeysOf(r, rank), l \in HC!KeysOf(r, HC!OtherRole(rank)) : HC!Agree(k, l)
  BY <1>1 DEF CopyAgreed
<1>3. KeyFits(e, r, k) /\ groups[e][r.pair].sequence = r.sequence
  BY <1>1 DEF ServingFit
<1>4. r.role = k.rank /\ k.rank = rank /\ k.tokens = r.tokens /\ k.tokens = l.tokens
  BY <1>2, <1>3 DEF KeyFits, HC!Agree, HC!KeysOf
<1>5. r.role \in HC!Roles /\ (r.role = "source" => HC!Matches(e, r.tokens))
  BY <1>2, <1>3 DEF KeyFits, HC!Agree, Requests
<1>6. /\ l \in published[r.pair] /\ l.sequence = r.sequence
      /\ l.rank = HC!OtherRole(rank) /\ l.tokens = r.tokens
  BY <1>4 DEF HC!KeysOf
<1>7. QED
  BY <1>3, <1>4, <1>5, <1>6

\* Two engines that copy to each other are in one transfer.
LEMMA CopiesArePaired == HybridInv => CopiesPairUp
<1> SUFFICES ASSUME HybridInv, NEW e \in Engines, NEW f \in Engines,
                    e # f, serving[e] # None, serving[f] # None,
                    serving[e].phase = "copy", serving[f].phase = "copy",
                    serving[e].pair = serving[f].pair
             PROVE  /\ serving[e].role # serving[f].role
                    /\ serving[e].tokens = serving[f].tokens
                    /\ serving[e].sequence = serving[f].sequence
  BY DEF CopiesPairUp
<1>1. PICK r \in Requests : r = serving[e]
  BY ServedRequest
<1>2. PICK q \in Requests : q = serving[f]
  BY ServedRequest
<1>3. PICK p \in HC!Pairs : p = r.pair /\ p = q.pair /\ e \in p /\ f \in p
  BY <1>1, <1>2, ServedRequest
<1>4. PICK rank, other : rank = groups[e][p].rank /\ other = groups[f][p].rank
  OBVIOUS
<1>5. /\ rank \in HC!Roles /\ r.role = rank /\ groups[e][p].sequence = r.sequence
      /\ \E l \in published[p] : /\ l.sequence = r.sequence /\ l.rank = HC!OtherRole(rank)
                                 /\ l.tokens = r.tokens
  BY <1>1, <1>3, <1>4, CopyKnows
<1>6. /\ other \in HC!Roles /\ q.role = other /\ groups[f][p].sequence = q.sequence
      /\ \E l \in published[p] : /\ l.sequence = q.sequence /\ l.rank = HC!OtherRole(other)
                                 /\ l.tokens = q.tokens
  BY <1>2, <1>3, <1>4, CopyKnows
<1>7. KeysFit
  BY DEF HybridInv
<1>8. rank # other
  BY <1>3, <1>4, <1>5, <1>7 DEF KeysFit, HC!Roles
<1>9. HC!OtherRole(rank) = other /\ HC!OtherRole(other) = rank
  BY <1>5, <1>6, <1>8 DEF HC!OtherRole, HC!Roles
<1>10. PICK l \in published[p] : l.sequence = r.sequence /\ l.rank = other /\ l.tokens = r.tokens
  BY <1>5, <1>9
<1>11. PICK k \in published[p] : k.sequence = q.sequence /\ k.rank = rank /\ k.tokens = q.tokens
  BY <1>6, <1>9
<1>12. r.sequence <= q.sequence
  BY <1>3, <1>4, <1>6, <1>7, <1>10 DEF KeysFit
<1>13. q.sequence <= r.sequence
  BY <1>3, <1>4, <1>5, <1>7, <1>11 DEF KeysFit
<1>14. r.sequence = q.sequence
  BY <1>12, <1>13 DEF Requests
<1>15. l \in HC!KeysOf(q, other)
  BY <1>3, <1>10, <1>14 DEF HC!KeysOf
<1>16. KeyFits(f, q, l)
  <2>1. ServingFit(f)
    BY ServedRequest
  <2>2. QED
    BY <1>2, <1>3, <1>4, <1>15, <2>1 DEF ServingFit
<1>17. QED
  BY <1>1, <1>2, <1>5, <1>6, <1>8, <1>10, <1>14, <1>16 DEF KeyFits

\* The prefix that a source sends is its own, and it is there.
LEMMA BroadcastsMoves ==
    ASSUME HybridInv, NEW e \in Engines, NEW f \in Engines, HC!broadcasts(e, f)
    PROVE  EngineMove
<1>1. /\ serving[e] # None /\ serving[f] # None /\ e # f
      /\ serving[e].phase = "copy" /\ serving[f].phase = "copy"
      /\ serving[e].role = "source" /\ serving[f].role = "destination"
      /\ serving[e].pair = serving[f].pair
  BY DEF HC!broadcasts
<1>2. PICK r \in Requests, q \in Requests : r = serving[e] /\ q = serving[f]
  BY <1>1, ServedRequest
<1>3. r.tokens = q.tokens
  BY <1>1, <1>2, CopiesArePaired DEF CopiesPairUp
<1>4. PICK content : content = prefixes[e][r.tokens]
  OBVIOUS
<1>5. content = "own"
  <2>1. HC!Matches(e, r.tokens)
    BY <1>1, <1>2, CopyKnows
  <2>2. QED
    BY <1>4, <2>1 DEF HC!Matches, HybridInv, PublishedStateIsOwn, Requests
<1>6. ControlTyped
  BY DEF HybridInv, HybridTyped
<1>7. prefixes' = [prefixes EXCEPT ![f][q.tokens] = content]
  BY <1>2, <1>3, <1>4 DEF HC!broadcasts
<1>8. /\ prefixes' \in [Engines -> [Tokens -> HC!Contents]]
      /\ \A x \in Engines : x # f => prefixes'[x] = prefixes[x]
      /\ prefixes'[f][q.tokens] = "own"
      /\ \A t \in Tokens : t # q.tokens => prefixes'[f][t] = prefixes[f][t]
  BY <1>5, <1>6, <1>7 DEF ControlTyped, HC!Contents, Requests
<1>9. PrefixesMove
  BY <1>8 DEF PrefixesMove, HC!Contents
<1>10. /\ serving' \in [Engines -> Requests \cup {None}]
       /\ serving'[e] = [r EXCEPT !.phase = "ready"]
       /\ serving'[f] = [q EXCEPT !.phase = "ready"]
       /\ \A x \in Engines : x # e /\ x # f => serving'[x] = serving[x]
  <2>1. serving' = [serving EXCEPT ![e] = [r EXCEPT !.phase = "ready"],
                                   ![f] = [q EXCEPT !.phase = "ready"]]
    BY <1>1, <1>2, <1>6 DEF HC!broadcasts, ControlTyped
  <2>2. [r EXCEPT !.phase = "ready"] \in Requests /\ [q EXCEPT !.phase = "ready"] \in Requests
    BY DEF Requests
  <2>3. QED
    BY <1>1, <1>6, <2>1, <2>2 DEF ControlTyped
<1>11. UNCHANGED <<requests, groups, published, answers>>
  BY DEF HC!broadcasts
<1>12. ready' \in [HC!Pairs -> SUBSET [sequence : Nat, rank : HC!Roles]]
  <2>1. /\ [sequence |-> r.sequence, rank |-> "source"] \in [sequence : Nat, rank : HC!Roles]
        /\ [sequence |-> q.sequence, rank |-> "destination"] \in [sequence : Nat, rank : HC!Roles]
        /\ r.pair \in HC!Pairs
    BY DEF Requests, HC!Roles
  <2>2. ready' = [ready EXCEPT ![r.pair] = @ \cup
           {[sequence |-> r.sequence, rank |-> "source"],
            [sequence |-> q.sequence, rank |-> "destination"]}]
    BY <1>2 DEF HC!broadcasts
  <2>3. QED
    BY <1>6, <2>1, <2>2 DEF ControlTyped
<1>13. ControlTyped'
  BY <1>6, <1>8, <1>10, <1>11, <1>12 DEF ControlTyped
<1>14. \A x \in Engines : QueueMove(x)
  BY <1>1, <1>2, <1>10, <1>11 DEF QueueMove, SameRequest, Requests
<1>15. AnswersMove
  BY <1>11 DEF AnswersMove
<1>16. KeysFit'
  BY <1>11 DEF HybridInv, KeysFit
<1>17. ASSUME NEW x \in Engines, serving'[x] # None
       PROVE  ServingFit(x)' /\ CopyAgreed(x)'
  <2>1. CASE x = e
    <3>1. ServingFit(e)
      BY <1>1, ServedRequest
    <3>2. prefixes'[e] = prefixes[e]
      BY <1>1, <1>8
    <3>3. /\ serving'[e].phase = "ready" /\ serving'[e].role = "source"
          /\ serving'[e].tokens = r.tokens /\ serving'[e].kind = r.kind
          /\ serving'[e].pair = r.pair /\ serving'[e].sequence = r.sequence
      BY <1>1, <1>2, <1>10 DEF Requests
    <3>4. QED
      BY <1>1, <1>2, <1>11, <2>1, <3>1, <3>2, <3>3
         DEF ServingFit, CopyAgreed, KeyFits, HC!KeysOf, HC!Matches
  <2>2. CASE x = f
    <3>1. ServingFit(f)
      BY <1>1, ServedRequest
    <3>2. /\ serving'[f].phase = "ready" /\ serving'[f].role = "destination"
          /\ serving'[f].tokens = q.tokens /\ serving'[f].kind = q.kind
          /\ serving'[f].pair = q.pair /\ serving'[f].sequence = q.sequence
      BY <1>1, <1>2, <1>10 DEF Requests
    <3>3. QED
      BY <1>1, <1>2, <1>8, <1>11, <2>2, <3>1, <3>2
         DEF ServingFit, CopyAgreed, KeyFits, HC!KeysOf
  <2>3. CASE x # e /\ x # f
    <3>1. serving[x] # None /\ serving'[x] = serving[x] /\ prefixes'[x] = prefixes[x]
      BY <1>8, <1>10, <1>17, <2>3
    <3>2. PICK p : p = serving[x].pair
      OBVIOUS
    <3>3. HC!KeysOf(serving[x], groups[x][p].rank)' = HC!KeysOf(serving[x], groups[x][p].rank)
      BY <1>11, <3>1 DEF HC!KeysOf
    <3>4. ServingFit(x) /\ CopyAgreed(x)
      BY <3>1, ServedRequest
    <3>5. QED
      BY <1>11, <3>1, <3>2, <3>3, <3>4, ServingRests
  <2>4. QED
    BY <2>1, <2>2, <2>3
<1>18. QED
  BY <1>9, <1>13, <1>14, <1>15, <1>16, <1>17 DEF EngineMove, ServingFits, CopiesAgreed

\* A side that has found the other's metadata to be its own begins to copy.
LEMMA PreparesMoves ==
    ASSUME HybridInv, NEW e \in Engines, HC!prepares(e)
    PROVE  EngineMove
<1>1. PICK r \in Requests : r = serving[e]
  BY ServedRequest DEF HC!prepares
<1>2. PICK rank : rank = groups[e][r.pair].rank
  OBVIOUS
<1>3. /\ serving[e] # None /\ r.phase = "prepare"
      /\ UNCHANGED <<requests, published, ready, prefixes>>
  BY <1>1 DEF HC!prepares
<1>4. CASE HC!Fails(e)
  BY <1>3, <1>4, FailsMoves
<1>5. ASSUME NEW k \in HC!KeysOf(r, rank), NEW l \in HC!KeysOf(r, HC!OtherRole(rank)),
             HC!Agree(k, l), HC!Phase(e, "copy"), UNCHANGED <<groups, answers>>
      PROVE  EngineMove
  <2>1. ControlTyped
    BY DEF HybridInv, HybridTyped
  <2>2. [r EXCEPT !.phase = "copy"] \in Requests
    BY DEF Requests
  <2>3. /\ serving' \in [Engines -> Requests \cup {None}]
        /\ serving'[e] = [r EXCEPT !.phase = "copy"]
        /\ \A x \in Engines : x # e => serving'[x] = serving[x]
    BY <1>1, <1>5, <2>1, <2>2 DEF HC!Phase, ControlTyped
  <2>4. ControlTyped'
    BY <1>3, <1>5, <2>1, <2>3 DEF ControlTyped
  <2>5. \A x \in Engines : QueueMove(x)
    BY <1>1, <1>3, <2>3 DEF QueueMove, SameRequest, Requests
  <2>6. AnswersMove /\ PrefixesMove
    BY <1>3, <1>5 DEF AnswersMove, PrefixesMove
  <2>7. KeysFit'
    BY <1>3, <1>5 DEF HybridInv, KeysFit
  <2>8. ASSUME NEW x \in Engines, serving'[x] # None
        PROVE  ServingFit(x)' /\ CopyAgreed(x)'
    <3>1. CASE x = e
      <4>1. ServingFit(e)
        BY <1>3, ServedRequest
      <4>2. /\ serving'[e].phase = "copy" /\ serving'[e].role = r.role
            /\ serving'[e].tokens = r.tokens /\ serving'[e].kind = r.kind
            /\ serving'[e].pair = r.pair /\ serving'[e].sequence = r.sequence
        BY <2>3 DEF Requests
      <4>3. ServingFit(e)'
        BY <1>1, <1>3, <1>5, <4>1, <4>2 DEF ServingFit, KeyFits, HC!KeysOf, HC!Matches
      <4>4. CopyAgreed(e)'
        BY <1>1, <1>2, <1>3, <1>5, <4>2 DEF CopyAgreed, HC!KeysOf
      <4>5. QED
        BY <3>1, <4>3, <4>4
    <3>2. CASE x # e
      <4>1. serving[x] # None /\ serving'[x] = serving[x]
        BY <2>3, <2>8, <3>2
      <4>2. PICK p : p = serving[x].pair
        OBVIOUS
      <4>3. HC!KeysOf(serving[x], groups[x][p].rank)' = HC!KeysOf(serving[x], groups[x][p].rank)
        BY <1>3, <1>5, <4>1 DEF HC!KeysOf
      <4>4. ServingFit(x) /\ CopyAgreed(x)
        BY <4>1, ServedRequest
      <4>5. QED
        BY <1>3, <1>5, <4>1, <4>2, <4>3, <4>4, ServingRests
    <3>3. QED
      BY <3>1, <3>2
  <2>9. QED
    BY <2>4, <2>5, <2>6, <2>7, <2>8 DEF EngineMove, ServingFits, CopiesAgreed
<1>6. \E k \in HC!KeysOf(r, rank), l \in HC!KeysOf(r, HC!OtherRole(rank)) :
         \/ ~HC!Agree(k, l) /\ HC!Fails(e)
         \/ HC!Agree(k, l) /\ HC!Phase(e, "copy") /\ UNCHANGED <<groups, answers>>
  BY <1>1, <1>2 DEF HC!prepares
<1>7. QED
  BY <1>4, <1>5, <1>6

\* A side takes the next number of its group and publishes what it has found.
Publishes(e, r, key) ==
    LET p == r.pair IN
    /\ HC!Usable(e, p)
    /\ key = [sequence |-> groups[e][p].sequence + 1, rank |-> groups[e][p].rank,
              tokens |-> r.tokens, error |-> HC!Rejects(e, r)]
    /\ groups' = [groups EXCEPT ![e][p].sequence = key.sequence]
    /\ published' = [published EXCEPT ![p] = @ \cup {key}]
    /\ serving' = [serving EXCEPT ![e] =
          [r EXCEPT !.phase = "prepare", !.sequence = key.sequence]]
    /\ UNCHANGED <<answers, ready, prefixes>>

\* What a published key adds.
KeyAdded(e, r, key, p) ==
    /\ key \in Keys /\ key.rank = groups[e][p].rank
    /\ key.sequence = groups[e][p].sequence + 1
    /\ key.tokens = r.tokens
    /\ ~key.error => ~HC!Rejects(e, r)
    /\ groups' \in [Engines -> [HC!Pairs ->
          [rank : HC!Roles \cup {"none"}, sequence : Nat, failed : BOOLEAN]]]
    /\ \A x \in Engines, s \in HC!Pairs :
          /\ groups'[x][s].rank = groups[x][s].rank
          /\ x # e \/ s # p => groups'[x][s].sequence = groups[x][s].sequence
    /\ groups'[e][p].sequence = key.sequence
    /\ published' \in [HC!Pairs -> SUBSET Keys]
    /\ published'[p] = published[p] \cup {key}
    /\ \A s \in HC!Pairs : s # p => published'[s] = published[s]

\* The key is new, and the numbers of the side go up to it.
LEMMA PublishedKey ==
    ASSUME HybridInv, NEW e \in Engines, NEW r \in Requests, NEW key,
           NEW p \in HC!Pairs, p = r.pair, e \in p, Publishes(e, r, key)
    PROVE  KeyAdded(e, r, key, p)
<1>1. ControlTyped
  BY DEF HybridInv, HybridTyped
<1>2. PICK g \in [rank : HC!Roles \cup {"none"}, sequence : Nat, failed : BOOLEAN] :
         g = groups[e][p]
  BY <1>1 DEF ControlTyped
<1>3. /\ key = [sequence |-> g.sequence + 1, rank |-> g.rank,
                tokens |-> r.tokens, error |-> HC!Rejects(e, r)]
      /\ g.rank # "none"
      /\ groups' = [groups EXCEPT ![e][p].sequence = key.sequence]
      /\ published' = [published EXCEPT ![p] = @ \cup {key}]
  BY <1>2 DEF Publishes, HC!Usable
<1>4. HC!Rejects(e, r) \in BOOLEAN
  BY DEF HC!Rejects
<1>5. /\ key.sequence = g.sequence + 1 /\ key.rank = g.rank
      /\ key.tokens = r.tokens /\ (~key.error => ~HC!Rejects(e, r))
  BY <1>3
<1>6. key \in Keys
  BY <1>2, <1>3, <1>4 DEF Keys, Requests
<1>7. /\ [g EXCEPT !.sequence = key.sequence] \in
            [rank : HC!Roles \cup {"none"}, sequence : Nat, failed : BOOLEAN]
      /\ [g EXCEPT !.sequence = key.sequence].rank = g.rank
      /\ [g EXCEPT !.sequence = key.sequence].sequence = key.sequence
  BY <1>2, <1>5
<1>8. PICK side : side = [g EXCEPT !.sequence = key.sequence]
  OBVIOUS
<1>9. groups' = [groups EXCEPT ![e] = [@ EXCEPT ![p] = side]]
  BY <1>1, <1>2, <1>3, <1>8 DEF ControlTyped
<1>10. /\ groups' \in [Engines -> [HC!Pairs ->
              [rank : HC!Roles \cup {"none"}, sequence : Nat, failed : BOOLEAN]]]
       /\ groups'[e][p] = side
       /\ \A x \in Engines, s \in HC!Pairs : x # e \/ s # p => groups'[x][s] = groups[x][s]
  BY <1>1, <1>7, <1>8, <1>9 DEF ControlTyped
<1>11. \A x \in Engines, s \in HC!Pairs :
          /\ groups'[x][s].rank = groups[x][s].rank
          /\ x # e \/ s # p => groups'[x][s].sequence = groups[x][s].sequence
  BY <1>2, <1>7, <1>8, <1>10
<1>12. /\ published' \in [HC!Pairs -> SUBSET Keys]
       /\ published'[p] = published[p] \cup {key}
       /\ \A s \in HC!Pairs : s # p => published'[s] = published[s]
  BY <1>1, <1>3, <1>6 DEF ControlTyped
<1>13. QED
  BY <1>2, <1>5, <1>6, <1>7, <1>8, <1>10, <1>11, <1>12 DEF KeyAdded

\* The numbers of a side's keys stay different, and below its count.
LEMMA PublishedKeysFit ==
    ASSUME HybridInv, NEW e \in Engines, NEW r \in Requests, NEW key,
           NEW p \in HC!Pairs, p = r.pair, e \in p, Publishes(e, r, key)
    PROVE  KeysFit'
<1>1. /\ key \in Keys /\ key.rank = groups[e][p].rank
      /\ key.sequence = groups[e][p].sequence + 1
      /\ \A x \in Engines, s \in HC!Pairs :
            /\ groups'[x][s].rank = groups[x][s].rank
            /\ x # e \/ s # p => groups'[x][s].sequence = groups[x][s].sequence
      /\ groups'[e][p].sequence = key.sequence
      /\ published'[p] = published[p] \cup {key}
      /\ \A s \in HC!Pairs : s # p => published'[s] = published[s]
  <2>1. KeyAdded(e, r, key, p)
    BY PublishedKey
  <2>2. QED
    BY <2>1 DEF KeyAdded
<1>2. KeysFit /\ groups[e][p].rank # "none"
  BY DEF HybridInv, Publishes, HC!Usable
<1>3. \A s \in HC!Pairs : \A x \in s : x \in Engines
  BY DEF HC!Pairs
<1>4. groups[e][p].sequence \in Nat
  BY DEF HybridInv, HybridTyped, ControlTyped
<1>5. published \in [HC!Pairs -> SUBSET Keys] /\ \A k \in Keys : k.sequence \in Nat
  BY DEF HybridInv, HybridTyped, ControlTyped, Keys
<1>6. ASSUME NEW s \in HC!Pairs, NEW x \in s, NEW y \in s, x # y,
             groups'[x][s].rank = groups'[y][s].rank
      PROVE  groups'[x][s].rank = "none"
  BY <1>1, <1>2, <1>3, <1>6 DEF KeysFit
<1>7. ASSUME NEW s \in HC!Pairs, NEW x \in s, NEW k \in published'[s],
             k.rank = groups'[x][s].rank
      PROVE  k.sequence <= groups'[x][s].sequence
  <2>1. x \in Engines /\ k.rank = groups[x][s].rank
    BY <1>1, <1>3, <1>7
  <2>2. CASE s # p
    BY <1>1, <1>2, <2>1, <2>2 DEF KeysFit
  <2>3. CASE s = p /\ x = e
    <3>1. k = key \/ (k \in published[p] /\ k.sequence <= groups[e][p].sequence)
      <4>1. k \in published[p] \cup {key} /\ k.rank = groups[e][p].rank
        BY <1>1, <2>1, <2>3
      <4>2. QED
        BY <1>2, <2>3, <4>1 DEF KeysFit
    <3>2. k.sequence \in Nat
      BY <1>1, <1>5, <3>1
    <3>3. QED
      BY <1>1, <1>4, <2>3, <3>1, <3>2
  <2>4. CASE s = p /\ x # e
    <3>1. k # key
      BY <1>1, <1>2, <2>1, <2>4 DEF KeysFit
    <3>2. QED
      BY <1>1, <1>2, <2>1, <2>4, <3>1 DEF KeysFit
  <2>5. QED
    BY <2>2, <2>3, <2>4
<1>8. ASSUME NEW s \in HC!Pairs, NEW k \in published'[s], NEW l \in published'[s],
             k.rank = l.rank, k.sequence = l.sequence
      PROVE  k = l
  <2>1. CASE s # p
    BY <1>1, <1>2, <1>8, <2>1 DEF KeysFit
  <2>2. CASE s = p
    <3>1. \A j \in published[p] : j.rank = key.rank => j.sequence # key.sequence
      <4>1. \A j \in published[p] : j.rank = key.rank => j.sequence <= groups[e][p].sequence
        BY <1>1, <1>2 DEF KeysFit
      <4>2. QED
        BY <1>1, <1>4, <1>5, <4>1
    <3>2. CASE k = key
      BY <1>1, <1>8, <2>2, <3>1, <3>2
    <3>3. CASE l = key
      BY <1>1, <1>8, <2>2, <3>1, <3>3
    <3>4. CASE k # key /\ l # key
      BY <1>1, <1>2, <1>8, <2>2, <3>4 DEF KeysFit
    <3>5. QED
      BY <3>2, <3>3, <3>4
  <2>3. QED
    BY <2>1, <2>2
<1>9. QED
  BY <1>6, <1>7, <1>8 DEF KeysFit

\* A transfer begins, or is refused for want of a group.
LEMMA TransferMoves ==
    ASSUME HybridInv, NEW e \in Engines, HC!transfer(e)
    PROVE  EngineMove
<1>1. PICK r \in HC!ToSet(requests[e]) :
         /\ HC!Takes(e, r) /\ r.kind = "transfer"
         /\ IF HC!Usable(e, r.pair)
            THEN \E key : Publishes(e, r, key)
            ELSE HC!Answer(r, "failed") /\ UNCHANGED <<groups, published, serving>>
  BY DEF HC!transfer, Publishes
<1>2. UNCHANGED <<ready, prefixes>>
  BY DEF HC!transfer
<1>3. ControlTyped /\ requests \in [Engines -> Seq(Requests)]
  BY DEF HybridInv, HybridTyped, ControlTyped
<1>4. /\ r \in Requests /\ r = Head(requests[e]) /\ requests[e] # <<>>
      /\ serving[e] = None /\ requests' = [requests EXCEPT ![e] = Tail(@)]
  BY <1>1, <1>3, TakesEffect
<1>5. Tail(requests[e]) \in Seq(Requests) /\ Queued(e, r)
  BY <1>3, <1>4, QueueTail DEF Queued
<1>6. PICK p \in HC!Pairs : p = r.pair /\ e \in p
  BY <1>4, <1>5 DEF HybridInv, RequestsFit, RequestFits, PairOf, Requests
<1>7. CASE ~HC!Usable(e, p)
  BY <1>1, <1>2, <1>4, <1>6, <1>7, DroppedMoves DEF Dropped, HC!groupVars
<1>8. ASSUME NEW key, Publishes(e, r, key)
      PROVE  EngineMove
  <2>1. /\ key \in Keys /\ key.rank = groups[e][p].rank
        /\ key.sequence = groups[e][p].sequence + 1
        /\ key.tokens = r.tokens /\ (~key.error => ~HC!Rejects(e, r))
        /\ groups' \in [Engines -> [HC!Pairs ->
              [rank : HC!Roles \cup {"none"}, sequence : Nat, failed : BOOLEAN]]]
        /\ \A x \in Engines, s \in HC!Pairs :
              /\ groups'[x][s].rank = groups[x][s].rank
              /\ x # e \/ s # p => groups'[x][s].sequence = groups[x][s].sequence
        /\ groups'[e][p].sequence = key.sequence
        /\ published' \in [HC!Pairs -> SUBSET Keys]
        /\ published'[p] = published[p] \cup {key}
        /\ \A s \in HC!Pairs : s # p => published'[s] = published[s]
    <3>1. KeyAdded(e, r, key, p)
      BY <1>4, <1>6, <1>8, PublishedKey
    <3>2. QED
      BY <3>1 DEF KeyAdded
  <2>2. PICK q : q = [r EXCEPT !.phase = "prepare", !.sequence = key.sequence]
    OBVIOUS
  <2>3. /\ q \in Requests /\ q.phase = "prepare" /\ q.sequence = key.sequence
        /\ q.call = r.call /\ q.kind = "transfer" /\ q.role = r.role
        /\ q.pair = p /\ q.tokens = r.tokens
    BY <1>1, <1>4, <1>6, <2>1, <2>2 DEF Requests, Keys
  <2>4. /\ serving' \in [Engines -> Requests \cup {None}]
        /\ serving'[e] = q /\ \A x \in Engines : x # e => serving'[x] = serving[x]
    BY <1>3, <1>8, <2>2, <2>3 DEF Publishes, ControlTyped
  <2>5. UNCHANGED <<answers, ready, prefixes>>
    BY <1>8 DEF Publishes
  <2>6. ControlTyped'
    BY <1>3, <1>4, <1>5, <2>1, <2>4, <2>5 DEF ControlTyped
  <2>7. \A x \in Engines : QueueMove(x)
    <3>1. SameRequest(q, r)
      BY <1>1, <1>6, <2>3 DEF SameRequest
    <3>2. requests'[e] = Tail(requests[e])
          /\ \A x \in Engines : x # e => requests'[x] = requests[x]
      BY <1>3, <1>4
    <3>3. QueueMove(e)
      BY <1>4, <2>4, <3>1, <3>2 DEF QueueMove
    <3>4. \A x \in Engines : x # e => QueueMove(x)
      BY <2>4, <3>2 DEF QueueMove, SameRequest
    <3>5. QED
      BY <3>3, <3>4
  <2>8. AnswersMove /\ PrefixesMove
    BY <2>5 DEF AnswersMove, PrefixesMove
  <2>9. KeysFit'
    BY <1>4, <1>6, <1>8, PublishedKeysFit
  <2>10. KeysFit /\ groups[e][p].rank # "none" /\ groups[e][p].sequence \in Nat
    BY <1>3, <1>6, <1>8 DEF HybridInv, Publishes, HC!Usable, ControlTyped
  <2>11. ASSUME NEW x \in Engines, serving'[x] # None
         PROVE  ServingFit(x)' /\ CopyAgreed(x)'
    <3>1. CASE x = e
      <4>1. \A k \in published'[p] :
               k.sequence = q.sequence /\ k.rank = groups'[e][p].rank => k = key
        BY <2>1, <2>3, <2>9 DEF KeysFit
      <4>2. KeyFits(e, q, key)'
        <5>1. ~HC!Rejects(e, r) => r.role = groups[e][p].rank
                                   /\ (r.role = "source" => HC!Matches(e, r.tokens))
          BY <1>6 DEF HC!Rejects
        <5>2. QED
          BY <2>1, <2>3, <2>5, <5>1 DEF KeyFits, HC!Matches
      <4>3. QED
        BY <2>1, <2>3, <2>4, <2>10, <3>1, <4>1, <4>2
           DEF ServingFit, CopyAgreed, HC!KeysOf, KeyFits, HC!Matches
    <3>2. CASE x # e
      <4>1. serving[x] # None /\ serving'[x] = serving[x]
        BY <2>4, <2>11, <3>2
      <4>2. PICK s \in HC!Pairs : s = serving[x].pair /\ x \in s
        BY <4>1, ServedRequest
      <4>3. groups[x][s].rank # key.rank \/ s # p
        BY <1>6, <2>1, <2>10, <3>2, <4>2 DEF KeysFit
      <4>4. /\ groups'[x][s].rank = groups[x][s].rank
            /\ groups'[x][s].sequence = groups[x][s].sequence
            /\ published[s] \subseteq published'[s]
        BY <2>1, <3>2
      <4>5. HC!KeysOf(serving[x], groups[x][s].rank)' \subseteq
               HC!KeysOf(serving[x], groups[x][s].rank)
        BY <2>1, <4>1, <4>2, <4>3, <4>4 DEF HC!KeysOf
      <4>6. ServingFit(x) /\ CopyAgreed(x)
        BY <4>1, ServedRequest
      <4>7. QED
        BY <2>5, <4>1, <4>2, <4>4, <4>5, <4>6, ServingRests
    <3>3. QED
      BY <3>1, <3>2
  <2>12. QED
    BY <2>6, <2>7, <2>8, <2>9, <2>11 DEF EngineMove, ServingFits, CopiesAgreed
<1>9. QED
  BY <1>1, <1>6, <1>7, <1>8

\* The two sides of a group are the requests of one call, which has no others.
LEMMA GroupSides ==
    ASSUME HybridInv, NEW e \in Engines, NEW f \in Engines, HC!group_meets(e, f),
           NEW c \in Migrations, c = serving[e].call
    PROVE  /\ serving[e] # None /\ serving[f] # None /\ e # f
           /\ serving[e].phase = "waiting" /\ serving[f].phase = "waiting"
           /\ serving[e].pair = {e, f} /\ serving[f].pair = {e, f} /\ {e, f} \in HC!Pairs
           /\ serving[e].kind = "init" /\ task[c].pc # "copying"
           /\ \A x \in Engines, role \in HC!Roles : Asked(x, c, role) => x = e \/ x = f
           /\ \A x \in {e, f} : \A i \in DOMAIN requests[x] : requests[x][i].call # c
<1>1. /\ serving[e] # None /\ serving[f] # None
      /\ serving[e].kind = "init" /\ serving[f].kind = "init"
      /\ serving[e].call = serving[f].call
      /\ serving[e].role = "source" /\ serving[f].role = "destination"
  BY DEF HC!group_meets
<1>2. PICK r \in Requests, q \in Requests : r = serving[e] /\ q = serving[f]
  BY <1>1, ServedRequest
<1>3. RequestFits(e, r) /\ RequestFits(f, q) /\ ServingFit(e) /\ ServingFit(f)
  BY <1>1, <1>2, ServedRequest
<1>4. /\ e = task[c].source /\ f = task[c].destination
      /\ r.pair = {e, f} /\ q.pair = {e, f} /\ task[c].pc # "copying"
  BY <1>1, <1>2, <1>3, ZenonT(60) DEF RequestFits, PairOf
<1>5. e # f /\ {e, f} \in HC!Pairs
  BY <1>1, <1>2, <1>4 DEF Requests
<1>6. \A x \in {e, f} : \A i \in DOMAIN requests[x] : requests[x][i].call # c
  BY <1>1 DEF HybridInv, NoneTwice
<1>7. ASSUME NEW x \in Engines, NEW role \in HC!Roles, Asked(x, c, role)
      PROVE  x = e \/ x = f
  <2>1. /\ requests[x] \in Seq(Requests)
        /\ serving[x] # None => serving[x] \in Requests
    BY DEF HybridInv, HybridTyped, ControlTyped
  <2>2. PICK s \in Requests : s.call = c /\ (Queued(x, s) \/ Served(x, s))
    BY <1>7, <2>1 DEF Asked, Queued, Served
  <2>3. RequestFits(x, s)
    BY <2>2 DEF HybridInv, RequestsFit
  <2>4. QED
    BY <1>4, <2>2, <2>3 DEF RequestFits
<1>8. QED
  BY <1>1, <1>2, <1>3, <1>4, <1>5, <1>6, <1>7 DEF ServingFit

\* A group is made, or made anew, by two engines that do nothing else.
LEMMA GroupMeetsMoves ==
    ASSUME HybridInv, NEW e \in Engines, NEW f \in Engines, HC!group_meets(e, f)
    PROVE  EngineMove
<1> DEFINE Sides == [rank : HC!Roles \cup {"none"}, sequence : Nat, failed : BOOLEAN]
<1>1. PICK r \in Requests : r = serving[e]
  BY ServedRequest DEF HC!group_meets
<1>2. PICK c \in Migrations : c = r.call
  BY DEF Requests
<1>3. PICK p \in HC!Pairs : p = {e, f}
  BY <1>1, <1>2, GroupSides
<1>4. /\ serving[e] # None /\ serving[f] # None /\ e # f
      /\ serving[e].phase = "waiting" /\ serving[f].phase = "waiting"
      /\ r.pair = p /\ task[c].pc # "copying"
      /\ \A x \in Engines, role \in HC!Roles : Asked(x, c, role) => x = e \/ x = f
      /\ \A x \in {e, f} : \A i \in DOMAIN requests[x] : requests[x][i].call # c
  BY <1>1, <1>2, <1>3, GroupSides
<1>5. PICK first \in Sides, second \in Sides :
         /\ first.rank = "source" /\ second.rank = "destination"
         /\ groups' = [groups EXCEPT ![e][p] = first, ![f][p] = second]
  <2>1. /\ [HC!NoGroup EXCEPT !.rank = "source"] \in Sides
        /\ [HC!NoGroup EXCEPT !.rank = "source"].rank = "source"
        /\ [HC!NoGroup EXCEPT !.rank = "destination"] \in Sides
        /\ [HC!NoGroup EXCEPT !.rank = "destination"].rank = "destination"
    BY DEF HC!NoGroup, HC!Roles
  <2>2. groups' = [groups EXCEPT ![e][p] = [HC!NoGroup EXCEPT !.rank = "source"],
                                 ![f][p] = [HC!NoGroup EXCEPT !.rank = "destination"]]
    BY <1>1, <1>4 DEF HC!group_meets
  <2>3. QED
    BY <2>1, <2>2
<1>6. /\ published' = [published EXCEPT ![p] = {}]
      /\ ready' = [ready EXCEPT ![p] = {}]
      /\ serving' = [serving EXCEPT ![e] = None, ![f] = None]
      /\ answers' = [answers EXCEPT ![c] =
            [role \in HC!Roles |-> IF @[role] = "none" THEN "success" ELSE @[role]]]
      /\ UNCHANGED <<requests, prefixes>>
  BY <1>1, <1>2, <1>4 DEF HC!group_meets
<1>7. ControlTyped
  BY DEF HybridInv, HybridTyped
<1>8. /\ groups' \in [Engines -> [HC!Pairs -> Sides]]
      /\ groups'[e][p].rank = "source" /\ groups'[f][p].rank = "destination"
      /\ \A x \in Engines, s \in HC!Pairs :
            s # p \/ (x # e /\ x # f) => groups'[x][s] = groups[x][s]
  BY <1>4, <1>5, <1>7 DEF ControlTyped
<1>9. /\ published' \in [HC!Pairs -> SUBSET Keys] /\ published'[p] = {}
      /\ \A s \in HC!Pairs : s # p => published'[s] = published[s]
      /\ ready' \in [HC!Pairs -> SUBSET [sequence : Nat, rank : HC!Roles]]
  BY <1>6, <1>7 DEF ControlTyped
<1>10. /\ serving' \in [Engines -> Requests \cup {None}]
       /\ serving'[e] = None /\ serving'[f] = None
       /\ \A x \in Engines : x # e /\ x # f => serving'[x] = serving[x]
  BY <1>4, <1>6, <1>7 DEF ControlTyped
<1>11. /\ answers' \in [Migrations -> [HC!Roles -> {"none", "success", "failed", "raised"}]]
       /\ \A d \in Migrations : d # c => answers'[d] = answers[d]
  BY <1>6, <1>7 DEF ControlTyped
<1>12. ControlTyped'
  BY <1>6, <1>7, <1>8, <1>9, <1>10, <1>11 DEF ControlTyped
<1>13. \A x \in Engines : QueueMove(x)
  BY <1>6, <1>10 DEF QueueMove, SameRequest
<1>14. AnswersMove
  <2>1. ASSUME NEW x \in Engines, NEW role \in HC!Roles
        PROVE  ~Asked(x, c, role)'
    <3>1. CASE x = e \/ x = f
      BY <1>4, <1>6, <1>10, <3>1 DEF Asked
    <3>2. CASE x # e /\ x # f
      <4>1. ~Asked(x, c, role)
        BY <1>4, <3>2
      <4>2. serving'[x] = serving[x] /\ requests' = requests
        BY <1>6, <1>10, <3>2
      <4>3. QED
        BY <4>1, <4>2 DEF Asked
    <3>3. QED
      BY <3>1, <3>2
  <2>2. QED
    BY <1>4, <1>11, <2>1 DEF AnswersMove
<1>15. PrefixesMove
  BY <1>6 DEF PrefixesMove
<1>16. \A s \in HC!Pairs : \A x \in s : x \in Engines
  BY DEF HC!Pairs
<1>17. KeysFit'
  <2>1. KeysFit
    BY DEF HybridInv
  <2>2. ASSUME NEW s \in HC!Pairs
        PROVE  /\ \A x, y \in s : x # y /\ groups'[x][s].rank = groups'[y][s].rank =>
                     groups'[x][s].rank = "none"
               /\ \A x \in s, k \in published'[s] : k.rank = groups'[x][s].rank =>
                     k.sequence <= groups'[x][s].sequence
               /\ \A k, l \in published'[s] :
                     k.rank = l.rank /\ k.sequence = l.sequence => k = l
    <3>1. CASE s = p
      BY <1>3, <1>8, <1>9, <3>1
    <3>2. CASE s # p
      <4>1. /\ \A x \in s : groups'[x][s] = groups[x][s]
            /\ published'[s] = published[s]
        BY <1>8, <1>9, <1>16, <3>2
      <4>2. QED
        BY <2>1, <4>1 DEF KeysFit
    <3>3. QED
      BY <3>1, <3>2
  <2>3. QED
    BY <2>2 DEF KeysFit
<1>18. ASSUME NEW x \in Engines, serving'[x] # None
       PROVE  ServingFit(x)' /\ CopyAgreed(x)'
  <2>1. x # e /\ x # f /\ serving[x] # None /\ serving'[x] = serving[x]
    BY <1>10, <1>18
  <2>2. PICK s \in HC!Pairs : s = serving[x].pair /\ x \in s
    BY <2>1, ServedRequest
  <2>3. s # p
    BY <1>3, <2>1, <2>2
  <2>4. groups'[x][s] = groups[x][s] /\ published'[s] = published[s] /\ prefixes' = prefixes
    BY <1>6, <1>8, <1>9, <2>3
  <2>5. HC!KeysOf(serving[x], groups[x][s].rank)' = HC!KeysOf(serving[x], groups[x][s].rank)
    BY <2>1, <2>2, <2>4 DEF HC!KeysOf
  <2>6. ServingFit(x) /\ CopyAgreed(x)
    BY <2>1, ServedRequest
  <2>7. QED
    BY <2>1, <2>2, <2>4, <2>5, <2>6, ServingRests
<1>19. QED
  BY <1>12, <1>13, <1>14, <1>15, <1>17, <1>18 DEF EngineMove, ServingFits, CopiesAgreed

\* Every step of an engine, and every fault.
LEMMA EngineMoves ==
    ASSUME HybridInv, NEW e \in Engines, engine_serves(e) \/ engine_traffic(e) \/ fault(e)
    PROVE  EngineMove
<1>1. CASE engine_serves(e)
  <2>1. CASE HC!refuses(e)
    BY <2>1, DroppedMoves DEF HC!refuses, Dropped
  <2>2. CASE HC!times_out(e)
    BY <2>2, FailsMoves DEF HC!times_out
  <2>3. QED
    BY <1>1, <2>1, <2>2, InitGroupMoves, GroupMeetsMoves, BroadcastsMoves, TransferMoves,
       PreparesMoves, CompletesMoves
       DEF engine_serves, HC!serves
<1>2. CASE engine_traffic(e)
  BY <1>2, PrefixMoves, HybridAssumption DEF engine_traffic
<1>3. CASE fault(e)
  <2>1. CASE HC!gives_up(e)
    BY <2>1, DroppedMoves, LateAnswerMoves DEF HC!gives_up, Dropped
  <2>2. QED
    BY <1>3, <2>1, RestartsMoves, PrefixMoves DEF fault
<1>4. QED
  BY <1>1, <1>2, <1>3

-----------------------------------------------------------------------------
(* The steps of a call. *)

\* A step of an engine keeps the invariant.
LEMMA EngineMoveKeeps ==
    ASSUME HybridInv, EngineMove, UNCHANGED <<storeVars, callVars>>, faults' \in 0..MaxFaults
    PROVE  HybridInv'
<1>1. HybridTyped'
  BY DEF HybridInv, HybridTyped, EngineMove, CallsTyped, callVars
<1>2. UNCHANGED <<agents, migrations, claims, starting, task>>
  BY DEF storeVars, callVars
<1>3. CoordinatedInv'
  <2>1. StoreInv'
    BY <1>2, StoreInvStep DEF HybridInv, CoordinatedInv, storeVars
  <2>2. CountInv'
    BY <1>2, CountsKept DEF HybridInv, CoordinatedInv, Registered, HandedOver, MigrationState
  <2>3. QED
    BY <1>2, <2>1, <2>2 DEF HybridInv, CoordinatedInv, Registered
<1>4. CallsFit'
  BY <1>2 DEF HybridInv, CallsFit, CallFits
<1>5. StateArrived'
  <2>1. ASSUME NEW m \in Migrations,
               \/ task[m].pc = "copying" /\ answers'[m]["destination"] = "success"
               \/ task[m].pc \in {"commit", "done"}
        PROVE  Arrived(m)'
    <3>1. task[m].destination \in Engines /\ task[m].tokens \in Tokens
      BY <2>1 DEF HybridInv, CallsFit, CallFits
    <3>2. Arrived(m)
      BY <2>1 DEF HybridInv, StateArrived, EngineMove, AnswersMove, HC!Roles
    <3>3. QED
      BY <1>2, <3>1, <3>2 DEF Arrived, EngineMove, PrefixesMove
  <2>2. QED
    BY <1>2, <2>1 DEF StateArrived
<1>6. RequestsFit' /\ NoneTwice'
  BY <1>2, QueuesKept DEF EngineMove
<1>7. PublishedStateIsOwn'
  BY DEF HybridInv, PublishedStateIsOwn, EngineMove, PrefixesMove
<1>8. QED
  BY <1>1, <1>3, <1>4, <1>5, <1>6, <1>7 DEF HybridInv, EngineMove

\* A step of a call between two awaits that leaves the engines alone.
CallMove(m, pc) ==
    /\ task' = [task EXCEPT ![m].pc = pc]
    /\ CoordinatorCall(m)
    /\ \A n \in Migrations : n # m => migrations'[n] = migrations[n]
    /\ migrations'[m].agent = migrations[m].agent
    /\ migrations'[m].destination = migrations[m].destination
    /\ <<pc, MigrationState(m)'>> \in CallStates
    /\ pc \in {"group", "init", "copying", "commit", "done", "failed"}
    /\ _groups' \subseteq HC!Pairs
    /\ group_lock' \in [HC!Pairs -> Migrations \cup {None}]
    /\ UNCHANGED faults

\* What a call is at changes for that call alone, and its row with it.
LEMMA CallMoveKeeps ==
    ASSUME HybridInv, NEW m \in Migrations, task[m].pc # "idle", NEW pc, CallMove(m, pc)
    PROVE  /\ CallsTyped' /\ CoordinatedInv' /\ CallsFit'
           /\ task'[m].pc = pc /\ task'[m].source = task[m].source
           /\ task'[m].destination = task[m].destination /\ task'[m].tokens = task[m].tokens
           /\ \A n \in Migrations : n # m => task'[n] = task[n]
<1>1. task \in [Migrations ->
          [pc : {"idle", "group", "init", "copying", "commit", "done", "failed"},
           source : Engines \cup {None}, destination : Engines \cup {None},
           tokens : Tokens \cup {None}]]
  BY DEF HybridInv, HybridTyped, CallsTyped
<1>2. /\ task'[m].pc = pc /\ task'[m].source = task[m].source
      /\ task'[m].destination = task[m].destination /\ task'[m].tokens = task[m].tokens
      /\ \A n \in Migrations : n # m => task'[n] = task[n]
      /\ task' \in [Migrations ->
          [pc : {"idle", "group", "init", "copying", "commit", "done", "failed"},
           source : Engines \cup {None}, destination : Engines \cup {None},
           tokens : Tokens \cup {None}]]
  BY <1>1 DEF CallMove
<1>3. CallsTyped'
  BY <1>2 DEF CallMove, HybridInv, HybridTyped, CallsTyped
<1>4. CoordinatedInv'
  BY CoordinatorKeeps DEF CallMove, HybridInv
<1>5. ASSUME NEW n \in Migrations
      PROVE  CallFits(n)'
  <2>1. CallFits(n)
    BY DEF HybridInv, CallsFit
  <2>2. CASE n # m
    BY <1>2, <2>1, <2>2 DEF CallMove, CallFits
  <2>3. CASE n = m
    BY <1>2, <2>1, <2>3 DEF CallMove, CallFits, MigrationState
  <2>4. QED
    BY <2>2, <2>3
<1>6. QED
  BY <1>2, <1>3, <1>4, <1>5 DEF CallsFit

\* A step that sends nothing.
LEMMA QuietCallKeeps ==
    ASSUME HybridInv, NEW m \in Migrations,
           task[m].pc \in {"init", "copying", "commit"}, UNCHANGED engineVars,
           NEW pc \in {"commit", "done", "failed"}, CallMove(m, pc),
           pc # "failed" => Arrived(m)
    PROVE  HybridInv'
<1>1. /\ CallsTyped' /\ CoordinatedInv' /\ CallsFit'
      /\ task'[m].pc = pc /\ task'[m].source = task[m].source
      /\ task'[m].destination = task[m].destination /\ task'[m].tokens = task[m].tokens
      /\ \A n \in Migrations : n # m => task'[n] = task[n]
  BY CallMoveKeeps
<1>2. UNCHANGED <<requests, serving, groups, published, ready, prefixes, answers>>
  BY DEF engineVars
<1>3. ControlTyped' /\ PublishedStateIsOwn' /\ KeysFit' /\ NoneTwice'
  BY <1>2 DEF HybridInv, HybridTyped, ControlTyped, PublishedStateIsOwn, KeysFit, NoneTwice
<1>4. ServingFits' /\ CopiesAgreed'
  BY <1>2 DEF HybridInv, ServingFits, CopiesAgreed, ServingFit, CopyAgreed, KeyFits,
              HC!KeysOf, HC!Matches
<1>5. StateArrived'
  BY <1>1, <1>2 DEF HybridInv, StateArrived, Arrived
<1>6. RequestsFit'
  <2>1. ASSUME NEW e \in Engines, NEW r \in Requests, RequestFits(e, r)
        PROVE  RequestFits(e, r)'
    <3>1. r.call \in Migrations
      BY DEF Requests
    <3>2. CASE r.call = m
      BY <1>1, <1>2, <2>1, <3>2 DEF RequestFits, PairOf
    <3>3. CASE r.call # m
      BY <1>1, <1>2, <2>1, <3>1, <3>3 DEF RequestFits, PairOf
    <3>4. QED
      BY <3>2, <3>3
  <2>2. QED
    BY <1>2, <2>1 DEF HybridInv, RequestsFit, Queued, Served
<1>7. QED
  BY <1>1, <1>3, <1>4, <1>5, <1>6 DEF HybridInv, HybridTyped

\* A call that has sent nothing, or whose requests have all succeeded, has none in flight.
LEMMA NothingInFlight ==
    ASSUME HybridInv, NEW m \in Migrations,
           task[m].pc = "group" \/ (task[m].pc = "init" /\ Succeeded(m))
    PROVE  \A e \in Engines, r \in Requests :
              Queued(e, r) \/ Served(e, r) => r.call # m
<1> SUFFICES ASSUME NEW e \in Engines, NEW r \in Requests,
                    Queued(e, r) \/ Served(e, r), r.call = m
             PROVE  FALSE
  OBVIOUS
<1>1. RequestFits(e, r) /\ r.role \in HC!Roles
  BY DEF HybridInv, RequestsFit, Requests
<1>2. QED
  BY <1>1 DEF RequestFits, Succeeded

\* Both sides get a request at the end of their queues.
Sends(m, kind) ==
    HC!send(m, kind, task[m].source, task[m].destination, task[m].tokens)

\* What is put in the two queues, and that nothing else changes (engine_client.py).
LEMMA SendsEffect ==
    ASSUME HybridInv, NEW m \in Migrations, task[m].pc # "idle",
           NEW kind \in {"init", "transfer"}, Sends(m, kind)
    PROVE  \E s \in Requests, d \in Requests :
              /\ s.call = m /\ s.kind = kind /\ s.role = "source" /\ s.phase = "waiting"
              /\ s.pair = PairOf(m) /\ s.tokens = task[m].tokens
              /\ d.call = m /\ d.kind = kind /\ d.role = "destination" /\ d.phase = "waiting"
              /\ d.pair = PairOf(m) /\ d.tokens = task[m].tokens
              /\ requests'[task[m].source] = Append(requests[task[m].source], s)
              /\ requests'[task[m].destination] = Append(requests[task[m].destination], d)
              /\ \A x \in Engines : x \notin PairOf(m) => requests'[x] = requests[x]
              /\ requests' \in [Engines -> Seq(Requests)]
              /\ answers' = [answers EXCEPT ![m] = [role \in HC!Roles |-> "none"]]
              /\ UNCHANGED <<serving, groups, published, ready, prefixes>>
<1>1. PICK source \in Engines, destination \in Engines, t \in Tokens :
         /\ source = task[m].source /\ destination = task[m].destination
         /\ t = task[m].tokens /\ source # destination
  BY DEF HybridInv, CallsFit, CallFits
<1>2. PICK p \in HC!Pairs : p = {source, destination} /\ p = PairOf(m)
  BY <1>1, PairOfTwo DEF PairOf
<1>3. PICK s \in Requests : s = HC!Request(m, kind, "source", p, t)
  BY <1>2 DEF HC!Request, Requests, HC!Roles
<1>4. PICK d \in Requests : d = HC!Request(m, kind, "destination", p, t)
  BY <1>2 DEF HC!Request, Requests, HC!Roles
<1>5. requests \in [Engines -> Seq(Requests)]
  BY DEF HybridInv, HybridTyped, ControlTyped
<1>6. requests' = [requests EXCEPT ![source] = Append(@, s), ![destination] = Append(@, d)]
  BY <1>1, <1>2, <1>3, <1>4 DEF Sends, HC!send
<1>7. /\ Append(requests[source], s) \in Seq(Requests)
      /\ Append(requests[destination], d) \in Seq(Requests)
  BY <1>5
<1>8. /\ requests'[source] = Append(requests[source], s)
      /\ requests'[destination] = Append(requests[destination], d)
      /\ \A x \in Engines : x # source /\ x # destination => requests'[x] = requests[x]
      /\ requests' \in [Engines -> Seq(Requests)]
  BY <1>1, <1>5, <1>6, <1>7
<1>9. /\ s.call = m /\ s.kind = kind /\ s.role = "source" /\ s.phase = "waiting"
      /\ s.pair = p /\ s.tokens = t
      /\ d.call = m /\ d.kind = kind /\ d.role = "destination" /\ d.phase = "waiting"
      /\ d.pair = p /\ d.tokens = t
  BY <1>3, <1>4 DEF HC!Request
<1>10. /\ answers' = [answers EXCEPT ![m] = [role \in HC!Roles |-> "none"]]
       /\ UNCHANGED <<serving, groups, published, ready, prefixes>>
  BY DEF Sends, HC!send, HC!groupVars
<1>11. \A x \in Engines : x \notin PairOf(m) => requests'[x] = requests[x]
  BY <1>2, <1>8
<1>12. QED
  BY <1>1, <1>2, <1>8, <1>9, <1>10, <1>11

\* A step that sends a request to either side.
LEMMA SendingKeeps ==
    ASSUME HybridInv, NEW m \in Migrations,
           task[m].pc = "group" \/ (task[m].pc = "init" /\ Succeeded(m)),
           NEW pc, NEW kind \in {"init", "transfer"}, Sends(m, kind), CallMove(m, pc),
           (pc = "init" /\ kind = "init") \/ (pc = "copying" /\ kind = "transfer")
    PROVE  HybridInv'
<1>1. /\ CallsTyped' /\ CoordinatedInv' /\ CallsFit'
      /\ task'[m].pc = pc /\ task'[m].source = task[m].source
      /\ task'[m].destination = task[m].destination /\ task'[m].tokens = task[m].tokens
      /\ \A n \in Migrations : n # m => task'[n] = task[n]
  BY CallMoveKeeps
<1>2. PICK s \in Requests, d \in Requests :
         /\ s.call = m /\ s.kind = kind /\ s.role = "source" /\ s.phase = "waiting"
         /\ s.pair = PairOf(m) /\ s.tokens = task[m].tokens
         /\ d.call = m /\ d.kind = kind /\ d.role = "destination" /\ d.phase = "waiting"
         /\ d.pair = PairOf(m) /\ d.tokens = task[m].tokens
         /\ requests'[task[m].source] = Append(requests[task[m].source], s)
         /\ requests'[task[m].destination] = Append(requests[task[m].destination], d)
         /\ \A x \in Engines : x \notin PairOf(m) => requests'[x] = requests[x]
         /\ requests' \in [Engines -> Seq(Requests)]
         /\ answers' = [answers EXCEPT ![m] = [role \in HC!Roles |-> "none"]]
         /\ UNCHANGED <<serving, groups, published, ready, prefixes>>
  BY SendsEffect
<1>3. PICK source \in Engines, destination \in Engines :
         source = task[m].source /\ destination = task[m].destination /\ source # destination
  BY DEF HybridInv, CallsFit, CallFits
<1>4. ControlTyped
  BY DEF HybridInv, HybridTyped
<1>5. /\ answers' \in [Migrations -> [HC!Roles -> {"none", "success", "failed", "raised"}]]
      /\ \A role \in HC!Roles : answers'[m][role] = "none"
      /\ \A n \in Migrations : n # m => answers'[n] = answers[n]
  BY <1>2, <1>4 DEF ControlTyped
<1>6. ControlTyped'
  BY <1>2, <1>4, <1>5 DEF ControlTyped
<1>7. PublishedStateIsOwn' /\ KeysFit' /\ ServingFits' /\ CopiesAgreed'
  <2>1. UNCHANGED <<serving, groups, published, prefixes>>
    BY <1>2
  <2>2. PublishedStateIsOwn' /\ KeysFit'
    BY <2>1 DEF HybridInv, PublishedStateIsOwn, KeysFit
  <2>3. ServingFits' /\ CopiesAgreed'
    BY <2>1 DEF HybridInv, ServingFits, CopiesAgreed, ServingFit, CopyAgreed, KeyFits,
                HC!KeysOf, HC!Matches
  <2>4. QED
    BY <2>2, <2>3
<1>8. StateArrived'
  <2>1. ASSUME NEW n \in Migrations,
               \/ task'[n].pc = "copying" /\ answers'[n]["destination"] = "success"
               \/ task'[n].pc \in {"commit", "done"}
        PROVE  Arrived(n)'
    <3>1. n # m
      BY <1>1, <1>5, <2>1 DEF HC!Roles
    <3>2. QED
      BY <1>1, <1>2, <1>5, <2>1, <3>1, SMTT(30) DEF HybridInv, StateArrived, Arrived
  <2>2. QED
    BY <2>1 DEF StateArrived
<1>9. \A e \in Engines, r \in Requests : Queued(e, r) \/ Served(e, r) => r.call # m
  BY NothingInFlight
<1>10. RequestFits(source, s)' /\ RequestFits(destination, d)'
  BY <1>1, <1>2, <1>3, <1>5 DEF RequestFits, PairOf, HC!Roles
<1>11. \A e \in Engines :
          \/ requests'[e] = requests[e]
          \/ \E r \in Requests : /\ requests'[e] = Append(requests[e], r) /\ r.call = m
                                 /\ RequestFits(e, r)' /\ r.phase = "waiting"
  BY <1>2, <1>3, <1>10 DEF PairOf
<1>12. RequestsFit'
  <2>1. ASSUME NEW e \in Engines, NEW r \in Requests, RequestFits(e, r), r.call # m
        PROVE  RequestFits(e, r)'
    BY <1>1, <1>5, <2>1 DEF RequestFits, PairOf, Requests
  <2>3. ASSUME NEW e \in Engines, NEW r \in Requests, Queued(e, r)'
        PROVE  RequestFits(e, r)' /\ r.phase = "waiting"
    <3>1. CASE Queued(e, r)
      BY <1>9, <2>1, <3>1 DEF HybridInv, RequestsFit
    <3>2. CASE ~Queued(e, r)
      <4>1. PICK q \in Requests : /\ requests'[e] = Append(requests[e], q)
                                  /\ RequestFits(e, q)' /\ q.phase = "waiting"
        BY <1>11, <2>3, <3>2 DEF Queued
      <4>2. requests[e] \in Seq(Requests)
        BY <1>4 DEF ControlTyped
      <4>3. r = q
        BY <2>3, <3>2, <4>1, <4>2, QueueAppend DEF Queued
      <4>4. QED
        BY <4>1, <4>3
    <3>3. QED
      BY <3>1, <3>2
  <2>4. ASSUME NEW e \in Engines, NEW r \in Requests, Served(e, r)'
        PROVE  RequestFits(e, r)'
    BY <1>2, <1>9, <2>1, <2>4 DEF HybridInv, RequestsFit, Served
  <2>5. QED
    BY <2>3, <2>4 DEF RequestsFit
<1>13. NoneTwice'
  <2>1. ASSUME NEW e \in Engines
        PROVE  /\ \A i, j \in DOMAIN requests'[e] :
                     requests'[e][i].call = requests'[e][j].call => i = j
               /\ serving'[e] # None =>
                     \A i \in DOMAIN requests'[e] : requests'[e][i].call # serving'[e].call
    <3>1. /\ \A i, j \in DOMAIN requests[e] :
                requests[e][i].call = requests[e][j].call => i = j
          /\ serving[e] # None =>
                \A i \in DOMAIN requests[e] : requests[e][i].call # serving[e].call
      BY DEF HybridInv, NoneTwice
    <3>2. serving'[e] = serving[e]
      BY <1>2
    <3>3. CASE requests'[e] = requests[e]
      BY <3>1, <3>2, <3>3
    <3>4. ASSUME NEW r \in Requests, requests'[e] = Append(requests[e], r), r.call = m
          PROVE  /\ \A i, j \in DOMAIN requests'[e] :
                       requests'[e][i].call = requests'[e][j].call => i = j
                 /\ serving'[e] # None =>
                       \A i \in DOMAIN requests'[e] : requests'[e][i].call # serving'[e].call
      <4>1. requests[e] \in Seq(Requests)
        BY <1>4 DEF ControlTyped
      <4>2. /\ \A i \in DOMAIN requests[e] : requests[e][i].call # m
            /\ serving[e] # None => serving[e].call # m
        BY <1>4, <1>9, <4>1 DEF Queued, Served, ControlTyped
      <4>3. \A i \in DOMAIN requests'[e] :
               \/ i \in DOMAIN requests[e] /\ requests'[e][i] = requests[e][i]
               \/ i = Len(requests[e]) + 1 /\ requests'[e][i] = r
        <5>1. PICK q \in Seq(Requests) : q = requests[e]
          BY <4>1
        <5>2. /\ requests'[e] = Append(q, r)
              /\ Append(q, r)[Len(q) + 1] = r
              /\ \A i \in DOMAIN Append(q, r) : i # Len(q) + 1 =>
                    i \in DOMAIN q /\ Append(q, r)[i] = q[i]
          BY <3>4, <5>1, QueueAppend
        <5>3. QED
          BY <5>1, <5>2
      <4>4. ASSUME NEW i \in DOMAIN requests'[e], NEW j \in DOMAIN requests'[e],
                   requests'[e][i].call = requests'[e][j].call
            PROVE  i = j
        <5>1. CASE i \in DOMAIN requests[e] /\ requests'[e][i] = requests[e][i]
          <6>1. requests'[e][i].call # m
            BY <4>2, <5>1
          <6>2. j \in DOMAIN requests[e] /\ requests'[e][j] = requests[e][j]
            BY <3>4, <4>3, <4>4, <6>1
          <6>3. QED
            BY <3>1, <4>4, <5>1, <6>2
        <5>2. CASE i = Len(requests[e]) + 1 /\ requests'[e][i] = r
          <6>1. requests'[e][j].call = m
            BY <3>4, <4>4, <5>2
          <6>2. j = Len(requests[e]) + 1
            BY <4>2, <4>3, <6>1
          <6>3. QED
            BY <5>2, <6>2
        <5>3. QED
          BY <4>3, <5>1, <5>2
      <4>5. serving'[e] # None =>
               \A i \in DOMAIN requests'[e] : requests'[e][i].call # serving'[e].call
        BY <3>1, <3>2, <3>4, <4>2, <4>3
      <4>6. QED
        BY <4>4, <4>5
    <3>5. QED
      BY <1>11, <3>3, <3>4
  <2>2. QED
    BY <2>1 DEF NoneTwice
<1>14. QED
  BY <1>1, <1>6, <1>7, <1>8, <1>12, <1>13 DEF HybridInv, HybridTyped

\* The agent is read and its row inserted (hybrid_migration.py).
LEMMA MigrateKeeps ==
    ASSUME HybridInv, NEW m \in Migrations, NEW a \in Agents, NEW e \in Engines, migrate(m, a, e)
    PROVE  HybridInv'
<1>1. PICK row : row = [agent |-> a, source |-> agents[a].owner, destination |-> e,
                        epoch |-> agents[a].epoch, state |-> "PREPARING"]
  OBVIOUS
<1>2. /\ task[m].pc = "idle" /\ row.source # e /\ ~HasLiveMigration(a)
      /\ migrations' = [migrations EXCEPT ![m] = row]
      /\ task' = [task EXCEPT ![m] = [pc |-> "group", source |-> row.source,
                                      destination |-> e, tokens |-> TokensOf[a]]]
      /\ UNCHANGED <<agents, claims, starting, engineVars, _groups, group_lock, faults>>
  BY <1>1 DEF migrate
<1>3. /\ row.agent = a /\ row.source \in Engines /\ row.destination = e
      /\ row.epoch = agents[a].epoch /\ row.epoch \in Nat
      /\ row.state = "PREPARING" /\ Registered(a)
  BY <1>1 DEF HybridInv, CoordinatedInv, StoreInv, StoreTypeOK, AgentRows, Registered
<1>4. row \in MigrationRows
  BY <1>1, <1>3 DEF MigrationRows, LiveStates
<1>5. MigrationState(m) = "NONE"
  BY <1>2 DEF HybridInv, CallsFit, CallFits, CallStates, MigrationState
<1>6. InsertsRow(m, row)
  BY <1>2, <1>3, <1>4, <1>5 DEF InsertsRow
<1>7. CoordinatedInv'
  BY <1>4, <1>6, CoordinatorKeeps DEF HybridInv, CoordinatorCall
<1>8. /\ migrations'[m] = row
      /\ \A n \in Migrations : n # m => migrations'[n] = migrations[n]
  BY <1>2 DEF HybridInv, CoordinatedInv, StoreInv, StoreTypeOK
<1>9. TokensOf[a] \in Tokens
  BY HybridAssumption
<1>10. /\ CallsTyped'
       /\ task'[m].pc = "group" /\ task'[m].source = row.source /\ task'[m].destination = e
       /\ task'[m].tokens = TokensOf[a]
       /\ \A n \in Migrations : n # m => task'[n] = task[n]
  BY <1>2, <1>3, <1>9 DEF HybridInv, HybridTyped, CallsTyped
<1>11. CallsFit'
  <2>1. ASSUME NEW n \in Migrations
        PROVE  CallFits(n)'
    <3>1. CallFits(n)
      BY DEF HybridInv, CallsFit
    <3>2. CASE n # m
      BY <1>8, <1>10, <3>1, <3>2 DEF CallFits
    <3>3. CASE n = m
      BY <1>2, <1>3, <1>8, <1>9, <1>10, <3>3 DEF CallFits, CallStates
    <3>4. QED
      BY <3>2, <3>3
  <2>2. QED
    BY <2>1 DEF CallsFit
<1>12. UNCHANGED <<requests, serving, groups, published, ready, prefixes, answers>>
  BY <1>2 DEF engineVars
<1>13. ControlTyped' /\ PublishedStateIsOwn' /\ KeysFit' /\ NoneTwice'
  BY <1>12 DEF HybridInv, HybridTyped, ControlTyped, PublishedStateIsOwn, KeysFit, NoneTwice
<1>14. ServingFits' /\ CopiesAgreed'
  BY <1>12 DEF HybridInv, ServingFits, CopiesAgreed, ServingFit, CopyAgreed, KeyFits,
               HC!KeysOf, HC!Matches
<1>15. StateArrived'
  BY <1>10, <1>12 DEF HybridInv, StateArrived, Arrived
<1>16. RequestsFit'
  <2>1. ASSUME NEW x \in Engines, NEW r \in Requests, RequestFits(x, r)
        PROVE  RequestFits(x, r)'
    <3>1. r.call # m /\ r.call \in Migrations
      BY <1>2, <2>1 DEF RequestFits, Requests
    <3>2. QED
      BY <1>10, <1>12, <2>1, <3>1 DEF RequestFits, PairOf
  <2>2. QED
    BY <1>12, <2>1 DEF HybridInv, RequestsFit, Queued, Served
<1>17. QED
  BY <1>7, <1>10, <1>11, <1>13, <1>14, <1>15, <1>16 DEF HybridInv, HybridTyped

\* A compare-and-swap of a row's state, with the call that makes it.
LEMMA TransitionMoves ==
    ASSUME HybridInv, NEW m \in Migrations, NEW t \in Transitions,
           transition_migration(m, t[1], t[2]), NEW pc, Goto(m, pc),
           <<pc, t[2]>> \in CallStates \ {<<"idle", "NONE">>},
           _groups' \subseteq HC!Pairs,
           group_lock' \in [HC!Pairs -> Migrations \cup {None}], UNCHANGED faults
    PROVE  CallMove(m, pc)
<1>1. CoordinatorCall(m)
  BY DEF CoordinatorCall
<1>2. migrations \in [Migrations -> MigrationRows]
  BY DEF HybridInv, CoordinatedInv, StoreInv, StoreTypeOK
<1>3. /\ \A n \in Migrations : n # m => migrations'[n] = migrations[n]
      /\ migrations'[m].agent = migrations[m].agent
      /\ migrations'[m].destination = migrations[m].destination
      /\ migrations'[m].state = t[2]
  BY <1>2 DEF transition_migration, MigrationRows
<1>4. pc \in {"group", "init", "copying", "commit", "done", "failed"}
  BY DEF CallStates
<1>5. QED
  BY <1>1, <1>3, <1>4 DEF CallMove, Goto, MigrationState

\* The pair of a call that has begun.
LEMMA PairOfCall ==
    ASSUME HybridInv, NEW m \in Migrations, task[m].pc # "idle"
    PROVE  PairOf(m) \in HC!Pairs
<1>1. PICK e \in Engines, f \in Engines :
         e = task[m].source /\ f = task[m].destination /\ e # f
  BY DEF HybridInv, CallsFit, CallFits
<1>2. QED
  BY <1>1, PairOfTwo DEF PairOf

\* The row of a call, and what it may become.
LEMMA CallState ==
    ASSUME HybridInv, NEW m \in Migrations
    PROVE  <<task[m].pc, MigrationState(m)>> \in CallStates
BY DEF HybridInv, CallsFit, CallFits, MigrationState

\* With the group known, both sides are asked to copy.
LEMMA StartsCopyingKeeps ==
    ASSUME HybridInv, NEW m \in Migrations,
           task[m].pc = "group" \/ (task[m].pc = "init" /\ Succeeded(m)),
           StartsCopying(m), _groups' \subseteq HC!Pairs,
           group_lock' \in [HC!Pairs -> Migrations \cup {None}], UNCHANGED faults
    PROVE  HybridInv'
<1>1. PICK t \in Transitions : t = <<"PREPARING", "COPYING">>
  BY DEF Transitions
<1>2. /\ transition_migration(m, t[1], t[2]) /\ Goto(m, "copying") /\ Sends(m, "transfer")
      /\ t[2] = "COPYING"
  BY <1>1 DEF StartsCopying, Sends
<1>3. <<"copying", t[2]>> \in CallStates \ {<<"idle", "NONE">>}
  BY <1>2 DEF CallStates
<1>4. CallMove(m, "copying")
  BY <1>2, <1>3, TransitionMoves
<1>5. QED
  BY <1>2, <1>4, SendingKeeps

\* The first call of a pair asks both sides for a group.
LEMMA EnsureGroupKeeps ==
    ASSUME HybridInv, NEW m \in Migrations, ensure_group(m)
    PROVE  HybridInv'
<1>1. /\ task[m].pc = "group" /\ Sends(m, "init") /\ Goto(m, "init")
      /\ group_lock' = [group_lock EXCEPT ![PairOf(m)] = m]
      /\ UNCHANGED <<storeVars, _groups, faults>>
  BY DEF ensure_group, Sends
<1>2. MigrationState(m)' = "PREPARING" /\ UNCHANGED migrations
  BY <1>1, CallState DEF CallStates, storeVars, MigrationState
<1>3. /\ group_lock' \in [HC!Pairs -> Migrations \cup {None}] /\ _groups' \subseteq HC!Pairs
  BY <1>1 DEF HybridInv, HybridTyped, CallsTyped
<1>4. CallMove(m, "init")
  BY <1>1, <1>2, <1>3 DEF CallMove, Goto, CoordinatorCall, CallStates
<1>5. QED
  BY <1>1, <1>4, SendingKeeps

\* The except clause.
LEMMA RaisesMoves ==
    ASSUME HybridInv, NEW m \in Migrations, task[m].pc \in {"init", "copying"}, Raises(m),
           UNCHANGED _groups,
           group_lock' \in [HC!Pairs -> Migrations \cup {None}], UNCHANGED faults
    PROVE  CallMove(m, "failed")
<1>1. MigrationState(m) \in {"PREPARING", "COPYING"}
  BY CallState DEF CallStates
<1>2. PICK t \in Transitions : t = <<MigrationState(m), "ABORTED">>
  BY <1>1 DEF Transitions
<1>3. /\ transition_migration(m, t[1], t[2]) /\ Goto(m, "failed") /\ t[2] = "ABORTED"
  BY <1>2 DEF Raises
<1>4. <<"failed", t[2]>> \in CallStates \ {<<"idle", "NONE">>}
  BY <1>3 DEF CallStates
<1>5. _groups' \subseteq HC!Pairs
  BY DEF HybridInv, HybridTyped, CallsTyped
<1>6. QED
  BY <1>3, <1>4, <1>5, TransitionMoves

\* Every step of a call keeps the invariant.
LEMMA MigrateStepKeeps ==
    ASSUME HybridInv, NEW m \in Migrations, MigrateStep(m)
    PROVE  HybridInv'
<1>1. /\ _groups \subseteq HC!Pairs /\ group_lock \in [HC!Pairs -> Migrations \cup {None}]
  BY DEF HybridInv, HybridTyped, CallsTyped
<1>2. CASE group_known(m)
  BY <1>1, <1>2, StartsCopyingKeeps DEF group_known
<1>3. CASE group_made(m)
  <2>1. /\ task[m].pc = "init" /\ UNCHANGED faults
        /\ group_lock' \in [HC!Pairs -> Migrations \cup {None}]
    BY <1>1, <1>3 DEF group_made, ReleasesLock
  <2>2. CASE /\ Succeeded(m) /\ _groups' = _groups \cup {PairOf(m)}
             /\ StartsCopying(m)
    BY <1>1, <2>1, <2>2, PairOfCall, StartsCopyingKeeps
  <2>3. CASE Raises(m) /\ UNCHANGED <<engineVars, _groups>>
    BY <2>1, <2>3, RaisesMoves, QuietCallKeeps
  <2>4. QED
    BY <1>3, <2>2, <2>3 DEF group_made
<1>4. CASE copied(m)
  <2>1. /\ task[m].pc = "copying" /\ UNCHANGED <<engineVars, _groups, group_lock, faults>>
    BY <1>4 DEF copied
  <2>2. CASE /\ Succeeded(m) /\ Goto(m, "commit")
             /\ transition_migration(m, "COPYING", "DEST_READY")
    <3>1. PICK t \in Transitions : t = <<"COPYING", "DEST_READY">>
      BY DEF Transitions
    <3>2. <<"commit", t[2]>> \in CallStates \ {<<"idle", "NONE">>}
      BY <3>1 DEF CallStates
    <3>3. CallMove(m, "commit")
      BY <1>1, <2>1, <2>2, <3>1, <3>2, TransitionMoves
    <3>4. Arrived(m)
      BY <2>1, <2>2 DEF Succeeded, HC!Roles, HybridInv, StateArrived
    <3>5. QED
      BY <2>1, <3>3, <3>4, QuietCallKeeps
  <2>3. CASE Raises(m)
    BY <1>1, <2>1, <2>3, RaisesMoves, QuietCallKeeps
  <2>4. QED
    BY <1>4, <2>2, <2>3 DEF copied
<1>5. CASE commit(m)
  <2>1. /\ task[m].pc = "commit" /\ commit_migration(m) /\ Goto(m, "done")
        /\ UNCHANGED <<engineVars, _groups, group_lock, faults>>
    BY <1>5 DEF commit
  <2>2. migrations \in [Migrations -> MigrationRows]
    BY DEF HybridInv, CoordinatedInv, StoreInv, StoreTypeOK
  <2>3. /\ \A n \in Migrations : n # m => migrations'[n] = migrations[n]
        /\ migrations'[m].agent = migrations[m].agent
        /\ migrations'[m].destination = migrations[m].destination
        /\ migrations'[m].state = "COMMITTED"
    BY <2>1, <2>2 DEF commit_migration, MigrationRows
  <2>4. CallMove(m, "done")
    BY <1>1, <2>1, <2>3 DEF CallMove, Goto, CoordinatorCall, MigrationState, CallStates
  <2>5. Arrived(m)
    BY <2>1 DEF HybridInv, StateArrived
  <2>6. QED
    BY <2>1, <2>4, <2>5, QuietCallKeeps
<1>6. QED
  BY <1>2, <1>3, <1>4, <1>5, EnsureGroupKeeps DEF MigrateStep

-----------------------------------------------------------------------------
(* The theorems. *)

\* The initial state.
LEMMA HybridInvInit == HybridInit => HybridInv
<1> SUFFICES ASSUME HybridInit
             PROVE  HybridInv
  OBVIOUS
<1> USE DEF HybridInit
<1>1. \A a \in Agents : agents[a].owner \in Engines /\ agents[a].owner # None
  BY HybridAssumption, StoreAssumption
<1>2. ControlTyped
  <2>1. requests \in [Engines -> Seq(Requests)] /\ serving \in [Engines -> Requests \cup {None}]
    BY DEF HC!ControlInit
  <2>2. groups \in [Engines -> [HC!Pairs ->
           [rank : HC!Roles \cup {"none"}, sequence : Nat, failed : BOOLEAN]]]
    BY DEF HC!ControlInit, HC!NoGroup
  <2>3. /\ published \in [HC!Pairs -> SUBSET Keys]
        /\ ready \in [HC!Pairs -> SUBSET [sequence : Nat, rank : HC!Roles]]
    BY DEF HC!ControlInit
  <2>4. /\ prefixes \in [Engines -> [Tokens -> HC!Contents]]
        /\ answers \in [Migrations -> [HC!Roles -> {"none", "success", "failed", "raised"}]]
    BY DEF HC!ControlInit, HC!Contents
  <2>5. QED
    BY <2>1, <2>2, <2>3, <2>4 DEF ControlTyped
<1>3. CallsTyped
  BY HybridAssumption DEF CallsTyped, IdleCall
<1>4. CoordinatedInv
  BY HybridAssumption, CoordinatedInit
<1>5. CallsFit
  BY DEF CallsFit, CallFits, CallStates, IdleCall, NoMigration
<1>6. StateArrived
  BY DEF StateArrived, IdleCall
<1>7. RequestsFit /\ NoneTwice
  BY DEF RequestsFit, NoneTwice, Queued, Served, HC!ControlInit
<1>8. KeysFit
  <2>1. \A p \in HC!Pairs : p \subseteq Engines
    BY DEF HC!Pairs
  <2>2. QED
    BY <2>1 DEF KeysFit, HC!ControlInit, HC!NoGroup
<1>9. ServingFits /\ CopiesAgreed
  BY DEF ServingFits, CopiesAgreed, HC!ControlInit
<1>10. PublishedStateIsOwn
  BY DEF PublishedStateIsOwn, HC!ControlInit
<1>11. QED
  BY <1>2, <1>3, <1>4, <1>5, <1>6, <1>7, <1>8, <1>9, <1>10 DEF HybridInv, HybridTyped

\* Every step.
LEMMA HybridInvStep == HybridInv /\ [HybridNext]_hybridVars => HybridInv'
<1> SUFFICES ASSUME HybridInv, [HybridNext]_hybridVars
             PROVE  HybridInv'
  OBVIOUS
<1>1. faults \in 0..MaxFaults /\ MaxFaults \in Nat
  BY HybridAssumption DEF HybridInv, HybridTyped, CallsTyped
<1>2. ASSUME NEW e \in Engines, engine_serves(e) \/ engine_traffic(e) \/ fault(e)
      PROVE  HybridInv'
  <2>1. EngineMove
    BY <1>2, EngineMoves
  <2>2. UNCHANGED <<storeVars, callVars>> /\ faults' \in 0..MaxFaults
    BY <1>1, <1>2 DEF engine_serves, engine_traffic, fault
  <2>3. QED
    BY <2>1, <2>2, EngineMoveKeeps
<1>3. CASE UNCHANGED hybridVars
  <2>1. UNCHANGED <<requests, serving, groups, published, ready, prefixes, answers,
                    task, _groups, group_lock, storeVars, faults>>
    BY <1>3 DEF hybridVars, engineVars, callVars
  <2>2. EngineMove
    <3>1. ControlTyped' /\ KeysFit'
      BY <2>1 DEF HybridInv, HybridTyped, ControlTyped, KeysFit
    <3>2. ServingFits' /\ CopiesAgreed'
      BY <2>1 DEF HybridInv, ServingFits, CopiesAgreed, ServingFit, CopyAgreed, KeyFits,
                  HC!KeysOf, HC!Matches
    <3>3. AnswersMove /\ PrefixesMove /\ \A e \in Engines : QueueMove(e)
      BY <2>1 DEF AnswersMove, PrefixesMove, QueueMove, SameRequest
    <3>4. QED
      BY <3>1, <3>2, <3>3 DEF EngineMove
  <2>3. QED
    BY <1>1, <2>1, <2>2, EngineMoveKeeps DEF callVars
<1>4. QED
  BY <1>2, <1>3, MigrateKeeps, MigrateStepKeeps DEF HybridNext

\* The inductive invariant.
THEOREM HybridInvariant == HybridSpec => []HybridInv
<1>1. HybridInit => HybridInv
  BY HybridInvInit
<1>2. HybridInv /\ [HybridNext]_hybridVars => HybridInv'
  BY HybridInvStep
<1>3. QED
  BY <1>1, <1>2, PTL DEF HybridSpec

\* What an engine has for some tokens is their own state, however requests of different
\* calls and of different numbers meet (hybrid_control.py:177-184).
THEOREM StateIsNeverMixedUp == HybridSpec => []PublishedStateIsOwn
<1>1. HybridInv => PublishedStateIsOwn
  BY DEF HybridInv
<1>2. QED
  BY <1>1, HybridInvariant, PTL

\* Two engines that copy to each other are in one transfer, although each counts for
\* itself (hybrid_control.py).
THEOREM CopiesAlwaysPair == HybridSpec => []CopiesPairUp
<1>1. HybridInv => CopiesPairUp
  BY CopiesArePaired
<1>2. QED
  BY <1>1, HybridInvariant, PTL

\* Ownership moves only to an engine that the state has reached (hybrid_migration.py).
THEOREM OwnershipFollowsState == HybridSpec => []HandedOverWithState
<1>1. HybridInv => HandedOverWithState
  <2> SUFFICES ASSUME HybridInv, NEW m \in Migrations, HandedOver(m)
               PROVE  prefixes[migrations[m].destination][TokensOf[migrations[m].agent]]
                         # "absent"
    BY DEF HandedOverWithState
  <2>1. task[m].pc = "done"
    BY CallState DEF HandedOver, MigrationState, CallStates
  <2>2. QED
    BY <2>1 DEF HybridInv, StateArrived, Arrived, CallsFit, CallFits
<1>2. QED
  BY <1>1, HybridInvariant, PTL

\* The hybrid coordinator keeps the leases as the store promises them: its agents have one
\* live migration, a chain of hand-overs, each counted once, and a committed lease is current.
THEOREM HybridKeepsLeases ==
    HybridSpec => [](/\ OneLiveMigration
                     /\ HandoverChain
                     /\ EpochAccounting
                     /\ CommittedLeaseIsCurrent)
<1>1. HybridInv => /\ OneLiveMigration
                   /\ HandoverChain
                   /\ EpochAccounting
                   /\ CommittedLeaseIsCurrent
  BY DEF HybridInv, CoordinatedInv, StoreInv, CountInv
<1>2. QED
  BY <1>1, HybridInvariant, PTL

=============================================================================
