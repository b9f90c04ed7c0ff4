---------------------------- MODULE HybridControl ----------------------------
(***************************************************************************)
(* experiments/hygon_runtime/hybrid_control.py, and the client that calls  *)
(* it (agentshift/engine/sglang.py): an idle engine copies the whole state *)
(* of a prefix to an empty one.  The two sides are requests of their own,  *)
(* which meet in a TCPStore of the group under a sequence number that each *)
(* side counts for itself, and each wait for the other ends by a timeout.  *)
(*                                                                         *)
(* The operations; HybridMigration composes them with the coordinator.     *)
(* The shards of an engine, which gather after every phase, are one.  The  *)
(* counts and the digests of an answer are left out: a side that succeeded *)
(* has moved every row of its tokens.                                      *)
(***************************************************************************)
EXTENDS Naturals, Sequences, FiniteSets, SequencesExt

CONSTANTS
    Engines,
    Calls,      \* the migrate calls: one request of each kind goes to either side
    Tokens,     \* token sequences
    NoRequest

VARIABLES
    requests,   \* engine -> requests in the order of its client's control_lock
    serving,    \* engine -> the request its scheduler is in, with the phase
    groups,     \* engine -> pair -> what self.groups has of the pair's last group
    published,  \* pair -> <sequence>/prepare/<rank> keys of the group's store
    ready,      \* pair -> <sequence>/ready/<rank> keys
    prefixes,   \* engine -> tokens -> what its tree holds
    answers     \* call -> role -> the outcome of its last request

controlVars == <<requests, serving, groups, published, ready, prefixes, answers>>
groupVars == <<groups, published, ready>>

-----------------------------------------------------------------------------
(* State. *)

Roles == {"source", "destination"}

OtherRole(role) == IF role = "source" THEN "destination" ELSE "source"

Pairs == {p \in SUBSET Engines : Cardinality(p) = 2}

\* "evicted" is "absent" for the engine; it tells what was lost from what never came.
Contents == {"absent", "evicted", "own", "other"}

Matches(e, t) == prefixes[e][t] \in {"own", "other"}

NoGroup == [rank |-> "none", sequence |-> 0, failed |-> FALSE]

Request(call, kind, role, pair, t) ==
    [call |-> call, kind |-> kind, role |-> role, pair |-> pair, tokens |-> t,
     phase |-> "waiting", sequence |-> 0]

ControlInit ==
    /\ requests = [e \in Engines |-> <<>>]
    /\ serving = [e \in Engines |-> NoRequest]
    /\ groups = [e \in Engines |-> [p \in Pairs |-> NoGroup]]
    /\ published = [p \in Pairs |-> {}]
    /\ ready = [p \in Pairs |-> {}]
    /\ prefixes = [e \in Engines |-> [t \in Tokens |-> "absent"]]
    /\ answers = [c \in Calls |-> [role \in Roles |-> "none"]]

-----------------------------------------------------------------------------
(* The client. *)

\* asyncio.gather of a request to either side: nothing comes between the two.
send(c, kind, source, destination, t) ==
    /\ requests' = [requests EXCEPT
          ![source] = Append(@, Request(c, kind, "source", {source, destination}, t)),
          ![destination] = Append(@, Request(c, kind, "destination", {source, destination}, t))]
    /\ answers' = [answers EXCEPT ![c] = [role \in Roles |-> "none"]]
    /\ UNCHANGED <<serving, groupVars, prefixes>>

\* An answer that nobody waits for any more is dropped.
Answer(r, outcome) ==
    answers' = [answers EXCEPT ![r.call][r.role] = IF @ = "none" THEN outcome ELSE @]

\* A client that gives up raises; the request may never have arrived, or go on.
gives_up(e) ==
    \/ /\ requests[e] # <<>> /\ serving[e] = NoRequest
       /\ Answer(Head(requests[e]), "raised")
       /\ requests' = [requests EXCEPT ![e] = Tail(@)]
       /\ UNCHANGED <<serving, groupVars, prefixes>>
    \/ /\ serving[e] # NoRequest
       /\ answers[serving[e].call][serving[e].role] = "none"
       /\ Answer(serving[e], "raised")
       /\ UNCHANGED <<requests, serving, groupVars, prefixes>>

-----------------------------------------------------------------------------
(* handle: one request at a time, in the loop of the scheduler. *)

\* The engine is not idle.
refuses(e) ==
    /\ serving[e] = NoRequest /\ requests[e] # <<>>
    /\ Answer(Head(requests[e]), "failed")
    /\ requests' = [requests EXCEPT ![e] = Tail(@)]
    /\ UNCHANGED <<serving, groupVars, prefixes>>

Takes(e, r) ==
    /\ serving[e] = NoRequest /\ requests[e] # <<>>
    /\ r = Head(requests[e])
    /\ requests' = [requests EXCEPT ![e] = Tail(@)]

\* The end of a request without success: a transfer marks its group.
Fails(e) ==
    /\ Answer(serving[e], "failed")
    /\ serving' = [serving EXCEPT ![e] = NoRequest]
    /\ groups' = IF serving[e].kind = "transfer"
                 THEN [groups EXCEPT ![e][serving[e].pair].failed = TRUE]
                 ELSE groups

Phase(e, phase) == serving' = [serving EXCEPT ![e].phase = phase]

-----------------------------------------------------------------------------
(* init_group. *)

init_group(e) ==
    /\ \E r \in ToSet(requests[e]) :
          /\ Takes(e, r) /\ r.kind = "init"
          /\ serving' = [serving EXCEPT ![e] = r]
    /\ UNCHANGED <<groupVars, prefixes, answers>>

\* Both sides of one group name meet: each has the rank of its role.
group_meets(e, f) ==
    LET r == serving[e]
        q == serving[f]
    IN
    /\ r # NoRequest /\ q # NoRequest
    /\ r.kind = "init" /\ q.kind = "init"
    /\ r.call = q.call /\ r.role = "source" /\ q.role = "destination"
    /\ groups' = [groups EXCEPT ![e][r.pair] = [NoGroup EXCEPT !.rank = "source"],
                                ![f][r.pair] = [NoGroup EXCEPT !.rank = "destination"]]
    /\ published' = [published EXCEPT ![r.pair] = {}]
    /\ ready' = [ready EXCEPT ![r.pair] = {}]
    /\ serving' = [serving EXCEPT ![e] = NoRequest, ![f] = NoRequest]
    /\ answers' = [answers EXCEPT ![r.call] =
          [role \in Roles |-> IF @[role] = "none" THEN "success" ELSE @[role]]]
    /\ UNCHANGED <<requests, prefixes>>

-----------------------------------------------------------------------------
(* transfer. *)

Usable(e, p) == groups[e][p].rank # "none" /\ ~groups[e][p].failed

\* Mutant: the rank and the role may differ.
RejectsAnyRole(e, r) ==
    \/ r.role = "source" /\ ~Matches(e, r.tokens)
    \/ r.role = "destination" /\ \E t \in Tokens : Matches(e, t)

\* What a side finds wrong before it has heard of the other.
Rejects(e, r) ==
    \/ r.role # groups[e][r.pair].rank
    \/ r.role = "source" /\ ~Matches(e, r.tokens)
    \/ r.role = "destination" /\ \E t \in Tokens : Matches(e, t)

\* The rank names the keys, whatever role was asked for.
transfer(e) ==
    /\ \E r \in ToSet(requests[e]) :
          /\ Takes(e, r) /\ r.kind = "transfer"
          /\ IF Usable(e, r.pair)
             THEN LET seq == groups[e][r.pair].sequence + 1
                      key == [sequence |-> seq, rank |-> groups[e][r.pair].rank,
                              tokens |-> r.tokens, error |-> Rejects(e, r)]
                  IN
                  /\ groups' = [groups EXCEPT ![e][r.pair].sequence = seq]
                  /\ published' = [published EXCEPT ![r.pair] = @ \cup {key}]
                  /\ serving' = [serving EXCEPT
                        ![e] = [r EXCEPT !.phase = "prepare", !.sequence = seq]]
                  /\ UNCHANGED answers
             ELSE /\ Answer(r, "failed")
                  /\ UNCHANGED <<groups, published, serving>>
    /\ UNCHANGED <<ready, prefixes>>

\* Mutant: the metadata does not say whose state it is.
SameShape(k, l) == ~k.error /\ ~l.error

\* metadata = peer: the digest of the tokens, and no errors.
Agree(k, l) == ~k.error /\ ~l.error /\ k.tokens = l.tokens

\* Mutant: a key of an earlier transfer will do.
KeysOfAnyTransfer(r, rank) ==
    {k \in published[r.pair] : k.sequence <= r.sequence /\ k.rank = rank}

KeysOf(r, rank) ==
    {k \in published[r.pair] : k.sequence = r.sequence /\ k.rank = rank}

prepares(e) ==
    LET r == serving[e]
        rank == groups[e][r.pair].rank
    IN
    /\ r # NoRequest /\ r.phase = "prepare"
    /\ \E k \in KeysOf(r, rank), l \in KeysOf(r, OtherRole(rank)) :
          \/ ~Agree(k, l) /\ Fails(e)
          \/ Agree(k, l) /\ Phase(e, "copy") /\ UNCHANGED <<groups, answers>>
    /\ UNCHANGED <<requests, published, ready, prefixes>>

\* The broadcasts go from the member of rank 0 to the other; they carry no sequence.
\* The destination publishes the prefix before it says that it is ready.
broadcasts(e, f) ==
    LET r == serving[e]
        q == serving[f]
    IN
    /\ r # NoRequest /\ q # NoRequest
    /\ r.phase = "copy" /\ q.phase = "copy" /\ r.pair = q.pair
    /\ r.role = "source" /\ q.role = "destination"
    /\ prefixes' = [prefixes EXCEPT ![f][q.tokens] =
          IF r.tokens = q.tokens THEN prefixes[e][r.tokens] ELSE "other"]
    /\ serving' = [serving EXCEPT ![e].phase = "ready", ![f].phase = "ready"]
    /\ ready' = [ready EXCEPT ![r.pair] = @ \cup
          {[sequence |-> r.sequence, rank |-> "source"],
           [sequence |-> q.sequence, rank |-> "destination"]}]
    /\ UNCHANGED <<requests, groups, published, answers>>

completes(e) ==
    LET r == serving[e] IN
    /\ r # NoRequest /\ r.phase = "ready"
    /\ [sequence |-> r.sequence, rank |-> OtherRole(r.role)] \in ready[r.pair]
    /\ Answer(r, "success")
    /\ serving' = [serving EXCEPT ![e] = NoRequest]
    /\ UNCHANGED <<requests, groupVars, prefixes>>

\* Every wait for the peer has a timeout of 90 s.
times_out(e) ==
    /\ serving[e] # NoRequest
    /\ Fails(e)
    /\ UNCHANGED <<requests, published, ready, prefixes>>

-----------------------------------------------------------------------------
(* The rest of the engine. *)

\* The engine is idle: a request computes a prefix, the tree evicts one.
computes(e, t) ==
    /\ serving[e] = NoRequest /\ ~Matches(e, t)
    /\ prefixes' = [prefixes EXCEPT ![e][t] = "own"]
    /\ UNCHANGED <<requests, serving, groupVars, answers>>

evicts(e, t) ==
    /\ serving[e] = NoRequest /\ Matches(e, t)
    /\ prefixes' = [prefixes EXCEPT ![e][t] = "evicted"]
    /\ UNCHANGED <<requests, serving, groupVars, answers>>

\* The groups, the tree and the request in progress are gone.
restarts(e) ==
    /\ groups' = [groups EXCEPT ![e] = [p \in Pairs |-> NoGroup]]
    /\ prefixes' = [prefixes EXCEPT ![e] =
          [t \in Tokens |-> IF @[t] = "absent" THEN "absent" ELSE "evicted"]]
    /\ serving' = [serving EXCEPT ![e] = NoRequest]
    /\ IF serving[e] = NoRequest THEN UNCHANGED answers ELSE Answer(serving[e], "raised")
    /\ UNCHANGED <<requests, published, ready>>

\* A step of the scheduler's control path.
serves(e) ==
    \/ refuses(e)
    \/ init_group(e)
    \/ \E f \in Engines : group_meets(e, f) \/ broadcasts(e, f)
    \/ transfer(e)
    \/ prepares(e)
    \/ completes(e)
    \/ times_out(e)
=============================================================================
