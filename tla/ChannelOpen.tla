----------------------------- MODULE ChannelOpen -----------------------------
(***************************************************************************)
(* The two commands that bring a channel into being, channel.create and    *)
(* dm.open.  They have no channel yet, so each request runs on a writer of *)
(* its own, under an id it mints, and nothing but Postgres stands between  *)
(* two of them: the idempotency row of (user, operation, key) and, for a   *)
(* DM, the dm_pairs row of the two users.  ChannelWriter orders the        *)
(* commands of one channel; here the interleaving is of transactions.      *)
(*                                                                         *)
(* A transaction reads committed rows, statement by statement; an INSERT   *)
(* that meets an uncommitted row with its key waits for that transaction.  *)
(* A channel id is the request that minted it.                             *)
(***************************************************************************)
EXTENDS Naturals, FiniteSets

CONSTANTS
  Requests,   \* HTTP requests; a retry is a request of its own
  Users, Keys, Bodies,
  None

ASSUME OpenAssumption ==
  None \notin Requests \cup Users \cup Bodies /\ Users \cap Bodies = {}

VARIABLES
  ask,        \* what each request asks for
  pc,         \* how far it got
  home,       \* the channel whose writer runs it
  chan,       \* the channel its answer will name
  answer,
  channels,   \* committed channels
  pairs,      \* committed dm_pairs rows: pair -> channel
  rows,       \* committed idempotency rows: id -> answer, or None
  expired     \* ghost: ids whose row has been dead at some time

vars == <<ask, pc, home, chan, answer, channels, pairs, rows, expired>>

Ops  == {"create", "dm"}
Ask  == [op : Ops, user : Users, key : Keys, body : Bodies \cup Users]
Ids  == Users \X Ops \X Keys
Pair == {p \in SUBSET Users : Cardinality(p) = 2}
Answer == [body : Bodies \cup Users, chan : Requests]
Ends  == {"answered", "conflict", "failed"}
Steps == {"lookup", "begin", "claim", "record", "commit"} \cup Ends

Id(r)     == <<ask[r].user, ask[r].op, ask[r].key>>
IsDm(r)   == ask[r].op = "dm"
PairOf(r) == {ask[r].user, ask[r].body}   \* of a dm.open, whose body is the peer
InTxn(r)  == pc[r] \in {"claim", "record", "commit"}

Init ==
  /\ ask \in [Requests ->
       {a \in Ask : a.body \in IF a.op = "dm" THEN Users \ {a.user} ELSE Bodies}]
  /\ pc = [r \in Requests |-> "lookup"]
  /\ home = [r \in Requests |-> r] /\ chan = home
  /\ answer = [r \in Requests |-> None]
  /\ channels = {} /\ pairs = [p \in Pair |-> None]
  /\ rows = [i \in Ids |-> None] /\ expired = {}

-----------------------------------------------------------------------------
Finish(r, a) ==
  /\ pc' = [pc EXCEPT ![r] = "answered"] /\ answer' = [answer EXCEPT ![r] = a]

Refuse(r, how) == pc' = [pc EXCEPT ![r] = how] /\ UNCHANGED answer

(* Idempotency.check on the committed rows.                                *)
Cached(r)   == rows[Id(r)] # None /\ rows[Id(r)].body = ask[r].body
Conflict(r) == rows[Id(r)] # None /\ rows[Id(r)].body # ask[r].body

(* Before any transaction.  A conflict stops a dm.open here; channel.create *)
(* looks for a cached answer only.  A new dm.open is routed to the pair's  *)
(* channel when there is one.                                              *)
Lookup(r) ==
  /\ pc[r] = "lookup"
  /\ \/ Cached(r) /\ Finish(r, rows[Id(r)]) /\ UNCHANGED <<home, chan>>
     \/ Conflict(r) /\ IsDm(r) /\ Refuse(r, "conflict") /\ UNCHANGED <<home, chan>>
     \/ /\ ~Cached(r) /\ (IsDm(r) => ~Conflict(r))
        /\ pc' = [pc EXCEPT ![r] = "begin"]
        /\ chan' = IF IsDm(r) /\ pairs[PairOf(r)] # None
                   THEN [chan EXCEPT ![r] = pairs[PairOf(r)]] ELSE chan
        /\ home' = chan' /\ UNCHANGED answer
  /\ UNCHANGED <<ask, channels, pairs, rows, expired>>

(* The channel's writer takes the request, alone, and looks again inside   *)
(* the transaction.  A request that then loses the claim stays on the      *)
(* writer of the id it minted, though its answer names the pair's channel. *)
WriterFree(r) == \A q \in Requests : InTxn(q) => home[q] # home[r]

Begin(r) ==
  /\ pc[r] = "begin" /\ WriterFree(r)
  /\ \/ Cached(r) /\ Finish(r, rows[Id(r)])
     \/ Conflict(r) /\ Refuse(r, "conflict")
     \/ /\ rows[Id(r)] = None
        /\ pc' = [pc EXCEPT ![r] = IF IsDm(r) THEN "claim" ELSE "record"]
        /\ UNCHANGED answer
  /\ UNCHANGED <<ask, home, chan, channels, pairs, rows, expired>>

(* dm_pairs: ON CONFLICT DO NOTHING, then the winner's channel.            *)
ClaimedBy(p) == {q \in Requests : pc[q] \in {"record", "commit"} /\ IsDm(q)
                                   /\ PairOf(q) = p /\ pairs[p] = None}

\* Mutant: the loser of the claim goes on with the id it minted.
ClaimOwn(r) ==
  /\ pc[r] = "claim" /\ ClaimedBy(PairOf(r)) = {}
  /\ pc' = [pc EXCEPT ![r] = "record"]
  /\ UNCHANGED <<ask, home, chan, answer, channels, pairs, rows, expired>>

Claim(r) ==
  /\ pc[r] = "claim" /\ ClaimedBy(PairOf(r)) = {}
  /\ pc' = [pc EXCEPT ![r] = "record"]
  /\ chan' = IF pairs[PairOf(r)] # None THEN [chan EXCEPT ![r] = pairs[PairOf(r)]] ELSE chan
  /\ UNCHANGED <<ask, home, answer, channels, pairs, rows, expired>>

(* write_completed: waits for an uncommitted row of the same id.           *)
RecordWaits(r) == \E q \in Requests : pc[q] = "commit" /\ Id(q) = Id(r) /\ rows[Id(r)] = None

Record(r) ==
  /\ pc[r] = "record" /\ ~RecordWaits(r)
  /\ pc' = [pc EXCEPT ![r] = "commit"]
  /\ UNCHANGED <<ask, home, chan, answer, channels, pairs, rows, expired>>

Own(r) == [body |-> ask[r].body, chan |-> chan[r]]

(* The conflicting row is overwritten only if it is dead.                  *)
\* Mutant: the later answer replaces a live one.
StoreOver(r) == [rows EXCEPT ![Id(r)] = Own(r)]
Store(r) == [rows EXCEPT ![Id(r)] = IF @ = None THEN Own(r) ELSE @]

Commit(r) ==
  /\ pc[r] = "commit"
  /\ Finish(r, Own(r))
  /\ channels' = channels \cup {chan[r]}
  /\ pairs' = IF IsDm(r) /\ pairs[PairOf(r)] = None
              THEN [pairs EXCEPT ![PairOf(r)] = chan[r]] ELSE pairs
  /\ rows' = Store(r)
  /\ UNCHANGED <<ask, home, chan, expired>>

(* The process serving the request dies and Postgres rolls back.  A caller *)
(* that gave up on a request which then commits is answered here all the   *)
(* same: its answer is lost, its retry is another request.                 *)
Fail(r) ==
  /\ pc[r] \notin Ends /\ Refuse(r, "failed")
  /\ UNCHANGED <<ask, home, chan, channels, pairs, rows, expired>>

(* A day passes: the row is dead to check.                                 *)
Expire(i) ==
  /\ rows[i] # None /\ rows' = [rows EXCEPT ![i] = None]
  /\ expired' = expired \cup {i}
  /\ UNCHANGED <<ask, pc, home, chan, answer, channels, pairs>>

Settled == (\A r \in Requests : pc[r] \in Ends) /\ UNCHANGED vars

Next ==
  \/ \E r \in Requests :
       Lookup(r) \/ Begin(r) \/ Claim(r) \/ Record(r) \/ Commit(r) \/ Fail(r)
  \/ \E i \in Ids : Expire(i)
  \/ Settled

Spec == Init /\ [][Next]_vars

-----------------------------------------------------------------------------
Answered(r) == pc[r] = "answered"

(* dms.ex: the unique pair arbitrates concurrent opens from both sides,    *)
(* keyed or not, retried or not: whoever is answered is answered with the  *)
(* pair's one channel, and that channel exists.                            *)
OneDmPerPair ==
  /\ \A r \in Requests : (IsDm(r) /\ Answered(r)) =>
       answer[r].chan = pairs[PairOf(r)] /\ answer[r].chan \in channels
  /\ \A p \in Pair : pairs[p] # None => pairs[p] \in channels
  /\ \A p, q \in Pair : (p # q /\ pairs[p] # None) => pairs[p] # pairs[q]

(* idempotency.ex:186-189: of two requests with one id that both found no  *)
(* row "the winner's recorded ack wins replays": a live row never changes  *)
(* its answer.                                                             *)
RecordedAnswersStay ==
  [][\A i \in Ids : (rows[i] # None /\ rows'[i] # None) => rows'[i] = rows[i]]_vars
=============================================================================
