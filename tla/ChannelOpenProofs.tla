-------------------------- MODULE ChannelOpenProofs --------------------------
(***************************************************************************)
(* ChannelOpen for every set of requests, users, keys and bodies.  What    *)
(* makes a DM the only one of its pair is not the pair's row alone: it is  *)
(* that a writer past the claim either is the only claimant of a free pair *)
(* or has adopted the channel the pair's row names.                        *)
(***************************************************************************)
EXTENDS ChannelOpen, FiniteSetTheorems, TLAPS

Past(r) == pc[r] \in {"record", "commit"}

(* A dm.open never names its own user.                                     *)
AskOK ==
  /\ ask \in [Requests -> Ask]
  /\ \A r \in Requests : IsDm(r) => ask[r].body \in Users \ {ask[r].user}

Types ==
  /\ AskOK
  /\ pc \in [Requests -> Steps]
  /\ chan \in [Requests -> Requests]
  /\ answer \in [Requests -> Answer \cup {None}]
  /\ pairs \in [Pair -> Requests \cup {None}]
  /\ rows \in [Ids -> Answer \cup {None}]

(* A pair's channel was minted by an open of that pair, and is committed.  *)
PairsMinted ==
  \A p \in Pair : pairs[p] # None =>
    pairs[p] \in channels /\ IsDm(pairs[p]) /\ PairOf(pairs[p]) = p

(* A writer has the id its request minted, or the channel of its pair.     *)
OwnOrPairs ==
  \A r \in Requests : chan[r] # r =>
    IsDm(r) /\ pairs[PairOf(r)] # None /\ chan[r] = pairs[PairOf(r)]

DmsClaim == \A r \in Requests : pc[r] = "claim" => IsDm(r)

(* Past the claim: one claimant of a free pair; of a taken one, whoever    *)
(* goes on has its channel.                                                *)
OneClaimant ==
  \A r, q \in Requests :
    (Past(r) /\ Past(q) /\ IsDm(r) /\ IsDm(q) /\ PairOf(r) = PairOf(q)
       /\ pairs[PairOf(r)] = None) => r = q

Adopted ==
  \A r \in Requests :
    (Past(r) /\ IsDm(r) /\ pairs[PairOf(r)] # None) => chan[r] = pairs[PairOf(r)]

(* What was answered, and what a replay would be answered.                 *)
NamesPair(a, p) == pairs[p] # None /\ a.chan = pairs[p]

AnswersName ==
  \A r \in Requests : (IsDm(r) /\ Answered(r)) => NamesPair(answer[r], PairOf(r))

RowsName ==
  \A i \in Ids :
    (i[2] = "dm" /\ rows[i] # None) =>
      /\ {i[1], rows[i].body} \in Pair
      /\ NamesPair(rows[i], {i[1], rows[i].body})

IInv ==
  /\ Types /\ PairsMinted /\ OwnOrPairs /\ DmsClaim /\ OneClaimant /\ Adopted
  /\ AnswersName /\ RowsName

-----------------------------------------------------------------------------
(* Two different users are a pair.                                         *)
LEMMA PairOfTwo ==
  ASSUME NEW u \in Users, NEW v \in Users, u # v
  PROVE  {u, v} \in Pair
<1>1. IsFiniteSet({v}) /\ Cardinality({v}) = 1
  BY FS_Singleton
<1>2. Cardinality({v} \cup {u}) = 2
  BY <1>1, FS_AddElement, SMT
<1>3. {v} \cup {u} = {u, v}
  OBVIOUS
<1> QED BY <1>2, <1>3 DEF Pair

LEMMA DmPair ==
  ASSUME AskOK, NEW r \in Requests, IsDm(r)
  PROVE  PairOf(r) \in Pair
<1>1. ask[r].user \in Users /\ ask[r].body \in Users /\ ask[r].user # ask[r].body
  BY DEF AskOK, Ask
<1> QED BY <1>1, PairOfTwo DEF PairOf

LEMMA IdInIds ==
  ASSUME AskOK, NEW r \in Requests
  PROVE  Id(r) \in Ids /\ Id(r)[1] = ask[r].user /\ Id(r)[2] = ask[r].op
BY DEF AskOK, Ask, Id, Ids

LEMMA OwnType ==
  ASSUME Types, NEW r \in Requests
  PROVE  Own(r) \in Answer /\ Own(r).body = ask[r].body /\ Own(r).chan = chan[r]
BY DEF Types, AskOK, Ask, Own, Answer

(* What asks for what never changes.                                       *)
LEMMA AskStays ==
  ASSUME ask' = ask
  PROVE  /\ AskOK => AskOK'
         /\ \A r : Id(r)' = Id(r) /\ (IsDm(r)' <=> IsDm(r)) /\ PairOf(r)' = PairOf(r)
BY DEF AskOK, Id, IsDm, PairOf

LEMMA NextAsk ==
  ASSUME [Next]_vars
  PROVE  ask' = ask
BY DEF Next, vars, Lookup, Begin, Claim, Record, Commit, Fail, Expire, Settled

-----------------------------------------------------------------------------
LEMMA InitIInv == Init => IInv
<1> SUFFICES ASSUME Init PROVE IInv
  OBVIOUS
<1> USE OpenAssumption
<1>1. AskOK
  BY DEF Init, AskOK, IsDm, Ask
<1>2. Types
  BY <1>1 DEF Init, Types, Steps, Ends
<1>3. \A r \in Requests : IsDm(r) => PairOf(r) \in Pair
  BY <1>1, DmPair
<1>4. PairsMinted /\ OwnOrPairs /\ DmsClaim
  BY <1>3 DEF Init, PairsMinted, OwnOrPairs, DmsClaim
<1>5. OneClaimant /\ Adopted /\ AnswersName /\ RowsName
  BY DEF Init, OneClaimant, Adopted, AnswersName, RowsName, Past, Answered
<1> QED BY <1>2, <1>4, <1>5 DEF IInv

-----------------------------------------------------------------------------
(* A cached answer to a dm.open names the channel of its pair.             *)
LEMMA CachedNames ==
  ASSUME IInv, NEW r \in Requests, IsDm(r), Cached(r)
  PROVE  NamesPair(rows[Id(r)], PairOf(r))
<1>1. Id(r) \in Ids /\ Id(r)[1] = ask[r].user /\ Id(r)[2] = "dm"
  BY IdInIds DEF IInv, Types, IsDm
<1> QED BY <1>1 DEF IInv, RowsName, Cached, PairOf

(* Statements that commit nothing: the tables' invariants stay, and the    *)
(* rest is to be shown of the requests.                                    *)
LEMMA TablesStay ==
  ASSUME IInv, UNCHANGED <<ask, channels, pairs, rows>>
  PROVE  PairsMinted' /\ RowsName'
BY DEF IInv, PairsMinted, RowsName, NamesPair, IsDm, PairOf

LEMMA FinishKeeps ==
  ASSUME IInv, NEW r \in Requests, Cached(r),
         Finish(r, rows[Id(r)]), UNCHANGED <<ask, chan, channels, pairs, rows>>
  PROVE  IInv'
<1> USE DEF IInv
<1>1. Id(r) \in Ids /\ rows[Id(r)] \in Answer
  BY IdInIds DEF Types, Cached
<1>2. Types'
  BY <1>1, AskStays DEF Types, Finish, Steps, Ends
<1>3. PairsMinted' /\ RowsName'
  BY TablesStay
<1>4. OwnOrPairs'
  BY DEF OwnOrPairs, IsDm, PairOf
<1>5. DmsClaim' /\ \A q \in Requests : Past(q)' => Past(q)
  BY DEF Types, Finish, Past, DmsClaim, IsDm
<1>6. OneClaimant'
  BY <1>5 DEF OneClaimant, IsDm, PairOf
<1>7. Adopted'
  BY <1>5 DEF Adopted, IsDm, PairOf
<1>8. AnswersName'
  <2> SUFFICES ASSUME NEW q \in Requests, IsDm(q), Answered(q)'
               PROVE  NamesPair(answer[q], PairOf(q))'
    BY AskStays DEF AnswersName
  <2>1. CASE q = r
    BY <2>1, CachedNames DEF Finish, Types, NamesPair, PairOf
  <2>2. CASE q # r
    BY <2>2 DEF Finish, Types, AnswersName, NamesPair, PairOf, Answered
  <2> QED BY <2>1, <2>2
<1> QED BY <1>2, <1>3, <1>4, <1>5, <1>6, <1>7, <1>8

LEMMA RefuseKeeps ==
  ASSUME IInv, NEW r \in Requests, NEW how \in {"conflict", "failed"},
         Refuse(r, how), UNCHANGED <<ask, chan, channels, pairs, rows>>
  PROVE  IInv'
<1> USE DEF IInv
<1>1. Types'
  BY AskStays DEF Types, Refuse, Steps, Ends
<1>2. PairsMinted' /\ RowsName'
  BY TablesStay
<1>3. \A q \in Requests : (Past(q)' => Past(q)) /\ (Answered(q)' => Answered(q))
  BY DEF Types, Refuse, Past, Answered
<1>4. OwnOrPairs' /\ DmsClaim'
  BY DEF OwnOrPairs, DmsClaim, Refuse, Types, IsDm, PairOf
<1>5. OneClaimant'
  BY <1>3 DEF OneClaimant, IsDm, PairOf
<1>6. Adopted'
  BY <1>3 DEF Adopted, IsDm, PairOf
<1>7. AnswersName'
  BY <1>3 DEF AnswersName, NamesPair, IsDm, PairOf, Refuse
<1> QED BY <1>1, <1>2, <1>4, <1>5, <1>6, <1>7

-----------------------------------------------------------------------------
(* The requests, action by action.                                         *)
LEMMA LookupKeeps ==
  ASSUME IInv, NEW r \in Requests, Lookup(r)
  PROVE  IInv'
<1> USE DEF IInv
<1>1. CASE Cached(r) /\ Finish(r, rows[Id(r)]) /\ UNCHANGED chan
  BY <1>1, FinishKeeps DEF Lookup
<1>2. CASE Conflict(r) /\ IsDm(r) /\ Refuse(r, "conflict") /\ UNCHANGED chan
  BY <1>2, RefuseKeeps DEF Lookup
<1>3. CASE /\ pc' = [pc EXCEPT ![r] = "begin"]
           /\ chan' = IF IsDm(r) /\ pairs[PairOf(r)] # None
                      THEN [chan EXCEPT ![r] = pairs[PairOf(r)]] ELSE chan
           /\ UNCHANGED answer
  <2>1. pc[r] = "lookup" /\ UNCHANGED <<ask, channels, pairs, rows>>
    BY DEF Lookup
  <2>2. IsDm(r) => PairOf(r) \in Pair
    BY DmPair DEF Types
  <2>3. Types'
    BY <1>3, <2>1, <2>2, AskStays DEF Types, Steps
  <2>4. PairsMinted' /\ RowsName'
    BY <2>1, TablesStay
  <2>5. OwnOrPairs' /\ DmsClaim'
    BY <1>3, <2>1 DEF OwnOrPairs, DmsClaim, Types, IsDm, PairOf
  <2>6. \A q \in Requests : (Past(q)' => Past(q) /\ q # r) /\ (Answered(q)' => Answered(q))
    BY <1>3 DEF Types, Past, Answered
  <2>7. OneClaimant'
    BY <2>1, <2>6 DEF OneClaimant, IsDm, PairOf
  <2>8. Adopted'
    BY <1>3, <2>1, <2>6 DEF Adopted, Types, IsDm, PairOf
  <2>9. AnswersName'
    BY <1>3, <2>1, <2>6 DEF AnswersName, NamesPair, IsDm, PairOf
  <2> QED BY <2>3, <2>4, <2>5, <2>7, <2>8, <2>9
<1> QED BY <1>1, <1>2, <1>3 DEF Lookup

(* A channel.create passes here; it claims no pair.                        *)
LEMMA BeginKeeps ==
  ASSUME IInv, NEW r \in Requests, Begin(r)
  PROVE  IInv'
<1> USE DEF IInv
<1>1. CASE Cached(r) /\ Finish(r, rows[Id(r)])
  BY <1>1, FinishKeeps DEF Begin
<1>2. CASE Conflict(r) /\ Refuse(r, "conflict")
  BY <1>2, RefuseKeeps DEF Begin
<1>3. CASE /\ pc' = [pc EXCEPT ![r] = IF IsDm(r) THEN "claim" ELSE "record"]
           /\ UNCHANGED answer
  <2>1. UNCHANGED <<ask, chan, channels, pairs, rows>>
    BY DEF Begin
  <2>2. Types'
    BY <1>3, <2>1, AskStays DEF Types, Steps
  <2>3. PairsMinted' /\ RowsName'
    BY <2>1, TablesStay
  <2>4. OwnOrPairs' /\ DmsClaim'
    BY <1>3, <2>1 DEF OwnOrPairs, DmsClaim, Types, IsDm, PairOf
  <2>5. \A q \in Requests : (Past(q)' /\ IsDm(q) => Past(q)) /\ (Answered(q)' => Answered(q))
    BY <1>3 DEF Types, Past, Answered
  <2>6. OneClaimant'
    BY <2>1, <2>5 DEF OneClaimant, IsDm, PairOf
  <2>7. Adopted'
    BY <2>1, <2>5 DEF Adopted, IsDm, PairOf
  <2>8. AnswersName'
    BY <1>3, <2>1, <2>5 DEF AnswersName, NamesPair, IsDm, PairOf
  <2> QED BY <2>2, <2>3, <2>4, <2>6, <2>7, <2>8
<1> QED BY <1>1, <1>2, <1>3 DEF Begin

(* Nobody past the claim holds the free pair, or its channel is adopted.   *)
LEMMA ClaimKeeps ==
  ASSUME IInv, NEW r \in Requests, Claim(r)
  PROVE  IInv'
<1> USE DEF IInv
<1>1. IsDm(r) /\ PairOf(r) \in Pair
  BY DmPair DEF Claim, DmsClaim, Types
<1>2. UNCHANGED <<ask, answer, channels, pairs, rows>>
  BY DEF Claim
<1>3. Types'
  BY <1>1, <1>2, AskStays DEF Types, Steps, Claim
<1>4. PairsMinted' /\ RowsName'
  BY <1>2, TablesStay
<1>5. OwnOrPairs' /\ DmsClaim'
  BY <1>1, <1>2 DEF OwnOrPairs, DmsClaim, Claim, Types, IsDm, PairOf
<1>6. \A q \in Requests : (Past(q)' => Past(q) \/ q = r) /\ (Answered(q)' => Answered(q))
  BY DEF Claim, Types, Past, Answered
<1>7. OneClaimant'
  <2>1. pairs[PairOf(r)] = None =>
          \A q \in Requests : ~(Past(q) /\ IsDm(q) /\ PairOf(q) = PairOf(r))
    BY DEF Claim, ClaimedBy, Past
  <2> QED BY <1>2, <1>6, <2>1 DEF OneClaimant, IsDm, PairOf
<1>8. Adopted'
  BY <1>1, <1>2, <1>6 DEF Adopted, Claim, Types, IsDm, PairOf
<1>9. AnswersName'
  BY <1>2, <1>6 DEF AnswersName, NamesPair, IsDm, PairOf
<1> QED BY <1>3, <1>4, <1>5, <1>7, <1>8, <1>9

LEMMA RecordKeeps ==
  ASSUME IInv, NEW r \in Requests, Record(r)
  PROVE  IInv'
<1> USE DEF IInv
<1>1. UNCHANGED <<ask, chan, answer, channels, pairs, rows>>
  BY DEF Record
<1>2. Types'
  BY <1>1, AskStays DEF Types, Steps, Record
<1>3. PairsMinted' /\ RowsName'
  BY <1>1, TablesStay
<1>4. OwnOrPairs' /\ DmsClaim'
  BY <1>1 DEF OwnOrPairs, DmsClaim, Record, Types, IsDm, PairOf
<1>5. \A q \in Requests : (Past(q)' => Past(q)) /\ (Answered(q)' => Answered(q))
  BY DEF Record, Types, Past, Answered
<1>6. OneClaimant'
  BY <1>1, <1>5 DEF OneClaimant, IsDm, PairOf
<1>7. Adopted'
  BY <1>1, <1>5 DEF Adopted, IsDm, PairOf
<1>8. AnswersName'
  BY <1>1, <1>5 DEF AnswersName, NamesPair, IsDm, PairOf
<1> QED BY <1>2, <1>3, <1>4, <1>6, <1>7, <1>8

(* The commit gives a free pair its channel, the one its claimant minted.  *)
LEMMA CommitPairs ==
  ASSUME IInv, NEW r \in Requests, Commit(r)
  PROVE  /\ \A p \in Pair : pairs[p] # None => pairs'[p] = pairs[p]
         /\ IsDm(r) => pairs'[PairOf(r)] = chan[r] /\ chan[r] # None
         /\ \A p \in Pair : (pairs[p] = None /\ pairs'[p] # None) =>
              IsDm(r) /\ p = PairOf(r) /\ chan[r] = r
<1> USE DEF IInv
<1>1. IsDm(r) => PairOf(r) \in Pair
  BY DmPair DEF Types
<1>2. CASE IsDm(r) /\ pairs[PairOf(r)] = None
  <2>1. pairs' = [pairs EXCEPT ![PairOf(r)] = chan[r]]
    BY <1>2 DEF Commit
  <2>2. chan[r] = r /\ chan[r] # None
    BY <1>2, OpenAssumption DEF OwnOrPairs
  <2> QED BY <1>1, <1>2, <2>1, <2>2 DEF Types
<1>3. CASE ~(IsDm(r) /\ pairs[PairOf(r)] = None)
  BY <1>1, <1>3 DEF Commit, Adopted, Past
<1> QED BY <1>2, <1>3

LEMMA CommitKeeps ==
  ASSUME IInv, NEW r \in Requests, Commit(r)
  PROVE  IInv'
<1> USE DEF IInv
<1>1. IsDm(r) => PairOf(r) \in Pair
  BY DmPair DEF Types
<1>2. /\ UNCHANGED <<ask, chan>>
      /\ pc' = [pc EXCEPT ![r] = "answered"]
      /\ answer' = [answer EXCEPT ![r] = Own(r)]
      /\ channels' = channels \cup {chan[r]}
      /\ rows' = [rows EXCEPT ![Id(r)] = IF rows[Id(r)] = None THEN Own(r) ELSE rows[Id(r)]]
  BY DEF Commit, Finish, Store
<1>3. Own(r) \in Answer /\ Own(r).body = ask[r].body /\ Own(r).chan = chan[r]
  BY OwnType
<1>4. Id(r) \in Ids /\ Id(r)[1] = ask[r].user /\ Id(r)[2] = ask[r].op
  BY IdInIds DEF Types
<1>5. Types'
  <2>1. pairs' \in [Pair -> Requests \cup {None}]
    BY <1>1 DEF Commit, Types
  <2>2. rows' \in [Ids -> Answer \cup {None}]
    BY <1>2, <1>3, <1>4 DEF Types
  <2> QED BY <1>2, <1>3, <2>1, <2>2, AskStays DEF Types, Steps, Ends
<1>6. \A q \in Requests : Past(q)' => Past(q) /\ q # r
  BY <1>2 DEF Types, Past
<1>7. \A q \in Requests : IsDm(q) => PairOf(q) \in Pair
  BY DmPair DEF Types
<1>8. PairsMinted'
  <2> SUFFICES ASSUME NEW p \in Pair, pairs'[p] # None
               PROVE  pairs'[p] \in channels' /\ IsDm(pairs'[p]) /\ PairOf(pairs'[p]) = p
    BY <1>2 DEF PairsMinted, IsDm, PairOf
  <2>1. CASE pairs[p] # None
    BY <2>1, <1>2, CommitPairs DEF PairsMinted
  <2>2. CASE pairs[p] = None
    BY <2>2, <1>2, CommitPairs
  <2> QED BY <2>1, <2>2
<1>9. OwnOrPairs' /\ DmsClaim'
  BY <1>2, <1>7, CommitPairs, ZenonT(60) DEF OwnOrPairs, DmsClaim, Types, IsDm, PairOf
<1>10. OneClaimant'
  BY <1>2, <1>6, <1>7, CommitPairs, ZenonT(60) DEF OneClaimant, IsDm, PairOf
<1>11. Adopted'
  <2> SUFFICES ASSUME NEW q \in Requests, Past(q)', IsDm(q), pairs'[PairOf(q)] # None
               PROVE  chan[q] = pairs'[PairOf(q)]
    BY <1>2 DEF Adopted, IsDm, PairOf
  <2>1. CASE pairs[PairOf(q)] # None
    BY <2>1, <1>6, <1>7, CommitPairs DEF Adopted
  <2>2. CASE pairs[PairOf(q)] = None
    <3>1. IsDm(r) /\ PairOf(q) = PairOf(r)
      BY <2>2, <1>7, CommitPairs
    <3>2. Past(r) /\ Past(q) /\ q # r
      BY <1>6 DEF Commit, Past
    <3> QED BY <3>1, <3>2, <2>2 DEF OneClaimant
  <2> QED BY <2>1, <2>2
<1>12. AnswersName'
  <2> SUFFICES ASSUME NEW q \in Requests, IsDm(q), Answered(q)'
               PROVE  pairs'[PairOf(q)] # None /\ answer'[q].chan = pairs'[PairOf(q)]
    BY <1>2 DEF AnswersName, NamesPair, IsDm, PairOf
  <2>1. CASE q = r
    BY <2>1, <1>2, <1>3, CommitPairs DEF Types
  <2>2. CASE q # r
    BY <2>2, <1>2, <1>7, CommitPairs DEF Types, Answered, AnswersName, NamesPair
  <2> QED BY <2>1, <2>2
<1>13. RowsName'
  <2> SUFFICES ASSUME NEW i \in Ids, i[2] = "dm", rows'[i] # None
               PROVE  /\ {i[1], rows'[i].body} \in Pair
                      /\ pairs'[{i[1], rows'[i].body}] # None
                      /\ rows'[i].chan = pairs'[{i[1], rows'[i].body}]
    BY DEF RowsName, NamesPair
  <2>1. CASE rows[i] # None
    <3>1. rows'[i] = rows[i]
      BY <2>1, <1>2 DEF Types
    <3>2. /\ {i[1], rows[i].body} \in Pair
          /\ pairs[{i[1], rows[i].body}] # None
          /\ rows[i].chan = pairs[{i[1], rows[i].body}]
      BY <2>1 DEF RowsName, NamesPair
    <3> QED BY <3>1, <3>2, CommitPairs
  <2>2. CASE rows[i] = None
    <3>1. i = Id(r) /\ rows'[i] = Own(r)
      BY <2>2, <1>2 DEF Types
    <3>2. IsDm(r) /\ {i[1], rows'[i].body} = PairOf(r)
      BY <3>1, <1>3, <1>4 DEF IsDm, PairOf
    <3> QED BY <3>1, <3>2, <1>1, <1>3, CommitPairs
  <2> QED BY <2>1, <2>2
<1> QED BY <1>5, <1>8, <1>9, <1>10, <1>11, <1>12, <1>13

LEMMA ExpireKeeps ==
  ASSUME IInv, NEW i \in Ids, Expire(i)
  PROVE  IInv'
<1> USE DEF IInv
<1>1. UNCHANGED <<ask, pc, chan, answer, channels, pairs>>
  BY DEF Expire
<1>2. Types'
  BY <1>1, AskStays DEF Expire, Types
<1>3. PairsMinted' /\ OwnOrPairs' /\ DmsClaim'
  BY <1>1 DEF PairsMinted, OwnOrPairs, DmsClaim, IsDm, PairOf
<1>4. OneClaimant' /\ Adopted'
  BY <1>1 DEF OneClaimant, Adopted, Past, IsDm, PairOf
<1>5. AnswersName'
  BY <1>1 DEF AnswersName, NamesPair, Answered, IsDm, PairOf
<1>6. RowsName'
  BY <1>1 DEF Expire, RowsName, NamesPair, Types
<1> QED BY <1>2, <1>3, <1>4, <1>5, <1>6

LEMMA NextIInv == IInv /\ [Next]_vars => IInv'
<1> SUFFICES ASSUME IInv, [Next]_vars PROVE IInv'
  OBVIOUS
<1>1. ASSUME NEW r \in Requests, Lookup(r) PROVE IInv'
  BY <1>1, LookupKeeps
<1>2. ASSUME NEW r \in Requests, Begin(r) PROVE IInv'
  BY <1>2, BeginKeeps
<1>3. ASSUME NEW r \in Requests, Claim(r) PROVE IInv'
  BY <1>3, ClaimKeeps
<1>4. ASSUME NEW r \in Requests, Record(r) PROVE IInv'
  BY <1>4, RecordKeeps
<1>5. ASSUME NEW r \in Requests, Commit(r) PROVE IInv'
  BY <1>5, CommitKeeps
<1>6. ASSUME NEW r \in Requests, Fail(r) PROVE IInv'
  BY <1>6, RefuseKeeps DEF Fail
<1>7. ASSUME NEW i \in Ids, Expire(i) PROVE IInv'
  BY <1>7, ExpireKeeps
<1>8. CASE UNCHANGED vars
  BY <1>8 DEF vars, IInv, Types, AskOK, PairsMinted, OwnOrPairs, DmsClaim, OneClaimant,
     Adopted, AnswersName, RowsName, NamesPair, Past, Answered, IsDm, PairOf
<1> QED BY <1>1, <1>2, <1>3, <1>4, <1>5, <1>6, <1>7, <1>8 DEF Next, Settled

-----------------------------------------------------------------------------
(* No two pairs have one channel: its id is the request that minted it,    *)
(* and that is an open of one pair.                                        *)
LEMMA IInvDm == IInv => OneDmPerPair
<1> SUFFICES ASSUME IInv PROVE OneDmPerPair
  OBVIOUS
<1>1. \A r \in Requests : (IsDm(r) /\ Answered(r)) =>
        answer[r].chan = pairs[PairOf(r)] /\ answer[r].chan \in channels
  BY DmPair DEF IInv, Types, AnswersName, NamesPair, PairsMinted
<1>2. \A p \in Pair : pairs[p] # None => pairs[p] \in channels
  BY DEF IInv, PairsMinted
<1>3. \A p, q \in Pair : (p # q /\ pairs[p] # None) => pairs[p] # pairs[q]
  BY DEF IInv, PairsMinted
<1> QED BY <1>1, <1>2, <1>3 DEF OneDmPerPair

(* dms.ex: the unique pair arbitrates concurrent opens from both sides,    *)
(* for any number of requests, users and keys, whatever fails or expires:  *)
(* every answered dm.open names its pair's one committed channel.          *)
THEOREM DmUnique == Spec => []OneDmPerPair
<1>1. Init => IInv
  BY InitIInv
<1>2. IInv /\ [Next]_vars => IInv'
  BY NextIInv
<1>3. IInv => OneDmPerPair
  BY IInvDm
<1> QED BY <1>1, <1>2, <1>3, PTL DEF Spec

(* idempotency.ex: whatever the interleaving, no step replaces a live      *)
(* recorded answer by another.                                             *)
THEOREM AnswersStay == Spec => RecordedAnswersStay
<1> DEFINE Stays == \A i \in Ids : (rows[i] # None /\ rows'[i] # None) => rows'[i] = rows[i]
<1>1. IInv /\ [Next]_vars => [Stays]_vars
  <2> SUFFICES ASSUME IInv, [Next]_vars PROVE Stays
    OBVIOUS
  <2>1. rows \in [Ids -> Answer \cup {None}]
    BY DEF IInv, Types
  <2>2. ASSUME NEW r \in Requests, Commit(r) PROVE Stays
    BY <2>1, <2>2 DEF Commit, Store
  <2>3. ASSUME NEW i \in Ids, Expire(i) PROVE Stays
    BY <2>1, <2>3 DEF Expire
  <2>4. CASE UNCHANGED rows
    BY <2>4
  <2> QED BY <2>2, <2>3, <2>4
       DEF Next, vars, Lookup, Begin, Claim, Record, Fail, Settled
<1>2. Init => IInv
  BY InitIInv
<1>3. IInv /\ [Next]_vars => IInv'
  BY NextIInv
<1> QED BY <1>1, <1>2, <1>3, PTL DEF Spec, RecordedAnswersStay
=============================================================================
