----------------------- MODULE ChannelMembershipProofs -----------------------
(***************************************************************************)
(* The safety invariants of ChannelMembership for every finite set of      *)
(* users and every bound.  Types and the single owner are inductive        *)
(* together; counting, versions, the freeze and the roster rest on them.   *)
(* The commands are first reduced to the seven shapes a step can have.     *)
(***************************************************************************)
EXTENDS ChannelMembership, FiniteSetTheorems, SequenceTheorems, TLAPS

LEMMA RequestType ==
  ASSUME NEW op \in Ops, NEW u \in Users, NEW k \in Keys \cup {None},
         NEW t \in Users, NEW r \in Given \cup {None}
  PROVE  Req(op, u, k, t, r) \in Request
BY DEF Req, Request

LEMMA EntryType ==
  ASSUME NEW kind \in Changes \cup Unversioned \cup {"channel.dissolved"},
         NEW u \in Users, NEW r \in Roles \cup {None}, NEW v \in Nat,
         NEW via \in Users \cup {None}, NEW req \in Request
  PROVE  E(kind, u, r, v, via, req) \in Entry
BY DEF E, Entry

LEMMA RecordType ==
  ASSUME NEW req \in Request, done \subseteq Request, answered \subseteq Request, Record(req)
  PROVE  done' \subseteq Request /\ answered' \subseteq Request
BY DEF Record

-----------------------------------------------------------------------------
(* The shapes of a step.                                                   *)

Enters == \E u \in Users, e \in Entry :
  /\ status = "active" /\ ~Active(u)
  /\ e.kind = "member.joined" /\ e.user = u /\ e.role \in Given /\ e.mv = mv + 1
  /\ member' = [member EXCEPT ![u] = [status |-> "active", role |-> e.role]]
  /\ mv' = mv + 1 /\ count' = count + 1 /\ log' = Append(log, e)
  /\ UNCHANGED <<status, createdBy>>

ChangesRole == \E u \in Users, e \in Entry :
  /\ status = "active" /\ Active(u) /\ u # createdBy
  /\ e.kind = "member.role_updated" /\ e.user = u /\ e.role \in Given /\ e.mv = mv + 1
  /\ member' = [member EXCEPT ![u].role = e.role]
  /\ mv' = mv + 1 /\ log' = Append(log, e)
  /\ UNCHANGED <<status, createdBy, count>>

Leaves == \E u \in Users, e \in Entry :
  /\ Active(u)
  /\ status = "active" => u # createdBy
  /\ status = "dissolved" => e.req.user = u
  /\ e.kind = "member.left" /\ e.user = u /\ e.role = member[u].role /\ e.mv = mv + 1
  /\ member' = [member EXCEPT ![u].status = "left"]
  /\ mv' = mv + 1 /\ log' = Append(log, e)
  /\ count' = IF count > 0 THEN count - 1 ELSE 0
  /\ UNCHANGED <<status, createdBy>>

HandsOver == \E t \in Users, d, e \in Entry :
  /\ status = "active" /\ Active(t) /\ t # createdBy
  /\ d.kind = "member.role_updated" /\ d.user = createdBy /\ d.role \in Given /\ d.mv = mv + 1
  /\ e.kind = "member.role_updated" /\ e.user = t /\ e.role = "owner" /\ e.mv = mv + 2
  /\ member' = [member EXCEPT ![createdBy].role = d.role, ![t].role = "owner"]
  /\ createdBy' = t /\ mv' = mv + 2 /\ log' = Append(Append(log, d), e)
  /\ UNCHANGED <<status, count>>

Updates == \E e \in Entry :
  /\ status = "active" /\ e.kind = "channel.updated" /\ e.mv = mv
  /\ log' = Append(log, e)
  /\ UNCHANGED <<status, createdBy, count, mv, member>>

Dissolves == \E e \in Entry :
  /\ status = "active" /\ status' = "dissolved"
  /\ e.kind = "channel.dissolved" /\ e.mv = mv + 1
  /\ mv' = mv + 1 /\ log' = Append(log, e)
  /\ UNCHANGED <<createdBy, count, member>>

Stays == UNCHANGED <<status, createdBy, count, mv, member, log>>

(* The part of the state no shape speaks of.                               *)
RestType == /\ listed' \in BOOLEAN /\ invites' \in [Users -> Invite]
            /\ done' \subseteq Request /\ answered' \subseteq Request

Shape == /\ RestType
         /\ \/ Enters \/ ChangesRole \/ Leaves \/ HandsOver
            \/ Updates \/ Dissolves \/ Stays

LEMMA EnterShape ==
  ASSUME TypeOK, NEW u \in Users, NEW r \in Given, NEW via \in Users \cup {None},
         NEW req \in Request, Enter(u, r, via, req), status = "active", ~Active(u),
         invites' \in [Users -> Invite]
  PROVE  Shape
<1> DEFINE e == E("member.joined", u, r, mv + 1, via, req)
<1>1. e \in Entry
  BY EntryType DEF TypeOK, Changes, Roles
<1>2. /\ e.kind = "member.joined" /\ e.user = u /\ e.role = r /\ e.mv = mv + 1
  BY DEF E
<1>3. /\ member' = [member EXCEPT ![u] = [status |-> "active", role |-> r]]
      /\ mv' = mv + 1 /\ count' = count + 1 /\ log' = Append(log, e)
      /\ UNCHANGED <<status, listed, createdBy>>
  BY DEF Enter
<1>4. RestType
  BY <1>3, RecordType DEF Enter, RestType, TypeOK
<1> HIDE DEF e
<1>5. Enters
  BY <1>1, <1>2, <1>3 DEF Enters
<1> QED BY <1>4, <1>5 DEF Shape

LEMMA NoOpShape ==
  ASSUME TypeOK, NEW req \in Request, NoOp(req)
  PROVE  Shape
BY RecordType DEF NoOp, Shape, RestType, Stays, TypeOK

LEMMA KeyType == \A op \in Ops : KeysOf(op) \subseteq Keys \cup {None}
BY DEF KeysOf

LEMMA NotDissolved == TypeOK /\ status # "dissolved" => status = "active"
BY DEF TypeOK

LEMMA AddShape ==
  ASSUME TypeOK, NEW u \in Users, NEW t \in Users, NEW r \in Given, NEW k \in Keys \cup {None},
         Add(u, t, r, k) \/ AddNoOp(u, t, r, k)
  PROVE  Shape
<1>1. Req("add", u, k, t, r) \in Request
  BY RequestType DEF Ops
<1>2. CASE Add(u, t, r, k)
  <2>1. Enter(t, r, None, Req("add", u, k, t, r)) /\ status = "active" /\ ~Active(t)
    BY <1>2, NotDissolved DEF Add, CanAdd
  <2>2. invites' \in [Users -> Invite]
    BY <1>2 DEF Add, TypeOK
  <2> QED BY <1>1, <2>1, <2>2, EnterShape
<1>3. CASE AddNoOp(u, t, r, k)
  BY <1>1, <1>3, NoOpShape DEF AddNoOp
<1> QED BY <1>2, <1>3

LEMMA JoinShape ==
  ASSUME TypeOK, NEW u \in Users, NEW k \in Keys \cup {None}, Join(u, k) \/ JoinNoOp(u, k)
  PROVE  Shape
<1>1. Req("join", u, k, u, None) \in Request
  BY RequestType DEF Ops
<1>2. CASE Join(u, k)
  <2>1. /\ Enter(u, "member", None, Req("join", u, k, u, None))
        /\ status = "active" /\ ~Active(u) /\ "member" \in Given
    BY <1>2, NotDissolved DEF Join, Given
  <2>2. invites' \in [Users -> Invite]
    BY <1>2 DEF Join, TypeOK
  <2> QED BY <1>1, <2>1, <2>2, EnterShape
<1>3. CASE JoinNoOp(u, k)
  BY <1>1, <1>3, NoOpShape DEF JoinNoOp
<1> QED BY <1>2, <1>3

LEMMA AcceptShape ==
  ASSUME TypeOK, NEW u \in Users, NEW c \in Users, NEW k \in Keys \cup {None},
         Accept(u, c, k) \/ AcceptNoOp(u, c, k)
  PROVE  Shape
<1>1. Req("accept", u, k, c, None) \in Request
  BY RequestType DEF Ops
<1>2. CASE Accept(u, c, k)
  <2>1. /\ Enter(u, "member", c, Req("accept", u, k, c, None))
        /\ status = "active" /\ ~Active(u) /\ "member" \in Given
    BY <1>2, NotDissolved DEF Accept, Given
  <2>2. invites' \in [Users -> Invite]
    <3>1. invites' = [invites EXCEPT ![c].used = @ + 1] /\ invites \in [Users -> Invite]
      BY <1>2 DEF Accept, TypeOK
    <3> QED BY <3>1 DEF Invite
  <2> QED BY <1>1, <2>1, <2>2, EnterShape
<1>3. CASE AcceptNoOp(u, c, k)
  BY <1>1, <1>3, NoOpShape DEF AcceptNoOp
<1> QED BY <1>2, <1>3

LEMMA UpdateRoleShape ==
  ASSUME TypeOK, NEW u \in Users, NEW t \in Users, NEW r \in Given, NEW k \in Keys \cup {None},
         UpdateRole(u, t, r, k)
  PROVE  Shape
<1> DEFINE req == Req("role", u, k, t, r)
           e == E("member.role_updated", t, r, mv + 1, None, req)
<1>1. req \in Request
  BY RequestType DEF Ops
<1>2. e \in Entry
  <2> HIDE DEF req
  <2> QED BY <1>1 DEF E, Entry, TypeOK, Changes, Roles
<1>3. e.kind = "member.role_updated" /\ e.user = t /\ e.role = r /\ e.mv = mv + 1
  BY DEF E
<1>4. /\ status = "active" /\ Active(t) /\ t # createdBy
      /\ member' = [member EXCEPT ![t].role = r]
      /\ mv' = mv + 1 /\ log' = Append(log, e)
      /\ UNCHANGED <<status, createdBy, count>>
  BY NotDissolved DEF UpdateRole
<1>5. Record(req) /\ UNCHANGED <<listed, invites>>
  BY DEF UpdateRole
<1>6. RestType
  <2> HIDE DEF req
  <2> QED BY <1>1, <1>5, RecordType DEF RestType, TypeOK
<1> HIDE DEF e, req
<1>7. ChangesRole
  BY <1>2, <1>3, <1>4 DEF ChangesRole
<1> QED BY <1>6, <1>7 DEF Shape

LEMMA RemoveShape ==
  ASSUME TypeOK, OneOwner,
         NEW u \in Users, NEW t \in Users, NEW k \in Keys \cup {None}, Remove(u, t, k)
  PROVE  Shape
<1> DEFINE req == Req("remove", u, k, t, None)
           e == E("member.left", t, member[t].role, mv + 1, None, req)
<1>1. req \in Request
  BY RequestType DEF Ops
<1>2. e \in Entry
  <2>1. member[t].role \in Roles \cup {None}
    BY DEF TypeOK, MemberRow
  <2> HIDE DEF req
  <2> QED BY <1>1, <2>1 DEF E, Entry, TypeOK, Changes
<1>3. /\ e.kind = "member.left" /\ e.user = t /\ e.role = member[t].role
      /\ e.mv = mv + 1 /\ e.req.user = u
  BY DEF E, Req
<1>4. /\ Active(t)
      /\ status = "active" => t # createdBy
      /\ status = "dissolved" => u = t
  <2>1. MayRemove(u, t) /\ Active(t)
    BY DEF Remove
  <2>2. ASSUME status = "active" PROVE t # createdBy
    <3>1. CASE u = t
      BY <2>1, <2>2, <3>1 DEF MayRemove
    <3>2. CASE u # t
      <4>1. ActiveRole(u) = "owner"
        BY <2>1, <2>2, <3>2 DEF MayRemove
      <4>2. member[u].role = "owner"
        BY <4>1, MembershipAssumption DEF ActiveRole, Roles
      <4> QED BY <3>2, <4>2 DEF OneOwner
    <3> QED BY <3>1, <3>2
  <2> QED BY <2>1, <2>2 DEF MayRemove
<1>5. /\ member' = [member EXCEPT ![t].status = "left"]
      /\ mv' = mv + 1 /\ log' = Append(log, e)
      /\ count' = IF count > 0 THEN count - 1 ELSE 0
      /\ UNCHANGED <<status, createdBy>>
  BY DEF Remove
<1>6. Record(req) /\ UNCHANGED listed /\ invites' = invites
  BY DEF Remove
<1>7. RestType
  <2> HIDE DEF req
  <2> QED BY <1>1, <1>6, RecordType DEF RestType, TypeOK
<1> HIDE DEF e, req
<1>8. Leaves
  BY <1>2, <1>3, <1>4, <1>5 DEF Leaves
<1> QED BY <1>7, <1>8 DEF Shape

LEMMA TransferShape ==
  ASSUME TypeOK, NEW u \in Users, NEW t \in Users, NEW p \in Given, NEW k \in Keys \cup {None},
         Transfer(u, t, p, k)
  PROVE  Shape
<1> DEFINE req == Req("transfer", u, k, t, p)
           d == E("member.role_updated", u, p, mv + 1, None, req)
           e == E("member.role_updated", t, "owner", mv + 2, None, req)
<1>1. req \in Request
  BY RequestType DEF Ops
<1>2. d \in Entry /\ e \in Entry
  <2> HIDE DEF req
  <2> QED BY <1>1 DEF E, Entry, TypeOK, Changes, Roles
<1>3. /\ d.kind = "member.role_updated" /\ d.user = u /\ d.role = p /\ d.mv = mv + 1
      /\ e.kind = "member.role_updated" /\ e.user = t /\ e.role = "owner" /\ e.mv = mv + 2
  BY DEF E
<1>4. HandOver(u, t, p, mv + 1, mv + 2, req)
  BY DEF Transfer
<1>5. status = "active" /\ createdBy = u /\ t # createdBy /\ Active(t)
  <2>1. ActiveRole(t) \in Given
    BY <1>4 DEF HandOver
  <2>2. Active(t)
    BY <2>1, MembershipAssumption DEF ActiveRole, Roles
  <2> QED BY <1>4, <2>2, NotDissolved DEF HandOver
<1>6. /\ member' = [member EXCEPT ![u].role = p, ![t].role = "owner"]
      /\ createdBy' = t /\ mv' = mv + 2 /\ log' = Append(Append(log, d), e)
      /\ UNCHANGED <<status, count>>
  BY <1>4 DEF HandOver
<1>7. RestType
  <2>1. Record(req) /\ UNCHANGED listed /\ invites' = invites
    BY <1>4 DEF HandOver
  <2> HIDE DEF req
  <2> QED BY <1>1, <2>1, RecordType DEF RestType, TypeOK
<1> HIDE DEF d, e, req
<1>8. HandsOver
  BY <1>2, <1>3, <1>5, <1>6 DEF HandsOver
<1> QED BY <1>7, <1>8 DEF Shape

LEMMA UpdateShape ==
  ASSUME TypeOK, NEW u \in Users, NEW l \in BOOLEAN, Update(u, l)
  PROVE  Shape
<1> DEFINE req == Req("update", u, None, u, None)
           e == E("channel.updated", u, None, mv, None, req)
<1>1. req \in Request
  BY RequestType DEF Ops
<1>2. e \in Entry
  <2> HIDE DEF req
  <2> QED BY <1>1 DEF E, Entry, TypeOK, Unversioned
<1>3. e.kind = "channel.updated" /\ e.mv = mv
  BY DEF E
<1>4. /\ status = "active" /\ log' = Append(log, e)
      /\ UNCHANGED <<status, createdBy, count, mv, member>>
  BY NotDissolved DEF Update
<1>5. RestType
  BY DEF Update, RestType, TypeOK
<1> HIDE DEF e, req
<1>6. Updates
  BY <1>2, <1>3, <1>4 DEF Updates
<1> QED BY <1>5, <1>6 DEF Shape

LEMMA DissolveShape ==
  ASSUME TypeOK, NEW u \in Users, NEW k \in Keys \cup {None},
         Dissolve(u, k) \/ DissolveAgain(u, k)
  PROVE  Shape
<1> DEFINE req == Req("dissolve", u, k, u, None)
           e == E("channel.dissolved", u, None, mv + 1, None, req)
<1>1. req \in Request
  BY RequestType DEF Ops
<1>2. e \in Entry
  <2> HIDE DEF req
  <2> QED BY <1>1 DEF E, Entry, TypeOK
<1>3. e.kind = "channel.dissolved" /\ e.mv = mv + 1
  BY DEF E
<1>4. CASE Dissolve(u, k)
  <2>1. /\ status = "active" /\ status' = "dissolved"
        /\ mv' = mv + 1 /\ log' = Append(log, e)
        /\ UNCHANGED <<createdBy, count, member>>
    BY <1>4 DEF Dissolve
  <2>2. Record(req) /\ UNCHANGED listed /\ invites' = invites
    BY <1>4 DEF Dissolve
  <2> HIDE DEF e, req
  <2>3. RestType
    BY <1>1, <2>2, RecordType DEF RestType, TypeOK
  <2>4. Dissolves
    BY <1>2, <1>3, <2>1 DEF Dissolves
  <2> QED BY <2>3, <2>4 DEF Shape
<1>5. CASE DissolveAgain(u, k)
  BY <1>1, <1>5, NoOpShape DEF DissolveAgain
<1> QED BY <1>4, <1>5

LEMMA InviteShape ==
  ASSUME TypeOK, NEW u \in Users,
         (\E m \in Limits : CreateInvite(u, m)) \/ ExpireInvite(u)
  PROVE  Shape
<1>1. Stays /\ UNCHANGED <<listed, done, answered>>
  BY DEF CreateInvite, ExpireInvite, Stays
<1>2. CASE ExpireInvite(u)
  <2>1. invites' \in [Users -> Invite]
    BY <1>2 DEF ExpireInvite, TypeOK, Invite
  <2> QED BY <1>1, <2>1 DEF Shape, RestType, TypeOK
<1>3. ASSUME NEW m \in Limits, CreateInvite(u, m) PROVE Shape
  <2>1. m \in Nat \cup {None}
    BY MembershipAssumption
  <2>2. invites' = [invites EXCEPT ![u].open = TRUE, ![u].max = m]
    BY <1>3 DEF CreateInvite
  <2>3. invites' \in [Users -> Invite]
    BY <2>1, <2>2 DEF TypeOK, Invite
  <2> QED BY <1>1, <2>3 DEF Shape, RestType, TypeOK
<1> QED BY <1>2, <1>3

LEMMA StepShape ==
  ASSUME TypeOK, OneOwner, Next PROVE Shape
<1>1. CASE \E u, t \in Users, r \in Given :
       \/ \E k \in KeysOf("add") : Add(u, t, r, k) \/ AddNoOp(u, t, r, k)
       \/ \E k \in KeysOf("role") : UpdateRole(u, t, r, k)
       \/ \E k \in KeysOf("transfer") : Transfer(u, t, r, k)
  BY <1>1, KeyType, AddShape, UpdateRoleShape, TransferShape DEF Ops
<1>2. CASE \E u, t \in Users :
       \/ \E k \in KeysOf("remove") : Remove(u, t, k)
       \/ \E k \in KeysOf("accept") : Accept(u, t, k) \/ AcceptNoOp(u, t, k)
  BY <1>2, KeyType, RemoveShape, AcceptShape DEF Ops
<1>3. CASE \E u \in Users :
       \/ \E k \in KeysOf("join") : Join(u, k) \/ JoinNoOp(u, k)
       \/ \E k \in KeysOf("dissolve") : Dissolve(u, k) \/ DissolveAgain(u, k)
  BY <1>3, KeyType, JoinShape, DissolveShape DEF Ops
<1>4. CASE \E u \in Users, m \in Limits : CreateInvite(u, m)
  BY <1>4, InviteShape
<1>5. CASE \E u \in Users : ExpireInvite(u)
  BY <1>5, InviteShape
<1>6. CASE \E u \in Users, l \in BOOLEAN : Update(u, l)
  BY <1>6, UpdateShape
<1> QED BY <1>1, <1>2, <1>3, <1>4, <1>5, <1>6 DEF Next

-----------------------------------------------------------------------------
(* The state in which create leaves the channel, spelled out.              *)

Created(creator, im, l) ==
  /\ \A i \in 1..Len(im) : im[i].user # creator
  /\ \A i, j \in 1..Len(im) : im[i].user = im[j].user => i = j
  /\ status = "active" /\ listed = l /\ createdBy = creator
  /\ count = 1 + Len(im) /\ mv = 1 + Len(im)
  /\ member = [u \in Users |-> RowAtCreate(creator, im, u)]
  /\ invites = [u \in Users |-> NoInvite]
  /\ done = {} /\ answered = {}
  /\ log = [i \in 1..(1 + Len(im)) |->
              IF i = 1 THEN E("member.joined", creator, "owner", 1, None,
                              Req("create", creator, None, creator, None))
              ELSE E("member.joined", im[i - 1].user, im[i - 1].role, i, None,
                     Req("create", creator, None, creator, None))]

Named == [user : Users, role : Given]
Initials == Seq(Named)

LEMMA InitCreated ==
  ASSUME Init
  PROVE  \E creator \in Users, im \in Initials, l \in BOOLEAN : Created(creator, im, l)
<1>1. InitialList \subseteq Initials
  <2>1. InitialList = UNION {[1..n -> Named] : n \in 0..MaxInitial}
    BY DEF InitialList, Named
  <2>2. Initials = UNION {[1..n -> Named] : n \in Nat}
    BY SeqDef DEF Initials
  <2>3. 0..MaxInitial \subseteq Nat
    BY MembershipAssumption
  <2> QED BY <2>1, <2>2, <2>3
<1> QED BY <1>1 DEF Init, Created

LEMMA CreatedRows ==
  ASSUME NEW creator \in Users, NEW im \in Initials, NEW l \in BOOLEAN, Created(creator, im, l)
  PROVE  /\ member[creator] = [status |-> "active", role |-> "owner"]
         /\ \A i \in 1..Len(im) : member[im[i].user] = [status |-> "active", role |-> im[i].role]
         /\ \A u \in Users : (u # creator /\ \A i \in 1..Len(im) : im[i].user # u)
                                => member[u] = NoRow
<1>1. \A i \in 1..Len(im) : im[i] \in Named
  BY ElementOfSeq DEF Initials
<1>2. \A u \in Users : member[u] = RowAtCreate(creator, im, u)
  BY DEF Created
<1>3. ASSUME NEW i \in 1..Len(im)
      PROVE  member[im[i].user] = [status |-> "active", role |-> im[i].role]
  <2> DEFINE u == im[i].user
             j == CHOOSE x \in 1..Len(im) : im[x].user = u
  <2>1. j \in 1..Len(im) /\ im[j].user = u
    OBVIOUS
  <2>2. j = i
    BY <2>1 DEF Created
  <2>3. u \in Users /\ u # creator
    BY <1>1 DEF Created, Named
  <2>4. RowAtCreate(creator, im, u) = [status |-> "active", role |-> im[j].role]
    BY <2>3 DEF RowAtCreate
  <2> HIDE DEF j
  <2> QED BY <1>2, <2>2, <2>3, <2>4
<1>4. member[creator] = [status |-> "active", role |-> "owner"]
  BY <1>2 DEF RowAtCreate
<1>5. ASSUME NEW u \in Users, u # creator, \A i \in 1..Len(im) : im[i].user # u
      PROVE  member[u] = NoRow
  BY <1>2, <1>5 DEF RowAtCreate
<1> QED BY <1>3, <1>4, <1>5

LEMMA CreatedLog ==
  ASSUME NEW creator \in Users, NEW im \in Initials, NEW l \in BOOLEAN, Created(creator, im, l)
  PROVE  /\ log \in Seq(Entry) /\ Len(log) = 1 + Len(im)
         /\ log[1].user = creator /\ log[1].role = "owner" /\ log[1].mv = 1
         /\ \A i \in 1..Len(im) : /\ log[i + 1].user = im[i].user
                                  /\ log[i + 1].role = im[i].role
         /\ \A i \in 1..Len(log) : /\ log[i].kind = "member.joined" /\ log[i].mv = i
                                  /\ log[i].via = None
<1> DEFINE req == Req("create", creator, None, creator, None)
           n == Len(im)
           at(i) == IF i = 1 THEN E("member.joined", creator, "owner", 1, None, req)
                    ELSE E("member.joined", im[i - 1].user, im[i - 1].role, i, None, req)
<1>1. req \in Request
  BY RequestType DEF Ops
<1>2. n \in Nat /\ \A i \in 1..n : im[i] \in Named
  BY ElementOfSeq DEF Initials
<1>3. log = [i \in 1..(1 + n) |-> at(i)]
  BY DEF Created
<1> HIDE DEF req, n
<1>4. \A i \in 1..(1 + n) : at(i) \in Entry
  BY <1>1, <1>2 DEF E, Entry, Changes, Roles, Named
<1>5. \A i \in 1..(1 + n) : at(i).kind = "member.joined" /\ at(i).mv = i /\ at(i).via = None
  BY DEF E
<1>6. at(1).user = creator /\ at(1).role = "owner"
  BY DEF E
<1>7. \A i \in 1..n : at(i + 1).user = im[i].user /\ at(i + 1).role = im[i].role
  BY <1>2 DEF E
<1> HIDE DEF at
<1>8. log \in [1..(1 + n) -> Entry] /\ 1 + n \in Nat
  BY <1>2, <1>3, <1>4
<1>9. log \in Seq(Entry) /\ Len(log) = 1 + n
  BY <1>8, SeqDef
<1>10. \A i \in 1..n : i + 1 \in 1..(1 + n) /\ 1 \in 1..(1 + n)
  BY <1>2
<1>11. 1 \in 1..(1 + n)
  BY <1>2
<1> QED BY <1>2, <1>3, <1>5, <1>6, <1>7, <1>9, <1>10, <1>11 DEF n

-----------------------------------------------------------------------------
(* Types and the single owner.                                             *)

LEMMA InitTypes == Init => TypeOK /\ OneOwner
<1> SUFFICES ASSUME NEW creator \in Users, NEW im \in Initials, NEW l \in BOOLEAN,
                    Created(creator, im, l)
             PROVE  TypeOK /\ OneOwner
  BY InitCreated
<1>1. \A i \in 1..Len(im) : im[i].user \in Users /\ im[i].role \in Given
  <2>1. \A i \in 1..Len(im) : im[i] \in Named
    BY ElementOfSeq DEF Initials
  <2> QED BY <2>1 DEF Named
<1>2. \A u \in Users : member[u] \in MemberRow /\ (member[u].role = "owner" <=> u = creator)
  <2> SUFFICES ASSUME NEW u \in Users
               PROVE  member[u] \in MemberRow /\ (member[u].role = "owner" <=> u = creator)
    OBVIOUS
  <2>1. CASE u = creator
    BY <2>1, CreatedRows DEF MemberRow, Roles
  <2>2. ASSUME u # creator, NEW i \in 1..Len(im), im[i].user = u
        PROVE  member[u] \in MemberRow /\ (member[u].role = "owner" <=> u = creator)
    <3>1. member[u] = [status |-> "active", role |-> im[i].role]
      BY <2>2, CreatedRows
    <3>2. im[i].role \in Given
      BY <1>1
    <3> QED BY <2>2, <3>1, <3>2 DEF MemberRow, Roles, Given
  <2>3. ASSUME u # creator, \A i \in 1..Len(im) : im[i].user # u
        PROVE  member[u] \in MemberRow /\ (member[u].role = "owner" <=> u = creator)
    <3>1. member[u] = NoRow
      BY <2>3, CreatedRows
    <3> QED BY <2>3, <3>1, MembershipAssumption DEF NoRow, MemberRow, Roles
  <2> QED BY <2>1, <2>2, <2>3
<1>3. member \in [Users -> MemberRow]
  <2>1. member = [u \in Users |-> RowAtCreate(creator, im, u)]
    BY DEF Created
  <2> QED BY <1>2, <2>1
<1>4. invites \in [Users -> Invite]
  BY DEF Created, NoInvite, Invite
<1>5. log \in Seq(Entry) /\ Len(im) \in Nat
  BY CreatedLog DEF Initials
<1>6. TypeOK
  BY <1>3, <1>4, <1>5 DEF Created, TypeOK
<1>7. OneOwner
  <2>1. member[creator] = [status |-> "active", role |-> "owner"]
    BY CreatedRows
  <2>2. Active(creator) /\ createdBy = creator
    BY <2>1 DEF Active, Created
  <2> QED BY <1>2, <2>2 DEF OneOwner
<1> QED BY <1>6, <1>7

LEMMA EntryFields ==
  ASSUME NEW e \in Entry
  PROVE  /\ e.mv \in Nat /\ e.user \in Users /\ e.role \in Roles \cup {None}
BY DEF Entry

LEMMA StepTypes ==
  ASSUME TypeOK, OneOwner, [Next]_vars PROVE TypeOK' /\ OneOwner'
<1>1. CASE UNCHANGED vars
  BY <1>1 DEF vars, TypeOK, OneOwner, Active
<1>2. CASE Shape
  <2>1. RestType
    BY <1>2 DEF Shape
  <2>2. /\ status \in {"active", "dissolved"} /\ createdBy \in Users /\ count \in Nat
        /\ mv \in Nat /\ member \in [Users -> MemberRow] /\ log \in Seq(Entry)
    BY DEF TypeOK
  <2>3. /\ \A u \in Users : member[u].role = "owner" <=> u = createdBy
        /\ status = "active" => Active(createdBy)
    BY DEF OneOwner
  <2>4. CASE Enters
    <3>1. PICK u \in Users, e \in Entry :
            /\ status = "active" /\ ~Active(u) /\ e.role \in Given
            /\ member' = [member EXCEPT ![u] = [status |-> "active", role |-> e.role]]
            /\ mv' = mv + 1 /\ count' = count + 1 /\ log' = Append(log, e)
            /\ UNCHANGED <<status, createdBy>>
      BY <2>4 DEF Enters
    <3>2. u # createdBy
      BY <2>3, <3>1
    <3>3. member' \in [Users -> MemberRow]
      BY <2>2, <3>1 DEF MemberRow, Roles
    <3>4. OneOwner'
      BY <2>2, <2>3, <3>1, <3>2 DEF OneOwner, Active, Given
    <3> QED BY <2>1, <2>2, <3>1, <3>3, <3>4 DEF TypeOK, RestType
  <2>5. CASE ChangesRole
    <3>1. PICK u \in Users, e \in Entry :
            /\ status = "active" /\ u # createdBy /\ e.role \in Given
            /\ member' = [member EXCEPT ![u].role = e.role]
            /\ mv' = mv + 1 /\ log' = Append(log, e)
            /\ UNCHANGED <<status, createdBy, count>>
      BY <2>5 DEF ChangesRole
    <3>2. member' \in [Users -> MemberRow]
      BY <2>2, <3>1 DEF MemberRow, Roles
    <3>3. OneOwner'
      BY <2>2, <2>3, <3>1 DEF OneOwner, Active, Given, MemberRow
    <3> QED BY <2>1, <2>2, <3>1, <3>2, <3>3 DEF TypeOK, RestType
  <2>6. CASE Leaves
    <3>1. PICK u \in Users, e \in Entry :
            /\ status = "active" => u # createdBy
            /\ member' = [member EXCEPT ![u].status = "left"]
            /\ mv' = mv + 1 /\ log' = Append(log, e)
            /\ count' = IF count > 0 THEN count - 1 ELSE 0
            /\ UNCHANGED <<status, createdBy>>
      BY <2>6 DEF Leaves
    <3>2. member' \in [Users -> MemberRow]
      BY <2>2, <3>1 DEF MemberRow
    <3>3. OneOwner'
      BY <2>2, <2>3, <3>1 DEF OneOwner, Active, MemberRow
    <3> QED BY <2>1, <2>2, <3>1, <3>2, <3>3 DEF TypeOK, RestType
  <2>7. CASE HandsOver
    <3>1. PICK t \in Users, d \in Entry, e \in Entry :
            /\ status = "active" /\ Active(t) /\ t # createdBy /\ d.role \in Given
            /\ member' = [member EXCEPT ![createdBy].role = d.role, ![t].role = "owner"]
            /\ createdBy' = t /\ mv' = mv + 2 /\ log' = Append(Append(log, d), e)
            /\ UNCHANGED <<status, count>>
      BY <2>7 DEF HandsOver
    <3>2. member' \in [Users -> MemberRow]
      BY <2>2, <3>1 DEF MemberRow, Roles
    <3>3. OneOwner'
      BY <2>2, <2>3, <3>1 DEF OneOwner, Active, Given, MemberRow
    <3>4. log' \in Seq(Entry)
      BY <2>2, <3>1
    <3>5. /\ status' \in {"active", "dissolved"} /\ createdBy' \in Users
          /\ count' \in Nat /\ mv' \in Nat
      BY <2>2, <3>1
    <3> QED BY <2>1, <3>2, <3>3, <3>4, <3>5 DEF TypeOK, RestType
  <2>8. CASE Updates
    <3>1. PICK e \in Entry : /\ log' = Append(log, e)
                             /\ UNCHANGED <<status, createdBy, count, mv, member>>
      BY <2>8 DEF Updates
    <3>2. OneOwner'
      BY <2>3, <3>1 DEF OneOwner, Active
    <3> QED BY <2>1, <2>2, <3>1, <3>2 DEF TypeOK, RestType
  <2>9. CASE Dissolves
    <3>1. PICK e \in Entry : /\ log' = Append(log, e) /\ mv' = mv + 1 /\ status' = "dissolved"
                             /\ UNCHANGED <<createdBy, count, member>>
      BY <2>9 DEF Dissolves
    <3>2. OneOwner'
      BY <2>3, <3>1 DEF OneOwner, Active
    <3> QED BY <2>1, <2>2, <3>1, <3>2 DEF TypeOK, RestType
  <2>10. CASE Stays
    <3>1. OneOwner'
      BY <2>3, <2>10 DEF OneOwner, Active, Stays
    <3> QED BY <2>1, <2>2, <2>10, <3>1 DEF TypeOK, RestType, Stays
  <2> QED BY <1>2, <2>4, <2>5, <2>6, <2>7, <2>8, <2>9, <2>10 DEF Shape
<1> QED BY <1>1, <1>2, StepShape

-----------------------------------------------------------------------------
(* member_count.                                                           *)

LEMMA InitCount == Init => CountMatches
<1> SUFFICES ASSUME NEW creator \in Users, NEW im \in Initials, NEW l \in BOOLEAN,
                    Created(creator, im, l)
             PROVE  CountMatches
  BY InitCreated
<1> DEFINE n == Len(im)
           f == [i \in 1..(1 + n) |-> IF i = 1 THEN creator ELSE im[i - 1].user]
<1>1. n \in Nat /\ \A i \in 1..n : im[i].user \in Users
  <2>1. n \in Nat /\ \A i \in 1..n : im[i] \in Named
    BY ElementOfSeq DEF Initials
  <2> QED BY <2>1 DEF Named
<1>2. \A i \in 1..(1 + n) : f[i] \in ActiveMembers
  <2>1. member[creator] = [status |-> "active", role |-> "owner"]
    BY CreatedRows
  <2>2. \A i \in 1..n : member[im[i].user].status = "active"
    <3> SUFFICES ASSUME NEW i \in 1..n PROVE member[im[i].user].status = "active"
      OBVIOUS
    <3>1. member[im[i].user] = [status |-> "active", role |-> im[i].role]
      BY CreatedRows
    <3> QED BY <3>1
  <2>3. SUFFICES ASSUME NEW i \in 1..(1 + n) PROVE f[i] \in ActiveMembers
    OBVIOUS
  <2>4. CASE i = 1
    BY <2>1, <2>4 DEF ActiveMembers, Active
  <2>5. CASE i # 1
    <3>1. i - 1 \in 1..n
      BY <1>1, <2>5
    <3> QED BY <1>1, <2>2, <2>5, <3>1 DEF ActiveMembers, Active
  <2> QED BY <2>4, <2>5
<1>3. \A i, j \in 1..(1 + n) : f[i] = f[j] => i = j
  <2>1. /\ \A i \in 1..n : im[i].user # creator
        /\ \A i, j \in 1..n : im[i].user = im[j].user => i = j
    BY DEF Created
  <2>2. SUFFICES ASSUME NEW i \in 1..(1 + n), NEW j \in 1..(1 + n), f[i] = f[j] PROVE i = j
    OBVIOUS
  <2>3. CASE i # 1 /\ j # 1
    <3>1. i - 1 \in 1..n /\ j - 1 \in 1..n /\ i \in Nat /\ j \in Nat
      BY <1>1, <2>3
    <3>2. i - 1 = j - 1
      BY <2>1, <2>2, <2>3, <3>1
    <3> QED BY <3>1, <3>2
  <2>4. CASE i = 1 /\ j # 1
    <3>1. j - 1 \in 1..n
      BY <1>1, <2>4
    <3> QED BY <2>1, <2>2, <2>4, <3>1
  <2>5. CASE i # 1 /\ j = 1
    <3>1. i - 1 \in 1..n
      BY <1>1, <2>5
    <3> QED BY <2>1, <2>2, <2>5, <3>1
  <2> QED BY <2>3, <2>4, <2>5
<1>4. \A u \in ActiveMembers : \E i \in 1..(1 + n) : f[i] = u
  <2> SUFFICES ASSUME NEW u \in ActiveMembers PROVE \E i \in 1..(1 + n) : f[i] = u
    OBVIOUS
  <2>1. CASE u = creator
    <3>1. f[1] = creator /\ 1 \in 1..(1 + n)
      BY <1>1
    <3> QED BY <2>1, <3>1
  <2>2. ASSUME NEW i \in 1..n, im[i].user = u PROVE \E j \in 1..(1 + n) : f[j] = u
    <3>1. i + 1 \in 1..(1 + n) /\ i + 1 # 1 /\ (i + 1) - 1 = i
      BY <1>1
    <3>2. f[i + 1] = im[(i + 1) - 1].user
      BY <3>1
    <3>3. f[i + 1] = u
      BY <2>2, <3>1, <3>2
    <3> QED BY <3>1, <3>3
  <2>3. ASSUME u # creator, \A i \in 1..n : im[i].user # u PROVE FALSE
    <3>1. member[u] = NoRow
      BY <2>3, CreatedRows DEF ActiveMembers
    <3> QED BY <3>1 DEF ActiveMembers, Active, NoRow
  <2> QED BY <2>1, <2>2, <2>3
<1>5. f \in Bijection(1..(1 + n), ActiveMembers)
  <2> HIDE DEF f
  <2>1. f \in [1..(1 + n) -> ActiveMembers]
    <3>1. f = [i \in 1..(1 + n) |-> f[i]]
      BY DEF f
    <3> QED BY <1>2, <3>1
  <2> QED BY <1>3, <1>4, <2>1 DEF Bijection, Injection, Surjection, IsInjective
<1> HIDE DEF f
<1>6. Cardinality(ActiveMembers) = Cardinality(1..(1 + n))
  <2>1. ExistsBijection(1..(1 + n), ActiveMembers)
    BY <1>5 DEF ExistsBijection
  <2>2. IsFiniteSet(1..(1 + n))
    BY <1>1, FS_Interval
  <2> QED BY <2>1, <2>2, FS_Bijection
<1>7. Cardinality(1..(1 + n)) = 1 + n
  BY <1>1, FS_Interval
<1> QED BY <1>6, <1>7 DEF Created, CountMatches

LEMMA ActiveFinite ==
  IsFiniteSet(ActiveMembers) /\ Cardinality(ActiveMembers) \in Nat
<1>1. ActiveMembers \in SUBSET Users
  BY DEF ActiveMembers
<1>2. IsFiniteSet(ActiveMembers)
  BY <1>1, FS_Subset, MembershipAssumption
<1> QED BY <1>2, FS_CardinalityType

LEMMA StepCount ==
  ASSUME TypeOK, OneOwner, CountMatches, [Next]_vars PROVE CountMatches'
<1>1. member \in [Users -> MemberRow] /\ createdBy \in Users /\ count = Cardinality(ActiveMembers)
  BY DEF TypeOK, CountMatches
<1>2. ASSUME count' = count, \A u \in Users : Active(u)' <=> Active(u) PROVE CountMatches'
  <2>1. ActiveMembers' = ActiveMembers
    BY <1>2 DEF ActiveMembers
  <2> QED BY <1>1, <1>2, <2>1 DEF CountMatches
<1>3. CASE UNCHANGED vars
  BY <1>2, <1>3 DEF vars, Active
<1>4. CASE Enters
  <2>1. PICK u \in Users, e \in Entry :
          /\ ~Active(u) /\ count' = count + 1
          /\ member' = [member EXCEPT ![u] = [status |-> "active", role |-> e.role]]
    BY <1>4 DEF Enters
  <2>2. ActiveMembers' = ActiveMembers \cup {u} /\ u \notin ActiveMembers
    BY <1>1, <2>1 DEF ActiveMembers, Active
  <2>3. Cardinality(ActiveMembers \cup {u}) = Cardinality(ActiveMembers) + 1
    BY <2>2, ActiveFinite, FS_AddElement
  <2> QED BY <1>1, <2>1, <2>2, <2>3 DEF CountMatches
<1>5. CASE ChangesRole
  <2>1. PICK u \in Users, e \in Entry :
          member' = [member EXCEPT ![u].role = e.role] /\ count' = count
    BY <1>5 DEF ChangesRole
  <2> QED BY <1>1, <1>2, <2>1 DEF Active, MemberRow
<1>6. CASE Leaves
  <2>1. PICK u \in Users :
          /\ Active(u) /\ count' = IF count > 0 THEN count - 1 ELSE 0
          /\ member' = [member EXCEPT ![u].status = "left"]
    BY <1>6 DEF Leaves
  <2>2. ActiveMembers' = ActiveMembers \ {u} /\ u \in ActiveMembers
    BY <1>1, <2>1 DEF ActiveMembers, Active, MemberRow
  <2>3. Cardinality(ActiveMembers \ {u}) = Cardinality(ActiveMembers) - 1
    BY <2>2, ActiveFinite, FS_RemoveElement
  <2>4. Cardinality(ActiveMembers \ {u}) \in Nat
    BY ActiveFinite, FS_RemoveElement, FS_CardinalityType
  <2>5. count > 0
    BY <1>1, <2>3, <2>4, ActiveFinite
  <2> QED BY <1>1, <2>1, <2>2, <2>3, <2>5 DEF CountMatches
<1>7. CASE HandsOver
  <2>1. PICK t \in Users, d \in Entry :
          /\ member' = [member EXCEPT ![createdBy].role = d.role, ![t].role = "owner"]
          /\ count' = count
    BY <1>7 DEF HandsOver
  <2> QED BY <1>1, <1>2, <2>1 DEF Active, MemberRow
<1>8. CASE Updates \/ Dissolves \/ Stays
  BY <1>2, <1>8 DEF Updates, Dissolves, Stays, Active
<1> QED BY <1>3, <1>4, <1>5, <1>6, <1>7, <1>8, StepShape DEF Shape

-----------------------------------------------------------------------------
(* Versions and the freeze.                                                *)

\* A dissolved entry means the channel is dissolved.
Frozen == \A i \in 1..Len(log) : log[i].kind = "channel.dissolved" => status = "dissolved"

LEMMA InitVersions == Init => VersionsNumberChanges /\ FrozenAfterDissolve /\ Frozen
<1> SUFFICES ASSUME NEW creator \in Users, NEW im \in Initials, NEW l \in BOOLEAN,
                    Created(creator, im, l)
             PROVE  VersionsNumberChanges /\ FrozenAfterDissolve /\ Frozen
  BY InitCreated
<1>1. /\ Len(log) = 1 + Len(im) /\ Len(im) \in Nat
      /\ \A i \in 1..Len(log) : log[i].kind = "member.joined" /\ log[i].mv = i
  BY CreatedLog DEF Initials
<1>2. mv = 1 + Len(im)
  BY DEF Created
<1>3. mv \in 1..Len(log) /\ log[mv].mv = mv
  BY <1>1, <1>2
<1>4. VersionsNumberChanges
  BY <1>1, <1>2, <1>3 DEF VersionsNumberChanges
<1>5. FrozenAfterDissolve /\ Frozen
  BY <1>1 DEF FrozenAfterDissolve, Frozen
<1> QED BY <1>4, <1>5

LEMMA AppendFacts ==
  ASSUME NEW s \in Seq(Entry), NEW e \in Entry
  PROVE  /\ Append(s, e) \in Seq(Entry) /\ Len(Append(s, e)) = Len(s) + 1 /\ Len(s) \in Nat
         /\ \A i \in 1..Len(s) : Append(s, e)[i] = s[i] /\ s[i] \in Entry
         /\ Append(s, e)[Len(s) + 1] = e
OBVIOUS

\* Versions of a timeline s under version v.
Runs(s, v) ==
  /\ \A i, j \in 1..Len(s) : (i < j /\ s[j].kind \notin Unversioned) => s[i].mv < s[j].mv
  /\ \A i \in 1..Len(s) : s[i].mv <= v
  /\ \E i \in 1..Len(s) : s[i].mv = v

LEMMA RunsExtend ==
  ASSUME NEW s \in Seq(Entry), NEW e \in Entry, NEW v \in Nat, Runs(s, v),
         \/ e.mv = v + 1
         \/ e.mv = v /\ e.kind \in Unversioned
  PROVE  Runs(Append(s, e), e.mv)
<1> DEFINE t == Append(s, e)
           n == Len(s)
<1>1. /\ t \in Seq(Entry) /\ Len(t) = n + 1 /\ n \in Nat
      /\ \A i \in 1..n : t[i] = s[i] /\ s[i] \in Entry
      /\ t[n + 1] = e
  BY AppendFacts
<1>2. \A i \in 1..n : s[i].mv \in Nat
  BY <1>1, EntryFields
<1> HIDE DEF t
<1>3. \A i \in 1..(n + 1) : i \in 1..n \/ i = n + 1
  BY <1>1
<1>4. \A i \in 1..n : t[i].mv <= v
  BY <1>1 DEF Runs
<1>5. \A i \in 1..(n + 1) : t[i].mv <= e.mv
  BY <1>1, <1>2, <1>3, <1>4, EntryFields
<1>6. ASSUME NEW i \in 1..(n + 1), NEW j \in 1..(n + 1), i < j, t[j].kind \notin Unversioned
      PROVE  t[i].mv < t[j].mv
  <2>1. i \in 1..n
    BY <1>1, <1>6
  <2>2. CASE j \in 1..n
    BY <1>1, <1>6, <2>1, <2>2 DEF Runs
  <2>3. CASE j = n + 1
    <3>1. t[j] = e /\ e.mv = v + 1
      BY <1>1, <1>6, <2>3
    <3>2. t[i].mv <= v /\ t[i].mv \in Nat
      BY <1>1, <1>2, <1>4, <2>1
    <3> QED BY <3>1, <3>2
  <2> QED BY <1>3, <2>2, <2>3
<1>7. \E i \in 1..(n + 1) : t[i].mv = e.mv
  BY <1>1
<1> QED BY <1>1, <1>5, <1>6, <1>7 DEF Runs, t

LEMMA StepVersions ==
  ASSUME TypeOK, OneOwner, VersionsNumberChanges, [Next]_vars PROVE VersionsNumberChanges'
<1> SUFFICES Runs(log', mv')
  BY DEF VersionsNumberChanges, Runs
<1>1. Runs(log, mv) /\ log \in Seq(Entry) /\ mv \in Nat
  BY DEF VersionsNumberChanges, Runs, TypeOK
<1>2. ASSUME NEW e \in Entry, log' = Append(log, e), mv' = e.mv,
             \/ e.mv = mv + 1
             \/ e.mv = mv /\ e.kind \in Unversioned
      PROVE  Runs(log', mv')
  <2>1. Runs(Append(log, e), e.mv)
    BY <1>1, <1>2, RunsExtend
  <2> QED BY <1>2, <2>1
<1>3. CASE log' = log /\ mv' = mv
  BY <1>1, <1>3 DEF Runs
<1>4. CASE Enters
  <2>1. PICK e \in Entry : e.mv = mv + 1 /\ mv' = mv + 1 /\ log' = Append(log, e)
    BY <1>4 DEF Enters
  <2> QED BY <1>2, <2>1
<1>5. CASE ChangesRole
  <2>1. PICK e \in Entry : e.mv = mv + 1 /\ mv' = mv + 1 /\ log' = Append(log, e)
    BY <1>5 DEF ChangesRole
  <2> QED BY <1>2, <2>1
<1>6. CASE Leaves
  <2>1. PICK e \in Entry : e.mv = mv + 1 /\ mv' = mv + 1 /\ log' = Append(log, e)
    BY <1>6 DEF Leaves
  <2> QED BY <1>2, <2>1
<1>7. CASE HandsOver
  <2>1. PICK d \in Entry, e \in Entry :
          /\ d.mv = mv + 1 /\ e.mv = mv + 2 /\ mv' = mv + 2
          /\ log' = Append(Append(log, d), e)
    BY <1>7 DEF HandsOver
  <2>2. Runs(Append(log, d), d.mv)
    BY <1>1, <2>1, RunsExtend
  <2>3. Append(log, d) \in Seq(Entry)
    BY <1>1
  <2>4. d.mv \in Nat /\ e.mv = d.mv + 1
    BY <1>1, <2>1
  <2>5. Runs(Append(Append(log, d), e), e.mv)
    BY <2>2, <2>3, <2>4, RunsExtend
  <2> QED BY <2>1, <2>5
<1>8. CASE Updates
  <2>1. PICK e \in Entry : /\ e.mv = mv /\ e.kind = "channel.updated"
                           /\ mv' = mv /\ log' = Append(log, e)
    BY <1>8 DEF Updates
  <2>2. e.kind \in Unversioned
    BY <2>1 DEF Unversioned
  <2> QED BY <1>2, <2>1, <2>2
<1>9. CASE Dissolves
  <2>1. PICK e \in Entry : e.mv = mv + 1 /\ mv' = mv + 1 /\ log' = Append(log, e)
    BY <1>9 DEF Dissolves
  <2> QED BY <1>2, <2>1
<1>10. (log' = log /\ mv' = mv) \/ Shape
  BY StepShape DEF vars
<1> QED BY <1>3, <1>4, <1>5, <1>6, <1>7, <1>8, <1>9, <1>10 DEF Shape, Stays

LEMMA StepFrozen ==
  ASSUME TypeOK, OneOwner, FrozenAfterDissolve, Frozen, [Next]_vars
  PROVE  FrozenAfterDissolve' /\ Frozen'
<1>1. log \in Seq(Entry) /\ status \in {"active", "dissolved"}
  BY DEF TypeOK
<1>2. ASSUME log' = log, status' = status PROVE FrozenAfterDissolve' /\ Frozen'
  BY <1>2 DEF FrozenAfterDissolve, Frozen
<1>3. ASSUME status = "active", NEW e \in Entry, log' = Append(log, e),
             e.kind = "channel.dissolved" => status' = "dissolved"
      PROVE  FrozenAfterDissolve' /\ Frozen'
  <2>1. \A i \in 1..Len(log) : log[i].kind # "channel.dissolved"
    BY <1>3 DEF Frozen
  <2>2. /\ Len(log') = Len(log) + 1 /\ Len(log) \in Nat
        /\ \A i \in 1..Len(log) : log'[i] = log[i]
        /\ log'[Len(log) + 1] = e
    BY <1>1, <1>3, AppendFacts
  <2>3. \A i \in 1..Len(log') : log'[i].kind = "channel.dissolved" => i = Len(log')
    BY <2>1, <2>2
  <2> QED BY <1>3, <2>2, <2>3 DEF FrozenAfterDissolve, Frozen
<1>4. CASE HandsOver
  <2>1. PICK d \in Entry, e \in Entry :
          /\ status = "active" /\ status' = status
          /\ d.kind = "member.role_updated" /\ e.kind = "member.role_updated"
          /\ log' = Append(Append(log, d), e)
    BY <1>4 DEF HandsOver
  <2>2. \A i \in 1..Len(log) : log[i].kind # "channel.dissolved"
    BY <2>1 DEF Frozen
  <2>3. \A i \in 1..Len(log') : log'[i].kind # "channel.dissolved"
    BY <1>1, <2>1, <2>2
  <2> QED BY <2>3 DEF FrozenAfterDissolve, Frozen
<1>5. CASE Leaves
  <2>1. PICK u \in Users, e \in Entry :
          /\ status = "dissolved" => e.req.user = u
          /\ e.kind = "member.left" /\ e.user = u
          /\ log' = Append(log, e) /\ status' = status
    BY <1>5 DEF Leaves
  <2>2. CASE status = "active"
    BY <1>3, <2>1, <2>2
  <2>3. CASE status = "dissolved"
    <3>1. /\ Len(log') = Len(log) + 1 /\ Len(log) \in Nat
          /\ \A i \in 1..Len(log) : log'[i] = log[i]
          /\ log'[Len(log) + 1] = e
      BY <1>1, <2>1, AppendFacts
    <3>2. Frozen'
      BY <2>1, <2>3 DEF Frozen
    <3>3. FrozenAfterDissolve'
      <4> SUFFICES ASSUME NEW i \in 1..Len(log'), NEW j \in 1..Len(log'),
                          log'[i].kind = "channel.dissolved", i < j
                   PROVE  log'[j].kind = "member.left" /\ log'[j].user = log'[j].req.user
        BY DEF FrozenAfterDissolve
      <4>1. i \in 1..Len(log)
        BY <3>1
      <4>2. CASE j \in 1..Len(log)
        BY <3>1, <4>1, <4>2 DEF FrozenAfterDissolve
      <4>3. CASE j = Len(log) + 1
        BY <2>1, <2>3, <3>1, <4>3
      <4> QED BY <3>1, <4>2, <4>3
    <3> QED BY <3>2, <3>3
  <2> QED BY <1>1, <2>2, <2>3
<1>6. CASE Enters
  <2>1. PICK e \in Entry : status = "active" /\ e.kind = "member.joined" /\ log' = Append(log, e)
    BY <1>6 DEF Enters
  <2> QED BY <1>3, <2>1
<1>7. CASE ChangesRole
  <2>1. PICK e \in Entry :
          status = "active" /\ e.kind = "member.role_updated" /\ log' = Append(log, e)
    BY <1>7 DEF ChangesRole
  <2> QED BY <1>3, <2>1
<1>8. CASE Updates
  <2>1. PICK e \in Entry :
          status = "active" /\ e.kind = "channel.updated" /\ log' = Append(log, e)
    BY <1>8 DEF Updates
  <2> QED BY <1>3, <2>1
<1>9. CASE Dissolves
  <2>1. PICK e \in Entry : status = "active" /\ status' = "dissolved" /\ log' = Append(log, e)
    BY <1>9 DEF Dissolves
  <2> QED BY <1>3, <2>1
<1>10. (log' = log /\ status' = status) \/ Shape
  BY StepShape DEF vars
<1> QED BY <1>2, <1>4, <1>5, <1>6, <1>7, <1>8, <1>9, <1>10 DEF Shape, Stays

-----------------------------------------------------------------------------
(* The roster a client rebuilds.  Tells(s, m): timeline s gives rows m.    *)

RowAfter(e) == [status |-> IF e.kind = "member.left" THEN "left" ELSE "active", role |-> e.role]

Tells(s, m) ==
  \A u \in Users :
    /\ m[u].status = "none" <=>
         \A i \in 1..Len(s) : ~(s[i].kind \in Changes /\ s[i].user = u)
    /\ \A i \in 1..Len(s) :
         (/\ s[i].kind \in Changes /\ s[i].user = u
          /\ \A j \in 1..Len(s) : (s[j].kind \in Changes /\ s[j].user = u) => j <= i)
         => m[u] = RowAfter(s[i])

LEMMA TellsRoster == RosterFromTimeline <=> Tells(log, member)
BY DEF RosterFromTimeline, Tells, About, LastAbout, RowAfter

LEMMA TellsChange ==
  ASSUME NEW s \in Seq(Entry), NEW m \in [Users -> MemberRow], NEW e \in Entry,
         e.kind \in Changes, Tells(s, m), NEW m2, m2 = [m EXCEPT ![e.user] = RowAfter(e)]
  PROVE  Tells(Append(s, e), m2)
<1> DEFINE t == Append(s, e)
           n == Len(s)
<1>1. /\ t \in Seq(Entry) /\ Len(t) = n + 1 /\ n \in Nat
      /\ \A i \in 1..n : t[i] = s[i] /\ s[i] \in Entry
      /\ t[n + 1] = e
  BY AppendFacts
<1>2. \A u \in Users : m2[u] = IF u = e.user THEN RowAfter(e) ELSE m[u]
  OBVIOUS
<1> HIDE DEF t
<1>3. \A i \in 1..(n + 1) : i \in 1..n \/ i = n + 1
  BY <1>1
<1>4. SUFFICES ASSUME NEW u \in Users
      PROVE  /\ m2[u].status = "none" <=>
                 \A i \in 1..(n + 1) : ~(t[i].kind \in Changes /\ t[i].user = u)
             /\ \A i \in 1..(n + 1) :
                  (/\ t[i].kind \in Changes /\ t[i].user = u
                   /\ \A j \in 1..(n + 1) : (t[j].kind \in Changes /\ t[j].user = u) => j <= i)
                  => m2[u] = RowAfter(t[i])
  BY <1>1 DEF Tells, t
<1>5. CASE u = e.user
  <2>1. t[n + 1].kind \in Changes /\ t[n + 1].user = u /\ n + 1 \in 1..(n + 1)
    BY <1>1, <1>5
  <2>2. m2[u] = RowAfter(e)
    BY <1>2, <1>5
  <2>3. m2[u].status # "none"
    BY <2>2 DEF RowAfter
  <2>4. ASSUME NEW i \in 1..(n + 1), n + 1 <= i PROVE t[i] = e
    BY <1>1, <2>4
  <2> QED BY <2>1, <2>2, <2>3, <2>4
<1>6. CASE u # e.user
  <2>1. m2[u] = m[u]
    BY <1>2, <1>6
  <2>2. ~(t[n + 1].kind \in Changes /\ t[n + 1].user = u)
    BY <1>1, <1>6
  <2>3. m[u].status = "none" <=> \A i \in 1..n : ~(s[i].kind \in Changes /\ s[i].user = u)
    BY DEF Tells
  <2>4. m2[u].status = "none" <=>
          \A i \in 1..(n + 1) : ~(t[i].kind \in Changes /\ t[i].user = u)
    <3>1. \A i \in 1..n : i \in 1..(n + 1)
      BY <1>1
    <3> QED BY <1>1, <1>3, <2>1, <2>2, <2>3, <3>1
  <2>5. ASSUME NEW i \in 1..(n + 1), t[i].kind \in Changes, t[i].user = u,
               \A j \in 1..(n + 1) : (t[j].kind \in Changes /\ t[j].user = u) => j <= i
        PROVE  m2[u] = RowAfter(t[i])
    <3>1. i \in 1..n
      BY <1>3, <2>2, <2>5
    <3>2. \A j \in 1..n : (s[j].kind \in Changes /\ s[j].user = u) => j <= i
      BY <1>1, <2>5
    <3>3. s[i].kind \in Changes /\ s[i].user = u
      BY <1>1, <2>5, <3>1
    <3>4. m[u] = RowAfter(s[i])
      BY <3>1, <3>2, <3>3 DEF Tells
    <3> QED BY <1>1, <2>1, <3>1, <3>4
  <2> QED BY <2>4, <2>5
<1> QED BY <1>5, <1>6

LEMMA TellsOther ==
  ASSUME NEW s \in Seq(Entry), NEW m, NEW e \in Entry, e.kind \notin Changes, Tells(s, m)
  PROVE  Tells(Append(s, e), m)
<1> DEFINE t == Append(s, e)
           n == Len(s)
<1>1. /\ Len(t) = n + 1 /\ n \in Nat
      /\ \A i \in 1..n : t[i] = s[i]
      /\ t[n + 1] = e
  BY AppendFacts
<1> HIDE DEF t
<1>2. \A i \in 1..(n + 1) : i \in 1..n \/ i = n + 1
  BY <1>1
<1>3. \A i \in 1..n : i \in 1..(n + 1)
  BY <1>1
<1>4. \A i \in 1..(n + 1) : t[i].kind \in Changes => i \in 1..n
  BY <1>1, <1>2
<1>5. SUFFICES ASSUME NEW u \in Users
      PROVE  /\ m[u].status = "none" <=>
                 \A i \in 1..(n + 1) : ~(t[i].kind \in Changes /\ t[i].user = u)
             /\ \A i \in 1..(n + 1) :
                  (/\ t[i].kind \in Changes /\ t[i].user = u
                   /\ \A j \in 1..(n + 1) : (t[j].kind \in Changes /\ t[j].user = u) => j <= i)
                  => m[u] = RowAfter(t[i])
  BY <1>1 DEF Tells, t
<1>6. m[u].status = "none" <=> \A i \in 1..n : ~(s[i].kind \in Changes /\ s[i].user = u)
  BY DEF Tells
<1>7. ASSUME NEW i \in 1..(n + 1), t[i].kind \in Changes, t[i].user = u,
             \A j \in 1..(n + 1) : (t[j].kind \in Changes /\ t[j].user = u) => j <= i
      PROVE  m[u] = RowAfter(t[i])
  <2>1. i \in 1..n /\ s[i] = t[i]
    BY <1>1, <1>4, <1>7
  <2>2. \A j \in 1..n : (s[j].kind \in Changes /\ s[j].user = u) => j <= i
    BY <1>1, <1>3, <1>7
  <2> QED BY <1>7, <2>1, <2>2 DEF Tells
<1> QED BY <1>1, <1>3, <1>4, <1>6, <1>7

LEMMA InitRoster == Init => RosterFromTimeline
<1> SUFFICES ASSUME NEW creator \in Users, NEW im \in Initials, NEW l \in BOOLEAN,
                    Created(creator, im, l)
             PROVE  Tells(log, member)
  BY InitCreated, TellsRoster
<1> DEFINE n == Len(im)
<1>1. /\ Len(log) = 1 + n /\ n \in Nat
      /\ log[1].user = creator /\ log[1].role = "owner"
      /\ \A i \in 1..n : log[i + 1].user = im[i].user /\ log[i + 1].role = im[i].role
      /\ \A i \in 1..(1 + n) : log[i].kind = "member.joined"
  BY CreatedLog DEF Initials
<1>2. /\ member[creator] = [status |-> "active", role |-> "owner"]
      /\ \A i \in 1..n : member[im[i].user] = [status |-> "active", role |-> im[i].role]
      /\ \A u \in Users : (u # creator /\ \A i \in 1..n : im[i].user # u) => member[u] = NoRow
  BY CreatedRows
<1> HIDE DEF n
<1>3. ASSUME NEW i \in 1..(1 + n)
      PROVE  member[log[i].user] = [status |-> "active", role |-> log[i].role]
  <2>1. CASE i = 1
    BY <1>1, <1>2, <2>1
  <2>2. CASE i # 1
    <3>1. i - 1 \in 1..n /\ (i - 1) + 1 = i
      BY <1>1, <2>2
    <3>2. log[i].user = im[i - 1].user /\ log[i].role = im[i - 1].role
      BY <1>1, <3>1
    <3>3. member[im[i - 1].user] = [status |-> "active", role |-> im[i - 1].role]
      BY <1>2, <3>1
    <3> QED BY <3>2, <3>3
  <2> QED BY <2>1, <2>2
<1>4. ASSUME NEW i \in 1..(1 + n)
      PROVE  member[log[i].user] = RowAfter(log[i]) /\ log[i].kind \in Changes
  <2>1. log[i].kind = "member.joined"
    BY <1>1
  <2> QED BY <1>3, <2>1 DEF RowAfter, Changes
<1>5. ASSUME NEW u \in Users, \A i \in 1..(1 + n) : log[i].user # u
      PROVE  member[u].status = "none"
  <2>1. u # creator
    <3>1. 1 \in 1..(1 + n)
      BY <1>1
    <3> QED BY <1>1, <1>5, <3>1
  <2>2. ASSUME NEW i \in 1..n PROVE im[i].user # u
    <3>1. i + 1 \in 1..(1 + n)
      BY <1>1
    <3> QED BY <1>1, <1>5, <3>1
  <2> QED BY <1>2, <2>1, <2>2 DEF NoRow
<1>6. ASSUME NEW u \in Users, NEW i \in 1..(1 + n), log[i].user = u
      PROVE  member[u].status # "none"
  <2>1. member[u] = [status |-> "active", role |-> log[i].role]
    BY <1>3, <1>6
  <2> QED BY <2>1
<1> QED BY <1>1, <1>4, <1>5, <1>6 DEF Tells

LEMMA StepRoster ==
  ASSUME TypeOK, OneOwner, RosterFromTimeline, [Next]_vars PROVE RosterFromTimeline'
<1> SUFFICES Tells(log', member')
  BY DEF RosterFromTimeline, Tells, About, LastAbout, RowAfter
<1>1. /\ log \in Seq(Entry) /\ member \in [Users -> MemberRow] /\ Tells(log, member)
      /\ createdBy \in Users
  BY TellsRoster DEF TypeOK
<1>2. ASSUME NEW e \in Entry, e.kind \in Changes, log' = Append(log, e),
             member' = [member EXCEPT ![e.user] = RowAfter(e)]
      PROVE  Tells(log', member')
  BY <1>1, <1>2, TellsChange
<1>3. ASSUME NEW e \in Entry, e.kind \notin Changes, log' = Append(log, e), member' = member
      PROVE  Tells(log', member')
  <2>1. Tells(Append(log, e), member)
    BY <1>1, <1>3, TellsOther
  <2> QED BY <1>3, <2>1
<1>4. CASE log' = log /\ member' = member
  BY <1>1, <1>4
<1>5. CASE Enters
  <2>1. PICK u \in Users, e \in Entry :
          /\ e.kind = "member.joined" /\ e.user = u
          /\ member' = [member EXCEPT ![u] = [status |-> "active", role |-> e.role]]
          /\ log' = Append(log, e)
    BY <1>5 DEF Enters
  <2>2. RowAfter(e) = [status |-> "active", role |-> e.role] /\ e.kind \in Changes
    BY <2>1 DEF RowAfter, Changes
  <2> QED BY <1>2, <2>1, <2>2
<1>6. CASE ChangesRole
  <2>1. PICK u \in Users, e \in Entry :
          /\ Active(u) /\ e.kind = "member.role_updated" /\ e.user = u
          /\ member' = [member EXCEPT ![u].role = e.role] /\ log' = Append(log, e)
    BY <1>6 DEF ChangesRole
  <2>2. member[u] = [status |-> "active", role |-> member[u].role]
    BY <1>1, <2>1 DEF Active, MemberRow
  <2>3. /\ [member[u] EXCEPT !.role = e.role] = [status |-> "active", role |-> e.role]
        /\ RowAfter(e) = [status |-> "active", role |-> e.role] /\ e.kind \in Changes
    BY <2>1, <2>2 DEF RowAfter, Changes
  <2>4. member' = [member EXCEPT ![u] = RowAfter(e)]
    BY <2>1, <2>3
  <2> QED BY <1>2, <2>1, <2>3, <2>4
<1>7. CASE Leaves
  <2>1. PICK u \in Users, e \in Entry :
          /\ e.kind = "member.left" /\ e.user = u /\ e.role = member[u].role
          /\ member' = [member EXCEPT ![u].status = "left"] /\ log' = Append(log, e)
    BY <1>7 DEF Leaves
  <2>2. member[u] = [status |-> member[u].status, role |-> member[u].role]
    BY <1>1 DEF MemberRow
  <2>3. /\ [member[u] EXCEPT !.status = "left"] = [status |-> "left", role |-> e.role]
        /\ RowAfter(e) = [status |-> "left", role |-> e.role] /\ e.kind \in Changes
    BY <2>1, <2>2 DEF RowAfter, Changes
  <2>4. member' = [member EXCEPT ![u] = RowAfter(e)]
    BY <2>1, <2>3
  <2> QED BY <1>2, <2>1, <2>3, <2>4
<1>8. CASE HandsOver
  <2>1. PICK t \in Users, d \in Entry, e \in Entry :
          /\ status = "active" /\ Active(t) /\ t # createdBy
          /\ d.kind = "member.role_updated" /\ d.user = createdBy
          /\ e.kind = "member.role_updated" /\ e.user = t /\ e.role = "owner"
          /\ member' = [member EXCEPT ![createdBy].role = d.role, ![t].role = "owner"]
          /\ log' = Append(Append(log, d), e)
    BY <1>8 DEF HandsOver
  <2>2. Active(createdBy)
    BY <2>1 DEF OneOwner
  <2> DEFINE m == [member EXCEPT ![createdBy] = RowAfter(d)]
  <2>3. /\ RowAfter(d) = [status |-> "active", role |-> d.role] /\ d.kind \in Changes
        /\ RowAfter(e) = [status |-> "active", role |-> e.role] /\ e.kind \in Changes
    BY <2>1 DEF RowAfter, Changes
  <2>4. /\ member[createdBy] = [status |-> "active", role |-> member[createdBy].role]
        /\ member[t] = [status |-> "active", role |-> member[t].role]
    BY <1>1, <2>1, <2>2 DEF Active, MemberRow
  <2>5. m \in [Users -> MemberRow]
    BY <1>1, <2>3, EntryFields DEF MemberRow
  <2>6. Tells(Append(log, d), m)
    BY <1>1, <2>1, <2>3, TellsChange
  <2>7. member' = [m EXCEPT ![t] = RowAfter(e)]
    <3>1. \A u \in Users : member'[u] = IF u = createdBy THEN RowAfter(d)
                                        ELSE IF u = t THEN RowAfter(e) ELSE member[u]
      BY <1>1, <2>1, <2>3, <2>4
    <3>2. member' \in [Users -> MemberRow]
      BY StepTypes DEF TypeOK
    <3> QED BY <1>1, <2>1, <2>5, <3>1, <3>2
  <2>8. Append(log, d) \in Seq(Entry)
    BY <1>1
  <2> HIDE DEF m
  <2>9. Tells(Append(Append(log, d), e), member')
    BY <2>1, <2>3, <2>5, <2>6, <2>7, <2>8, TellsChange
  <2> QED BY <2>1, <2>9
<1>9. CASE Updates
  <2>1. PICK e \in Entry : e.kind = "channel.updated" /\ log' = Append(log, e) /\ member' = member
    BY <1>9 DEF Updates
  <2> QED BY <1>3, <2>1 DEF Changes
<1>10. CASE Dissolves
  <2>1. PICK e \in Entry : e.kind = "channel.dissolved" /\ log' = Append(log, e) /\ member' = member
    BY <1>10 DEF Dissolves
  <2> QED BY <1>3, <2>1 DEF Changes
<1>11. (log' = log /\ member' = member) \/ Shape
  BY StepShape DEF vars
<1> QED BY <1>4, <1>5, <1>6, <1>7, <1>8, <1>9, <1>10, <1>11 DEF Shape, Stays

-----------------------------------------------------------------------------
IInv == /\ TypeOK /\ OneOwner /\ CountMatches /\ VersionsNumberChanges
        /\ FrozenAfterDissolve /\ Frozen /\ RosterFromTimeline

LEMMA InitIInv == Init => IInv
BY InitTypes, InitCount, InitVersions, InitRoster DEF IInv

LEMMA StepIInv == IInv /\ [Next]_vars => IInv'
BY StepTypes, StepCount, StepVersions, StepFrozen, StepRoster DEF IInv

(* The rows of the roster tables keep their types under every command.     *)
THEOREM MembershipTypes == Spec => []TypeOK
<1>1. IInv => TypeOK
  BY DEF IInv
<1> QED BY <1>1, InitIInv, StepIInv, PTL DEF Spec

(* An active channel has one owner, the creator on record, whatever adds,  *)
(* removals, transfers and rejoins came before.                            *)
THEOREM MembershipOneOwner == Spec => []OneOwner
<1>1. IInv => OneOwner
  BY DEF IInv
<1> QED BY <1>1, InitIInv, StepIInv, PTL DEF Spec

(* member_count is the number of active rows.                              *)
THEOREM MembershipCount == Spec => []CountMatches
<1>1. IInv => CountMatches
  BY DEF IInv
<1> QED BY <1>1, InitIInv, StepIInv, PTL DEF Spec

(* Every change of the roster has a membership version of its own.         *)
THEOREM MembershipVersions == Spec => []VersionsNumberChanges
<1>1. IInv => VersionsNumberChanges
  BY DEF IInv
<1> QED BY <1>1, InitIInv, StepIInv, PTL DEF Spec

(* After dissolve the roster only shrinks, by members who leave by         *)
(* themselves (member_commands.ex:754-758).                                *)
THEOREM MembershipFrozen == Spec => []FrozenAfterDissolve
<1>1. IInv => FrozenAfterDissolve
  BY DEF IInv
<1> QED BY <1>1, InitIInv, StepIInv, PTL DEF Spec

(* Replaying the timeline gives the roster tables.                         *)
THEOREM MembershipFromTimeline == Spec => []RosterFromTimeline
<1>1. IInv => RosterFromTimeline
  BY DEF IInv
<1> QED BY <1>1, InitIInv, StepIInv, PTL DEF Spec

-----------------------------------------------------------------------------
(* What a step has to do with requests: a command is checked against the   *)
(* rows of its key, recorded under it, and named in each of its events; a  *)
(* join through an invite is counted on it.                                *)

Silent == log' = log /\ invites' = invites

Says(req) ==
  /\ invites' = invites
  /\ \/ \E e \in Entry : e.req = req /\ e.via = None /\ log' = Append(log, e)
     \/ \E d, e \in Entry : /\ d.req = req /\ d.via = None /\ e.req = req /\ e.via = None
                            /\ log' = Append(Append(log, d), e)

LetsIn(req) == \E e \in Entry, c \in Users :
  /\ e.req = req /\ e.via = c /\ log' = Append(log, e) /\ Unused(c)
  /\ invites' = [invites EXCEPT ![c].used = @ + 1]

Requested == \E req \in Request :
  Fresh(req) /\ Record(req) /\ (Silent \/ Says(req) \/ LetsIn(req))

Unrequested ==
  /\ UNCHANGED <<log, done, answered>>
  /\ \A c \in Users : invites'[c].used = invites[c].used

Accounts == Requested \/ Unrequested

LEMMA NoOpAccounts ==
  ASSUME NEW req \in Request, Fresh(req), NoOp(req)
  PROVE  Accounts
BY DEF NoOp, Silent, Requested, Accounts

LEMMA OneEntryAccounts ==
  ASSUME NEW req \in Request, Fresh(req), Record(req), invites' = invites,
         NEW kind \in Changes \cup Unversioned \cup {"channel.dissolved"},
         NEW u \in Users, NEW r \in Roles \cup {None}, NEW v \in Nat,
         log' = Append(log, E(kind, u, r, v, None, req))
  PROVE  Accounts
<1> DEFINE e == E(kind, u, r, v, None, req)
<1>1. e \in Entry
  BY EntryType
<1>2. e.req = req /\ e.via = None
  BY DEF E
<1> HIDE DEF e
<1>3. Says(req)
  BY <1>1, <1>2 DEF Says, e
<1> QED BY <1>3 DEF Requested, Accounts

LEMMA EntersAccounts ==
  ASSUME TypeOK,
         NEW u \in Users, NEW t \in Users, NEW k \in Keys \cup {None}, NEW r \in Given,
         Add(u, t, r, k) \/ AddNoOp(u, t, r, k) \/ Join(u, k) \/ JoinNoOp(u, k)
  PROVE  Accounts
<1>1. /\ Req("add", u, k, t, r) \in Request
      /\ Req("join", u, k, u, None) \in Request
  BY RequestType DEF Ops
<1>2. mv + 1 \in Nat /\ "member.joined" \in Changes /\ Given \subseteq Roles
      /\ "member" \in Given
  BY DEF TypeOK, Changes, Roles, Given
<1>3. CASE Add(u, t, r, k)
  <2> DEFINE req == Req("add", u, k, t, r)
  <2>1. /\ Fresh(req) /\ Record(req) /\ invites' = invites
        /\ log' = Append(log, E("member.joined", t, r, mv + 1, None, req))
    BY <1>3 DEF Add, Enter
  <2> HIDE DEF req
  <2> QED BY <1>1, <1>2, <2>1, OneEntryAccounts DEF req
<1>4. CASE Join(u, k)
  <2> DEFINE req == Req("join", u, k, u, None)
  <2>1. /\ Fresh(req) /\ Record(req) /\ invites' = invites
        /\ log' = Append(log, E("member.joined", u, "member", mv + 1, None, req))
    BY <1>4 DEF Join, Enter
  <2> HIDE DEF req
  <2> QED BY <1>1, <1>2, <2>1, OneEntryAccounts DEF req
<1>5. CASE AddNoOp(u, t, r, k)
  BY <1>1, <1>5, NoOpAccounts DEF AddNoOp
<1>6. CASE JoinNoOp(u, k)
  BY <1>1, <1>6, NoOpAccounts DEF JoinNoOp
<1> QED BY <1>3, <1>4, <1>5, <1>6

LEMMA AcceptAccounts ==
  ASSUME TypeOK, NEW u \in Users, NEW c \in Users, NEW k \in Keys \cup {None},
         Accept(u, c, k) \/ AcceptNoOp(u, c, k)
  PROVE  Accounts
<1> DEFINE req == Req("accept", u, k, c, None)
           e == E("member.joined", u, "member", mv + 1, c, req)
<1>1. req \in Request
  BY RequestType DEF Ops
<1>2. CASE Accept(u, c, k)
  <2>1. /\ Fresh(req) /\ Record(req) /\ Unused(c) /\ log' = Append(log, e)
        /\ invites' = [invites EXCEPT ![c].used = @ + 1]
    BY <1>2 DEF Accept, Enter
  <2>2. e \in Entry
    <3> HIDE DEF req
    <3> QED BY <1>1, EntryType DEF TypeOK, Changes, Roles, Given
  <2>3. e.req = req /\ e.via = c
    BY DEF E
  <2> HIDE DEF req, e
  <2>4. LetsIn(req)
    BY <2>1, <2>2, <2>3 DEF LetsIn
  <2> QED BY <1>1, <2>1, <2>4 DEF Requested, Accounts
<1>3. CASE AcceptNoOp(u, c, k)
  BY <1>1, <1>3, NoOpAccounts DEF AcceptNoOp
<1> QED BY <1>2, <1>3

LEMMA RowAccounts ==
  ASSUME TypeOK, NEW u \in Users, NEW t \in Users, NEW k \in Keys \cup {None},
         (\E r \in Given : UpdateRole(u, t, r, k)) \/ Remove(u, t, k)
  PROVE  Accounts
<1>1. "member.left" \in Changes /\ "member.role_updated" \in Changes
      /\ Given \subseteq Roles /\ mv + 1 \in Nat
  BY DEF TypeOK, Changes, Roles
<1>2. CASE Remove(u, t, k)
  <2> DEFINE req == Req("remove", u, k, t, None)
  <2>1. /\ Fresh(req) /\ Record(req) /\ invites' = invites
        /\ log' = Append(log, E("member.left", t, member[t].role, mv + 1, None, req))
    BY <1>2 DEF Remove
  <2>2. req \in Request /\ member[t].role \in Roles \cup {None}
    BY RequestType DEF Ops, TypeOK, MemberRow
  <2> HIDE DEF req
  <2> QED BY <1>1, <2>1, <2>2, OneEntryAccounts
<1>3. ASSUME NEW r \in Given, UpdateRole(u, t, r, k) PROVE Accounts
  <2> DEFINE req == Req("role", u, k, t, r)
  <2>1. /\ Fresh(req) /\ Record(req) /\ invites' = invites
        /\ log' = Append(log, E("member.role_updated", t, r, mv + 1, None, req))
    BY <1>3 DEF UpdateRole
  <2>2. req \in Request
    BY RequestType DEF Ops
  <2> HIDE DEF req
  <2> QED BY <1>1, <2>1, <2>2, OneEntryAccounts
<1> QED BY <1>2, <1>3

LEMMA TransferAccounts ==
  ASSUME TypeOK, NEW u \in Users, NEW t \in Users, NEW p \in Given, NEW k \in Keys \cup {None},
         Transfer(u, t, p, k)
  PROVE  Accounts
<1> DEFINE req == Req("transfer", u, k, t, p)
           d == E("member.role_updated", u, p, mv + 1, None, req)
           e == E("member.role_updated", t, "owner", mv + 2, None, req)
<1>1. req \in Request
  BY RequestType DEF Ops
<1>2. d \in Entry /\ e \in Entry
  <2>1. /\ mv + 1 \in Nat /\ mv + 2 \in Nat /\ "member.role_updated" \in Changes
        /\ p \in Roles /\ "owner" \in Roles
    BY DEF TypeOK, Changes, Roles
  <2> HIDE DEF req
  <2> QED BY <1>1, <2>1, EntryType
<1>3. d.req = req /\ d.via = None /\ e.req = req /\ e.via = None
  BY DEF E
<1>4. /\ Fresh(req) /\ Record(req) /\ invites' = invites
      /\ log' = Append(Append(log, d), e)
  BY DEF Transfer, HandOver
<1> HIDE DEF d, e, req
<1>5. Says(req)
  BY <1>2, <1>3, <1>4 DEF Says
<1> QED BY <1>1, <1>4, <1>5 DEF Requested, Accounts

LEMMA ChannelAccounts ==
  ASSUME TypeOK, NEW u \in Users, NEW k \in Keys \cup {None},
         \/ \E l \in BOOLEAN : Update(u, l)
         \/ Dissolve(u, k) \/ DissolveAgain(u, k)
  PROVE  Accounts
<1>1. mv \in Nat /\ mv + 1 \in Nat
  BY DEF TypeOK
<1>2. ASSUME NEW l \in BOOLEAN, Update(u, l) PROVE Accounts
  <2> DEFINE req == Req("update", u, None, u, None)
  <2>1. invites' = invites /\ log' = Append(log, E("channel.updated", u, None, mv, None, req))
    BY <1>2 DEF Update
  <2>2. req.key = None /\ UNCHANGED <<done, answered>>
    BY <1>2 DEF Update, Req
  <2>3. req \in Request
    BY RequestType DEF Ops
  <2> HIDE DEF req
  <2>4. Fresh(req) /\ Record(req)
    BY <2>2 DEF Fresh, Record
  <2>5. "channel.updated" \in Unversioned
    BY DEF Unversioned
  <2> QED BY <1>1, <2>1, <2>3, <2>4, <2>5, OneEntryAccounts
<1>3. CASE Dissolve(u, k)
  <2> DEFINE req == Req("dissolve", u, k, u, None)
  <2>1. /\ Fresh(req) /\ Record(req) /\ invites' = invites
        /\ log' = Append(log, E("channel.dissolved", u, None, mv + 1, None, req))
    BY <1>3 DEF Dissolve
  <2>2. req \in Request
    BY RequestType DEF Ops
  <2> HIDE DEF req
  <2> QED BY <1>1, <2>1, <2>2, OneEntryAccounts
<1>4. CASE DissolveAgain(u, k)
  <2>1. Req("dissolve", u, k, u, None) \in Request
    BY RequestType DEF Ops
  <2> QED BY <1>4, <2>1, NoOpAccounts DEF DissolveAgain
<1> QED BY <1>2, <1>3, <1>4

LEMMA InviteAccounts ==
  ASSUME TypeOK, NEW u \in Users,
         (\E m \in Limits : CreateInvite(u, m)) \/ ExpireInvite(u)
  PROVE  Accounts
<1>1. invites \in [Users -> Invite] /\ UNCHANGED <<log, done, answered>>
  BY DEF TypeOK, CreateInvite, ExpireInvite
<1>2. CASE ExpireInvite(u)
  <2>1. invites' = [invites EXCEPT ![u].open = FALSE]
    BY <1>2 DEF ExpireInvite
  <2>2. \A c \in Users : invites'[c].used = invites[c].used
    BY <1>1, <2>1 DEF Invite
  <2> QED BY <1>1, <2>2 DEF Unrequested, Accounts
<1>3. ASSUME NEW m \in Limits, CreateInvite(u, m) PROVE Accounts
  <2>1. invites' = [invites EXCEPT ![u].open = TRUE, ![u].max = m]
    BY <1>3 DEF CreateInvite
  <2>2. \A c \in Users : invites'[c].used = invites[c].used
    BY <1>1, <2>1 DEF Invite
  <2> QED BY <1>1, <2>2 DEF Unrequested, Accounts
<1> QED BY <1>2, <1>3

LEMMA StepAccounts == ASSUME TypeOK, Next PROVE Accounts
<1>1. CASE \E u, t \in Users, r \in Given :
       \/ \E k \in KeysOf("add") : Add(u, t, r, k) \/ AddNoOp(u, t, r, k)
       \/ \E k \in KeysOf("role") : UpdateRole(u, t, r, k)
       \/ \E k \in KeysOf("transfer") : Transfer(u, t, r, k)
  BY <1>1, KeyType, EntersAccounts, RowAccounts, TransferAccounts DEF Ops
<1>2. CASE \E u, t \in Users :
       \/ \E k \in KeysOf("remove") : Remove(u, t, k)
       \/ \E k \in KeysOf("accept") : Accept(u, t, k) \/ AcceptNoOp(u, t, k)
  BY <1>2, KeyType, RowAccounts, AcceptAccounts DEF Ops
<1>3. CASE \E u \in Users :
       \/ \E k \in KeysOf("join") : Join(u, k) \/ JoinNoOp(u, k)
       \/ \E k \in KeysOf("dissolve") : Dissolve(u, k) \/ DissolveAgain(u, k)
  BY <1>3, KeyType, EntersAccounts, ChannelAccounts DEF Ops, Given
<1>4. CASE \E u \in Users, m \in Limits : CreateInvite(u, m)
  BY <1>4, InviteAccounts
<1>5. CASE \E u \in Users : ExpireInvite(u)
  BY <1>5, InviteAccounts
<1>6. CASE \E u \in Users, l \in BOOLEAN : Update(u, l)
  BY <1>6, ChannelAccounts
<1> QED BY <1>1, <1>2, <1>3, <1>4, <1>5, <1>6 DEF Next

-----------------------------------------------------------------------------
(* An answer is in a row from the start, and no row holds the absent key:  *)
(* what a step may still run is therefore not answered yet.                *)
AnswersKept == \A r \in answered : r \in done /\ r.key # None

LEMMA InitAnswers == Init => AnswersKept
BY DEF Init, AnswersKept

LEMMA StepAnswers == ASSUME TypeOK, AnswersKept, [Next]_vars PROVE AnswersKept'
<1>1. CASE UNCHANGED vars
  BY <1>1 DEF vars, AnswersKept
<1>2. CASE Unrequested
  BY <1>2 DEF Unrequested, AnswersKept
<1>3. ASSUME NEW req \in Request, Record(req) PROVE AnswersKept'
  <2>1. CASE req.key = None
    BY <1>3, <2>1 DEF Record, AnswersKept
  <2>2. CASE req.key # None
    <3>1. done' = done \cup {req} /\ answered' = answered \cup {req}
      BY <1>3, <2>2 DEF Record
    <3> QED BY <2>2, <3>1 DEF AnswersKept
  <2> QED BY <2>1, <2>2
<1> QED BY <1>1, <1>2, <1>3, StepAccounts DEF Accounts, Requested

LEMMA FreshUnanswered ==
  ASSUME AnswersKept, NEW req, Fresh(req)
  PROVE  req \notin answered
<1>1. ASSUME req \in answered PROVE FALSE
  <2>1. req \in done /\ req.key # None
    BY <1>1 DEF AnswersKept
  <2> QED BY <2>1 DEF Fresh
<1> QED BY <1>1

LEMMA NewEntries ==
  ASSUME TypeOK, NEW req \in Request, Silent \/ Says(req) \/ LetsIn(req)
  PROVE  \A i \in Len(log) + 1..Len(log') : log'[i].req = req
<1>1. log \in Seq(Entry)
  BY DEF TypeOK
<1>2. CASE Silent
  BY <1>1, <1>2 DEF Silent
<1>3. ASSUME NEW e \in Entry, e.req = req, log' = Append(log, e)
      PROVE  \A i \in Len(log) + 1..Len(log') : log'[i].req = req
  <2>1. \A i \in Len(log) + 1..Len(log') : i = Len(log) + 1
    BY <1>1, <1>3, AppendFacts
  <2>2. log'[Len(log) + 1] = e
    BY <1>1, <1>3, AppendFacts
  <2> QED BY <1>3, <2>1, <2>2
<1>4. ASSUME NEW d \in Entry, NEW e \in Entry, d.req = req, e.req = req,
             log' = Append(Append(log, d), e)
      PROVE  \A i \in Len(log) + 1..Len(log') : log'[i].req = req
  <2> DEFINE s == Append(log, d)
  <2>1. s \in Seq(Entry) /\ Len(s) = Len(log) + 1 /\ s[Len(log) + 1] = d /\ Len(log) \in Nat
    BY <1>1, AppendFacts
  <2>2. log' = Append(s, e)
    BY <1>4
  <2> HIDE DEF s
  <2>3. /\ Len(log') = Len(log) + 2 /\ log'[Len(log) + 1] = d /\ log'[Len(log) + 2] = e
    BY <2>1, <2>2, AppendFacts
  <2>4. \A i \in Len(log) + 1..Len(log') : i = Len(log) + 1 \/ i = Len(log) + 2
    BY <2>1, <2>3
  <2> QED BY <1>4, <2>3, <2>4
<1> QED BY <1>2, <1>3, <1>4 DEF Says, LetsIn

(* An answered request never acts again: whatever a step appends, it does  *)
(* for a request no row held, and the answered ones are all in rows.       *)
THEOREM AnsweredNeverRuns == Spec => NeverRunsAgain
<1> DEFINE A == \A i \in Len(log) + 1..Len(log') : log'[i].req \notin answered
<1>1. IInv /\ AnswersKept /\ [Next]_vars => [A]_vars
  <2> SUFFICES ASSUME IInv, AnswersKept, Next PROVE A
    OBVIOUS
  <2>1. TypeOK
    BY DEF IInv
  <2>2. CASE Unrequested
    BY <2>1, <2>2 DEF Unrequested, TypeOK
  <2>3. ASSUME NEW req \in Request, Fresh(req), Silent \/ Says(req) \/ LetsIn(req) PROVE A
    <3>1. \A i \in Len(log) + 1..Len(log') : log'[i].req = req
      BY <2>1, <2>3, NewEntries
    <3> QED BY <2>3, <3>1, FreshUnanswered
  <2> QED BY <2>1, <2>2, <2>3, StepAccounts DEF Accounts, Requested
<1>2. IInv /\ AnswersKept /\ [Next]_vars => AnswersKept'
  BY StepAnswers DEF IInv
<1> QED BY <1>1, <1>2, InitIInv, StepIInv, InitAnswers, PTL DEF Spec, NeverRunsAgain

-----------------------------------------------------------------------------
(* The counter of an invite is the number of people it let in: refreshing  *)
(* or expiring it leaves the counter alone.                                *)
UsesCounted == \A c \in Users : invites[c].used = Joins(c)

Via(s, c) == {i \in 1..Len(s) : s[i].via = c}

LEMMA ViaAppend ==
  ASSUME NEW s \in Seq(Entry), NEW e \in Entry, NEW c
  PROVE  /\ IsFiniteSet(Via(s, c)) /\ Cardinality(Via(s, c)) \in Nat
         /\ e.via # c => Via(Append(s, e), c) = Via(s, c)
         /\ e.via = c => Cardinality(Via(Append(s, e), c)) = Cardinality(Via(s, c)) + 1
<1>1. /\ Len(Append(s, e)) = Len(s) + 1 /\ Len(s) \in Nat
      /\ \A i \in 1..Len(s) : Append(s, e)[i] = s[i]
      /\ Append(s, e)[Len(s) + 1] = e
  BY AppendFacts
<1>2. IsFiniteSet(Via(s, c))
  <2>1. Via(s, c) \subseteq 1..Len(s)
    BY DEF Via
  <2>2. IsFiniteSet(1..Len(s))
    BY <1>1, FS_Interval
  <2> QED BY <2>1, <2>2, FS_Subset
<1>3. ASSUME e.via # c PROVE Via(Append(s, e), c) = Via(s, c)
  BY <1>1, <1>3 DEF Via
<1>4. ASSUME e.via = c PROVE Cardinality(Via(Append(s, e), c)) = Cardinality(Via(s, c)) + 1
  <2>1. Via(Append(s, e), c) = Via(s, c) \cup {Len(s) + 1}
    BY <1>1, <1>4 DEF Via
  <2>2. Len(s) + 1 \notin Via(s, c)
    BY <1>1 DEF Via
  <2> QED BY <1>2, <2>1, <2>2, FS_AddElement
<1> QED BY <1>2, <1>3, <1>4, FS_CardinalityType

LEMMA InitUses == Init => UsesCounted
<1> SUFFICES ASSUME NEW creator \in Users, NEW im \in Initials, NEW l \in BOOLEAN,
                    Created(creator, im, l), NEW c \in Users
             PROVE  invites[c].used = Joins(c)
  BY InitCreated DEF UsesCounted
<1>1. \A i \in 1..Len(log) : log[i].via # c
  BY CreatedLog, MembershipAssumption
<1>2. {i \in 1..Len(log) : log[i].via = c} = {}
  BY <1>1
<1>3. invites[c].used = 0
  BY DEF Created, NoInvite
<1> QED BY <1>2, <1>3, FS_EmptySet DEF Joins

LEMMA StepUses == ASSUME TypeOK, UsesCounted, [Next]_vars PROVE UsesCounted'
<1>1. /\ log \in Seq(Entry) /\ invites \in [Users -> Invite]
      /\ \A c \in Users : invites[c].used = Cardinality(Via(log, c))
  BY DEF TypeOK, UsesCounted, Joins, Via
<1> SUFFICES \A c \in Users : invites'[c].used = Cardinality(Via(log', c))
  BY DEF UsesCounted, Joins, Via
<1>2. CASE log' = log /\ \A c \in Users : invites'[c].used = invites[c].used
  BY <1>1, <1>2
<1>3. ASSUME NEW req \in Request, Says(req)
      PROVE  \A c \in Users : invites'[c].used = Cardinality(Via(log', c))
  <2> SUFFICES ASSUME NEW c \in Users PROVE Via(log', c) = Via(log, c)
    BY <1>1, <1>3 DEF Says
  <2>1. ASSUME NEW e \in Entry, e.via = None, log' = Append(log, e)
        PROVE  Via(log', c) = Via(log, c)
    BY <1>1, <2>1, ViaAppend, MembershipAssumption
  <2>2. ASSUME NEW d \in Entry, NEW e \in Entry, d.via = None, e.via = None,
               log' = Append(Append(log, d), e)
        PROVE  Via(log', c) = Via(log, c)
    <3>1. Append(log, d) \in Seq(Entry) /\ Via(Append(log, d), c) = Via(log, c)
      BY <1>1, <2>2, ViaAppend, AppendFacts, MembershipAssumption
    <3> QED BY <2>2, <3>1, ViaAppend, MembershipAssumption
  <2> QED BY <1>3, <2>1, <2>2 DEF Says
<1>4. ASSUME NEW e \in Entry, NEW x \in Users, e.via = x, log' = Append(log, e),
             invites' = [invites EXCEPT ![x].used = @ + 1], NEW c \in Users
      PROVE  invites'[c].used = Cardinality(Via(log', c))
  <2>1. CASE c = x
    <3>1. invites'[c].used = invites[c].used + 1
      BY <1>1, <1>4, <2>1 DEF Invite
    <3>2. Cardinality(Via(log', c)) = Cardinality(Via(log, c)) + 1
      BY <1>1, <1>4, <2>1, ViaAppend
    <3> QED BY <1>1, <3>1, <3>2
  <2>2. CASE c # x
    <3>1. invites'[c] = invites[c]
      BY <1>1, <1>4, <2>2
    <3>2. Via(log', c) = Via(log, c)
      BY <1>1, <1>4, <2>2, ViaAppend
    <3> QED BY <1>1, <3>1, <3>2
  <2> QED BY <2>1, <2>2
<1> QED BY <1>2, <1>3, <1>4, StepAccounts
    DEF Accounts, Requested, Unrequested, Silent, LetsIn, vars

(* An invite lets in no more people than max_uses allows, over its whole   *)
(* life: its counter is exact, and a join reads it before it enters.       *)
THEOREM InvitesStayWithinLimit == Spec => InviteLimit
<1> DEFINE A == \A i \in Len(log) + 1..Len(log') : LET c == log'[i].via IN
                  c # None => (invites[c].max = None \/ Joins(c) < invites[c].max)
<1>1. IInv /\ UsesCounted /\ [Next]_vars => [A]_vars
  <2> SUFFICES ASSUME IInv, UsesCounted, Next PROVE A
    OBVIOUS
  <2>1. TypeOK /\ log \in Seq(Entry)
    BY DEF IInv, TypeOK
  <2>2. ASSUME \A i \in Len(log) + 1..Len(log') : log'[i].via = None PROVE A
    BY <2>2
  <2>3. CASE log' = log
    BY <2>1, <2>3
  <2>4. ASSUME NEW e \in Entry, e.via = None, log' = Append(log, e) PROVE A
    <3>1. log'[Len(log) + 1] = e /\ \A i \in Len(log) + 1..Len(log') : i = Len(log) + 1
      BY <2>1, <2>4, AppendFacts
    <3> QED BY <2>2, <2>4, <3>1
  <2>5. ASSUME NEW d \in Entry, NEW e \in Entry, d.via = None, e.via = None,
               log' = Append(Append(log, d), e)
        PROVE  A
    <3>1. /\ Append(log, d) \in Seq(Entry) /\ Len(log) \in Nat
          /\ Len(Append(log, d)) = Len(log) + 1 /\ Append(log, d)[Len(log) + 1] = d
      BY <2>1, AppendFacts
    <3>2. /\ Len(log') = Len(log) + 2 /\ log'[Len(log) + 1] = d /\ log'[Len(log) + 2] = e
      BY <2>5, <3>1, AppendFacts
    <3>3. \A i \in Len(log) + 1..Len(log') : i = Len(log) + 1 \/ i = Len(log) + 2
      BY <3>1, <3>2
    <3> QED BY <2>2, <2>5, <3>2, <3>3
  <2>6. ASSUME NEW e \in Entry, NEW c \in Users, e.via = c, log' = Append(log, e), Unused(c)
        PROVE  A
    <3>1. log'[Len(log) + 1] = e /\ \A i \in Len(log) + 1..Len(log') : i = Len(log) + 1
      BY <2>1, <2>6, AppendFacts
    <3>2. invites[c].max = None \/ Joins(c) < invites[c].max
      BY <2>6 DEF UsesCounted, Unused
    <3> QED BY <2>6, <3>1, <3>2
  <2> QED BY <2>1, <2>3, <2>4, <2>5, <2>6, StepAccounts
      DEF Accounts, Requested, Unrequested, Silent, Says, LetsIn
<1>2. IInv /\ UsesCounted /\ [Next]_vars => UsesCounted'
  BY StepUses DEF IInv
<1> QED BY <1>1, <1>2, InitIInv, StepIInv, InitUses, PTL DEF Spec, InviteLimit
=============================================================================
