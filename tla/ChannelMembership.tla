-------------------------- MODULE ChannelMembership --------------------------
(***************************************************************************)
(* The roster of one channel: who is a member, in which role, who owns it, *)
(* how many they are, under which membership_version, and the timeline     *)
(* events a client rebuilds that roster from.  Commands: members.add/role/ *)
(* remove, owner transfer, public join, invite create/accept, update of    *)
(* the visibility, dissolve.                                               *)
(*                                                                         *)
(* All of them run in the channel's writer, one at a time, each in one     *)
(* transaction that re-reads what it decides on (ChannelWriter has the     *)
(* steps inside a command), so a command is one action here.  A command    *)
(* that is refused, or replayed from its idempotency row, changes nothing  *)
(* and is no action.  The system.notice that accompanies every event is    *)
(* left out; idempotency rows do not expire within a behaviour.            *)
(***************************************************************************)
EXTENDS Integers, Sequences, FiniteSets

CONSTANTS
  Users,
  None,          \* no user, no key, no limit
  Keys,          \* command ids presented more than once; None is one that is not
  Retried,       \* bound: the operations presented with a key of Keys
  Limits,        \* bound: the values of max_uses asked for; None is no limit
  MaxInitial,    \* bound: length of initial_members
  MaxLog         \* bound: length of the timeline

Given == {"member", "admin"}      \* the roles a command may hand out
Roles == Given \cup {"owner"}
Ops == {"create", "add", "role", "remove", "transfer", "join", "invite", "accept",
        "update", "dissolve", "invoke"}

ASSUME MembershipAssumption ==
  /\ None \notin Users \cup Keys \cup Nat \cup Roles
  /\ Limits \subseteq Nat \cup {None} /\ MaxInitial \in Nat /\ MaxLog \in Nat
  /\ IsFiniteSet(Users) /\ Retried \subseteq Ops

VARIABLES
  status,      \* channels.status
  listed,      \* channels.visibility is public_listed
  createdBy,   \* channels.created_by
  count,       \* channels.member_count
  mv,          \* channels.membership_version
  member,      \* channel_members: the row of each user
  invites,     \* the personal invite of each user
  log,         \* the timeline
  done,        \* idempotency rows
  answered     \* ghost: the requests that got a successful answer

vars == <<status, listed, createdBy, count, mv, member, invites, log, done, answered>>

Changes == {"member.joined", "member.left", "member.role_updated"}

(* Events that carry the version of the channel and change none: an update *)
(* of the channel, and what a command.invoke that finds the bot busy puts  *)
(* into the timeline (BrowserFanout has that command).                     *)
Artifacts   == {"message.created", "command.failed"}
Unversioned == {"channel.updated"} \cup Artifacts

Request == [op : Ops, user : Users, key : Keys \cup {None},
            target : Users, role : Given \cup {None}]
MemberRow == [status : {"none", "active", "left"}, role : Roles \cup {None}]
Invite  == [open : BOOLEAN, max : Nat \cup {None}, used : Nat]
Entry   == [kind : Changes \cup Unversioned \cup {"channel.dissolved"},
            user : Users, role : Roles \cup {None}, mv : Nat,
            via : Users \cup {None}, req : Request]

NoRow    == [status |-> "none", role |-> None]
NoInvite == [open |-> FALSE, max |-> 0, used |-> 0]

Active(u)       == member[u].status = "active"
ActiveMembers   == {u \in Users : Active(u)}
ActiveRole(u)   == IF Active(u) THEN member[u].role ELSE None

Req(op, u, k, target, role) ==
  [op |-> op, user |-> u, key |-> k, target |-> target, role |-> role]

E(kind, u, role, v, via, req) ==
  [kind |-> kind, user |-> u, role |-> role, mv |-> v, via |-> via, req |-> req]

-----------------------------------------------------------------------------
(* Idempotency: a request runs only if no row holds its key.               *)

Fresh(req) ==
  \/ req.key = None
  \/ \A r \in done : <<r.op, r.user, r.key>> # <<req.op, req.user, req.key>>

Record(req) ==
  /\ done' = IF req.key = None THEN done ELSE done \cup {req}
  /\ answered' = IF req.key = None THEN answered ELSE answered \cup {req}

-----------------------------------------------------------------------------
(* Create: the creator as owner, then each initial member under the next   *)
(* version.  A user named twice violates the table's key and the create    *)
(* fails as a whole.                                                       *)

InitialList == UNION {[1..n -> [user : Users, role : Given]] : n \in 0..MaxInitial}

RowAtCreate(creator, im, u) ==
  IF u = creator THEN [status |-> "active", role |-> "owner"]
  ELSE IF \E i \in 1..Len(im) : im[i].user = u
    THEN [status |-> "active",
          role |-> im[CHOOSE i \in 1..Len(im) : im[i].user = u].role]
  ELSE NoRow

Init ==
  \E creator \in Users, im \in InitialList, l \in BOOLEAN :
    /\ \A i \in 1..Len(im) : im[i].user # creator
    /\ \A i, j \in 1..Len(im) : im[i].user = im[j].user => i = j
    /\ status = "active" /\ listed = l /\ createdBy = creator
    /\ count = 1 + Len(im) /\ mv = 1 + Len(im)
    /\ member = [u \in Users |-> RowAtCreate(creator, im, u)]
    /\ invites = [u \in Users |-> NoInvite]
    /\ LET req == Req("create", creator, None, creator, None)
       IN log = [i \in 1..(1 + Len(im)) |->
                   IF i = 1 THEN E("member.joined", creator, "owner", 1, None, req)
                   ELSE E("member.joined", im[i - 1].user, im[i - 1].role, i, None, req)]
    /\ done = {} /\ answered = {}

-----------------------------------------------------------------------------
(* What the commands have in common.                                       *)

Enter(u, role, via, req) ==
  /\ member' = [member EXCEPT ![u] = [status |-> "active", role |-> role]]
  /\ mv' = mv + 1 /\ count' = count + 1
  /\ log' = Append(log, E("member.joined", u, role, mv + 1, via, req))
  /\ Record(req)
  /\ UNCHANGED <<status, listed, createdBy>>

(* The request is answered and its answer recorded; the roster stays.      *)
NoOp(req) ==
  /\ Record(req)
  /\ UNCHANGED <<status, listed, createdBy, count, mv, member, invites, log>>

Room == Len(log) < MaxLog

-----------------------------------------------------------------------------
CanAdd(u, target) ==
  /\ status # "dissolved"
  /\ ActiveRole(u) \in {"owner", "admin"}
  /\ target # u /\ target # createdBy

\* Mutant: a member who is already active is added once more.
AddAgain(u, target, role, k) ==
  LET req == Req("add", u, k, target, role)
  IN /\ Room /\ Fresh(req) /\ CanAdd(u, target) /\ role \in Given
     /\ Enter(target, role, None, req) /\ UNCHANGED invites

\* Mutant: a member who comes back keeps the role of the old row.
AddStaleRole(u, target, role, k) ==
  LET req == Req("add", u, k, target, role)
  IN /\ Room /\ Fresh(req) /\ CanAdd(u, target) /\ role \in Given
     /\ ~Active(target)
     /\ member' = [member EXCEPT ![target].status = "active",
                                 ![target].role = IF @ = None THEN role ELSE @]
     /\ mv' = mv + 1 /\ count' = count + 1
     /\ log' = Append(log, E("member.joined", target, role, mv + 1, None, req))
     /\ Record(req)
     /\ UNCHANGED <<status, listed, createdBy, invites>>

Add(u, target, role, k) ==
  LET req == Req("add", u, k, target, role)
  IN /\ Room /\ Fresh(req) /\ CanAdd(u, target) /\ role \in Given
     /\ ~Active(target)
     /\ Enter(target, role, None, req) /\ UNCHANGED invites

AddNoOp(u, target, role, k) ==
  LET req == Req("add", u, k, target, role)
  IN /\ Fresh(req) /\ CanAdd(u, target) /\ role \in Given
     /\ ActiveRole(target) = role
     /\ NoOp(req)

UpdateRole(u, target, role, k) ==
  LET req == Req("role", u, k, target, role)
  IN /\ Room /\ Fresh(req)
     /\ status # "dissolved" /\ ActiveRole(u) = "owner" /\ role \in Given
     /\ Active(target) /\ target # createdBy /\ target # u
     /\ member' = [member EXCEPT ![target].role = role]
     /\ mv' = mv + 1
     /\ log' = Append(log, E("member.role_updated", target, role, mv + 1, None, req))
     /\ Record(req)
     /\ UNCHANGED <<status, listed, createdBy, count, invites>>

\* Mutant: the owner may leave a channel that is still active.
MayRemoveOwner(u, target) ==
  IF status = "dissolved" THEN u = target
  ELSE u = target \/ ActiveRole(u) = "owner"

(* On an active channel the owner removes others and everyone else leaves; *)
(* on a dissolved one everybody, the owner too, may only leave.            *)
MayRemove(u, target) ==
  IF status = "dissolved" THEN u = target
  ELSE IF u = target THEN target # createdBy
  ELSE ActiveRole(u) = "owner"

Remove(u, target, k) ==
  LET req == Req("remove", u, k, target, None)
  IN /\ Room /\ Fresh(req) /\ MayRemove(u, target) /\ Active(target)
     /\ member' = [member EXCEPT ![target].status = "left"]
     /\ mv' = mv + 1
     /\ count' = IF count > 0 THEN count - 1 ELSE 0
     /\ log' = Append(log, E("member.left", target, member[target].role, mv + 1, None, req))
     /\ Record(req)
     /\ UNCHANGED <<status, listed, createdBy, invites>>

HandOver(u, target, prev, first, second, req) ==
  /\ status # "dissolved" /\ ActiveRole(u) = "owner" /\ createdBy = u
  /\ ActiveRole(target) \in Given /\ target # createdBy
  /\ member' = [member EXCEPT ![u].role = prev, ![target].role = "owner"]
  /\ createdBy' = target
  /\ mv' = second
  /\ log' = Append(Append(log, E("member.role_updated", u, prev, first, None, req)),
                   E("member.role_updated", target, "owner", second, None, req))
  /\ Record(req)
  /\ UNCHANGED <<status, listed, count, invites>>

\* Mutant: one version for both role changes.
TransferOneVersion(u, target, prev, k) ==
  LET req == Req("transfer", u, k, target, prev)
  IN /\ Room /\ Fresh(req) /\ prev \in Given
     /\ HandOver(u, target, prev, mv + 1, mv + 1, req)

\* Mutant: previous_owner_role is not validated, an absent one is stored.
TransferAnyRole(u, target, prev, k) ==
  LET req == Req("transfer", u, k, target, prev)
  IN /\ Room /\ Fresh(req) /\ prev \in Given
     /\ \E p \in {prev, ""} : HandOver(u, target, p, mv + 1, mv + 2, req)

Transfer(u, target, prev, k) ==
  LET req == Req("transfer", u, k, target, prev)
  IN /\ Room /\ Fresh(req) /\ prev \in Given
     /\ HandOver(u, target, prev, mv + 1, mv + 2, req)

-----------------------------------------------------------------------------
\* Mutant: the status is not checked again.
JoinUngated(u, k) ==
  LET req == Req("join", u, k, u, None)
  IN /\ Room /\ Fresh(req)
     /\ ~Active(u) /\ listed
     /\ Enter(u, "member", None, req) /\ UNCHANGED invites

Join(u, k) ==
  LET req == Req("join", u, k, u, None)
  IN /\ Room /\ Fresh(req) /\ status # "dissolved"
     /\ ~Active(u) /\ listed
     /\ Enter(u, "member", None, req) /\ UNCHANGED invites

\* Mutant: the answer to a member who is already in is not recorded.
JoinNoOpUnrecorded(u, k) ==
  LET req == Req("join", u, k, u, None)
  IN /\ Fresh(req) /\ status # "dissolved" /\ Active(u)
     /\ answered' = IF k = None THEN answered ELSE answered \cup {req}
     /\ UNCHANGED <<status, listed, createdBy, count, mv, member, invites, log, done>>

JoinNoOp(u, k) ==
  LET req == Req("join", u, k, u, None)
  IN /\ Fresh(req) /\ status # "dissolved" /\ Active(u)
     /\ NoOp(req)

(* One personal invite per member; creating it again refreshes the expiry  *)
(* and the limit but keeps the uses.                                       *)
CreateInvite(u, max) ==
  /\ status # "dissolved" /\ Active(u)
  /\ invites' = [invites EXCEPT ![u].open = TRUE, ![u].max = max]
  /\ UNCHANGED <<status, listed, createdBy, count, mv, member, log, done, answered>>

(* Time passes its expires_at.                                             *)
ExpireInvite(c) ==
  /\ invites[c].open
  /\ invites' = [invites EXCEPT ![c].open = FALSE]
  /\ UNCHANGED <<status, listed, createdBy, count, mv, member, log, done, answered>>

\* Mutant: the limit may be overrun by one.
UnusedOffByOne(c) == invites[c].max # None => invites[c].used <= invites[c].max

Unused(c) == invites[c].max # None => invites[c].used < invites[c].max

Accept(u, c, k) ==
  LET req == Req("accept", u, k, c, None)
  IN /\ Room /\ Fresh(req) /\ status # "dissolved"
     /\ invites[c].open /\ ~Active(u) /\ Unused(c)
     /\ Enter(u, "member", c, req)
     /\ invites' = [invites EXCEPT ![c].used = @ + 1]

AcceptNoOp(u, c, k) ==
  LET req == Req("accept", u, k, c, None)
  IN /\ Fresh(req) /\ status # "dissolved"
     /\ invites[c].open /\ Active(u)
     /\ NoOp(req)

-----------------------------------------------------------------------------
(* channel.update, reduced to the field the join gate reads.               *)
Update(u, l) ==
  LET req == Req("update", u, None, u, None)
  IN /\ Room /\ status # "dissolved" /\ ActiveRole(u) \in {"owner", "admin"}
     /\ l # listed /\ listed' = l
     /\ log' = Append(log, E("channel.updated", u, None, mv, None, req))
     /\ UNCHANGED <<status, createdBy, count, mv, member, invites, done, answered>>

Dissolve(u, k) ==
  LET req == Req("dissolve", u, k, u, None)
  IN /\ Room /\ Fresh(req) /\ status = "active" /\ ActiveRole(u) = "owner"
     /\ status' = "dissolved" /\ mv' = mv + 1
     /\ log' = Append(log, E("channel.dissolved", u, None, mv + 1, None, req))
     /\ Record(req)
     /\ UNCHANGED <<listed, createdBy, count, member, invites>>

(* Anybody's dissolve of a dissolved channel is answered and recorded.     *)
DissolveAgain(u, k) ==
  LET req == Req("dissolve", u, k, u, None)
  IN /\ Fresh(req) /\ status = "dissolved"
     /\ NoOp(req)

-----------------------------------------------------------------------------
KeysOf(op) == IF op \in Retried THEN Keys \cup {None} ELSE {None}

Next ==
  \/ \E u, t \in Users, r \in Given :
       \/ \E k \in KeysOf("add") : Add(u, t, r, k) \/ AddNoOp(u, t, r, k)
       \/ \E k \in KeysOf("role") : UpdateRole(u, t, r, k)
       \/ \E k \in KeysOf("transfer") : Transfer(u, t, r, k)
  \/ \E u, t \in Users :
       \/ \E k \in KeysOf("remove") : Remove(u, t, k)
       \/ \E k \in KeysOf("accept") : Accept(u, t, k) \/ AcceptNoOp(u, t, k)
  \/ \E u \in Users :
       \/ \E k \in KeysOf("join") : Join(u, k) \/ JoinNoOp(u, k)
       \/ \E k \in KeysOf("dissolve") : Dissolve(u, k) \/ DissolveAgain(u, k)
  \/ \E u \in Users, m \in Limits : CreateInvite(u, m)
  \/ \E u \in Users : ExpireInvite(u)
  \/ \E u \in Users, l \in BOOLEAN : Update(u, l)

Spec == Init /\ [][Next]_vars

-----------------------------------------------------------------------------
TypeOK ==
  /\ status \in {"active", "dissolved"} /\ listed \in BOOLEAN /\ createdBy \in Users
  /\ count \in Nat /\ mv \in Nat
  /\ member \in [Users -> MemberRow] /\ invites \in [Users -> Invite]
  /\ log \in Seq(Entry)
  /\ done \subseteq Request /\ answered \subseteq Request

(* channel_lifecycle.ex:834-838: channels.created_by and the active member *)
(* row with role owner "agree on every reachable state".  An active        *)
(* channel has exactly one owner, its creator on record; nobody else, not  *)
(* even someone who left, holds the role.                                  *)
OneOwner ==
  /\ \A u \in Users : member[u].role = "owner" <=> u = createdBy
  /\ status = "active" => Active(createdBy)

(* channels.member_count, kept by increments and decrements in five        *)
(* commands, is the number of active rows.                                 *)
CountMatches == count = Cardinality(ActiveMembers)

(* A client that replays the timeline ends with the server's roster: the   *)
(* last event about a user gives the user's row, and there is no row       *)
(* without an event.                                                       *)
About(i, u) == log[i].kind \in Changes /\ log[i].user = u
LastAbout(i, u) == About(i, u) /\ \A j \in 1..Len(log) : About(j, u) => j <= i

RosterFromTimeline ==
  \A u \in Users :
    /\ member[u].status = "none" <=> \A i \in 1..Len(log) : ~About(i, u)
    /\ \A i \in 1..Len(log) : LastAbout(i, u) =>
         member[u] = [status |-> IF log[i].kind = "member.left" THEN "left" ELSE "active",
                      role |-> log[i].role]

(* Every change of the roster has a membership version of its own, in      *)
(* timeline order, and channels.membership_version is the newest: what the *)
(* fanout gate compares.                                                   *)
VersionsNumberChanges ==
  /\ \A i, j \in 1..Len(log) :
       (i < j /\ log[j].kind \notin Unversioned) => log[i].mv < log[j].mv
  /\ \A i \in 1..Len(log) : log[i].mv <= mv
  /\ \E i \in 1..Len(log) : log[i].mv = mv

(* member_commands.ex:754-758 ("on a dissolved channel a self-leave is     *)
(* allowed for ANYONE", tested): after dissolve nobody enters, no role     *)
(* changes and nobody is put out; members leave, each by themselves.       *)
(* Contract 5.4 is stricter: it would have the leave refused as well.      *)
FrozenAfterDissolve ==
  \A i, j \in 1..Len(log) :
    (log[i].kind = "channel.dissolved" /\ i < j) =>
      /\ log[j].kind = "member.left" /\ log[j].user = log[j].req.user

(* channel_join.ex: an answered request never acts again, even when its    *)
(* answer was a no-op and the roster has changed since ("a retry after a   *)
(* later leave is not mistaken for a real rejoin").                        *)
NeverRunsAgain ==
  [][\A i \in Len(log) + 1..Len(log') : log'[i].req \notin answered]_vars

(* An invite never lets in more people than max_uses allows, counted over  *)
(* its whole life, refreshes included.                                     *)
Joins(c) == Cardinality({i \in 1..Len(log) : log[i].via = c})

InviteLimit ==
  [][\A i \in Len(log) + 1..Len(log') : LET c == log'[i].via IN
       c # None => (invites[c].max = None \/ Joins(c) < invites[c].max)]_vars
=============================================================================
