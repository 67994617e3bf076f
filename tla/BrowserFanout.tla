---------------------------- MODULE BrowserFanout ----------------------------
(***************************************************************************)
(* How the timeline events of one channel reach the browser sessions of    *)
(* one node: the writer commits (ChannelMembership), broadcasts on the     *)
(* channel's topic, PubSub puts a copy in the mailbox of every subscribed  *)
(* session process, and the session decides frame by frame whether its     *)
(* user may see it.  session.live_start is what subscribes.                *)
(*                                                                         *)
(* The decision reads the frame's membership_version, a cache of the       *)
(* channel's version that all sessions of the node share, and, only if the *)
(* frame is newer than the cache, the channel_members row.                 *)
(*                                                                         *)
(* One command takes another way.  A command.invoke that finds the bot     *)
(* busy commits two events and is refused; the writer broadcasts them as   *)
(* user frames, which pass no gate, to everybody but the process that      *)
(* called it, and that process pushes them from the reply, ahead of what   *)
(* waits in its mailbox.  User-scoped hints (read_state_updated,           *)
(* my_channels_changed) carry no event and are left out.                   *)
(***************************************************************************)
EXTENDS ChannelMembership

CONSTANTS
  Sessions,
  UserOf,        \* the user each session belongs to
  MaxSubs,       \* bound: concurrent subscriptions of one session
  Closing,       \* bound: whether sessions close and open again
  Invoking       \* bound: whether a command.invoke may find the bot busy

ASSUME FanoutAssumption ==
  /\ UserOf \in [Sessions -> Users] /\ MaxSubs \in Nat \ {0}
  /\ Closing \in BOOLEAN /\ Invoking \in BOOLEAN
  /\ Sessions \cap (Users \cup {None}) = {}

VARIABLES
  published,   \* how much of the log has been broadcast
  lost,        \* ghost: events no broadcast was made of
  cache,       \* MembershipCache, the entry of the channel; None if absent
  caller,      \* the session the broadcasts under way leave out, or None
  session      \* the BrowserChannel process of each session

fanout == <<published, lost, cache, caller, session>>
fvars  == <<vars, fanout>>

(* subs: registrations on the topic.  step, query: a live_start under way  *)
(* and what it read, or a call of the writer, and reply the first of the   *)
(* two events it will answer with.  subscribed: the assign.  Ghosts: from, *)
(* the events broadcast before the first registration; own, the events of  *)
(* the session's own invocations; again, it registered when it already was.*)
Session == [live : BOOLEAN, subscribed : BOOLEAN, subs : 0..MaxSubs,
            step : {"idle", "queried", "registered", "calling"},
            query : Nat \cup {None}, reply : Nat,
            mailbox : Seq(Nat), pushed : Seq(Nat), from : Nat,
            own : SUBSET Nat, again : BOOLEAN]

Opened == [live |-> FALSE, subscribed |-> FALSE, subs |-> 0, step |-> "idle",
           query |-> None, reply |-> 0, mailbox |-> <<>>, pushed |-> <<>>,
           from |-> 0, own |-> {}, again |-> FALSE]

FanoutInit ==
  /\ Init
  /\ published = Len(log) /\ lost = {} /\ cache = None /\ caller = None
  /\ session = [s \in Sessions |-> Opened]

-----------------------------------------------------------------------------
(* The writer takes the next command when the frames of the last one are   *)
(* out.  Of the roster's commands the ones a session can tell apart: one   *)
(* that lets somebody in, one that puts somebody out, one with two frames  *)
(* and two versions, one that leaves the version alone (as a message       *)
(* does), the end.                                                         *)
Command ==
  /\ published = Len(log) /\ UNCHANGED fanout
  /\ \E u \in Users :
       \/ Join(u, None) \/ Dissolve(u, None)
       \/ \E t \in Users : Remove(u, t, None) \/ Transfer(u, t, "member", None)
       \/ \E l \in BOOLEAN : Update(u, l)

(* command.invoke of a busy bot: one transaction commits the user's        *)
(* message and its failure; the roster stays.                              *)
Invoked(u) ==
  LET req == Req("invoke", u, None, u, None)
  IN /\ Invoking /\ published = Len(log) /\ Room
     /\ status = "active" /\ Active(u)
     /\ log' = Append(Append(log, E("message.created", u, None, mv, None, req)),
                      E("command.failed", u, None, mv, None, req))
     /\ UNCHANGED <<status, listed, createdBy, count, mv, member, invites, done, answered>>

(* The session's process waits in its call of the writer.                  *)
Invoke(s) ==
  /\ session[s].step = "idle" /\ Invoked(UserOf[s])
  /\ caller' = s
  /\ session' = [session EXCEPT
       ![s].step = "calling", ![s].reply = Len(log) + 1,
       ![s].own = @ \cup {Len(log) + 1, Len(log) + 2}]
  /\ UNCHANGED <<published, lost, cache>>

(* The caller is on another node.                                          *)
InvokeElsewhere(u) == Invoked(u) /\ UNCHANGED fanout

Copied(t, c) == [t EXCEPT !.mailbox = @ \o c]

\* The frame of event i, once per registration, for everybody but x.
Deliver(i, x) ==
  session' = [s \in Sessions |->
    IF s = x THEN session[s]
    ELSE Copied(session[s], [k \in 1..session[s].subs |-> i])]

\* Mutant: the frames of an invocation go to the caller as well.
BroadcastToAll ==
  /\ published < Len(log)
  /\ Deliver(published + 1, None) /\ published' = published + 1
  /\ caller' = IF published' = Len(log) THEN None ELSE caller
  /\ UNCHANGED <<vars, lost, cache>>

Broadcast ==
  /\ published < Len(log)
  /\ Deliver(published + 1, caller) /\ published' = published + 1
  /\ caller' = IF published' = Len(log) THEN None ELSE caller
  /\ UNCHANGED <<vars, lost, cache>>

(* The writer dies between its commit and the end of its broadcasts, and   *)
(* the process that waits for its reply dies with it.                      *)
WriterCrash ==
  /\ published < Len(log)
  /\ lost' = lost \cup (published + 1)..Len(log) /\ published' = Len(log)
  /\ session' = [s \in Sessions |-> IF s = caller THEN Opened ELSE session[s]]
  /\ caller' = None
  /\ UNCHANGED <<vars, cache>>

(* The reply is out, behind the broadcasts: its frames are pushed at once. *)
Answer(s) ==
  /\ session[s].step = "calling" /\ caller # s
  /\ session' = [session EXCEPT
       ![s].step = "idle", ![s].reply = 0,
       ![s].pushed = Append(Append(@, session[s].reply), session[s].reply + 1)]
  /\ UNCHANGED <<vars, published, lost, cache, caller>>

-----------------------------------------------------------------------------
(* live_start: the query, the registration, the rest.  The process handles *)
(* no frame in between, the others go on.                                  *)

Query(s) ==
  /\ session[s].step = "idle" /\ session[s].subs < MaxSubs
  /\ session' = [session EXCEPT
       ![s].step = "queried",
       ![s].query = IF status = "active" /\ Active(UserOf[s]) THEN mv ELSE None]
  /\ UNCHANGED <<vars, published, lost, cache, caller>>

Register(s) ==
  /\ session[s].step = "queried"
  /\ session' = [session EXCEPT
       ![s].step = "registered",
       ![s].subs = IF session[s].query # None THEN @ + 1 ELSE @,
       ![s].from = IF session[s].subs = 0 THEN published ELSE @,
       ![s].again = @ \/ (session[s].query # None /\ session[s].subs # 0)]
  /\ UNCHANGED <<vars, published, lost, cache, caller>>

GoLive(s) ==
  /\ session[s].step = "registered"
  /\ cache' = IF session[s].query # None THEN session[s].query ELSE cache
  /\ session' = [session EXCEPT
       ![s].step = "idle", ![s].query = None, ![s].live = TRUE,
       ![s].subs = IF session[s].query = None THEN 0 ELSE @,
       ![s].subscribed = session[s].query # None]
  /\ UNCHANGED <<vars, published, lost, caller>>

-----------------------------------------------------------------------------
Version(i) == log[i].mv

\* Mutant: a stale frame is dropped.
GateDropsStale(s, i) ==
  CASE cache = None       -> "deliver"
    [] cache < Version(i) -> IF Active(UserOf[s]) THEN "push" ELSE "drop"
    [] cache > Version(i) -> "drop"
    [] OTHER              -> "deliver"

\* Mutant: a newer frame is delivered without looking at the member's row.
GateUnchecked(s, i) ==
  IF cache = None \/ cache >= Version(i) THEN "deliver" ELSE "push"

Gate(s, i) ==
  IF cache = None \/ cache >= Version(i) THEN "deliver"
  ELSE IF Active(UserOf[s]) THEN "push"
  ELSE "drop"

(* What becomes of the frame of event i: the frames of an invocation are   *)
(* not looked at, the others need the subscription and the gate.           *)
Verdict(s, i) ==
  IF ~session[s].live THEN "drop"
  ELSE IF log[i].kind \in Artifacts THEN "deliver"
  ELSE IF session[s].subscribed THEN Gate(s, i)
  ELSE "drop"

HandleFrame(s) ==
  /\ session[s].step = "idle" /\ session[s].mailbox # <<>>
  /\ LET i == Head(session[s].mailbox)
         d == Verdict(s, i)
     IN /\ session' = [session EXCEPT
             ![s].mailbox = Tail(@),
             ![s].pushed = IF d = "drop" THEN @ ELSE Append(@, i)]
        /\ cache' = IF d = "push" THEN Version(i) ELSE cache
  /\ UNCHANGED <<vars, published, lost, caller>>

(* The socket closes; the client may open another one.                     *)
Close(s) ==
  /\ Closing /\ session[s] # Opened
  /\ session' = [session EXCEPT ![s] = Opened]
  /\ caller' = IF caller = s THEN None ELSE caller
  /\ UNCHANGED <<vars, published, lost, cache>>

FanoutNext ==
  \/ Command \/ Broadcast \/ WriterCrash
  \/ \E u \in Users : InvokeElsewhere(u)
  \/ \E s \in Sessions :
       \/ Invoke(s) \/ Answer(s)
       \/ Query(s) \/ Register(s) \/ GoLive(s) \/ HandleFrame(s) \/ Close(s)

FanoutSpec == FanoutInit /\ [][FanoutNext]_fvars

-----------------------------------------------------------------------------
In(i, q) == \E k \in 1..Len(q) : q[k] = i

(* The user's standing after the first j events.                           *)
MemberAfter(u, j) ==
  \E i \in 1..j : /\ About(i, u) /\ log[i].kind # "member.left"
                  /\ \A k \in i + 1..j : ~About(k, u)

(* Contract 10.5 and 5.11, as far as the code goes.  A session sees the    *)
(* events of a channel in id order and each once, whatever the mailboxes,  *)
(* restarts of the writer and repeated live_starts do, with two exceptions:*)
(* an event of its own invocation may come ahead of earlier events, and a  *)
(* session that registered twice may see events of others twice.           *)
Precedes(t, m, n) ==
  \/ m < n
  \/ m = n /\ t.again /\ m \notin t.own
  \/ n < m /\ m \in t.own

PushedInOrder ==
  \A s \in Sessions : LET p == session[s].pushed IN
    \A a, b \in 1..Len(p) : a < b => Precedes(session[s], p[a], p[b])

\* The events of a reply that is not yet pushed.
Held(t) == IF t.step = "calling" THEN {t.reply, t.reply + 1} ELSE {}

(* Contract 5.11: once live_start is acknowledged, a user who stays a      *)
(* member gets every event that is broadcast: whatever other sessions do   *)
(* to the shared cache, the gate drops none of them, and what a broadcast  *)
(* leaves out for the caller its reply makes good.                         *)
NothingMissed ==
  \A s \in Sessions : LET t == session[s] IN
    (t.live /\ t.subscribed
       /\ \A j \in t.from..Len(log) : MemberAfter(UserOf[s], j))
    => \A i \in t.from + 1..published :
         i \in lost \/ In(i, t.pushed) \/ In(i, t.mailbox) \/ i \in Held(t)

(* Contract 12.3 as the code keeps it: a frame passes the gate of a node   *)
(* only if somebody with a session on that node was a member at some time  *)
(* between the event and the push.  Frames of an invocation pass no gate.  *)
ShownWhereMembersAre ==
  [][\A s \in Sessions : LET p == session[s].pushed  q == session'[s].pushed IN
       (Len(q) > Len(p) /\ log[q[Len(q)]].kind \notin Artifacts) =>
         \E j \in q[Len(q)]..Len(log), r \in Sessions : MemberAfter(UserOf[r], j)]_fvars

(* membership_cache.ex moduledoc, contract 12.3: an event that is newer    *)
(* than the cache is shown to a session only if its own user is a member,  *)
(* so nobody who has left is shown what happens afterwards: the user was a *)
(* member just before the event or at some time until the push.  The cache *)
(* is one for all sessions, and lets through what another user was shown.  *)
ShownToMembers ==
  [][\A s \in Sessions : LET p == session[s].pushed  q == session'[s].pushed IN
       Len(q) > Len(p) =>
         \E j \in q[Len(q)] - 1..Len(log) : MemberAfter(UserOf[s], j)]_fvars
=============================================================================
