------------------------- MODULE BrowserFanoutProofs -------------------------
(***************************************************************************)
(* Three promises of the fanout for every set of sessions and users, every *)
(* number of repeated live_starts and every timeline: a session sees the   *)
(* events of a channel in order; one whose user stays a member misses none *)
(* that is broadcast; and none passes the gate of a node for which nobody  *)
(* there was a member since.                                               *)
(*                                                                         *)
(* The roster's invariant carries over: the fanout runs commands of        *)
(* ChannelMembership, adds the two events of an invocation, or leaves the  *)
(* state alone.  It is needed: the gate reads the member's row, the        *)
(* promise speaks of the timeline, and RosterFromTimeline connects them.   *)
(***************************************************************************)
EXTENDS BrowserFanout, ChannelMembershipProofs, WellFoundedInduction

-----------------------------------------------------------------------------
(* What the fanout does to the state of the roster.                        *)

Invocation == \E u \in Users : Invoked(u)

Roster == [Next]_vars \/ Invocation

LEMMA CommandIsNext == Command => Next
<1>1. None \in KeysOf("join") /\ None \in KeysOf("dissolve")
      /\ None \in KeysOf("remove") /\ None \in KeysOf("transfer")
  BY DEF KeysOf
<1>2. "member" \in Given
  BY DEF Given
<1> QED BY <1>1, <1>2 DEF Command, Next

LEMMA FanoutIsRoster == [FanoutNext]_fvars => Roster
<1> SUFFICES ASSUME [FanoutNext]_fvars PROVE Roster
  OBVIOUS
<1>1. CASE Command
  BY <1>1, CommandIsNext DEF Roster
<1>2. ASSUME NEW s \in Sessions, Invoke(s) PROVE Roster
  BY <1>2, FanoutAssumption DEF Invoke, Roster, Invocation
<1>3. ASSUME NEW u \in Users, InvokeElsewhere(u) PROVE Roster
  BY <1>3 DEF InvokeElsewhere, Roster, Invocation
<1>4. CASE UNCHANGED vars
  BY <1>4 DEF Roster
<1>5. CASE Broadcast \/ WriterCrash \/ UNCHANGED fvars
  BY <1>4, <1>5 DEF Broadcast, WriterCrash, fvars
<1>6. ASSUME NEW s \in Sessions,
             Answer(s) \/ Query(s) \/ Register(s) \/ GoLive(s) \/ HandleFrame(s) \/ Close(s)
      PROVE  Roster
  BY <1>4, <1>6 DEF Answer, Query, Register, GoLive, HandleFrame, Close
<1> QED BY <1>1, <1>2, <1>3, <1>5, <1>6 DEF FanoutNext

(* An invocation adds two events that change no row and no version.        *)
LEMMA InvocationAdds ==
  ASSUME TypeOK, Invocation
  PROVE  \E d, e \in Entry :
           /\ d.kind \in Artifacts /\ d.mv = mv /\ e.kind \in Artifacts /\ e.mv = mv
           /\ log' = Append(Append(log, d), e)
           /\ status = "active"
           /\ UNCHANGED <<status, listed, createdBy, count, mv, member, invites, done, answered>>
<1>1. PICK u \in Users : Invoked(u)
  BY DEF Invocation
<1> DEFINE req == Req("invoke", u, None, u, None)
           d == E("message.created", u, None, mv, None, req)
           e == E("command.failed", u, None, mv, None, req)
<1>2. /\ log' = Append(Append(log, d), e) /\ status = "active"
      /\ UNCHANGED <<status, listed, createdBy, count, mv, member, invites, done, answered>>
  BY <1>1 DEF Invoked
<1>3. req \in Request
  BY RequestType DEF Ops
<1> HIDE DEF req
<1>4. "message.created" \in Artifacts /\ "command.failed" \in Artifacts
  BY DEF Artifacts
<1>5. Artifacts \subseteq Unversioned /\ mv \in Nat
  BY DEF Unversioned, TypeOK
<1>6. d \in Entry /\ e \in Entry
  BY <1>3, <1>4, <1>5, EntryType
<1>7. d.kind \in Artifacts /\ d.mv = mv /\ e.kind \in Artifacts /\ e.mv = mv
  BY <1>4 DEF E
<1> HIDE DEF d, e
<1> QED BY <1>2, <1>6, <1>7

LEMMA InvocationIInv == IInv /\ Invocation => IInv'
<1> SUFFICES ASSUME IInv, Invocation PROVE IInv'
  OBVIOUS
<1>1. /\ TypeOK /\ log \in Seq(Entry) /\ mv \in Nat
      /\ Runs(log, mv) /\ Tells(log, member) /\ Frozen
  BY TellsRoster DEF IInv, TypeOK, VersionsNumberChanges, Runs
<1>2. PICK d \in Entry, e \in Entry :
        /\ d.kind \in Artifacts /\ d.mv = mv /\ e.kind \in Artifacts /\ e.mv = mv
        /\ log' = Append(Append(log, d), e)
        /\ status = "active"
        /\ UNCHANGED <<status, listed, createdBy, count, mv, member, invites, done, answered>>
  BY <1>1, InvocationAdds
<1>3. /\ d.kind \in Unversioned /\ e.kind \in Unversioned
      /\ d.kind \notin Changes /\ e.kind \notin Changes
      /\ d.kind # "channel.dissolved" /\ e.kind # "channel.dissolved"
  BY <1>2 DEF Unversioned, Artifacts, Changes
<1> DEFINE t == Append(log, d)
<1>4. t \in Seq(Entry) /\ Runs(t, mv) /\ Tells(t, member)
  BY <1>1, <1>2, <1>3, RunsExtend, TellsOther, AppendFacts
<1>5. \A i \in 1..Len(t) : t[i].kind # "channel.dissolved"
  <2>1. \A i \in 1..Len(log) : log[i].kind # "channel.dissolved"
    BY <1>1, <1>2 DEF Frozen
  <2> QED BY <1>1, <1>3, <2>1, AppendFacts
<1>6. log' = Append(t, e)
  BY <1>2
<1> HIDE DEF t
<1>7. log' \in Seq(Entry) /\ Runs(log', mv) /\ Tells(log', member)
  BY <1>1, <1>2, <1>3, <1>4, <1>6, RunsExtend, TellsOther, AppendFacts
<1>8. \A i \in 1..Len(log') : log'[i].kind # "channel.dissolved"
  BY <1>3, <1>4, <1>5, <1>6, AppendFacts
<1>9. TypeOK' /\ OneOwner' /\ CountMatches'
  BY <1>2, <1>7 DEF IInv, TypeOK, OneOwner, CountMatches, ActiveMembers, Active
<1>10. VersionsNumberChanges'
  BY <1>2, <1>7 DEF VersionsNumberChanges, Runs
<1>11. FrozenAfterDissolve' /\ Frozen'
  BY <1>8 DEF FrozenAfterDissolve, Frozen
<1>12. RosterFromTimeline'
  BY <1>2, <1>7 DEF RosterFromTimeline, Tells, About, LastAbout, RowAfter
<1> QED BY <1>9, <1>10, <1>11, <1>12 DEF IInv

LEMMA RosterIInv == IInv /\ Roster => IInv'
BY InvocationIInv, StepIInv DEF Roster

LEMMA LogGrows ==
  ASSUME TypeOK, Roster
  PROVE  /\ log' \in Seq(Entry) /\ Len(log) \in Nat /\ Len(log') \in Nat /\ Len(log) <= Len(log')
         /\ \A i \in 1..Len(log) : log'[i] = log[i]
<1>1. log \in Seq(Entry)
  BY DEF TypeOK
<1>2. CASE log' = log
  BY <1>1, <1>2
<1>3. ASSUME NEW e \in Entry, log' = Append(log, e)
      PROVE  /\ log' \in Seq(Entry) /\ Len(log') = Len(log) + 1
             /\ \A i \in 1..Len(log) : log'[i] = log[i]
  BY <1>1, <1>3, AppendFacts
<1>4. ASSUME NEW d \in Entry, NEW e \in Entry, log' = Append(Append(log, d), e)
      PROVE  /\ log' \in Seq(Entry) /\ Len(log') = Len(log) + 2
             /\ \A i \in 1..Len(log) : log'[i] = log[i]
  <2> DEFINE s == Append(log, d)
  <2>1. /\ s \in Seq(Entry) /\ Len(s) = Len(log) + 1 /\ Len(log) \in Nat
        /\ \A i \in 1..Len(log) : s[i] = log[i]
    BY <1>1, AppendFacts
  <2>2. log' = Append(s, e)
    BY <1>4
  <2> HIDE DEF s
  <2>3. /\ log' \in Seq(Entry) /\ Len(log') = Len(s) + 1
        /\ \A i \in 1..Len(s) : log'[i] = s[i]
    BY <2>1, <2>2, AppendFacts
  <2> QED BY <2>1, <2>3
<1>5. Len(log) \in Nat
  BY <1>1
<1>6. \/ log' = log
      \/ \E e \in Entry : log' = Append(log, e)
      \/ \E d, e \in Entry : log' = Append(Append(log, d), e)
  <2>1. CASE Invocation
    BY <2>1, InvocationAdds
  <2>2. CASE [Next]_vars
    BY <2>2, StepAccounts DEF Accounts, Requested, Unrequested, Silent, Says, LetsIn, vars
  <2> QED BY <2>1, <2>2 DEF Roster
<1> QED BY <1>1, <1>2, <1>3, <1>4, <1>5, <1>6

(* A user's standing after an event that is in the timeline is settled.    *)
LEMMA StandingSettled ==
  ASSUME TypeOK, Roster, NEW u, NEW j \in 0..Len(log)
  PROVE  MemberAfter(u, j)' <=> MemberAfter(u, j)
<1>1. \A i \in 1..j : log'[i] = log[i]
  BY LogGrows
<1>2. \A i \in 1..j : About(i, u)' <=> About(i, u)
  BY <1>1 DEF About
<1>3. j \in Nat
  BY LogGrows
<1>4. \A i \in 1..j : (\A k \in i + 1..j : ~About(k, u)') <=> (\A k \in i + 1..j : ~About(k, u))
  BY <1>2, <1>3
<1> QED BY <1>1, <1>2, <1>4 DEF MemberAfter

(* Who is a member after the last event has an active row.                 *)
LEMMA StandingIsRow ==
  ASSUME TypeOK, RosterFromTimeline, NEW u \in Users, MemberAfter(u, Len(log))
  PROVE  Active(u)
<1>1. Len(log) \in Nat
  BY DEF TypeOK
<1>2. PICK i \in 1..Len(log) : /\ About(i, u) /\ log[i].kind # "member.left"
                               /\ \A k \in i + 1..Len(log) : ~About(k, u)
  BY DEF MemberAfter
<1>3. LastAbout(i, u)
  BY <1>1, <1>2 DEF LastAbout
<1>4. member[u] = [status |-> "active", role |-> log[i].role]
  BY <1>2, <1>3 DEF RosterFromTimeline
<1> QED BY <1>4 DEF Active

-----------------------------------------------------------------------------
(* What holds of one session t of user u.                                  *)

\* A registration survives until it is withdrawn, and is live when it is idle.
Registered(t) ==
  /\ t.step = "queried" => t.subs < MaxSubs
  /\ (t.step = "registered" /\ t.query # None) => t.subs >= 1
  /\ (t.step \in {"idle", "calling"} /\ t.subs >= 1) => (t.live /\ t.subscribed)
  /\ t.subscribed => t.subs >= 1
  /\ t.subs >= 2 => t.again
  /\ t.from <= published

\* What is pushed and what waits may be seen one after the other.
Orderly(t) ==
  /\ \A a, b \in 1..Len(t.pushed) : a < b => Precedes(t, t.pushed[a], t.pushed[b])
  /\ \A a, b \in 1..Len(t.mailbox) : a < b => Precedes(t, t.mailbox[a], t.mailbox[b])
  /\ \A a \in 1..Len(t.pushed), b \in 1..Len(t.mailbox) :
       Precedes(t, t.pushed[a], t.mailbox[b])
  /\ \A a \in 1..Len(t.pushed) : t.pushed[a] <= published \/ t.pushed[a] \in t.own
  /\ \A b \in 1..Len(t.mailbox) : t.mailbox[b] <= published /\ t.mailbox[b] \notin t.own

\* The events of its own invocations: session s is left out of their
\* broadcast, by c, and holds them in the reply.
Calling(t, c, s) ==
  /\ \A k \in t.own : /\ k \in 1..Len(log) /\ log[k].kind \in Artifacts
                      /\ k <= published \/ c = s
  /\ t.step = "calling" =>
       /\ t.reply >= 1 /\ Held(t) \subseteq t.own
       /\ \A a \in 1..Len(t.pushed) : t.pushed[a] < t.reply
  /\ c = s => t.step = "calling" /\ \A k \in published + 1..Len(log) : k \in Held(t)

\* A registered session has everything a member may expect.
Reached(t, i) == i \in lost \/ In(i, t.pushed) \/ In(i, t.mailbox) \/ i \in Held(t)

Complete(t, u) ==
  (t.subs >= 1 /\ \A j \in t.from..Len(log) : MemberAfter(u, j))
    => \A i \in t.from + 1..published : Reached(t, i)

Sound(t, c, s) ==
  Registered(t) /\ Orderly(t) /\ Calling(t, c, s) /\ Complete(t, UserOf[s])

FTypes ==
  /\ published \in Nat /\ published <= Len(log)
  /\ caller \in Sessions \cup {None}
  /\ published = Len(log) => caller = None
  /\ session \in [Sessions -> Session]

FInv == IInv /\ FTypes /\ \A s \in Sessions : Sound(session[s], caller, s)

LEMMA SessionFields ==
  ASSUME NEW t \in Session
  PROVE  /\ t.live \in BOOLEAN /\ t.subscribed \in BOOLEAN
         /\ t.subs \in 0..MaxSubs /\ t.subs \in Nat /\ t.from \in Nat /\ t.reply \in Nat
         /\ t.step \in {"idle", "queried", "registered", "calling"}
         /\ t.query \in Nat \cup {None}
         /\ t.mailbox \in Seq(Nat) /\ t.pushed \in Seq(Nat)
         /\ t.own \in SUBSET Nat /\ t.again \in BOOLEAN
BY FanoutAssumption DEF Session

LEMMA SessionFrames ==
  ASSUME NEW t \in Session
  PROVE  /\ Len(t.pushed) \in Nat /\ Len(t.mailbox) \in Nat
         /\ \A a \in 1..Len(t.pushed) : t.pushed[a] \in Nat
         /\ \A b \in 1..Len(t.mailbox) : t.mailbox[b] \in Nat
<1>1. t.mailbox \in Seq(Nat) /\ t.pushed \in Seq(Nat)
  BY SessionFields
<1> QED BY <1>1, ElementOfSeq

\* x is a session with these fields.
Fields(x, lv, sb, n, st, q, rp, m, p, f, o, ag) ==
  /\ x \in Session
  /\ x.live = lv /\ x.subscribed = sb /\ x.subs = n /\ x.step = st
  /\ x.query = q /\ x.reply = rp /\ x.mailbox = m /\ x.pushed = p
  /\ x.from = f /\ x.own = o /\ x.again = ag

(* What each update of a session's record makes of it.                     *)
LEMMA SessionUpdates ==
  ASSUME NEW t \in Session
  PROVE  /\ \A q \in Nat \cup {None} :
              Fields([t EXCEPT !.step = "queried", !.query = q], t.live, t.subscribed,
                     t.subs, "queried", q, t.reply, t.mailbox, t.pushed, t.from, t.own, t.again)
         /\ \A n \in 0..MaxSubs, f \in Nat, g \in BOOLEAN :
              Fields([t EXCEPT !.step = "registered", !.subs = n, !.from = f, !.again = g],
                     t.live, t.subscribed, n, "registered", t.query, t.reply,
                     t.mailbox, t.pushed, f, t.own, g)
         /\ \A n \in 0..MaxSubs, sb \in BOOLEAN :
              Fields([t EXCEPT !.step = "idle", !.query = None, !.live = TRUE, !.subs = n,
                               !.subscribed = sb],
                     TRUE, sb, n, "idle", None, t.reply, t.mailbox, t.pushed, t.from,
                     t.own, t.again)
         /\ \A m, p \in Seq(Nat) :
              Fields([t EXCEPT !.mailbox = m, !.pushed = p], t.live, t.subscribed,
                     t.subs, t.step, t.query, t.reply, m, p, t.from, t.own, t.again)
         /\ \A m \in Seq(Nat) :
              Fields([t EXCEPT !.mailbox = m], t.live, t.subscribed,
                     t.subs, t.step, t.query, t.reply, m, t.pushed, t.from, t.own, t.again)
         /\ \A r \in Nat, o \in SUBSET Nat :
              Fields([t EXCEPT !.step = "calling", !.reply = r, !.own = o], t.live,
                     t.subscribed, t.subs, "calling", t.query, r, t.mailbox, t.pushed,
                     t.from, o, t.again)
         /\ \A p \in Seq(Nat) :
              Fields([t EXCEPT !.step = "idle", !.reply = 0, !.pushed = p], t.live,
                     t.subscribed, t.subs, "idle", t.query, 0, t.mailbox, p,
                     t.from, t.own, t.again)
<1> DEFINE L == BOOLEAN
           C == 0..MaxSubs
           D == {"idle", "queried", "registered", "calling"}
           Q == Nat \cup {None}
           F == Seq(Nat)
           N == Nat
           O == SUBSET Nat
<1>1. Session = [live : L, subscribed : L, subs : C, step : D, query : Q, reply : N,
                 mailbox : F, pushed : F, from : N, own : O, again : L]
  BY DEF Session
<1>2. /\ "queried" \in D /\ "registered" \in D /\ "idle" \in D /\ "calling" \in D
      /\ None \in Q /\ TRUE \in L /\ 0 \in N
  OBVIOUS
<1> HIDE DEF L, C, D, Q, F, N, O
<1>3. \A q \in Q :
        Fields([t EXCEPT !.step = "queried", !.query = q], t.live, t.subscribed,
               t.subs, "queried", q, t.reply, t.mailbox, t.pushed, t.from, t.own, t.again)
  BY <1>1, <1>2 DEF Fields
<1>4. \A n \in C, f \in N, g \in L :
        Fields([t EXCEPT !.step = "registered", !.subs = n, !.from = f, !.again = g],
               t.live, t.subscribed, n, "registered", t.query, t.reply,
               t.mailbox, t.pushed, f, t.own, g)
  <2> TAKE n \in C, f \in N, g \in L
  <2> DEFINE y == [t EXCEPT !.step = "registered", !.subs = n, !.from = f]
  <2>1. Fields(y, t.live, t.subscribed, n, "registered", t.query, t.reply,
               t.mailbox, t.pushed, f, t.own, t.again)
    BY <1>1, <1>2 DEF Fields
  <2>2. [t EXCEPT !.step = "registered", !.subs = n, !.from = f, !.again = g]
          = [y EXCEPT !.again = g]
    OBVIOUS
  <2> HIDE DEF y
  <2>3. Fields([y EXCEPT !.again = g], y.live, y.subscribed, y.subs, y.step, y.query, y.reply,
               y.mailbox, y.pushed, y.from, y.own, g)
    BY <1>1, <2>1 DEF Fields
  <2> QED BY <2>1, <2>2, <2>3 DEF Fields
<1>5. \A n \in C, sb \in L :
        Fields([t EXCEPT !.step = "idle", !.query = None, !.live = TRUE, !.subs = n,
                         !.subscribed = sb],
               TRUE, sb, n, "idle", None, t.reply, t.mailbox, t.pushed, t.from,
               t.own, t.again)
  BY <1>1, <1>2 DEF Fields
<1>6. \A m, p \in F :
        Fields([t EXCEPT !.mailbox = m, !.pushed = p], t.live, t.subscribed,
               t.subs, t.step, t.query, t.reply, m, p, t.from, t.own, t.again)
  BY <1>1 DEF Fields
<1>7. \A m \in F :
        Fields([t EXCEPT !.mailbox = m], t.live, t.subscribed,
               t.subs, t.step, t.query, t.reply, m, t.pushed, t.from, t.own, t.again)
  BY <1>1 DEF Fields
<1>8. \A r \in N, o \in O :
        Fields([t EXCEPT !.step = "calling", !.reply = r, !.own = o], t.live,
               t.subscribed, t.subs, "calling", t.query, r, t.mailbox, t.pushed,
               t.from, o, t.again)
  BY <1>1, <1>2 DEF Fields
<1>9. \A p \in F :
        Fields([t EXCEPT !.step = "idle", !.reply = 0, !.pushed = p], t.live,
               t.subscribed, t.subs, "idle", t.query, 0, t.mailbox, p,
               t.from, t.own, t.again)
  BY <1>1, <1>2 DEF Fields
<1> QED BY <1>3, <1>4, <1>5, <1>6, <1>7, <1>8, <1>9 DEF L, C, Q, F, N, O

LEMMA OpenedIsSound ==
  ASSUME published \in Nat, NEW s \in Sessions, NEW c, c # s
  PROVE  Opened \in Session /\ Sound(Opened, c, s)
<1>1. Opened \in Session
  BY FanoutAssumption DEF Opened, Session
<1>2. /\ Opened.subs = 0 /\ Opened.step = "idle" /\ Opened.subscribed = FALSE
      /\ Opened.from = 0 /\ Opened.mailbox = <<>> /\ Opened.pushed = <<>>
      /\ Opened.own = {}
  BY DEF Opened
<1>3. Orderly(Opened)
  BY <1>2 DEF Orderly
<1>4. Registered(Opened)
  BY <1>2 DEF Registered
<1>5. Complete(Opened, UserOf[s])
  BY <1>2 DEF Complete
<1>6. Calling(Opened, c, s)
  BY <1>2 DEF Calling
<1> QED BY <1>1, <1>3, <1>4, <1>5, <1>6 DEF Sound

LEMMA FanoutStarts == FanoutInit => FInv
<1> SUFFICES ASSUME FanoutInit PROVE FInv
  OBVIOUS
<1>1. IInv
  BY InitIInv DEF FanoutInit
<1>2. Len(log) \in Nat /\ published = Len(log) /\ caller = None
  BY <1>1 DEF IInv, TypeOK, FanoutInit
<1>3. \A s \in Sessions : session[s] = Opened /\ caller # s
  BY <1>2, FanoutAssumption DEF FanoutInit
<1>4. \A s \in Sessions : Opened \in Session /\ Sound(session[s], caller, s)
  BY <1>2, <1>3, OpenedIsSound
<1>5. session \in [Sessions -> Session]
  BY <1>4 DEF FanoutInit
<1> QED BY <1>1, <1>2, <1>4, <1>5 DEF FInv, FTypes

-----------------------------------------------------------------------------
(* A session is judged by its own record, the timeline, what is broadcast  *)
(* and who is left out: what holds of x now holds of it afterwards.        *)
LEMMA StaysSound ==
  ASSUME UNCHANGED <<vars, published, lost>>, NEW x, NEW s \in Sessions,
         NEW c, Sound(x, c, s), x = session'[s], caller' = s => c = s, c = s => caller' = s
  PROVE  Sound(session[s], caller, s)'
<1>1. \A u, j : MemberAfter(u, j)' <=> MemberAfter(u, j)
  BY DEF MemberAfter, About, vars
<1>2. published' = published /\ lost' = lost /\ log' = log
  BY DEF vars
<1>3. Registered(session[s])'
  BY <1>2 DEF Sound, Registered
<1>4. Orderly(session[s])'
  BY <1>2 DEF Sound, Orderly, Precedes
<1>5. Calling(session[s], caller, s)'
  BY <1>2 DEF Sound, Calling, Held
<1>6. Complete(session[s], UserOf[s])'
  BY <1>1, <1>2 DEF Sound, Complete, Reached, In, Held
<1> QED BY <1>3, <1>4, <1>5, <1>6 DEF Sound

(* One session changes, and it may end its call; the rest stays.           *)
LEMMA OneSession ==
  ASSUME FInv, UNCHANGED <<vars, published, lost>>,
         NEW s \in Sessions, NEW t \in Session,
         session' = [session EXCEPT ![s] = t],
         caller' = caller \/ (caller = s /\ caller' = None),
         Sound(t, caller', s)
  PROVE  FInv'
<1>1. IInv'
  BY StepIInv DEF FInv
<1>2. FTypes'
  BY DEF FInv, FTypes, vars
<1>3. \A r \in Sessions : session'[r] = IF r = s THEN t ELSE session[r]
  BY DEF FInv, FTypes
<1>4. PICK c : c = caller'
  OBVIOUS
<1>5. ASSUME NEW r \in Sessions PROVE Sound(session[r], caller, r)'
  <2>1. CASE r = s
    <3>1. Sound(t, c, r) /\ t = session'[r]
      BY <1>3, <1>4, <2>1
    <3> QED BY <1>4, <3>1, StaysSound
  <2>2. CASE r # s
    <3>1. PICK x : x = session[r] /\ x = session'[r]
      BY <1>3, <2>2
    <3>2. PICK b : b = caller
      OBVIOUS
    <3>3. Sound(x, b, r)
      BY <3>1, <3>2 DEF FInv
    <3>4. (caller' = r) <=> (b = r)
      BY <2>2, <3>2, FanoutAssumption
    <3> QED BY <3>1, <3>3, <3>4, StaysSound
  <2> QED BY <2>1, <2>2
<1> QED BY <1>1, <1>2, <1>5 DEF FInv

(* A session that handles no frame keeps what it has sent and received.    *)
LEMMA SameFrames ==
  ASSUME NEW t, NEW x, x.mailbox = t.mailbox, x.pushed = t.pushed, x.own = t.own,
         t.again => x.again, t.step # "calling", x.step # "calling"
  PROVE  /\ Orderly(t) => Orderly(x)
         /\ \A c, s : Calling(t, c, s) => Calling(x, c, s)
         /\ \A i : Reached(t, i) => Reached(x, i)
<1>1. Orderly(t) => Orderly(x)
  BY DEF Orderly, Precedes
<1>2. \A c, s : Calling(t, c, s) => Calling(x, c, s)
  BY DEF Calling
<1>3. \A i : Reached(t, i) => Reached(x, i)
  BY DEF Reached, In, Held
<1> QED BY <1>1, <1>2, <1>3

LEMMA QueryStep == ASSUME FInv, NEW s \in Sessions, Query(s) PROVE FInv'
<1>1. PICK q \in Nat \cup {None} : session' = [session EXCEPT ![s].step = "queried", ![s].query = q]
  BY DEF Query, FInv, IInv, TypeOK
<1>2. PICK t : t = session[s]
  OBVIOUS
<1>3. t \in Session /\ Sound(t, caller, s)
  BY <1>2 DEF FInv, FTypes
<1> DEFINE x == [t EXCEPT !.step = "queried", !.query = q]
<1>5. session' = [session EXCEPT ![s] = x]
  BY <1>1, <1>2 DEF FInv, FTypes
<1>6. Fields(x, t.live, t.subscribed, t.subs, "queried", q, t.reply, t.mailbox, t.pushed,
             t.from, t.own, t.again)
  BY <1>3, SessionUpdates
<1> HIDE DEF x
<1>7. /\ x \in Session /\ x.step = "queried" /\ x.subs = t.subs /\ x.subscribed = t.subscribed
      /\ x.mailbox = t.mailbox /\ x.pushed = t.pushed /\ x.from = t.from
      /\ x.own = t.own /\ x.again = t.again
  BY <1>6 DEF Fields
<1>8. /\ t.subs < MaxSubs /\ t.step = "idle"
      /\ UNCHANGED <<vars, published, lost, caller>>
  BY <1>2 DEF Query
<1>9. Registered(x)
  BY <1>3, <1>7, <1>8 DEF Sound, Registered
<1>10. Orderly(x) /\ Calling(x, caller, s) /\ Complete(x, UserOf[s])
  BY <1>3, <1>7, <1>8, SameFrames DEF Sound, Complete
<1> QED BY <1>5, <1>7, <1>8, <1>9, <1>10, OneSession DEF Sound

LEMMA RegisterStep == ASSUME FInv, NEW s \in Sessions, Register(s) PROVE FInv'
<1>1. PICK t : t = session[s]
  OBVIOUS
<1>2. t \in Session /\ Sound(t, caller, s)
  BY <1>1 DEF FInv, FTypes
<1> DEFINE n == IF t.query # None THEN t.subs + 1 ELSE t.subs
           f == IF t.subs = 0 THEN published ELSE t.from
           g == t.again \/ (t.query # None /\ t.subs # 0)
           x == [t EXCEPT !.step = "registered", !.subs = n, !.from = f, !.again = g]
<1>4. session' = [session EXCEPT ![s] = x] /\ UNCHANGED <<vars, published, lost, caller>>
      /\ t.step = "queried"
  BY <1>1 DEF Register, FInv, FTypes
<1>5. /\ t.subs \in Nat /\ t.subs < MaxSubs /\ published \in Nat /\ t.from <= published
      /\ t.from \in Nat /\ t.again \in BOOLEAN
  BY <1>2, <1>4, SessionFields DEF Sound, Registered, FInv, FTypes
<1>6. n \in 0..MaxSubs /\ n \in Nat /\ f \in Nat /\ f <= published /\ n >= t.subs
  BY <1>5, FanoutAssumption
<1>7. g \in BOOLEAN /\ (t.again => g) /\ (n >= 2 => g)
  <2>1. t.subs >= 2 => t.again
    BY <1>2 DEF Sound, Registered
  <2> QED BY <1>5, <2>1
<1>8. Fields(x, t.live, t.subscribed, n, "registered", t.query, t.reply, t.mailbox,
             t.pushed, f, t.own, g)
  <2> HIDE DEF n, f, g
  <2> QED BY <1>2, <1>6, <1>7, SessionUpdates
<1>9. /\ t.query # None => n >= 1
      /\ t.subs = 0 => f = published
      /\ t.subs # 0 => f = t.from
  BY <1>5
<1> HIDE DEF x, n, f, g
<1>10. /\ x \in Session
       /\ x.step = "registered" /\ x.subs = n /\ x.subscribed = t.subscribed
       /\ x.mailbox = t.mailbox /\ x.pushed = t.pushed /\ x.from = f /\ x.query = t.query
       /\ x.own = t.own
  BY <1>8 DEF Fields
<1>11. x.again = g
  BY <1>8 DEF Fields
<1>12. Registered(x)
  <2>1. t.subscribed => t.subs >= 1
    BY <1>2 DEF Sound, Registered
  <2>2. x.subs >= 2 => x.again
    BY <1>7, <1>10, <1>11
  <2>3. x.subscribed => x.subs >= 1
    BY <1>5, <1>6, <1>10, <2>1
  <2> QED BY <1>6, <1>9, <1>10, <2>2, <2>3 DEF Registered
<1>13. Orderly(x) /\ Calling(x, caller, s) /\ \A i : Reached(t, i) => Reached(x, i)
  <2>1. t.again => x.again
    BY <1>7, <1>11
  <2> QED BY <1>2, <1>4, <1>10, <2>1, SameFrames DEF Sound
<1>14. Complete(x, UserOf[s])
  <2>1. CASE t.subs = 0
    <3>1. x.from + 1..published = {}
      BY <1>5, <1>9, <1>10, <2>1
    <3> QED BY <3>1 DEF Complete
  <2>2. CASE t.subs # 0
    <3>1. t.subs >= 1 /\ x.from = t.from
      BY <1>5, <1>9, <1>10, <2>2
    <3> QED BY <1>2, <1>13, <3>1 DEF Sound, Complete
  <2> QED BY <2>1, <2>2
<1> QED BY <1>4, <1>10, <1>12, <1>13, <1>14, OneSession DEF Sound

LEMMA GoLiveStep == ASSUME FInv, NEW s \in Sessions, GoLive(s) PROVE FInv'
<1>1. PICK t : t = session[s]
  OBVIOUS
<1>2. t \in Session /\ Sound(t, caller, s)
  BY <1>1 DEF FInv, FTypes
<1> DEFINE n == IF t.query = None THEN 0 ELSE t.subs
           sb == t.query # None
           x == [t EXCEPT !.step = "idle", !.query = None, !.live = TRUE, !.subs = n,
                          !.subscribed = sb]
<1>4. session' = [session EXCEPT ![s] = x]
  BY <1>1 DEF GoLive, FInv, FTypes
<1>5. UNCHANGED <<vars, published, lost, caller>> /\ t.step = "registered"
  BY <1>1 DEF GoLive
<1>6. Fields(x, TRUE, sb, n, "idle", None, t.reply, t.mailbox, t.pushed, t.from, t.own, t.again)
  <2>1. n \in 0..MaxSubs /\ sb \in BOOLEAN
    BY <1>2, SessionFields, FanoutAssumption
  <2> HIDE DEF n, sb
  <2> QED BY <1>2, <2>1, SessionUpdates
<1> HIDE DEF x
<1>7. /\ x \in Session
      /\ x.live = TRUE /\ x.step = "idle" /\ x.subs = n /\ x.subscribed = (t.query # None)
      /\ x.mailbox = t.mailbox /\ x.pushed = t.pushed /\ x.from = t.from
      /\ x.own = t.own /\ x.again = t.again
  BY <1>6 DEF Fields
<1>8. /\ t.query # None => n = t.subs /\ n >= 1
      /\ t.query = None => n = 0
  BY <1>2, <1>5 DEF Sound, Registered
<1> HIDE DEF n, sb
<1>9. Registered(x)
  <2>1. /\ x.live /\ (x.subscribed <=> t.query # None) /\ x.step = "idle"
        /\ x.subs = n /\ x.from <= published
    BY <1>2, <1>7 DEF Sound, Registered
  <2>2. x.subs >= 1 <=> t.query # None
    BY <1>8, <2>1
  <2>3. x.subs >= 2 => x.again
    BY <1>2, <1>7, <1>8 DEF Sound, Registered
  <2> QED BY <2>1, <2>2, <2>3 DEF Registered
<1>10. Orderly(x) /\ Calling(x, caller, s) /\ \A i : Reached(t, i) => Reached(x, i)
  BY <1>2, <1>5, <1>7, SameFrames DEF Sound
<1>11. Complete(x, UserOf[s])
  BY <1>2, <1>7, <1>8, <1>10 DEF Sound, Complete
<1> QED BY <1>4, <1>5, <1>7, <1>9, <1>10, <1>11, OneSession DEF Sound

LEMMA CloseStep == ASSUME FInv, NEW s \in Sessions, Close(s) PROVE FInv'
<1>1. /\ session' = [session EXCEPT ![s] = Opened] /\ UNCHANGED <<vars, published, lost>>
      /\ caller' = IF caller = s THEN None ELSE caller
  BY DEF Close
<1>2. published \in Nat
  BY DEF FInv, FTypes
<1>3. PICK c : c = caller'
  OBVIOUS
<1>4. c # s
  BY <1>1, <1>3, FanoutAssumption
<1>5. Opened \in Session /\ Sound(Opened, c, s)
  BY <1>2, <1>4, OpenedIsSound
<1>6. caller' = caller \/ (caller = s /\ caller' = None)
  BY <1>1
<1> QED BY <1>1, <1>3, <1>5, <1>6, OneSession

-----------------------------------------------------------------------------
(* A frame is handled: it moves to the end of what was pushed, or is       *)
(* dropped, and then the user is no member any more.                       *)

LEMMA TakeFrame ==
  ASSUME NEW t \in Session, NEW x, Orderly(t), t.mailbox # <<>>,
         x.mailbox = Tail(t.mailbox), x.own = t.own, x.again = t.again,
         x.pushed = t.pushed \/ x.pushed = Append(t.pushed, Head(t.mailbox))
  PROVE  Orderly(x)
<1> DEFINE m == t.mailbox
           p == t.pushed
           P(i, j) == Precedes(t, i, j)
<1>1. m \in Seq(Nat) /\ p \in Seq(Nat) /\ m # <<>>
  BY SessionFields
<1>2. /\ Len(m) \in Nat /\ Len(m) >= 1 /\ Len(Tail(m)) = Len(m) - 1 /\ Head(m) = m[1]
      /\ \A b \in 1..Len(Tail(m)) : Tail(m)[b] = m[b + 1] /\ b + 1 \in 1..Len(m)
  BY <1>1
<1>3. /\ Len(p) \in Nat /\ Len(Append(p, Head(m))) = Len(p) + 1
      /\ \A a \in 1..Len(p) : Append(p, Head(m))[a] = p[a]
      /\ Append(p, Head(m))[Len(p) + 1] = Head(m)
  BY <1>1
<1>4. /\ \A a, b \in 1..Len(p) : a < b => P(p[a], p[b])
      /\ \A a, b \in 1..Len(m) : a < b => P(m[a], m[b])
      /\ \A a \in 1..Len(p), b \in 1..Len(m) : P(p[a], m[b])
      /\ \A a \in 1..Len(p) : p[a] <= published \/ p[a] \in t.own
      /\ \A b \in 1..Len(m) : m[b] <= published /\ m[b] \notin t.own
  BY DEF Orderly
<1>5. x.mailbox = Tail(m) /\ (x.pushed = p \/ x.pushed = Append(p, Head(m)))
  OBVIOUS
<1>6. \A i, j : Precedes(x, i, j) <=> P(i, j)
  BY DEF Precedes
<1> HIDE DEF m, p, P
<1>7. /\ \A a, b \in 1..Len(Tail(m)) : a < b => P(Tail(m)[a], Tail(m)[b])
      /\ \A b \in 1..Len(Tail(m)) : Tail(m)[b] <= published /\ Tail(m)[b] \notin t.own
  BY <1>2, <1>4
<1>8. CASE x.pushed = p
  <2>1. \A a \in 1..Len(p), b \in 1..Len(Tail(m)) : P(p[a], Tail(m)[b])
    BY <1>2, <1>4
  <2> QED BY <1>4, <1>5, <1>6, <1>7, <1>8, <2>1 DEF Orderly
<1>9. CASE x.pushed = Append(p, Head(m))
  <2> DEFINE q == Append(p, Head(m))
  <2>1. \A a \in 1..Len(q) : (a \in 1..Len(p) /\ q[a] = p[a]) \/ (a = Len(p) + 1 /\ q[a] = m[1])
    BY <1>2, <1>3
  <2>2. Len(q) = Len(p) + 1 /\ 1 \in 1..Len(m) /\ m[1] \in Nat
    BY <1>1, <1>2, <1>3
  <2> HIDE DEF q
  <2>3. \A a, b \in 1..Len(q) : a < b => P(q[a], q[b])
    <3> SUFFICES ASSUME NEW a \in 1..Len(q), NEW b \in 1..Len(q), a < b PROVE P(q[a], q[b])
      OBVIOUS
    <3>1. a \in 1..Len(p) /\ q[a] = p[a]
      BY <1>3, <2>1, <2>2
    <3>2. CASE b \in 1..Len(p) /\ q[b] = p[b]
      BY <1>4, <3>1, <3>2
    <3>3. CASE b = Len(p) + 1 /\ q[b] = m[1]
      BY <1>4, <2>2, <3>1, <3>3
    <3> QED BY <2>1, <3>2, <3>3
  <2>4. \A a \in 1..Len(q) : q[a] <= published \/ q[a] \in t.own
    BY <1>4, <2>1, <2>2
  <2>5. \A a \in 1..Len(q), b \in 1..Len(Tail(m)) : P(q[a], Tail(m)[b])
    <3> SUFFICES ASSUME NEW a \in 1..Len(q), NEW b \in 1..Len(Tail(m))
                 PROVE  P(q[a], Tail(m)[b])
      OBVIOUS
    <3>1. Tail(m)[b] = m[b + 1] /\ b + 1 \in 1..Len(m) /\ 1 < b + 1
      BY <1>2
    <3>2. CASE a \in 1..Len(p) /\ q[a] = p[a]
      BY <1>4, <3>1, <3>2
    <3>3. CASE q[a] = m[1]
      BY <1>4, <2>2, <3>1, <3>3
    <3> QED BY <2>1, <3>2, <3>3
  <2>6. x.pushed = q
    BY <1>9 DEF q
  <2> QED BY <1>5, <1>6, <1>7, <2>3, <2>4, <2>5, <2>6 DEF Orderly
<1> QED BY <1>5, <1>8, <1>9

LEMMA FrameKept ==
  ASSUME NEW t \in Session, NEW x, t.mailbox # <<>>, x.mailbox = Tail(t.mailbox),
         x.pushed = Append(t.pushed, Head(t.mailbox)), x.step = t.step, x.reply = t.reply,
         NEW i, Reached(t, i)
  PROVE  Reached(x, i)
<1> DEFINE m == t.mailbox
           p == t.pushed
<1>1. m \in Seq(Nat) /\ p \in Seq(Nat) /\ m # <<>>
  BY SessionFields
<1>2. /\ Len(m) \in Nat /\ Len(Tail(m)) = Len(m) - 1 /\ Head(m) = m[1]
      /\ \A b \in 1..Len(Tail(m)) : Tail(m)[b] = m[b + 1]
  BY <1>1
<1>3. /\ Len(p) \in Nat /\ Len(Append(p, Head(m))) = Len(p) + 1
      /\ \A a \in 1..Len(p) : Append(p, Head(m))[a] = p[a]
      /\ Append(p, Head(m))[Len(p) + 1] = Head(m)
  BY <1>1
<1>4. x.mailbox = Tail(m) /\ x.pushed = Append(p, Head(m))
  OBVIOUS
<1>5. i \in lost \/ In(i, p) \/ In(i, m) \/ i \in Held(x)
  BY DEF Reached, Held
<1> HIDE DEF m, p
<1>6. CASE In(i, p)
  <2>1. In(i, Append(p, Head(m)))
    BY <1>3, <1>6 DEF In
  <2> QED BY <1>4, <2>1 DEF Reached
<1>7. ASSUME NEW k \in 1..Len(m), m[k] = i PROVE Reached(x, i)
  <2>1. CASE k = 1
    <3>1. Len(p) + 1 \in 1..Len(p) + 1 /\ Append(p, Head(m))[Len(p) + 1] = i
      BY <1>2, <1>3, <1>7, <2>1
    <3>2. In(i, Append(p, Head(m)))
      BY <1>3, <3>1 DEF In
    <3> QED BY <1>4, <3>2 DEF Reached
  <2>2. CASE k # 1
    <3>1. k - 1 \in 1..Len(Tail(m)) /\ Tail(m)[k - 1] = i
      BY <1>2, <1>7, <2>2
    <3>2. In(i, Tail(m))
      BY <3>1 DEF In
    <3> QED BY <1>4, <3>2 DEF Reached
  <2> QED BY <2>1, <2>2
<1> QED BY <1>5, <1>6, <1>7 DEF In, Reached

LEMMA HandleFrameStep == ASSUME FInv, NEW s \in Sessions, HandleFrame(s) PROVE FInv'
<1>1. PICK t : t = session[s]
  OBVIOUS
<1>2. t \in Session /\ Sound(t, caller, s)
  BY <1>1 DEF FInv, FTypes
<1>3. PICK d : /\ d = Verdict(s, Head(t.mailbox))
               /\ session' = [session EXCEPT
                    ![s].mailbox = Tail(@),
                    ![s].pushed = IF d = "drop" THEN @ ELSE Append(@, Head(t.mailbox))]
  BY <1>1 DEF HandleFrame
<1>4. t.step = "idle" /\ t.mailbox # <<>> /\ UNCHANGED <<vars, published, lost, caller>>
  BY <1>1 DEF HandleFrame
<1> DEFINE m == Tail(t.mailbox)
           p == IF d = "drop" THEN t.pushed ELSE Append(t.pushed, Head(t.mailbox))
           x == [t EXCEPT !.mailbox = m, !.pushed = p]
<1>6. session' = [session EXCEPT ![s] = x]
  BY <1>1, <1>3 DEF FInv, FTypes
<1>7. m \in Seq(Nat) /\ p \in Seq(Nat)
  <2>1. t.mailbox \in Seq(Nat) /\ t.pushed \in Seq(Nat)
    BY <1>2, SessionFields
  <2> QED BY <1>4, <2>1
<1>8. Fields(x, t.live, t.subscribed, t.subs, t.step, t.query, t.reply, m, p, t.from,
             t.own, t.again)
  <2> HIDE DEF m, p
  <2> QED BY <1>2, <1>7, SessionUpdates
<1> HIDE DEF x
<1>9. /\ x \in Session
      /\ x.mailbox = m /\ x.pushed = p /\ x.subs = t.subs /\ x.from = t.from
      /\ x.step = t.step /\ x.live = t.live /\ x.subscribed = t.subscribed
      /\ x.query = t.query /\ x.reply = t.reply /\ x.own = t.own /\ x.again = t.again
  BY <1>8 DEF Fields
<1>10. Registered(x)
  BY <1>2, <1>9 DEF Sound, Registered
<1>11. Orderly(x)
  BY <1>2, <1>4, <1>9, TakeFrame DEF Sound
<1>12. Calling(x, caller, s)
  BY <1>2, <1>4, <1>9 DEF Sound, Calling
<1>13. Complete(x, UserOf[s])
  <2>1. CASE d # "drop"
    <3>1. p = Append(t.pushed, Head(t.mailbox))
      BY <2>1
    <3>2. \A i : Reached(t, i) => Reached(x, i)
      BY <1>2, <1>4, <1>9, <3>1, FrameKept
    <3> QED BY <1>2, <1>9, <3>2 DEF Sound, Complete
  <2>2. ASSUME d = "drop", x.subs >= 1, \A j \in x.from..Len(log) : MemberAfter(UserOf[s], j)
        PROVE  FALSE
    <3>1. t.live /\ t.subscribed
      BY <1>2, <1>4, <1>9, <2>2 DEF Sound, Registered
    <3>2. ~Active(UserOf[s])
      BY <1>1, <1>3, <2>2, <3>1 DEF Verdict, Gate
    <3>3. Len(log) \in x.from..Len(log)
      <4>1. /\ t.from <= published /\ published <= Len(log) /\ published \in Nat
            /\ t.from \in Nat /\ Len(log) \in Nat
        BY <1>2, SessionFields DEF Sound, Registered, FInv, FTypes, IInv, TypeOK
      <4> QED BY <1>9, <4>1
    <3>4. MemberAfter(UserOf[s], Len(log)) /\ UserOf[s] \in Users
      BY <2>2, <3>3, FanoutAssumption
    <3> QED BY <3>2, <3>4, StandingIsRow DEF FInv, IInv
  <2> QED BY <2>1, <2>2 DEF Complete
<1> QED BY <1>4, <1>6, <1>9, <1>10, <1>11, <1>12, <1>13, OneSession DEF Sound

-----------------------------------------------------------------------------
(* The reply of an invocation: its two events follow what was pushed, all  *)
(* of it earlier, and stand ahead of what waits.                           *)

LEMMA TwoMore ==
  ASSUME NEW p \in Seq(Nat), NEW i \in Nat, NEW j \in Nat
  PROVE  LET q == Append(Append(p, i), j) IN
           /\ q \in Seq(Nat) /\ Len(p) \in Nat /\ Len(q) = Len(p) + 2
           /\ \A a \in 1..Len(p) : q[a] = p[a]
           /\ q[Len(p) + 1] = i /\ q[Len(p) + 2] = j
<1> DEFINE o == Append(p, i)
           q == Append(o, j)
<1>1. /\ o \in Seq(Nat) /\ Len(o) = Len(p) + 1 /\ Len(p) \in Nat
      /\ \A a \in 1..Len(p) : o[a] = p[a]
      /\ o[Len(p) + 1] = i
  OBVIOUS
<1> HIDE DEF o
<1>2. /\ q \in Seq(Nat) /\ Len(q) = Len(o) + 1
      /\ \A a \in 1..Len(o) : q[a] = o[a]
      /\ q[Len(o) + 1] = j
  BY <1>1
<1> HIDE DEF q
<1>3. q \in Seq(Nat) /\ Len(p) \in Nat /\ Len(q) = Len(p) + 2
  BY <1>1, <1>2
<1>4. \A a \in 1..Len(p) : q[a] = p[a]
  BY <1>1, <1>2
<1>5. q[Len(p) + 1] = i
  <2>1. Len(p) + 1 \in 1..Len(o)
    BY <1>1
  <2> QED BY <1>1, <1>2, <2>1
<1>6. q[Len(p) + 2] = j
  <2>1. Len(o) + 1 = Len(p) + 2
    BY <1>1
  <2> QED BY <1>2, <2>1
<1> QED BY <1>3, <1>4, <1>5, <1>6 DEF q, o

LEMMA PushReply ==
  ASSUME NEW t \in Session, NEW x, NEW r \in Nat, Orderly(t),
         r \in t.own, r + 1 \in t.own, \A a \in 1..Len(t.pushed) : t.pushed[a] < r,
         x.mailbox = t.mailbox, x.own = t.own, x.again = t.again,
         x.pushed = Append(Append(t.pushed, r), r + 1)
  PROVE  Orderly(x)
<1> DEFINE m == t.mailbox
           p == t.pushed
           q == Append(Append(p, r), r + 1)
           P(i, j) == Precedes(t, i, j)
<1>1. /\ Len(p) \in Nat /\ Len(q) = Len(p) + 2
      /\ \A a \in 1..Len(p) : q[a] = p[a]
      /\ q[Len(p) + 1] = r /\ q[Len(p) + 2] = r + 1
  <2>1. p \in Seq(Nat) /\ r + 1 \in Nat
    BY SessionFields
  <2> QED BY <2>1, TwoMore
<1>2. /\ Len(m) \in Nat
      /\ \A a \in 1..Len(p) : p[a] \in Nat
      /\ \A b \in 1..Len(m) : m[b] \in Nat
  BY SessionFrames
<1>3. /\ \A a, b \in 1..Len(p) : a < b => P(p[a], p[b])
      /\ \A a, b \in 1..Len(m) : a < b => P(m[a], m[b])
      /\ \A a \in 1..Len(p), b \in 1..Len(m) : P(p[a], m[b])
      /\ \A a \in 1..Len(p) : p[a] <= published \/ p[a] \in t.own
      /\ \A b \in 1..Len(m) : m[b] <= published /\ m[b] \notin t.own
  BY DEF Orderly
<1>4. \A i, j : Precedes(x, i, j) <=> P(i, j)
  BY DEF Precedes
<1>5. /\ \A i \in Nat : i \notin t.own => P(r, i) /\ P(r + 1, i)
      /\ \A i \in Nat : i < r => P(i, r) /\ P(i, r + 1)
      /\ P(r, r + 1)
  BY DEF Precedes
<1>6. x.mailbox = m /\ x.pushed = q
  OBVIOUS
<1>7. \A a \in 1..Len(p) : p[a] < r
  OBVIOUS
<1> HIDE DEF m, p, q, P
<1>8. \A a \in 1..Len(q) : \/ a \in 1..Len(p) /\ q[a] = p[a]
                           \/ a = Len(p) + 1 /\ q[a] = r
                           \/ a = Len(p) + 2 /\ q[a] = r + 1
  BY <1>1
<1>9. ASSUME NEW a \in 1..Len(q), NEW b \in 1..Len(q), a < b PROVE P(q[a], q[b])
  <2>1. CASE b \in 1..Len(p) /\ q[b] = p[b]
    <3>1. a \in 1..Len(p) /\ q[a] = p[a]
      BY <1>1, <1>8, <1>9, <2>1
    <3> QED BY <1>3, <1>9, <2>1, <3>1
  <2>2. CASE a \in 1..Len(p) /\ q[a] = p[a] /\ q[b] \in {r, r + 1}
    BY <1>2, <1>5, <1>7, <2>2
  <2>3. CASE a = Len(p) + 1 /\ q[a] = r /\ b = Len(p) + 2 /\ q[b] = r + 1
    BY <1>5, <2>3
  <2> QED BY <1>1, <1>8, <1>9, <2>1, <2>2, <2>3
<1>10. ASSUME NEW a \in 1..Len(q), NEW b \in 1..Len(m) PROVE P(q[a], m[b])
  <2>1. m[b] \in Nat /\ m[b] \notin t.own
    BY <1>2, <1>3
  <2> QED BY <1>3, <1>5, <1>8, <2>1
<1>11. \A a \in 1..Len(q) : q[a] <= published \/ q[a] \in t.own
  BY <1>3, <1>8
<1> QED BY <1>3, <1>4, <1>6, <1>9, <1>10, <1>11 DEF Orderly

LEMMA AnswerStep == ASSUME FInv, NEW s \in Sessions, Answer(s) PROVE FInv'
<1>1. PICK t : t = session[s]
  OBVIOUS
<1>2. t \in Session /\ Sound(t, caller, s)
  BY <1>1 DEF FInv, FTypes
<1> DEFINE r == t.reply
           p == t.pushed
           q == Append(Append(p, r), r + 1)
           x == [t EXCEPT !.step = "idle", !.reply = 0, !.pushed = q]
<1>3. session' = [session EXCEPT ![s] = x]
  BY <1>1 DEF Answer, FInv, FTypes
<1>4. /\ t.step = "calling" /\ caller # s
      /\ UNCHANGED <<vars, published, lost, caller>>
  BY <1>1 DEF Answer
<1>5. /\ r \in Nat /\ r >= 1 /\ r \in t.own /\ r + 1 \in t.own
      /\ \A a \in 1..Len(p) : p[a] < r
  BY <1>2, <1>4, SessionFields DEF Sound, Calling, Held
<1>6. /\ q \in Seq(Nat) /\ Len(p) \in Nat /\ Len(q) = Len(p) + 2
      /\ \A a \in 1..Len(p) : q[a] = p[a]
      /\ q[Len(p) + 1] = r /\ q[Len(p) + 2] = r + 1
  <2>1. p \in Seq(Nat) /\ r \in Nat /\ r + 1 \in Nat
    BY <1>2, <1>5, SessionFields
  <2> HIDE DEF p, r
  <2> QED BY <2>1, TwoMore
<1>7. Fields(x, t.live, t.subscribed, t.subs, "idle", t.query, 0, t.mailbox, q,
             t.from, t.own, t.again)
  <2> HIDE DEF q
  <2> QED BY <1>2, <1>6, SessionUpdates
<1> HIDE DEF x
<1>8. /\ x \in Session
      /\ x.live = t.live /\ x.subscribed = t.subscribed /\ x.subs = t.subs
      /\ x.step = "idle" /\ x.mailbox = t.mailbox /\ x.pushed = q /\ x.from = t.from
      /\ x.own = t.own /\ x.again = t.again
  BY <1>7 DEF Fields
<1>9. Registered(x)
  BY <1>2, <1>4, <1>8 DEF Sound, Registered
<1>10. Orderly(x)
  BY <1>2, <1>5, <1>8, PushReply DEF Sound
<1>11. Calling(x, caller, s)
  BY <1>2, <1>4, <1>8 DEF Sound, Calling
<1>12. \A i : Reached(t, i) => Reached(x, i)
  <2> SUFFICES ASSUME NEW i, Reached(t, i) PROVE Reached(x, i)
    OBVIOUS
  <2>1. CASE i \in Held(t)
    <3>1. i = r \/ i = r + 1
      BY <1>4, <2>1 DEF Held
    <3>2. Len(p) + 1 \in 1..Len(q) /\ Len(p) + 2 \in 1..Len(q)
      BY <1>6
    <3> HIDE DEF q, r, p
    <3>3. In(i, q)
      BY <1>6, <3>1, <3>2 DEF In
    <3> QED BY <1>8, <3>3 DEF Reached
  <2>2. CASE In(i, t.pushed)
    <3>1. In(i, p)
      BY <2>2
    <3> HIDE DEF q, r, p
    <3>2. In(i, q)
      BY <1>6, <3>1 DEF In
    <3> QED BY <1>8, <3>2 DEF Reached
  <2>3. CASE i \in lost \/ In(i, t.mailbox)
    BY <1>8, <2>3 DEF Reached
  <2> QED BY <2>1, <2>2, <2>3 DEF Reached
<1>13. Complete(x, UserOf[s])
  BY <1>2, <1>8, <1>12 DEF Sound, Complete
<1> QED BY <1>3, <1>4, <1>8, <1>9, <1>10, <1>11, <1>13, OneSession DEF Sound

-----------------------------------------------------------------------------
(* A command only lengthens the timeline: it asks more of the member, and  *)
(* nothing of a session that is not the one that called.                   *)
LEMMA TimelineGrows ==
  ASSUME FInv, Roster, published = Len(log), published' = published, lost' = lost,
         NEW r \in Sessions, session'[r] = session[r], caller' # r
  PROVE  Sound(session[r], caller, r)'
<1>1. TypeOK /\ published \in Nat /\ caller # r
  BY FanoutAssumption DEF FInv, FTypes, IInv
<1>2. /\ Len(log) \in Nat /\ Len(log') \in Nat /\ Len(log) <= Len(log')
      /\ \A i \in 1..Len(log) : log'[i] = log[i]
  BY <1>1, LogGrows
<1>3. PICK t : t = session[r] /\ t = session'[r]
  OBVIOUS
<1>4. t \in Session /\ Sound(t, caller, r)
  BY <1>3 DEF FInv, FTypes
<1>5. Registered(t)' /\ Orderly(t)'
  BY <1>4 DEF Sound, Registered, Orderly, Precedes
<1>6. t.from \in Nat
  BY <1>4, SessionFields
<1>7. \A j \in t.from..Len(log) : MemberAfter(UserOf[r], j)' <=> MemberAfter(UserOf[r], j)
  <2>1. \A j \in t.from..Len(log) : j \in 0..Len(log)
    BY <1>2, <1>6
  <2> QED BY <1>1, <2>1, StandingSettled
<1>8. \A j \in t.from..Len(log) : j \in t.from..Len(log')
  BY <1>2, <1>6
<1>9. Complete(t, UserOf[r])'
  BY <1>2, <1>4, <1>7, <1>8 DEF Sound, Complete, Reached
<1>10. \A k \in t.own : /\ k \in 1..Len(log') /\ log'[k].kind \in Artifacts
                        /\ k <= published
  BY <1>1, <1>2, <1>4 DEF Sound, Calling
<1>11. Registered(session[r])' /\ Orderly(session[r])'
  BY <1>3, <1>5 DEF Registered, Orderly, Precedes
<1>12. Complete(session[r], UserOf[r])'
  BY <1>3, <1>9 DEF Complete, Reached, In, Held
<1>13. Calling(session[r], caller, r)'
  BY <1>3, <1>4, <1>10 DEF Sound, Calling, Held
<1> QED BY <1>11, <1>12, <1>13 DEF Sound

LEMMA CommandStep ==
  ASSUME FInv, Roster, published = Len(log), UNCHANGED fanout
  PROVE  FInv'
<1>1. IInv' /\ TypeOK
  BY RosterIInv DEF FInv, IInv
<1>2. /\ published' = published /\ lost' = lost /\ session' = session /\ caller' = caller
      /\ published \in Nat /\ caller = None
      /\ Len(log) \in Nat /\ Len(log') \in Nat /\ Len(log) <= Len(log')
  BY <1>1, LogGrows DEF fanout, FInv, FTypes
<1>3. FTypes'
  BY <1>2 DEF FInv, FTypes
<1>4. ASSUME NEW r \in Sessions PROVE Sound(session[r], caller, r)'
  <2>1. caller' # r /\ session'[r] = session[r]
    BY <1>2, FanoutAssumption
  <2> QED BY <1>2, <2>1, TimelineGrows
<1> QED BY <1>1, <1>3, <1>4 DEF FInv

(* An invocation: the session that called has two events to answer for.    *)
LEMMA InvokeStep == ASSUME FInv, NEW s \in Sessions, Invoke(s) PROVE FInv'
<1>1. PICK t : t = session[s]
  OBVIOUS
<1>2. t \in Session /\ Sound(t, caller, s)
  BY <1>1 DEF FInv, FTypes
<1>3. Invocation /\ Roster /\ published = Len(log)
  BY FanoutAssumption DEF Invoke, Invocation, Invoked, Roster
<1>n. PICK n : n = Len(log)
  OBVIOUS
<1>o. PICK o : o = t.own \cup {n + 1, n + 2}
  OBVIOUS
<1>x. PICK x : x = [t EXCEPT !.step = "calling", !.reply = n + 1, !.own = o]
  OBVIOUS
<1>4. /\ session' = [session EXCEPT ![s] = x] /\ caller' = s /\ t.step = "idle"
      /\ published' = published /\ lost' = lost
  BY <1>1, <1>n, <1>o, <1>x DEF Invoke, FInv, FTypes
<1>5. IInv' /\ IInv /\ TypeOK
  BY <1>3, RosterIInv DEF FInv, IInv
<1>6. n \in Nat /\ log \in Seq(Entry) /\ published = n
  BY <1>3, <1>5, <1>n DEF TypeOK
<1>7. /\ Len(log') = n + 2
      /\ \A i \in 1..n : log'[i] = log[i]
      /\ log'[n + 1].kind \in Artifacts /\ log'[n + 2].kind \in Artifacts
  <2>1. PICK d \in Entry, e \in Entry :
          /\ d.kind \in Artifacts /\ e.kind \in Artifacts
          /\ log' = Append(Append(log, d), e)
    BY <1>3, <1>5, InvocationAdds
  <2> DEFINE l == Append(log, d)
  <2>2. /\ l \in Seq(Entry) /\ Len(l) = n + 1 /\ \A i \in 1..n : l[i] = log[i]
        /\ l[n + 1] = d
    BY <1>6, <1>n, AppendFacts
  <2>3. log' = Append(l, e)
    BY <2>1
  <2> HIDE DEF l
  <2>4. /\ Len(log') = Len(l) + 1 /\ \A i \in 1..Len(l) : log'[i] = l[i]
        /\ log'[Len(l) + 1] = e
    BY <2>2, <2>3, AppendFacts
  <2>5. n + 1 \in 1..Len(l) /\ Len(l) + 1 = n + 2 /\ \A i \in 1..n : i \in 1..Len(l)
    BY <1>6, <2>2
  <2> QED BY <2>1, <2>2, <2>4, <2>5
<1>8. Fields(x, t.live, t.subscribed, t.subs, "calling", t.query, n + 1, t.mailbox,
             t.pushed, t.from, o, t.again)
  <2>1. n + 1 \in Nat /\ o \in SUBSET Nat
    BY <1>2, <1>6, <1>o, SessionFields
  <2> QED BY <1>2, <1>x, <2>1, SessionUpdates
<1>9. /\ x \in Session
      /\ x.live = t.live /\ x.subscribed = t.subscribed /\ x.subs = t.subs
      /\ x.step = "calling" /\ x.mailbox = t.mailbox /\ x.pushed = t.pushed
      /\ x.from = t.from /\ x.own = o /\ x.again = t.again /\ x.reply = n + 1
  BY <1>8 DEF Fields
<1>10. Held(x) = {n + 1, n + 2}
  BY <1>6, <1>9 DEF Held
<1>11. /\ \A k \in t.own : k \in 1..n /\ log[k].kind \in Artifacts
       /\ \A a \in 1..Len(t.pushed) : t.pushed[a] \in Nat /\ t.pushed[a] <= n
       /\ \A b \in 1..Len(t.mailbox) : t.mailbox[b] \in Nat /\ t.mailbox[b] <= n
  <2>1. \A k \in t.own : k \in 1..n /\ log[k].kind \in Artifacts
    BY <1>2, <1>n DEF Sound, Calling
  <2>2. \A k \in t.own : k <= n
    BY <1>6, <2>1
  <2> QED BY <1>2, <1>6, <2>1, <2>2, SessionFrames DEF Sound, Orderly
<1>12. \A i \in Nat : i <= n => (i \in o <=> i \in t.own)
  BY <1>6, <1>o
<1>13. Registered(x)'
  BY <1>2, <1>4, <1>9 DEF Sound, Registered
<1>14. Orderly(x)'
  <2>1. \A i, j : i \in Nat /\ i <= n /\ Precedes(t, i, j) => Precedes(x, i, j)
    BY <1>9, <1>12 DEF Precedes
  <2>2. /\ \A a, b \in 1..Len(x.pushed) : a < b => Precedes(x, x.pushed[a], x.pushed[b])
        /\ \A a, b \in 1..Len(x.mailbox) : a < b => Precedes(x, x.mailbox[a], x.mailbox[b])
        /\ \A a \in 1..Len(x.pushed), b \in 1..Len(x.mailbox) :
             Precedes(x, x.pushed[a], x.mailbox[b])
    BY <1>2, <1>9, <1>11, <2>1 DEF Sound, Orderly
  <2>3. /\ \A a \in 1..Len(x.pushed) : x.pushed[a] <= published'
        /\ \A b \in 1..Len(x.mailbox) : x.mailbox[b] <= published' /\ x.mailbox[b] \notin x.own
    BY <1>2, <1>4, <1>6, <1>9, <1>11, <1>12 DEF Sound, Orderly
  <2> QED BY <2>2, <2>3 DEF Orderly, Precedes
<1>15. Calling(x, s, s)'
  <2>1. \A k \in x.own : k \in 1..Len(log') /\ log'[k].kind \in Artifacts
    <3> SUFFICES ASSUME NEW k \in o PROVE k \in 1..Len(log') /\ log'[k].kind \in Artifacts
      BY <1>9
    <3>1. CASE k \in t.own
      BY <1>6, <1>7, <1>11, <3>1
    <3>2. CASE k = n + 1 \/ k = n + 2
      BY <1>6, <1>7, <3>2
    <3> QED BY <1>o, <3>1, <3>2
  <2>2. n + 1 >= 1 /\ Held(x) \subseteq x.own
    BY <1>6, <1>9, <1>10, <1>o
  <2>3. \A a \in 1..Len(x.pushed) : x.pushed[a] < x.reply
    BY <1>6, <1>9, <1>11
  <2>4. \A k \in published' + 1..Len(log') : k \in Held(x)
    BY <1>4, <1>6, <1>7, <1>10
  <2> QED BY <1>4, <1>9, <2>1, <2>2, <2>3, <2>4 DEF Calling, Held
<1>16. Complete(x, UserOf[s])'
  <2>1. t.from \in Nat /\ published \in Nat
    BY <1>2, SessionFields DEF FInv, FTypes
  <2>2. \A j \in t.from..n : /\ j \in t.from..Len(log')
                             /\ MemberAfter(UserOf[s], j)' <=> MemberAfter(UserOf[s], j)
    <3>1. \A j \in t.from..n : j \in 0..Len(log) /\ j \in t.from..Len(log')
      BY <1>6, <1>7, <1>n, <2>1
    <3> QED BY <1>3, <1>5, <3>1, StandingSettled
  <2>3. \A i : Reached(t, i) => Reached(x, i)
    BY <1>4, <1>9 DEF Reached, Held
  <2>4. \A i : Reached(x, i) => Reached(x, i)'
    BY <1>4 DEF Reached, In, Held
  <2> QED BY <1>2, <1>4, <1>9, <2>2, <2>3, <2>4, <1>n DEF Sound, Complete
<1>17. \A r \in Sessions : session'[r] = IF r = s THEN x ELSE session[r]
  BY <1>4 DEF FInv, FTypes
<1>18. ASSUME NEW r \in Sessions PROVE Sound(session[r], caller, r)'
  <2>1. CASE r = s
    <3>1. session[r]' = x /\ caller' = s
      BY <1>4, <1>17, <2>1
    <3>2. Registered(session[r])'
      BY <1>13, <3>1 DEF Registered
    <3>3. Orderly(session[r])'
      BY <1>14, <3>1 DEF Orderly, Precedes
    <3>4. Calling(session[r], caller, r)'
      BY <1>15, <2>1, <3>1 DEF Calling, Held
    <3>5. Complete(session[r], UserOf[r])'
      BY <1>16, <2>1, <3>1 DEF Complete, Reached, In, Held
    <3> QED BY <3>2, <3>3, <3>4, <3>5 DEF Sound
  <2>2. CASE r # s
    <3>1. session'[r] = session[r] /\ caller' # r
      BY <1>4, <1>17, <2>2
    <3> QED BY <1>3, <1>4, <3>1, TimelineGrows
  <2> QED BY <2>1, <2>2
<1>19. FTypes'
  <2>1. session' \in [Sessions -> Session]
    BY <1>4, <1>9 DEF FInv, FTypes
  <2>2. published' \in Nat /\ published' <= Len(log') /\ published' # Len(log')
    BY <1>4, <1>6, <1>7
  <2> QED BY <1>4, <2>1, <2>2 DEF FTypes
<1> QED BY <1>5, <1>18, <1>19 DEF FInv


-----------------------------------------------------------------------------
(* The writer dies: what it had not broadcast is lost, and the session     *)
(* that waited for its answer is gone.                                     *)
LEMMA WriterCrashStep == ASSUME FInv, WriterCrash PROVE FInv'
<1>1. IInv'
  BY StepIInv DEF WriterCrash, FInv
<1>2. /\ published \in Nat /\ published < Len(log) /\ Len(log) \in Nat /\ log' = log
      /\ published' = Len(log) /\ lost' = lost \cup (published + 1)..Len(log)
      /\ caller' = None
      /\ \A r \in Sessions : session'[r] = IF r = caller THEN Opened ELSE session[r]
      /\ session' = [s \in Sessions |-> IF s = caller THEN Opened ELSE session[s]]
  BY DEF WriterCrash, vars, FInv, FTypes, IInv, TypeOK
<1>3. \A u, j : MemberAfter(u, j)' <=> MemberAfter(u, j)
  BY DEF MemberAfter, About, vars, WriterCrash
<1>4. Opened \in Session
  BY <1>2, FanoutAssumption DEF Opened, Session
<1>5. FTypes'
  <2>1. session' \in [Sessions -> Session]
    BY <1>2, <1>4 DEF FInv, FTypes
  <2> QED BY <1>2, <2>1 DEF FTypes
<1>6. ASSUME NEW r \in Sessions PROVE Sound(session[r], caller, r)'
  <2>1. None # r
    BY FanoutAssumption
  <2>2. CASE r = caller
    <3>1. PICK t : t = Opened
      OBVIOUS
    <3>2. /\ t.subs = 0 /\ t.step = "idle" /\ t.subscribed = FALSE /\ t.from = 0
          /\ t.mailbox = <<>> /\ t.pushed = <<>> /\ t.own = {}
      BY <3>1 DEF Opened
    <3>3. session[r]' = t
      BY <1>2, <2>2, <3>1
    <3>4. Registered(session[r])' /\ Orderly(session[r])'
      BY <1>2, <3>2, <3>3 DEF Registered, Orderly
    <3>5. Calling(session[r], caller, r)' /\ Complete(session[r], UserOf[r])'
      BY <1>2, <2>1, <3>2, <3>3 DEF Calling, Complete
    <3> QED BY <3>4, <3>5 DEF Sound
  <2>3. CASE r # caller
    <3>1. PICK t : t = session[r] /\ t = session[r]'
      BY <1>2, <2>3
    <3>2. t \in Session /\ Sound(t, caller, r)
      BY <3>1 DEF FInv, FTypes
    <3>3. /\ t.from \in Nat /\ t.own \in SUBSET Nat
          /\ \A a \in 1..Len(t.pushed) : t.pushed[a] \in Nat
          /\ \A b \in 1..Len(t.mailbox) : t.mailbox[b] \in Nat
      BY <3>2, SessionFields, SessionFrames
    <3>4. \A i \in Nat : i <= published => i <= published'
      BY <1>2
    <3>5. Registered(session[r])'
      BY <3>1, <3>2, <3>3, <3>4 DEF Sound, Registered
    <3>6. Orderly(session[r])'
      BY <3>1, <3>2, <3>3, <3>4 DEF Sound, Orderly, Precedes
    <3>7. Calling(session[r], caller, r)'
      <4>1. \A k \in t.own : /\ k \in 1..Len(log') /\ log'[k].kind \in Artifacts
                             /\ k <= published'
        BY <1>2, <2>3, <3>2, <3>3, <3>4 DEF Sound, Calling
      <4> QED BY <1>2, <2>1, <3>1, <3>2, <4>1 DEF Sound, Calling, Held
    <3>8. Complete(session[r], UserOf[r])'
      <4> SUFFICES ASSUME t.subs >= 1, \A j \in t.from..Len(log) : MemberAfter(UserOf[r], j),
                          NEW i \in t.from + 1..Len(log)
                   PROVE  Reached(t, i)'
        BY <1>2, <1>3, <3>1 DEF Complete, Reached, In, Held
      <4>1. CASE i \in t.from + 1..published
        BY <1>2, <3>2, <4>1 DEF Sound, Complete, Reached, In, Held
      <4>2. CASE i \in published + 1..Len(log)
        BY <1>2, <4>2 DEF Reached
      <4> QED BY <1>2, <3>3, <4>1, <4>2
    <3> QED BY <3>5, <3>6, <3>7, <3>8 DEF Sound
  <2> QED BY <2>2, <2>3
<1> QED BY <1>1, <1>5, <1>6 DEF FInv

-----------------------------------------------------------------------------
\* q is m with n copies of i behind it.
Grown(m, q, n, i) ==
  /\ q \in Seq(Nat) /\ Len(q) = Len(m) + n /\ Len(m) \in Nat
  /\ \A b \in 1..Len(m) : q[b] = m[b]
  /\ \A b \in Len(m) + 1..Len(q) : q[b] = i

(* The next frame, once per registration, at the end of a mailbox.         *)
LEMMA LongerMailbox ==
  ASSUME NEW m \in Seq(Nat), NEW n \in Nat, NEW i \in Nat,
         NEW c \in [1..n -> Nat], \A k \in 1..n : c[k] = i
  PROVE  Grown(m, m \o c, n, i)
<1>1. c \in Seq(Nat) /\ Len(c) = n
  BY SeqDef
<1>2. m \o c \in Seq(Nat) /\ Len(m \o c) = Len(m) + n /\ Len(m) \in Nat
  BY <1>1
<1>3. \A b \in 1..Len(m) : (m \o c)[b] = m[b]
  BY <1>1
<1>4. \A b \in Len(m) + 1..Len(m) + n : (m \o c)[b] = c[b - Len(m)]
  BY <1>1
<1>5. \A b \in Len(m) + 1..Len(m) + n : b - Len(m) \in 1..n
  BY <1>2
<1> QED BY <1>2, <1>3, <1>4, <1>5 DEF Grown

\* q is the mailbox of t with event i once per registration behind it.
Lengthened(t, q, i) == Grown(t.mailbox, q, t.subs, i)

\* What the copies of a frame make of a session.
LEMMA CopiedFields ==
  ASSUME NEW t \in Session, NEW i \in Nat, NEW c, c = [k \in 1..t.subs |-> i],
         NEW q, q = t.mailbox \o c
  PROVE  /\ Lengthened(t, q, i)
         /\ Fields(Copied(t, c), t.live, t.subscribed, t.subs, t.step, t.query, t.reply, q,
                   t.pushed, t.from, t.own, t.again)
<1>1. PICK m, n : m = t.mailbox /\ n = t.subs /\ m \in Seq(Nat) /\ n \in Nat
  BY SessionFields
<1>2. c \in [1..n -> Nat] /\ \A k \in 1..n : c[k] = i
  BY <1>1
<1>3. q = m \o c
  BY <1>1
<1>4. Grown(m, q, n, i)
  BY <1>1, <1>2, <1>3, LongerMailbox
<1>5. q \in Seq(Nat)
  BY <1>4 DEF Grown
<1>6. Copied(t, c) = [t EXCEPT !.mailbox = q]
  BY DEF Copied
<1>7. Fields(Copied(t, c), t.live, t.subscribed, t.subs, t.step, t.query, t.reply, q,
             t.pushed, t.from, t.own, t.again)
  BY <1>5, <1>6, SessionUpdates
<1> QED BY <1>1, <1>4, <1>7 DEF Lengthened

\* Orderly, of session x with mailbox q when n events are broadcast.
InOrder(x, q, n) ==
  /\ \A a, b \in 1..Len(x.pushed) : a < b => Precedes(x, x.pushed[a], x.pushed[b])
  /\ \A a, b \in 1..Len(q) : a < b => Precedes(x, q[a], q[b])
  /\ \A a \in 1..Len(x.pushed), b \in 1..Len(q) : Precedes(x, x.pushed[a], q[b])
  /\ \A a \in 1..Len(x.pushed) : x.pushed[a] <= n \/ x.pushed[a] \in x.own
  /\ \A b \in 1..Len(q) : q[b] <= n /\ q[b] \notin x.own

(* A frame that is newer than everything stands behind everything.         *)
LEMMA CopiesAreOrderly ==
  ASSUME NEW t \in Session, NEW x, NEW n \in Nat, NEW q,
         Orderly(t), published = n, \A k \in t.own : k <= n, t.subs >= 2 => t.again,
         Lengthened(t, q, n + 1),
         Fields(x, t.live, t.subscribed, t.subs, t.step, t.query, t.reply, q,
                t.pushed, t.from, t.own, t.again)
  PROVE  InOrder(x, q, n + 1)
<1> DEFINE m == t.mailbox
           p == t.pushed
           P(i, j) == Precedes(t, i, j)
<1>1. /\ Len(m) \in Nat /\ t.subs \in Nat /\ t.own \in SUBSET Nat
      /\ \A a \in 1..Len(p) : p[a] \in Nat
      /\ \A b \in 1..Len(m) : m[b] \in Nat
  BY SessionFrames, SessionFields
<1>2. /\ \A a, b \in 1..Len(p) : a < b => P(p[a], p[b])
      /\ \A a, b \in 1..Len(m) : a < b => P(m[a], m[b])
      /\ \A a \in 1..Len(p), b \in 1..Len(m) : P(p[a], m[b])
      /\ \A a \in 1..Len(p) : p[a] <= n \/ p[a] \in t.own
      /\ \A b \in 1..Len(m) : m[b] <= n /\ m[b] \notin t.own
  BY DEF Orderly
<1>3. \A i, j : Precedes(x, i, j) <=> P(i, j)
  BY DEF Precedes, Fields
<1>4. /\ n + 1 \notin t.own /\ n + 1 \in Nat
      /\ \A i \in Nat : i <= n => P(i, n + 1)
      /\ t.again => P(n + 1, n + 1)
  <2>1. n + 1 \notin t.own
    BY <1>1
  <2> QED BY <2>1 DEF Precedes
<1>5. \A a \in 1..Len(p) : p[a] <= n
  BY <1>1, <1>2
<1>6. /\ Len(q) = Len(m) + t.subs
      /\ \A b \in 1..Len(q) : \/ b \in 1..Len(m) /\ q[b] = m[b]
                              \/ b \in Len(m) + 1..Len(q) /\ q[b] = n + 1
  <2>1. /\ Len(q) = Len(m) + t.subs
        /\ \A b \in 1..Len(m) : q[b] = m[b]
        /\ \A b \in Len(m) + 1..Len(q) : q[b] = n + 1
    BY DEF Lengthened, Grown
  <2>2. Len(q) \in Nat /\ \A b \in 1..Len(q) : b \in 1..Len(m) \/ b \in Len(m) + 1..Len(q)
    BY <1>1, <2>1
  <2> QED BY <2>1, <2>2
<1>7. x.pushed = p /\ x.own = t.own
  BY DEF Fields
<1>8. t.subs >= 2 => t.again
  OBVIOUS
<1> HIDE DEF m, p, P
<1>9. ASSUME NEW a \in 1..Len(q), NEW b \in 1..Len(q), a < b PROVE P(q[a], q[b])
  <2>1. CASE b \in 1..Len(m) /\ q[b] = m[b]
    <3>1. a \in 1..Len(m) /\ q[a] = m[a]
      BY <1>1, <1>6, <1>9, <2>1
    <3> QED BY <1>2, <1>9, <2>1, <3>1
  <2>2. CASE a \in 1..Len(m) /\ q[a] = m[a] /\ q[b] = n + 1
    BY <1>1, <1>2, <1>4, <2>2
  <2>3. CASE a \in Len(m) + 1..Len(q) /\ q[a] = n + 1 /\ q[b] = n + 1
    <3>1. t.subs >= 2
      BY <1>1, <1>6, <1>9, <2>3
    <3> QED BY <1>4, <1>8, <2>3, <3>1
  <2> QED BY <1>6, <2>1, <2>2, <2>3
<1>10. ASSUME NEW a \in 1..Len(p), NEW b \in 1..Len(q) PROVE P(p[a], q[b])
  BY <1>1, <1>2, <1>4, <1>5, <1>6
<1>11. \A b \in 1..Len(q) : q[b] <= n + 1 /\ q[b] \notin t.own
  <2>1. \A b \in 1..Len(m) : m[b] <= n + 1 /\ m[b] \notin t.own
    BY <1>1, <1>2
  <2>2. n + 1 <= n + 1
    OBVIOUS
  <2> QED BY <1>4, <1>6, <2>1, <2>2
<1>12. \A a \in 1..Len(p) : p[a] <= n + 1
  BY <1>1, <1>5
<1>13. /\ \A a, b \in 1..Len(x.pushed) : a < b => Precedes(x, x.pushed[a], x.pushed[b])
       /\ \A a, b \in 1..Len(q) : a < b => Precedes(x, q[a], q[b])
       /\ \A a \in 1..Len(x.pushed), b \in 1..Len(q) : Precedes(x, x.pushed[a], q[b])
  BY <1>2, <1>3, <1>7, <1>9, <1>10
<1> QED BY <1>7, <1>11, <1>12, <1>13 DEF InOrder

LEMMA BroadcastStep == ASSUME FInv, Broadcast PROVE FInv'
<1>1. IInv'
  BY StepIInv DEF Broadcast, FInv
<1>2. /\ published \in Nat /\ published < Len(log) /\ Len(log) \in Nat /\ log' = log
      /\ published' = published + 1 /\ lost' = lost
      /\ caller' = IF published' = Len(log) THEN None ELSE caller
  BY DEF Broadcast, vars, FInv, FTypes, IInv, TypeOK
<1>3. \A u, j : MemberAfter(u, j)' <=> MemberAfter(u, j)
  BY DEF MemberAfter, About, vars, Broadcast
<1>4. PICK n : n = published
  OBVIOUS
<1>5. /\ n \in Nat /\ n < Len(log) /\ n + 1 = published' /\ n + 1 <= Len(log)
      /\ \A i \in Nat : i <= n => i <= n + 1
  BY <1>2, <1>4
<1>6. ASSUME NEW r \in Sessions
      PROVE  session'[r] \in Session /\ Sound(session[r], caller, r)'
  <2>1. PICK t : t = session[r]
    OBVIOUS
  <2>2. t \in Session /\ Sound(t, caller, r)
    BY <2>1 DEF FInv, FTypes
  <2>3. /\ t.from \in Nat /\ t.own \in SUBSET Nat
        /\ \A a \in 1..Len(t.pushed) : t.pushed[a] \in Nat
        /\ \A b \in 1..Len(t.mailbox) : t.mailbox[b] \in Nat
    BY <2>2, SessionFields, SessionFrames
  <2>4. r # None
    BY FanoutAssumption
  <2>5. CASE r = caller
    <3>1. session[r]' = t
      BY <2>1, <2>5 DEF Broadcast, Deliver
    <3>2. Registered(session[r])'
      BY <1>4, <1>5, <2>2, <2>3, <3>1 DEF Sound, Registered
    <3>3. Orderly(session[r])'
      BY <1>4, <1>5, <2>2, <2>3, <3>1 DEF Sound, Orderly, Precedes
    <3>4. t.step = "calling" /\ \A k \in n + 1..Len(log) : k \in Held(t)
      BY <1>4, <2>2, <2>5 DEF Sound, Calling
    <3>5. Calling(session[r], caller, r)'
      <4>1. \A k \in t.own : k <= published' \/ caller' = r
        <5>1. CASE published' = Len(log)
          BY <1>2, <2>2, <2>3, <5>1 DEF Sound, Calling
        <5>2. CASE published' # Len(log)
          BY <1>2, <2>5, <5>2
        <5> QED BY <5>1, <5>2
      <4>2. \A k \in published' + 1..Len(log) : k \in Held(t)
        BY <1>5, <3>4
      <4> QED BY <1>2, <2>2, <3>1, <3>4, <4>1, <4>2 DEF Sound, Calling, Held
    <3>6. Complete(session[r], UserOf[r])'
      <4> SUFFICES ASSUME t.subs >= 1, \A j \in t.from..Len(log) : MemberAfter(UserOf[r], j),
                          NEW i \in t.from + 1..n + 1
                   PROVE  Reached(t, i)
        BY <1>2, <1>3, <1>5, <3>1 DEF Complete, Reached, In, Held
      <4>1. CASE i = n + 1
        BY <1>2, <1>5, <3>4, <4>1 DEF Reached
      <4>2. CASE i # n + 1
        <5>1. i \in t.from + 1..n
          BY <1>5, <2>3, <4>2
        <5> QED BY <1>4, <2>2, <5>1 DEF Sound, Complete
      <4> QED BY <4>1, <4>2
    <3> QED BY <2>2, <3>1, <3>2, <3>3, <3>5, <3>6 DEF Sound
  <2>6. CASE r # caller
    <3>1. PICK c, q : c = [k \in 1..t.subs |-> n + 1] /\ q = t.mailbox \o c
      OBVIOUS
    <3>2. PICK x : x = Copied(t, c)
      OBVIOUS
    <3>3. session[r]' = x
      BY <1>4, <2>1, <2>6, <3>1, <3>2 DEF Broadcast, Deliver
    <3>4. /\ Lengthened(t, q, n + 1)
          /\ Fields(x, t.live, t.subscribed, t.subs, t.step, t.query, t.reply, q,
                    t.pushed, t.from, t.own, t.again)
      <4>1. n + 1 \in Nat /\ c = [k \in 1..t.subs |-> n + 1] /\ q = t.mailbox \o c
        BY <1>5, <3>1
      <4>2. /\ Lengthened(t, q, n + 1)
            /\ Fields(Copied(t, c), t.live, t.subscribed, t.subs, t.step, t.query, t.reply, q,
                      t.pushed, t.from, t.own, t.again)
        BY <2>2, <4>1, CopiedFields
      <4> QED BY <3>2, <4>2
    <3>5. /\ x \in Session
          /\ x.live = t.live /\ x.subscribed = t.subscribed /\ x.subs = t.subs
          /\ x.step = t.step /\ x.query = t.query /\ x.reply = t.reply
          /\ x.mailbox = q /\ x.pushed = t.pushed /\ x.from = t.from
          /\ x.own = t.own /\ x.again = t.again
      BY <3>4 DEF Fields
    <3>6. \A k \in t.own : k \in 1..Len(log) /\ log[k].kind \in Artifacts /\ k <= n
      BY <1>4, <2>2, <2>6 DEF Sound, Calling
    <3>7. Registered(session[r])'
      BY <1>4, <1>5, <2>2, <2>3, <3>3, <3>5 DEF Sound, Registered
    <3>8. InOrder(x, q, n + 1)
      <4>1. Orderly(t) /\ (t.subs >= 2 => t.again)
        BY <2>2 DEF Sound, Registered
      <4>2. published = n /\ n \in Nat /\ \A k \in t.own : k <= n
        BY <1>4, <1>5, <3>6
      <4>3. /\ Lengthened(t, q, n + 1)
            /\ Fields(x, t.live, t.subscribed, t.subs, t.step, t.query, t.reply, q,
                      t.pushed, t.from, t.own, t.again)
        BY <3>4
      <4> QED BY <2>2, <4>1, <4>2, <4>3, CopiesAreOrderly
    <3>9. Orderly(session[r])'
      BY <1>5, <3>3, <3>5, <3>8 DEF Orderly, InOrder, Precedes
    <3>10. Calling(session[r], caller, r)'
      <4>1. caller' # r
        BY <1>2, <2>4, <2>6
      <4>2. \A k \in t.own : k <= published'
        BY <1>5, <2>3, <3>6
      <4> QED BY <1>2, <2>2, <3>3, <3>5, <3>6, <4>1, <4>2 DEF Sound, Calling, Held
    <3>11. Complete(session[r], UserOf[r])'
      <4> SUFFICES ASSUME t.subs >= 1, \A j \in t.from..Len(log) : MemberAfter(UserOf[r], j),
                          NEW i \in t.from + 1..n + 1
                   PROVE  Reached(x, i)
        BY <1>2, <1>3, <1>5, <3>3, <3>5 DEF Complete, Reached, In, Held
      <4>1. CASE i = n + 1
        <5>1. Len(q) \in Len(t.mailbox) + 1..Len(q) /\ Len(q) \in 1..Len(q)
          <6>1. t.subs \in Nat
            BY <2>2, SessionFields
          <6> QED BY <3>4, <6>1 DEF Lengthened, Grown
        <5>2. In(i, q)
          BY <3>4, <4>1, <5>1 DEF In, Lengthened, Grown
        <5> QED BY <3>5, <5>2 DEF Reached
      <4>2. CASE i # n + 1
        <5>1. i \in t.from + 1..n
          BY <1>5, <2>3, <4>2
        <5>2. Reached(t, i)
          BY <1>4, <2>2, <5>1 DEF Sound, Complete
        <5>3. \A b \in 1..Len(t.mailbox) : b \in 1..Len(q)
          <6>1. t.subs \in Nat
            BY <2>2, SessionFields
          <6> QED BY <3>4, <6>1 DEF Lengthened, Grown
        <5>4. In(i, t.mailbox) => In(i, q)
          BY <3>4, <5>3 DEF In, Lengthened, Grown
        <5> QED BY <3>5, <5>2, <5>4 DEF Reached, Held
      <4> QED BY <4>1, <4>2
    <3> QED BY <3>3, <3>5, <3>7, <3>9, <3>10, <3>11 DEF Sound
  <2> QED BY <2>5, <2>6
<1>7. FTypes'
  <2>1. session' = [s \in Sessions |-> session'[s]]
    BY DEF Broadcast, Deliver
  <2>2. session' \in [Sessions -> Session]
    BY <1>6, <2>1
  <2>3. published' \in Nat /\ published' <= Len(log')
    BY <1>2
  <2>4. caller' \in Sessions \cup {None} /\ (published' = Len(log') => caller' = None)
    BY <1>2 DEF FInv, FTypes
  <2> QED BY <2>2, <2>3, <2>4 DEF FTypes
<1> QED BY <1>1, <1>6, <1>7 DEF FInv

-----------------------------------------------------------------------------
LEMMA FanoutStays == FInv /\ [FanoutNext]_fvars => FInv'
<1> SUFFICES ASSUME FInv, [FanoutNext]_fvars PROVE FInv'
  OBVIOUS
<1>1. CASE UNCHANGED fvars
  <2>1. /\ UNCHANGED <<vars, published, lost>>
        /\ published' = published /\ log' = log
        /\ session' = session /\ caller' = caller
    BY <1>1 DEF fvars, fanout, vars
  <2>2. IInv' /\ FTypes'
    BY <2>1, StepIInv DEF FInv, FTypes
  <2>3. ASSUME NEW r \in Sessions PROVE Sound(session[r], caller, r)'
    <3>1. PICK x, c : x = session[r] /\ x = session'[r] /\ c = caller /\ c = caller'
      BY <2>1
    <3>2. Sound(x, c, r)
      BY <3>1 DEF FInv
    <3> QED BY <2>1, <3>1, <3>2, StaysSound
  <2> QED BY <2>2, <2>3 DEF FInv
<1>2. CASE Command
  <2>1. Roster /\ published = Len(log) /\ UNCHANGED fanout
    BY <1>2, CommandIsNext DEF Roster, Command
  <2> QED BY <2>1, CommandStep
<1>3. ASSUME NEW u \in Users, InvokeElsewhere(u) PROVE FInv'
  <2>1. Roster /\ published = Len(log) /\ UNCHANGED fanout
    BY <1>3 DEF InvokeElsewhere, Invoked, Roster, Invocation
  <2> QED BY <2>1, CommandStep
<1> QED BY <1>1, <1>2, <1>3, BroadcastStep, WriterCrashStep, InvokeStep, AnswerStep, QueryStep,
           RegisterStep, GoLiveStep, HandleFrameStep, CloseStep DEF FanoutNext

(* A session sees the events of a channel in the order of the timeline and *)
(* each once: what waits in a mailbox never precedes what was pushed, only *)
(* a session that registered twice may see others' events twice, and only  *)
(* the events of its own invocation come ahead of their turn.              *)
THEOREM EventsArriveInOrder == FanoutSpec => []PushedInOrder
<1>1. FInv => PushedInOrder
  BY DEF FInv, Sound, Orderly, PushedInOrder
<1> QED BY <1>1, FanoutStarts, FanoutStays, PTL DEF FanoutSpec

(* A session that has gone live misses no broadcast while its user stays a *)
(* member: the shared cache can make the gate look at the row, the row is  *)
(* what the timeline says, and what the broadcasts of an invocation leave  *)
(* out for its caller is in the reply.                                     *)
THEOREM MembersMissNothing == FanoutSpec => []NothingMissed
<1>1. FInv => NothingMissed
  <2> SUFFICES ASSUME FInv, NEW s \in Sessions, session[s].subscribed,
                      \A j \in session[s].from..Len(log) : MemberAfter(UserOf[s], j)
               PROVE  \A i \in session[s].from + 1..published : Reached(session[s], i)
    BY DEF NothingMissed, Reached
  <2>1. session[s].subs >= 1
    BY DEF FInv, Sound, Registered
  <2> QED BY <2>1 DEF FInv, Sound, Complete
<1> QED BY <1>1, FanoutStarts, FanoutStays, PTL DEF FanoutSpec

-----------------------------------------------------------------------------
(* What a session is shown.  The cache that lets a frame pass unchecked is *)
(* one for all sessions of the node, so what can be said of every node is  *)
(* this: somebody with a session here was a member at the event or after.  *)

Vouched(v) == \E n \in 1..Len(log), r \in Sessions :
  MemberAfter(UserOf[r], n) /\ v <= log[n].mv

\* A later event never has a smaller version.
Ascends == \A i, j \in 1..Len(log) : i < j => log[i].mv <= log[j].mv

Numbered(q) == \A b \in 1..Len(q) : q[b] >= 1

\* What is cached, or was read for the cache, was read of a member's row.
CacheVouched == cache # None => cache \in Nat /\ Vouched(cache)

Shows(t) ==
  /\ t.query # None => Vouched(t.query)
  /\ (t.live /\ t.subscribed) => cache # None
  /\ Numbered(t.mailbox)

SInv == Ascends /\ CacheVouched /\ \A s \in Sessions : Shows(session[s])

(* A nonempty set of positions has a last one.                             *)
LEMMA LastPosition ==
  ASSUME NEW n \in Nat, NEW S \in SUBSET (1..n), S # {}
  PROVE  \E i \in S : \A j \in S : j <= i
<1> DEFINE T == {n - i : i \in S}
<1>1. T \subseteq Nat /\ T # {}
  <2>1. \A i \in S : n - i \in Nat
    OBVIOUS
  <2> QED BY <2>1
<1>2. \E x \in T : \A y \in T : ~(<<y, x>> \in {p \in Nat \X Nat : p[1] < p[2]})
  <2> HIDE DEF T
  <2>1. IsWellFoundedOn({p \in Nat \X Nat : p[1] < p[2]}, Nat)
    BY NatLessThanWellFounded DEF OpToRel
  <2> QED BY <1>1, <2>1, WFMin
<1>3. PICK i \in S : \A y \in T : ~(y < n - i)
  BY <1>1, <1>2
<1>4. \A j \in S : ~(n - j < n - i)
  BY <1>3
<1> QED BY <1>4

(* Who has an active row is a member after the last event: the converse of *)
(* StandingIsRow.                                                          *)
LEMMA RowIsStanding ==
  ASSUME TypeOK, RosterFromTimeline, NEW u \in Users, Active(u)
  PROVE  Len(log) \in 1..Len(log) /\ MemberAfter(u, Len(log))
<1> DEFINE S == {i \in 1..Len(log) : About(i, u)}
<1>1. Len(log) \in Nat
  BY DEF TypeOK
<1>2. member[u].status = "active"
  BY DEF Active
<1>3. S # {}
  BY <1>2 DEF RosterFromTimeline
<1>4. PICK i \in S : \A j \in S : j <= i
  <2> HIDE DEF S
  <2>1. S \in SUBSET (1..Len(log))
    BY DEF S
  <2> QED BY <1>1, <1>3, <2>1, LastPosition
<1>5. i \in 1..Len(log) /\ About(i, u) /\ \A j \in 1..Len(log) : About(j, u) => j <= i
  BY <1>4
<1>6. member[u] = [status |-> IF log[i].kind = "member.left" THEN "left" ELSE "active",
                   role |-> log[i].role]
  BY <1>5 DEF RosterFromTimeline, LastAbout
<1>7. log[i].kind # "member.left"
  BY <1>2, <1>6
<1>8. \A k \in i + 1..Len(log) : ~About(k, u)
  BY <1>1, <1>5
<1> QED BY <1>1, <1>5, <1>7, <1>8 DEF MemberAfter

(* Events that carry no new version change nobody's standing.              *)
LEMMA StandingCarries ==
  ASSUME TypeOK, VersionsNumberChanges, Ascends, NEW u,
         NEW i \in 1..Len(log), NEW n \in 1..Len(log), n <= i, log[i].mv <= log[n].mv,
         MemberAfter(u, n)
  PROVE  MemberAfter(u, i)
<1>1. /\ Len(log) \in Nat /\ \A k \in 1..Len(log) : log[k].mv \in Nat
  BY EntryFields, ElementOfSeq DEF TypeOK
<1>2. ASSUME NEW k \in n + 1..i PROVE ~About(k, u)
  <2>1. k \in 1..Len(log) /\ n < k /\ k <= i
    BY <1>1
  <2>2. log[k].mv <= log[i].mv
    <3>1. CASE k = i
      BY <1>1, <2>1, <3>1
    <3>2. CASE k # i
      BY <1>1, <2>1, <3>2 DEF Ascends
    <3> QED BY <3>1, <3>2
  <2>3. ~(log[n].mv < log[k].mv)
    BY <1>1, <2>1, <2>2
  <2>4. log[k].kind \in Unversioned
    BY <2>1, <2>3 DEF VersionsNumberChanges
  <2> QED BY <2>4 DEF About, Changes, Unversioned, Artifacts
<1>3. PICK m \in 1..n : /\ About(m, u) /\ log[m].kind # "member.left"
                        /\ \A k \in m + 1..n : ~About(k, u)
  BY DEF MemberAfter
<1>4. m \in 1..i
  BY <1>1
<1>5. \A k \in m + 1..i : k \in m + 1..n \/ k \in n + 1..i
  BY <1>1
<1> QED BY <1>2, <1>3, <1>4, <1>5 DEF MemberAfter

(* What was vouched for stays so: the timeline only grows.                 *)
LEMMA VouchedStays ==
  ASSUME TypeOK, Roster, NEW v, Vouched(v)
  PROVE  Vouched(v)'
<1>1. /\ Len(log) \in Nat /\ Len(log') \in Nat /\ Len(log) <= Len(log')
      /\ \A i \in 1..Len(log) : log'[i] = log[i]
  BY LogGrows
<1>2. PICK n \in 1..Len(log), r \in Sessions : MemberAfter(UserOf[r], n) /\ v <= log[n].mv
  BY DEF Vouched
<1>3. n \in 0..Len(log) /\ n \in 1..Len(log')
  BY <1>1
<1>4. MemberAfter(UserOf[r], n)'
  BY <1>2, <1>3, StandingSettled
<1>5. v <= log'[n].mv
  BY <1>1, <1>2
<1> QED BY <1>3, <1>4, <1>5 DEF Vouched

(* A member's row vouches for every version so far.                        *)
LEMMA RowVouches ==
  ASSUME IInv, Ascends, NEW s \in Sessions, Active(UserOf[s]),
         NEW i \in 1..Len(log)
  PROVE  Vouched(log[i].mv) /\ Vouched(mv)
<1>1. TypeOK /\ RosterFromTimeline /\ VersionsNumberChanges /\ UserOf[s] \in Users
  BY FanoutAssumption DEF IInv
<1>2. Len(log) \in 1..Len(log) /\ MemberAfter(UserOf[s], Len(log))
  BY <1>1, RowIsStanding
<1>3. Len(log) \in Nat /\ \A k \in 1..Len(log) : log[k].mv \in Nat
  BY <1>1, EntryFields, ElementOfSeq DEF TypeOK
<1>4. \A k \in 1..Len(log) : log[k].mv <= log[Len(log)].mv
  <2> SUFFICES ASSUME NEW k \in 1..Len(log) PROVE log[k].mv <= log[Len(log)].mv
    OBVIOUS
  <2>1. CASE k = Len(log)
    BY <1>3, <2>1
  <2>2. CASE k < Len(log)
    BY <1>2, <2>2 DEF Ascends
  <2> QED BY <1>3, <2>1, <2>2
<1>5. \E k \in 1..Len(log) : log[k].mv = mv
  BY <1>1 DEF VersionsNumberChanges
<1> QED BY <1>2, <1>4, <1>5 DEF Vouched

-----------------------------------------------------------------------------
LEMMA AscendsExtend ==
  ASSUME NEW s \in Seq(Entry), NEW e \in Entry, NEW v \in Nat, v <= e.mv,
         \A i \in 1..Len(s) : s[i].mv <= v,
         \A i, j \in 1..Len(s) : i < j => s[i].mv <= s[j].mv
  PROVE  LET t == Append(s, e) IN
           /\ t \in Seq(Entry) /\ \A i \in 1..Len(t) : t[i].mv <= e.mv
           /\ \A i, j \in 1..Len(t) : i < j => t[i].mv <= t[j].mv
<1> DEFINE t == Append(s, e)
           n == Len(s)
<1>1. /\ t \in Seq(Entry) /\ Len(t) = n + 1 /\ n \in Nat
      /\ \A i \in 1..n : t[i] = s[i] /\ s[i] \in Entry
      /\ t[n + 1] = e
  BY AppendFacts
<1>2. e.mv \in Nat /\ \A i \in 1..n : s[i].mv \in Nat
  BY <1>1, EntryFields
<1> HIDE DEF t
<1>3. \A i \in 1..(n + 1) : i \in 1..n \/ i = n + 1
  BY <1>1
<1>4. \A i \in 1..n : t[i].mv <= e.mv
  BY <1>1, <1>2
<1>5. \A i \in 1..(n + 1) : t[i].mv <= e.mv
  BY <1>1, <1>2, <1>3, <1>4
<1>6. ASSUME NEW i \in 1..(n + 1), NEW j \in 1..(n + 1), i < j PROVE t[i].mv <= t[j].mv
  <2>1. i \in 1..n
    BY <1>1, <1>6
  <2>2. CASE j \in 1..n
    BY <1>1, <1>6, <2>1, <2>2
  <2>3. CASE j = n + 1
    BY <1>1, <1>4, <2>1, <2>3
  <2> QED BY <1>3, <2>2, <2>3
<1> QED BY <1>1, <1>5, <1>6 DEF t

LEMMA InitAscends == Init => Ascends
<1> SUFFICES ASSUME NEW creator \in Users, NEW im \in Initials, NEW l \in BOOLEAN,
                    Created(creator, im, l)
             PROVE  Ascends
  BY InitCreated
<1>1. \A i \in 1..Len(log) : log[i].mv = i
  BY CreatedLog DEF Initials
<1> QED BY <1>1 DEF Ascends

LEMMA StepAscends ==
  ASSUME IInv, Ascends, Roster PROVE Ascends'
<1>1. log \in Seq(Entry) /\ mv \in Nat /\ \A i \in 1..Len(log) : log[i].mv <= mv
  BY DEF IInv, TypeOK, VersionsNumberChanges
<1>2. \A i, j \in 1..Len(log) : i < j => log[i].mv <= log[j].mv
  BY DEF Ascends
<1>3. ASSUME NEW e \in Entry, mv <= e.mv, log' = Append(log, e) PROVE Ascends'
  BY <1>1, <1>2, <1>3, AscendsExtend DEF Ascends
<1>4. ASSUME NEW d \in Entry, NEW e \in Entry, mv <= d.mv, d.mv <= e.mv,
             log' = Append(Append(log, d), e)
      PROVE  Ascends'
  <2> DEFINE t == Append(log, d)
  <2>1. d.mv \in Nat
    BY EntryFields
  <2>2. /\ t \in Seq(Entry) /\ \A i \in 1..Len(t) : t[i].mv <= d.mv
        /\ \A i, j \in 1..Len(t) : i < j => t[i].mv <= t[j].mv
    BY <1>1, <1>2, <1>4, AscendsExtend
  <2> HIDE DEF t
  <2>3. \A i, j \in 1..Len(Append(t, e)) : i < j => Append(t, e)[i].mv <= Append(t, e)[j].mv
    BY <1>4, <2>1, <2>2, AscendsExtend
  <2> QED BY <1>4, <2>3 DEF Ascends, t
<1>5. CASE log' = log
  BY <1>2, <1>5 DEF Ascends
<1>6. \/ log' = log
      \/ \E e \in Entry : mv <= e.mv /\ log' = Append(log, e)
      \/ \E d, e \in Entry : /\ mv <= d.mv /\ d.mv <= e.mv
                             /\ log' = Append(Append(log, d), e)
  <2>1. mv <= mv + 1 /\ mv <= mv /\ mv + 1 <= mv + 2
    BY <1>1
  <2>2. CASE Invocation
    <3>1. TypeOK
      BY DEF IInv
    <3> QED BY <2>1, <2>2, <3>1, InvocationAdds
  <2>3. CASE [Next]_vars
    <3>1. (log' = log) \/ Shape
      BY <2>3, StepShape DEF vars, IInv
    <3>2. CASE Enters \/ ChangesRole \/ Leaves \/ Updates \/ Dissolves
      BY <2>1, <3>2 DEF Enters, ChangesRole, Leaves, Updates, Dissolves
    <3>3. CASE HandsOver
      BY <2>1, <3>3 DEF HandsOver
    <3> QED BY <3>1, <3>2, <3>3 DEF Shape, Stays
  <2> QED BY <2>2, <2>3 DEF Roster
<1> QED BY <1>3, <1>4, <1>5, <1>6

-----------------------------------------------------------------------------
(* One session changes and perhaps the cache, nothing else.                *)
LEMMA OneSessionShows ==
  ASSUME FInv, SInv, UNCHANGED vars, NEW s \in Sessions, NEW t,
         session' = [session EXCEPT ![s] = t],
         Numbered(t.mailbox), t.query # None => Vouched(t.query),
         (t.live /\ t.subscribed) => cache' # None,
         cache # None => cache' # None,
         cache' # None => cache' \in Nat /\ Vouched(cache')
  PROVE  SInv'
<1>1. \A v : Vouched(v)' <=> Vouched(v)
  BY DEF Vouched, MemberAfter, About, vars
<1>2. Vouched(cache)' <=> Vouched(cache')
  BY DEF Vouched, MemberAfter, About, vars
<1>3. Ascends' /\ CacheVouched'
  BY <1>2 DEF SInv, Ascends, CacheVouched, vars
<1>4. \A r \in Sessions : session'[r] = IF r = s THEN t ELSE session[r]
  BY DEF FInv, FTypes
<1>5. ASSUME NEW r \in Sessions PROVE Shows(session[r])'
  <2> DEFINE x == session'[r]
  <2>1. /\ x.query # None => Vouched(x.query)
        /\ (x.live /\ x.subscribed) => cache' # None
        /\ Numbered(x.mailbox)
    BY <1>4 DEF SInv, Shows
  <2>2. Vouched(session[r].query)' <=> Vouched(x.query)
    BY DEF Vouched, MemberAfter, About, vars
  <2> QED BY <2>1, <2>2 DEF Shows, Numbered
<1> QED BY <1>3, <1>5 DEF SInv

LEMMA QueryShows == ASSUME FInv, SInv, NEW s \in Sessions, Query(s) PROVE SInv'
<1>1. PICK t : t = session[s]
  OBVIOUS
<1>2. t \in Session /\ Shows(t)
  BY <1>1 DEF FInv, FTypes, SInv
<1> DEFINE q == IF status = "active" /\ Active(UserOf[s]) THEN mv ELSE None
           x == [t EXCEPT !.step = "queried", !.query = q]
<1>3. session' = [session EXCEPT ![s] = x]
  BY <1>1 DEF Query, FInv, FTypes
<1>4. q \in Nat \cup {None}
  BY DEF FInv, IInv, TypeOK
<1>5. q # None => Vouched(q)
  <2>1. ASSUME Active(UserOf[s]) PROVE Vouched(mv)
    <3>1. IInv /\ Ascends
      BY DEF FInv, SInv
    <3>2. PICK i : i \in 1..Len(log)
      BY <3>1 DEF IInv, VersionsNumberChanges
    <3> QED BY <2>1, <3>1, <3>2, RowVouches
  <2> QED BY <2>1
<1> HIDE DEF q
<1>6. Fields(x, t.live, t.subscribed, t.subs, "queried", q, t.reply, t.mailbox, t.pushed,
             t.from, t.own, t.again)
  BY <1>2, <1>4, SessionUpdates
<1> HIDE DEF x
<1>7. /\ x.mailbox = t.mailbox /\ x.query = q
      /\ x.live = t.live /\ x.subscribed = t.subscribed
  BY <1>6 DEF Fields
<1>8. UNCHANGED vars /\ cache' = cache
  BY DEF Query
<1>9. cache # None => cache \in Nat /\ Vouched(cache)
  BY DEF SInv, CacheVouched
<1>10. Numbered(t.mailbox) /\ ((t.live /\ t.subscribed) => cache # None)
  BY <1>2 DEF Shows
<1> QED BY <1>3, <1>5, <1>7, <1>8, <1>9, <1>10, OneSessionShows

LEMMA RegisterShows == ASSUME FInv, SInv, NEW s \in Sessions, Register(s) PROVE SInv'
<1>1. PICK t : t = session[s]
  OBVIOUS
<1>2. t \in Session /\ Shows(t) /\ Registered(t)
  BY <1>1 DEF FInv, FTypes, SInv, Sound
<1> DEFINE n == IF t.query # None THEN t.subs + 1 ELSE t.subs
           f == IF t.subs = 0 THEN published ELSE t.from
           g == t.again \/ (t.query # None /\ t.subs # 0)
           x == [t EXCEPT !.step = "registered", !.subs = n, !.from = f, !.again = g]
<1>3. session' = [session EXCEPT ![s] = x] /\ UNCHANGED vars /\ cache' = cache
      /\ t.step = "queried"
  BY <1>1 DEF Register, FInv, FTypes
<1>4. t.subs \in Nat /\ t.subs < MaxSubs /\ published \in Nat /\ t.from \in Nat
  BY <1>2, <1>3, SessionFields DEF Registered, FInv, FTypes
<1>5. n \in 0..MaxSubs /\ f \in Nat /\ g \in BOOLEAN
  <2>1. g \in BOOLEAN
    BY <1>2, SessionFields
  <2> HIDE DEF g
  <2> QED BY <1>4, <2>1, FanoutAssumption
<1>6. Fields(x, t.live, t.subscribed, n, "registered", t.query, t.reply, t.mailbox, t.pushed,
             f, t.own, g)
  <2> HIDE DEF n, f, g
  <2> QED BY <1>2, <1>5, SessionUpdates
<1> HIDE DEF x, n, f, g
<1>7. /\ x.mailbox = t.mailbox /\ x.query = t.query
      /\ x.live = t.live /\ x.subscribed = t.subscribed
  BY <1>6 DEF Fields
<1>8. cache # None => cache \in Nat /\ Vouched(cache)
  BY DEF SInv, CacheVouched
<1>9. /\ Numbered(t.mailbox) /\ ((t.live /\ t.subscribed) => cache # None)
      /\ t.query # None => Vouched(t.query)
  BY <1>2 DEF Shows
<1> QED BY <1>3, <1>7, <1>8, <1>9, OneSessionShows

LEMMA GoLiveShows == ASSUME FInv, SInv, NEW s \in Sessions, GoLive(s) PROVE SInv'
<1>1. PICK t : t = session[s]
  OBVIOUS
<1>2. t \in Session /\ Shows(t)
  BY <1>1 DEF FInv, FTypes, SInv
<1> DEFINE n == IF t.query = None THEN 0 ELSE t.subs
           sb == t.query # None
           x == [t EXCEPT !.step = "idle", !.query = None, !.live = TRUE, !.subs = n,
                          !.subscribed = sb]
<1>3. session' = [session EXCEPT ![s] = x]
  BY <1>1 DEF GoLive, FInv, FTypes
<1>4. UNCHANGED vars /\ cache' = IF t.query # None THEN t.query ELSE cache
  BY <1>1 DEF GoLive
<1>5. Fields(x, TRUE, sb, n, "idle", None, t.reply, t.mailbox, t.pushed, t.from, t.own,
             t.again)
  <2>1. n \in 0..MaxSubs /\ sb \in BOOLEAN
    BY <1>2, SessionFields, FanoutAssumption
  <2> HIDE DEF n, sb
  <2> QED BY <1>2, <2>1, SessionUpdates
<1> HIDE DEF x
<1>6. x.mailbox = t.mailbox /\ x.query = None /\ (x.subscribed <=> t.query # None)
  <2> HIDE DEF n, sb
  <2>1. x.mailbox = t.mailbox /\ x.query = None /\ x.subscribed = sb
    BY <1>5 DEF Fields
  <2> QED BY <2>1 DEF sb
<1>7. cache # None => cache \in Nat /\ Vouched(cache)
  BY DEF SInv, CacheVouched
<1>8. /\ Numbered(t.mailbox)
      /\ t.query # None => Vouched(t.query) /\ t.query \in Nat
  BY <1>2, SessionFields DEF Shows
<1>9. cache' # None => cache' \in Nat /\ Vouched(cache')
  <2>1. CASE t.query # None
    <3>1. cache' = t.query
      BY <1>4, <2>1
    <3> QED BY <1>8, <2>1, <3>1
  <2>2. CASE t.query = None
    <3>1. cache' = cache
      BY <1>4, <2>2
    <3> QED BY <1>7, <3>1
  <2> QED BY <2>1, <2>2
<1> QED BY <1>3, <1>4, <1>6, <1>8, <1>9, OneSessionShows

LEMMA CloseShows == ASSUME FInv, SInv, NEW s \in Sessions, Close(s) PROVE SInv'
<1>1. session' = [session EXCEPT ![s] = Opened] /\ UNCHANGED vars /\ cache' = cache
  BY DEF Close
<1>2. Opened.query = None /\ Opened.live = FALSE /\ Numbered(Opened.mailbox)
  BY DEF Opened, Numbered
<1>3. cache # None => cache \in Nat /\ Vouched(cache)
  BY DEF SInv, CacheVouched
<1> QED BY <1>1, <1>2, <1>3, OneSessionShows

(* A frame that reaches the gate, and what the gate knows when it passes.  *)
LEMMA FrameFacts ==
  ASSUME FInv, SInv, NEW s \in Sessions, session[s].mailbox # <<>>
  PROVE  /\ Head(session[s].mailbox) \in 1..Len(log)
         /\ Numbered(Tail(session[s].mailbox))
<1> DEFINE m == session[s].mailbox
<1>1. session[s] \in Session /\ Orderly(session[s]) /\ Shows(session[s])
  BY DEF FInv, FTypes, SInv, Sound
<1>2. m \in Seq(Nat) /\ m # <<>>
  BY <1>1, SessionFields
<1>3. /\ \A b \in 1..Len(m) : m[b] <= published
      /\ \A b \in 1..Len(m) : m[b] >= 1
  BY <1>1 DEF Orderly, Shows, Numbered
<1>4. published \in Nat /\ published <= Len(log) /\ Len(log) \in Nat
  BY DEF FInv, FTypes, IInv, TypeOK
<1> HIDE DEF m
<1>5. /\ Len(m) \in Nat /\ Len(m) >= 1 /\ Len(Tail(m)) = Len(m) - 1 /\ Head(m) = m[1]
      /\ m[1] \in Nat
      /\ \A b \in 1..Len(Tail(m)) : Tail(m)[b] = m[b + 1] /\ b + 1 \in 1..Len(m)
  BY <1>2
<1>6. 1 \in 1..Len(m)
  BY <1>5
<1>7. Head(m) \in 1..Len(log)
  BY <1>3, <1>4, <1>5, <1>6
<1>8. Numbered(Tail(m))
  BY <1>3, <1>5 DEF Numbered
<1> QED BY <1>7, <1>8 DEF m

LEMMA HandleFrameShows ==
  ASSUME FInv, SInv, NEW s \in Sessions, HandleFrame(s) PROVE SInv'
<1>1. PICK t : t = session[s]
  OBVIOUS
<1>2. t \in Session /\ Shows(t)
  BY <1>1 DEF FInv, FTypes, SInv
<1> DEFINE i == Head(t.mailbox)
<1>3. PICK d : /\ d = Verdict(s, i)
               /\ session' = [session EXCEPT
                    ![s].mailbox = Tail(@),
                    ![s].pushed = IF d = "drop" THEN @ ELSE Append(@, i)]
               /\ cache' = IF d = "push" THEN Version(i) ELSE cache
  BY <1>1 DEF HandleFrame
<1>4. t.mailbox # <<>> /\ UNCHANGED vars
  BY <1>1 DEF HandleFrame
<1> DEFINE m == Tail(t.mailbox)
           p == IF d = "drop" THEN t.pushed ELSE Append(t.pushed, i)
           x == [t EXCEPT !.mailbox = m, !.pushed = p]
<1>5. session' = [session EXCEPT ![s] = x]
  BY <1>1, <1>3 DEF FInv, FTypes
<1>6. m \in Seq(Nat) /\ p \in Seq(Nat)
  <2>1. t.mailbox \in Seq(Nat) /\ t.pushed \in Seq(Nat)
    BY <1>2, SessionFields
  <2> QED BY <1>4, <2>1
<1>7. Fields(x, t.live, t.subscribed, t.subs, t.step, t.query, t.reply, m, p, t.from,
             t.own, t.again)
  <2> HIDE DEF m, p
  <2> QED BY <1>2, <1>6, SessionUpdates
<1>8. i \in 1..Len(log) /\ Numbered(m)
  BY <1>1, <1>4, FrameFacts
<1> HIDE DEF x, m, p
<1>9. /\ x.mailbox = m /\ x.query = t.query
      /\ x.live = t.live /\ x.subscribed = t.subscribed
  BY <1>7 DEF Fields
<1>10. cache # None => cache \in Nat /\ Vouched(cache)
  BY DEF SInv, CacheVouched
<1>11. /\ (t.live /\ t.subscribed) => cache # None
       /\ t.query # None => Vouched(t.query)
  BY <1>2 DEF Shows
<1>12. d = "push" => Version(i) \in Nat /\ Vouched(Version(i))
  <2> SUFFICES ASSUME d = "push" PROVE Version(i) \in Nat /\ Vouched(Version(i))
    OBVIOUS
  <2>1. Active(UserOf[s])
    BY <1>3 DEF Verdict, Gate
  <2>2. IInv /\ Ascends
    BY DEF FInv, SInv
  <2>3. Version(i) \in Nat
    BY <1>8, <2>2, EntryFields, ElementOfSeq DEF Version, IInv, TypeOK
  <2> HIDE DEF i
  <2> QED BY <1>8, <2>1, <2>2, <2>3, RowVouches DEF Version
<1> HIDE DEF i
<1>13. /\ cache' # None => cache' \in Nat /\ Vouched(cache')
       /\ cache # None => cache' # None
  <2>1. CASE d = "push"
    <3>1. cache' = Version(i)
      BY <1>3, <2>1
    <3>2. None \notin Nat
      BY MembershipAssumption
    <3> QED BY <1>12, <2>1, <3>1, <3>2
  <2>2. CASE d # "push"
    <3>1. cache' = cache
      BY <1>3, <2>2
    <3> QED BY <1>10, <3>1
  <2> QED BY <2>1, <2>2
<1> QED BY <1>4, <1>5, <1>8, <1>9, <1>11, <1>13, OneSessionShows

(* The sessions keep what they have, the timeline may grow.                *)
LEMMA RestShows ==
  ASSUME FInv, SInv, Roster, cache' = cache,
         \A r \in Sessions :
           /\ session'[r].query \in {None, session[r].query}
           /\ (session'[r].live /\ session'[r].subscribed)
                => (session[r].live /\ session[r].subscribed)
           /\ Numbered(session'[r].mailbox)
  PROVE  SInv'
<1>1. IInv /\ TypeOK /\ Ascends /\ CacheVouched
  BY DEF FInv, IInv, SInv
<1>2. Ascends'
  BY <1>1, StepAscends
<1>3. CacheVouched'
  <2>1. ASSUME cache # None PROVE Vouched(cache)' /\ cache \in Nat
    <3>1. PICK v : v = cache
      OBVIOUS
    <3>2. v \in Nat /\ Vouched(v)
      BY <1>1, <2>1, <3>1 DEF CacheVouched
    <3>3. Vouched(v)'
      BY <1>1, <3>2, VouchedStays
    <3> QED BY <3>1, <3>2, <3>3 DEF Vouched
  <2> QED BY <2>1 DEF CacheVouched
<1>4. ASSUME NEW r \in Sessions PROVE Shows(session[r])'
  <2>1. Shows(session[r])
    BY DEF SInv
  <2>2. session'[r].query # None => Vouched(session[r].query)'
    <3> SUFFICES ASSUME session'[r].query # None PROVE Vouched(session[r].query)'
      OBVIOUS
    <3>1. PICK v : v = session[r].query /\ v = session'[r].query
      OBVIOUS
    <3>2. Vouched(v)
      BY <2>1, <3>1 DEF Shows
    <3>3. Vouched(v)'
      BY <1>1, <3>2, VouchedStays
    <3> QED BY <3>1, <3>3 DEF Vouched
  <2>3. Numbered(session[r].mailbox)'
    BY DEF Numbered
  <2> QED BY <2>1, <2>2, <2>3 DEF Shows
<1> QED BY <1>2, <1>3, <1>4 DEF SInv

LEMMA BroadcastShows == ASSUME FInv, SInv, Broadcast PROVE SInv'
<1>1. Roster /\ cache' = cache /\ published \in Nat
  BY DEF Broadcast, FInv, FTypes, Roster
<1>2. ASSUME NEW r \in Sessions
      PROVE  /\ session'[r].query = session[r].query /\ session'[r].live = session[r].live
             /\ session'[r].subscribed = session[r].subscribed
             /\ Numbered(session'[r].mailbox)
  <2>1. PICK t : t = session[r]
    OBVIOUS
  <2>2. t \in Session /\ Shows(t)
    BY <2>1 DEF FInv, FTypes, SInv
  <2>3. CASE r = caller
    <3>1. session'[r] = t
      BY <2>1, <2>3 DEF Broadcast, Deliver
    <3> QED BY <2>1, <2>2, <3>1 DEF Shows
  <2>4. CASE r # caller
    <3>1. PICK i : i = published + 1 /\ i \in Nat /\ i >= 1
      BY <1>1
    <3>2. PICK c, q : c = [k \in 1..t.subs |-> i] /\ q = t.mailbox \o c
      OBVIOUS
    <3>3. session'[r] = Copied(t, c)
      BY <2>1, <2>4, <3>1, <3>2 DEF Broadcast, Deliver
    <3>4. /\ Lengthened(t, q, i)
          /\ Fields(Copied(t, c), t.live, t.subscribed, t.subs, t.step, t.query, t.reply, q,
                    t.pushed, t.from, t.own, t.again)
      BY <2>2, <3>1, <3>2, CopiedFields
    <3>5. Numbered(q)
      <4>1. \A b \in 1..Len(t.mailbox) : t.mailbox[b] >= 1
        BY <2>2 DEF Shows, Numbered
      <4>2. t.subs \in Nat
        BY <2>2, SessionFields
      <4>3. \A b \in 1..Len(q) : b \in 1..Len(t.mailbox) \/ b \in Len(t.mailbox) + 1..Len(q)
        BY <3>4, <4>2 DEF Lengthened, Grown
      <4> QED BY <3>1, <3>4, <4>1, <4>3 DEF Numbered, Lengthened, Grown
    <3> QED BY <2>1, <3>3, <3>4, <3>5 DEF Fields
  <2> QED BY <2>3, <2>4
<1> QED BY <1>1, <1>2, RestShows

LEMMA WriterCrashShows == ASSUME FInv, SInv, WriterCrash PROVE SInv'
<1>1. /\ Roster /\ cache' = cache
      /\ \A r \in Sessions : session'[r] = IF r = caller THEN Opened ELSE session[r]
  BY DEF WriterCrash, Roster
<1>2. Opened.query = None /\ Opened.live = FALSE /\ Numbered(Opened.mailbox)
  BY DEF Opened, Numbered
<1>3. \A r \in Sessions : Numbered(session[r].mailbox)
  BY DEF SInv, Shows
<1> QED BY <1>1, <1>2, <1>3, RestShows

LEMMA InvokeShows == ASSUME FInv, SInv, NEW s \in Sessions, Invoke(s) PROVE SInv'
<1>1. PICK t : t = session[s]
  OBVIOUS
<1>2. t \in Session /\ Shows(t) /\ Len(log) \in Nat
  BY <1>1 DEF FInv, FTypes, SInv, IInv, TypeOK
<1>3. PICK o, n : o = t.own \cup {Len(log) + 1, Len(log) + 2} /\ n = Len(log) + 1
  OBVIOUS
<1>4. o \in SUBSET Nat /\ n \in Nat
  BY <1>2, <1>3, SessionFields
<1>5. PICK x : x = [t EXCEPT !.step = "calling", !.reply = n, !.own = o]
  OBVIOUS
<1>6. session' = [session EXCEPT ![s] = x] /\ Roster /\ cache' = cache
  BY <1>1, <1>3, <1>5, FanoutAssumption DEF Invoke, FInv, FTypes, Roster, Invocation
<1>7. Fields(x, t.live, t.subscribed, t.subs, "calling", t.query, n, t.mailbox,
             t.pushed, t.from, o, t.again)
  BY <1>2, <1>4, <1>5, SessionUpdates
<1>8. /\ x.query = t.query /\ x.live = t.live /\ x.subscribed = t.subscribed
      /\ x.mailbox = t.mailbox
  BY <1>7 DEF Fields
<1>9. \A r \in Sessions : session'[r] = IF r = s THEN x ELSE session[r]
  BY <1>6 DEF FInv, FTypes
<1>10. \A r \in Sessions : Numbered(session[r].mailbox)
  BY DEF SInv, Shows
<1> QED BY <1>1, <1>6, <1>8, <1>9, <1>10, RestShows

LEMMA AnswerShows == ASSUME FInv, SInv, NEW s \in Sessions, Answer(s) PROVE SInv'
<1>1. PICK t : t = session[s]
  OBVIOUS
<1>2. t \in Session /\ t.pushed \in Seq(Nat) /\ t.reply \in Nat /\ t.reply + 1 \in Nat
  BY <1>1, SessionFields DEF FInv, FTypes
<1>3. PICK q : q = Append(Append(t.pushed, t.reply), t.reply + 1)
  OBVIOUS
<1>4. q \in Seq(Nat)
  <2>1. PICK p, i, j : p = t.pushed /\ i = t.reply /\ j = t.reply + 1
    OBVIOUS
  <2>2. p \in Seq(Nat) /\ i \in Nat /\ j \in Nat /\ q = Append(Append(p, i), j)
    BY <1>2, <1>3, <2>1
  <2> QED BY <2>2, TwoMore
<1>5. PICK x : x = [t EXCEPT !.step = "idle", !.reply = 0, !.pushed = q]
  OBVIOUS
<1>6. session' = [session EXCEPT ![s] = x] /\ Roster /\ cache' = cache
  BY <1>1, <1>3, <1>5 DEF Answer, FInv, FTypes, Roster
<1>7. Fields(x, t.live, t.subscribed, t.subs, "idle", t.query, 0, t.mailbox, q,
             t.from, t.own, t.again)
  BY <1>2, <1>4, <1>5, SessionUpdates
<1>8. /\ x.query = t.query /\ x.live = t.live /\ x.subscribed = t.subscribed
      /\ x.mailbox = t.mailbox
  BY <1>7 DEF Fields
<1>9. \A r \in Sessions : session'[r] = IF r = s THEN x ELSE session[r]
  BY <1>6 DEF FInv, FTypes
<1>10. \A r \in Sessions : Numbered(session[r].mailbox)
  BY DEF SInv, Shows
<1> QED BY <1>1, <1>6, <1>8, <1>9, <1>10, RestShows

LEMMA ShowsStarts == FanoutInit => SInv
<1> SUFFICES ASSUME FanoutInit PROVE SInv
  OBVIOUS
<1>1. Ascends /\ cache = None /\ \A s \in Sessions : session[s] = Opened
  BY InitAscends DEF FanoutInit
<1>2. Opened.query = None /\ Opened.live = FALSE /\ Numbered(Opened.mailbox)
  BY DEF Opened, Numbered
<1> QED BY <1>1, <1>2 DEF SInv, CacheVouched, Shows

LEMMA ShowsStays == FInv /\ SInv /\ [FanoutNext]_fvars => SInv'
<1> SUFFICES ASSUME FInv, SInv, [FanoutNext]_fvars PROVE SInv'
  OBVIOUS
<1>1. Roster
  BY FanoutIsRoster
<1>2. ASSUME cache' = cache, session' = session PROVE SInv'
  <2>1. \A r \in Sessions : Numbered(session'[r].mailbox)
    BY <1>2 DEF SInv, Shows
  <2> QED BY <1>1, <1>2, <2>1, RestShows
<1>3. CASE Command \/ UNCHANGED fvars
  BY <1>2, <1>3 DEF Command, fvars, fanout
<1>4. ASSUME NEW u \in Users, InvokeElsewhere(u) PROVE SInv'
  BY <1>2, <1>4 DEF InvokeElsewhere, fanout
<1> QED BY <1>3, <1>4, BroadcastShows, WriterCrashShows, InvokeShows, AnswerShows, QueryShows,
           RegisterShows, GoLiveShows, HandleFrameShows, CloseShows DEF FanoutNext

-----------------------------------------------------------------------------
(* Only a frame that passes the gate and a reply lengthen what a session   *)
(* was pushed.                                                             *)
LEMMA OnlyFramesPush ==
  ASSUME FInv, FanoutNext, NEW s \in Sessions,
         Len(session'[s].pushed) > Len(session[s].pushed)
  PROVE  HandleFrame(s) \/ Answer(s)
<1> DEFINE p == session[s].pushed
<1>1. session[s] \in Session /\ session \in [Sessions -> Session] /\ p \in Seq(Nat)
  BY SessionFields DEF FInv, FTypes
<1>2. Len(p) \in Nat
  BY <1>1
<1>3. ASSUME session'[s].pushed = p PROVE FALSE
  BY <1>2, <1>3
<1>4. ASSUME session'[s] = Opened PROVE FALSE
  <2>1. Len(Opened.pushed) = 0
    BY DEF Opened
  <2> QED BY <1>2, <1>4, <2>1
<1>5. ~Command /\ ~WriterCrash
  BY <1>3, <1>4 DEF Command, WriterCrash, fanout
<1>6. ASSUME NEW u \in Users, InvokeElsewhere(u) PROVE FALSE
  BY <1>3, <1>6 DEF InvokeElsewhere, fanout
<1>7. ~Broadcast
  <2> SUFFICES ASSUME Broadcast PROVE FALSE
    OBVIOUS
  <2> DEFINE q == session[s].mailbox \o [k \in 1..session[s].subs |-> published + 1]
  <2>1. session'[s] = session[s] \/ session'[s] = [session[s] EXCEPT !.mailbox = q]
    BY DEF Broadcast, Deliver, Copied
  <2> HIDE DEF q
  <2>2. session'[s].pushed = p
    BY <1>1, <2>1 DEF Session
  <2> QED BY <1>3, <2>2
<1>8. ASSUME NEW r \in Sessions, Query(r) \/ Register(r) \/ GoLive(r) \/ Invoke(r) PROVE FALSE
  <2>1. CASE Query(r)
    BY <1>1, <1>3, <2>1 DEF Query, Session
  <2>2. CASE Register(r)
    BY <1>1, <1>3, <2>2 DEF Register, Session
  <2>3. CASE GoLive(r)
    BY <1>1, <1>3, <2>3 DEF GoLive, Session
  <2>4. CASE Invoke(r)
    BY <1>1, <1>3, <2>4 DEF Invoke, Session
  <2> QED BY <1>8, <2>1, <2>2, <2>3, <2>4
<1>9. ASSUME NEW r \in Sessions, Close(r) PROVE FALSE
  <2>1. session'[s] = IF s = r THEN Opened ELSE session[s]
    BY <1>1, <1>9 DEF Close
  <2> QED BY <1>3, <1>4, <2>1
<1>10. ASSUME NEW r \in Sessions, HandleFrame(r) \/ Answer(r), r # s PROVE FALSE
  <2>1. session'[s] = session[s]
    BY <1>1, <1>10 DEF HandleFrame, Answer
  <2> QED BY <1>3, <2>1
<1> QED BY <1>5, <1>6, <1>7, <1>8, <1>9, <1>10 DEF FanoutNext

(* The frames of a reply are those of the session's own invocation.        *)
LEMMA ReplyIsOwn ==
  ASSUME FInv, NEW s \in Sessions, Answer(s)
  PROVE  LET q == session'[s].pushed IN log[q[Len(q)]].kind \in Artifacts
<1>1. PICK t : t = session[s]
  OBVIOUS
<1>2. t \in Session /\ Calling(t, caller, s) /\ t.step = "calling"
  BY <1>1 DEF FInv, FTypes, Sound, Answer
<1>3. PICK p, i, j : p = t.pushed /\ i = t.reply /\ j = t.reply + 1
  OBVIOUS
<1>4. p \in Seq(Nat) /\ i \in Nat /\ j \in Nat
  BY <1>2, <1>3, SessionFields
<1>5. session'[s].pushed = Append(Append(p, i), j)
  BY <1>1, <1>2, <1>3 DEF Answer, FInv, FTypes, Session
<1>6. LET q == session'[s].pushed IN q[Len(q)] = j
  BY <1>4, <1>5, TwoMore
<1>7. log[j].kind \in Artifacts
  BY <1>2, <1>3 DEF Calling, Held
<1> QED BY <1>6, <1>7

(* A frame that passed the gate is one somebody here was a member for.     *)
LEMMA PassedIsVouched ==
  ASSUME FInv, SInv, NEW s \in Sessions, HandleFrame(s),
         Len(session'[s].pushed) > Len(session[s].pushed)
  PROVE  LET q == session'[s].pushed IN
           \/ log[q[Len(q)]].kind \in Artifacts
           \/ \E j \in q[Len(q)]..Len(log), r \in Sessions : MemberAfter(UserOf[r], j)
<1>1. PICK t : t = session[s]
  OBVIOUS
<1>2. t \in Session /\ Shows(t) /\ t.pushed \in Seq(Nat) /\ Len(t.pushed) \in Nat
  BY <1>1, SessionFields DEF FInv, FTypes, SInv
<1> DEFINE i == Head(t.mailbox)
<1>3. PICK d : /\ d = Verdict(s, i)
               /\ session' = [session EXCEPT
                    ![s].mailbox = Tail(@),
                    ![s].pushed = IF d = "drop" THEN @ ELSE Append(@, i)]
  BY <1>1 DEF HandleFrame
<1>4. t.mailbox # <<>>
  BY <1>1 DEF HandleFrame
<1>5. i \in 1..Len(log)
  BY <1>1, <1>4, FrameFacts
<1>6. session'[s].pushed = IF d = "drop" THEN t.pushed ELSE Append(t.pushed, i)
  BY <1>1, <1>2, <1>3 DEF FInv, FTypes, Session
<1>7. d # "drop"
  BY <1>1, <1>2, <1>6
<1>8. session'[s].pushed = Append(t.pushed, i)
  BY <1>6, <1>7
<1>9. session'[s].pushed[Len(session'[s].pushed)] = i
  <2> HIDE DEF i
  <2> QED BY <1>2, <1>5, <1>8
<1> SUFFICES ASSUME log[i].kind \notin Artifacts
             PROVE  \E j \in i..Len(log), r \in Sessions : MemberAfter(UserOf[r], j)
  BY <1>9
<1>10. t.live /\ t.subscribed /\ d = Gate(s, i)
  BY <1>1, <1>3, <1>7 DEF Verdict
<1>11. cache # None /\ cache \in Nat /\ Vouched(cache)
  BY <1>2, <1>10 DEF Shows, SInv, CacheVouched
<1>12. IInv /\ TypeOK /\ RosterFromTimeline /\ VersionsNumberChanges /\ Ascends
       /\ UserOf[s] \in Users
  BY FanoutAssumption DEF FInv, IInv, SInv
<1> HIDE DEF i
<1>13. Len(log) \in Nat /\ \A k \in 1..Len(log) : log[k].mv \in Nat
  BY <1>12, EntryFields, ElementOfSeq DEF TypeOK
<1>14. CASE Active(UserOf[s])
  <2>1. Len(log) \in i..Len(log) /\ MemberAfter(UserOf[s], Len(log))
    BY <1>5, <1>12, <1>13, <1>14, RowIsStanding
  <2> QED BY <2>1
<1>15. CASE ~Active(UserOf[s])
  <2>1. cache >= Version(i)
    BY <1>7, <1>10, <1>11, <1>15 DEF Gate
  <2>2. PICK n \in 1..Len(log), r \in Sessions :
          MemberAfter(UserOf[r], n) /\ cache <= log[n].mv
    BY <1>11 DEF Vouched
  <2>3. log[i].mv <= log[n].mv
    BY <1>5, <1>11, <1>13, <2>1, <2>2 DEF Version
  <2>4. CASE i <= n
    <3>1. n \in i..Len(log)
      BY <1>5, <1>13, <2>4
    <3> QED BY <2>2, <3>1
  <2>5. CASE n <= i
    <3>1. i \in i..Len(log)
      BY <1>5, <1>13
    <3>2. MemberAfter(UserOf[r], i)
      BY <1>5, <1>12, <2>2, <2>3, <2>5, StandingCarries
    <3> QED BY <3>1, <3>2
  <2> QED BY <1>5, <1>13, <2>4, <2>5
<1> QED BY <1>14, <1>15

LEMMA EveryPushIsVouched ==
  ASSUME FInv, SInv, [FanoutNext]_fvars, NEW s \in Sessions,
         Len(session'[s].pushed) > Len(session[s].pushed)
  PROVE  LET q == session'[s].pushed IN
           \/ log[q[Len(q)]].kind \in Artifacts
           \/ \E j \in q[Len(q)]..Len(log), r \in Sessions : MemberAfter(UserOf[r], j)
<1>1. CASE FanoutNext
  <2>1. HandleFrame(s) \/ Answer(s)
    BY <1>1, OnlyFramesPush
  <2> QED BY <2>1, PassedIsVouched, ReplyIsOwn
<1>2. CASE UNCHANGED fvars
  <2>1. session[s].pushed \in Seq(Nat)
    BY SessionFields DEF FInv, FTypes
  <2>2. Len(session[s].pushed) \in Nat /\ session' = session
    BY <1>2, <2>1 DEF fvars, fanout
  <2> QED BY <2>2
<1> QED BY <1>1, <1>2

(* For any users of the sessions: the gate lets no frame of a channel      *)
(* through on a node where nobody with a session has been a member since   *)
(* the event, however stale the cache all of them share.                   *)
THEOREM PushesAreVouched == FanoutSpec => ShownWhereMembersAre
<1> DEFINE A == \A s \in Sessions : LET p == session[s].pushed  q == session'[s].pushed IN
                  (Len(q) > Len(p) /\ log[q[Len(q)]].kind \notin Artifacts) =>
                    \E j \in q[Len(q)]..Len(log), r \in Sessions : MemberAfter(UserOf[r], j)
<1>1. FInv /\ SInv /\ [FanoutNext]_fvars => [A]_fvars
  BY EveryPushIsVouched
<1> QED BY <1>1, FanoutStarts, FanoutStays, ShowsStarts, ShowsStays, PTL
        DEF FanoutSpec, ShownWhereMembersAre
=============================================================================
