--------------------------- MODULE ChannelWriter ---------------------------
(***************************************************************************)
(* The single writer process of one channel (LiliumChat.Channel): it       *)
(* serialises the write commands of the channel, allocates their event ids *)
(* from an in-process counter, commits events and idempotency rows in one  *)
(* Postgres transaction, broadcasts the committed frames and replies.  It  *)
(* can die between any two of these steps; the next caller starts a new    *)
(* one, which recovers the counter from the newest stored event.           *)
(*                                                                         *)
(* Commands: channel.create, message.send, channel.dissolve, the start ack *)
(* of a command session and the session closes (timers, backlog overflow). *)
(* Who is a member is fixed here; ChannelMembership lets it change.        *)
(***************************************************************************)
EXTENDS EventIds, FiniteSets

CONSTANTS
  Users,         \* the principals that issue commands
  Members,       \* the users that are active members of the channel
  Owner,         \* the member who creates and may dissolve the channel
  Keys,          \* the command ids a user picks from
  Bodies,        \* what the request hash of message.send tells apart
  None,          \* no user, no key, no body
  TTL,           \* lifetime of an idempotency row (24 h in the code)
  MaxPending,    \* inputs a session may have pending (1000 in the code)
  Ops,           \* bound: the commands the callers issue
  MaxMs,         \* bound: the clock's last value
  MaxInbox       \* bound: the writer's mailbox

ASSUME ConstantsAssumption ==
  /\ Owner \in Members /\ Members \subseteq Users
  /\ None \notin Users \cup Keys \cup Bodies
  /\ Ops \subseteq {"send", "dissolve"}
  /\ TTL \in Nat /\ MaxMs \in Nat /\ MaxPending \in Nat /\ MaxInbox \in Nat

VARIABLES
  now,        \* the wall clock in ms; NTP may step it back
  up,         \* the writer process is registered and alive
  seq,        \* the writer's in-memory counter
  inbox,      \* calls in its mailbox, oldest first
  work,       \* the call it is executing and how far it has got
  waiting,    \* the users blocked in GenServer.call
  status,     \* chat_v2.channels.status; "absent" before the create commits
  session,    \* the channel's stateful session and its pending inputs
  log,        \* chat_v2.events in commit order
  idem,       \* chat_v2.idempotency by (principal, operation, key)
  published   \* ghost: id of the newest frame broadcast

procVars == <<up, seq, inbox, work, waiting>>
dbVars   == <<status, session, log, idem>>
vars     == <<now, procVars, dbVars, published>>

Scope == [user : Users, op : {"create", "send", "dissolve"}, key : Keys]
Call  == [scope : Scope, body : Bodies \cup {None}, live : BOOLEAN]
Event == [id : SeqState, kind : {"channel.created", "system.notice", "message.created",
                                 "channel.dissolved", "stateful_session.started",
                                 "channel.pin.set", "stateful_session.closed",
                                 "channel.pin.cleared", "command.binding_updated"},
          scope : Scope \cup {None}, body : Bodies \cup {None}, at : Nat]
Row   == [body : Bodies \cup {None}, ids : Seq(SeqState), expires : Nat]
Work  == [phase : {"idle", "planned", "enqueue", "publish"},
          call : Call \cup {None}, at : Nat, frames : Seq(SeqState),
          next : SeqState, ok : BOOLEAN, ids : Seq(SeqState)]
Session == [status : {"none", "starting", "active", "closed"}, pending : Nat]

NoRow == [body |-> None, ids |-> <<>>, expires |-> 0]

Idle == [phase |-> "idle", call |-> None, at |-> 0, frames |-> <<>>,
         next |-> EmptySeq, ok |-> FALSE, ids |-> <<>>]

-----------------------------------------------------------------------------
(* Idempotency.check/5 at time now, and write_completed/6: the upsert only *)
(* overwrites a row that is dead by the same predicate.                    *)

Live(scope) == idem[scope].expires > now

\* Mutant: the request hash is not compared.
CheckKeyOnly(call) == IF Live(call.scope) THEN "cached" ELSE "missing"

Check(call) ==
  IF ~Live(call.scope) THEN "missing"
  ELSE IF idem[call.scope].body = call.body THEN "cached" ELSE "conflict"

WriteCompleted(call, ids) ==
  idem' = [idem EXCEPT ![call.scope] =
             IF Live(call.scope) THEN @
             ELSE [body |-> call.body, ids |-> ids, expires |-> now + TTL]]

-----------------------------------------------------------------------------
(* Callers.  The 30 s call timeout only ends the wait: the message stays   *)
(* in the mailbox and the writer still executes it, maybe next to a retry. *)

\* The create route mints a channel id, so its call is this writer's first.
CreateCall(k) == [scope |-> [user |-> Owner, op |-> "create", key |-> k],
                  body |-> None, live |-> TRUE]

OwnEvent(id, kind) == [id |-> id, kind |-> kind, scope |-> None, body |-> None, at |-> now]

InitFresh ==
  /\ up = TRUE /\ \E k \in Keys : inbox = <<CreateCall(k)>>
  /\ waiting = {Owner} /\ status = "absent" /\ log = <<>>
  /\ session = [status |-> "none", pending |-> 0]

\* A channel created before the run (its idempotency row has expired), with
\* a command session a bot has yet to ack; the writer is started lazily.
InitExisting ==
  /\ up = FALSE /\ inbox = <<>> /\ waiting = {} /\ status = "active"
  /\ log = <<OwnEvent(EmptySeq, "channel.created"),
             OwnEvent(NextSeq(EmptySeq, 0), "system.notice")>>
  /\ session = [status |-> "starting", pending |-> 0]

Init ==
  /\ now = 0 /\ seq = EmptySeq /\ work = Idle
  /\ InitFresh \/ InitExisting
  /\ idem = [s \in Scope |-> NoRow]
  /\ published = EmptySeq

Issue(u, op, k, b) ==
  /\ up /\ u \notin waiting /\ op \in Ops /\ Len(inbox) < MaxInbox
  /\ op = "send" => b # None
  /\ op = "dissolve" => b = None
  /\ inbox' = Append(inbox, [scope |-> [user |-> u, op |-> op, key |-> k],
                             body |-> b, live |-> TRUE])
  /\ waiting' = waiting \cup {u}
  /\ UNCHANGED <<now, up, seq, work, dbVars, published>>

Abandon(c, u) == IF c.scope.user = u THEN [c EXCEPT !.live = FALSE] ELSE c

GiveUp(u) ==
  /\ u \in waiting
  /\ waiting' = waiting \ {u}
  /\ inbox' = [i \in 1..Len(inbox) |-> Abandon(inbox[i], u)]
  /\ work' = IF work.call = None THEN work ELSE [work EXCEPT !.call = Abandon(@, u)]
  /\ UNCHANGED <<now, up, seq, dbVars, published>>

-----------------------------------------------------------------------------
(* The process: ensure_started/1 and init/1, its death, the clock.         *)

\* Mutant: the restarted writer seeds the counter at zero.
RecoverSeqZero == seq' = EmptySeq

RecoverSeq ==
  \/ log = <<>> /\ seq' = EmptySeq
  \/ \E m \in 1..Len(log) :
       /\ \A i \in 1..Len(log) : AtOrBefore(log[i].id, log[m].id)
       /\ seq' = ParseMonotonic(FormatId(log[m].id))

Start ==
  /\ ~up /\ up' = TRUE
  /\ RecoverSeq
  /\ UNCHANGED <<now, inbox, work, waiting, dbVars, published>>

Crash ==
  /\ up /\ up' = FALSE
  /\ inbox' = <<>> /\ work' = Idle /\ waiting' = {}
  /\ UNCHANGED <<now, seq, dbVars, published>>

Tick ==
  /\ \E t \in 0..MaxMs : t # now /\ now' = t
  /\ UNCHANGED <<procVars, dbVars, published>>

-----------------------------------------------------------------------------
(* One call.  Begin is what runs before the transaction: gates, the cheap  *)
(* idempotency check, and the clock reading the ids are allocated from.    *)

Finish(ok, ids) ==
  work' = [work EXCEPT !.phase = "publish", !.ok = ok, !.ids = ids, !.next = seq]

Begin ==
  /\ up /\ work.phase = "idle" /\ inbox # <<>>
  /\ inbox' = Tail(inbox)
  /\ LET call == Head(inbox)
         taken == [Idle EXCEPT !.phase = "planned", !.call = call, !.at = now]
         gated == \/ call.scope.op # "create" /\ status = "absent"
                  \/ call.scope.op = "send" /\ call.scope.user \notin Members
     IN work' = IF gated
                  THEN [taken EXCEPT !.phase = "publish", !.next = seq]
                ELSE IF Check(call) = "cached"
                  THEN [taken EXCEPT !.phase = "publish", !.next = seq, !.ok = TRUE,
                                     !.ids = idem[call.scope].ids]
                ELSE taken
  /\ UNCHANGED <<now, up, seq, waiting, dbVars, published>>

NewEvent(id, kind) ==
  [id |-> id, kind |-> kind, scope |-> work.call.scope, body |-> work.call.body, at |-> now]

First  == NextSeq(seq, work.at)
Second == NextSeq(First, work.at)

(* The in-transaction re-check ends most calls that the pre-check let by.  *)
Replay ==
  /\ up /\ work.phase = "planned"
  /\ work.call.scope.op = "send" => status # "dissolved"
  /\ Check(work.call) = "cached"
  /\ Finish(TRUE, idem[work.call.scope].ids)
  /\ UNCHANGED <<now, up, seq, inbox, waiting, dbVars, published>>

Refuse ==
  /\ up /\ work.phase = "planned"
  /\ \/ work.call.scope.op = "send" /\ status = "dissolved"
     \/ Check(work.call) = "conflict"
     \/ /\ work.call.scope.op = "dissolve" /\ Check(work.call) = "missing"
        /\ status = "active" /\ work.call.scope.user # Owner
  /\ Finish(FALSE, <<>>)
  /\ UNCHANGED <<now, up, seq, inbox, waiting, dbVars, published>>

\* Mutant: the idempotency row is not part of the send's transaction.
CommitSendUnrecorded ==
  /\ up /\ work.phase = "planned" /\ work.call.scope.op = "send"
  /\ status # "dissolved" /\ Check(work.call) = "missing"
  /\ log' = Append(log, NewEvent(First, "message.created"))
  /\ work' = [work EXCEPT !.phase = "enqueue", !.frames = <<First>>,
                          !.next = First, !.ok = TRUE, !.ids = <<First>>]
  /\ UNCHANGED <<now, up, seq, inbox, waiting, status, session, idem, published>>

\* Mutant: the status is trusted from before the transaction.
CommitSendUngated ==
  /\ up /\ work.phase = "planned" /\ work.call.scope.op = "send"
  /\ Check(work.call) = "missing"
  /\ log' = Append(log, NewEvent(First, "message.created"))
  /\ WriteCompleted(work.call, <<First>>)
  /\ work' = [work EXCEPT !.phase = "enqueue", !.frames = <<First>>,
                          !.next = First, !.ok = TRUE, !.ids = <<First>>]
  /\ UNCHANGED <<now, up, seq, inbox, waiting, status, session, published>>

CommitSend ==
  /\ up /\ work.phase = "planned" /\ work.call.scope.op = "send"
  /\ status # "dissolved" /\ Check(work.call) = "missing"
  /\ log' = Append(log, NewEvent(First, "message.created"))
  /\ WriteCompleted(work.call, <<First>>)
  /\ work' = [work EXCEPT !.phase = "enqueue", !.frames = <<First>>,
                          !.next = First, !.ok = TRUE, !.ids = <<First>>]
  /\ UNCHANGED <<now, up, seq, inbox, waiting, status, session, published>>

CommitPair(op, kind, newStatus) ==
  /\ up /\ work.phase = "planned" /\ work.call.scope.op = op
  /\ Check(work.call) = "missing"
  /\ log' = Append(Append(log, NewEvent(First, kind)), NewEvent(Second, "system.notice"))
  /\ status' = newStatus
  /\ WriteCompleted(work.call, <<First, Second>>)
  /\ work' = [work EXCEPT !.phase = "publish", !.frames = <<First, Second>>,
                          !.next = Second, !.ok = TRUE, !.ids = <<First, Second>>]
  /\ UNCHANGED <<now, up, seq, inbox, waiting, session, published>>

CommitCreate == CommitPair("create", "channel.created", "active")

CommitDissolve ==
  /\ work.phase = "planned" /\ status = "active" /\ work.call.scope.user = Owner
  /\ CommitPair("dissolve", "channel.dissolved", "dissolved")

(* A dissolve of a dissolved channel records the tombstone under its key.  *)
CommitTombstone ==
  /\ up /\ work.phase = "planned" /\ work.call.scope.op = "dissolve"
  /\ status = "dissolved" /\ Check(work.call) = "missing"
  /\ WriteCompleted(work.call, <<>>)
  /\ Finish(TRUE, <<>>)
  /\ UNCHANGED <<now, up, seq, inbox, waiting, status, session, log, published>>

-----------------------------------------------------------------------------
(* Sessions.  The start ack allocates its second id one millisecond ahead. *)

StartAck ==
  /\ up /\ work.phase = "idle" /\ session.status = "starting"
  /\ session' = [session EXCEPT !.status = "active"]
  /\ LET a == NextSeq(seq, now)
         b == NextSeq(a, now + 1)
     IN /\ log' = Append(Append(log, OwnEvent(a, "stateful_session.started")),
                             OwnEvent(b, "channel.pin.set"))
        /\ work' = [Idle EXCEPT !.phase = "publish", !.frames = <<a, b>>, !.next = b]
  /\ UNCHANGED <<now, up, seq, inbox, waiting, status, idem, published>>

(* StatefulSessions.close/4: a transaction of its own, from the counter    *)
(* the caller hands it; nothing happens when the session is terminal.  An  *)
(* active session also has the session_control pin to clear.               *)
CloseSession(from, frames) ==
  LET a == NextSeq(from, now)
      b == NextSeq(a, now)
  IN /\ session' = [session EXCEPT !.status = "closed"]
     /\ IF session.status = "active"
          THEN /\ log' = Append(Append(log, OwnEvent(a, "stateful_session.closed")),
                                   OwnEvent(b, "channel.pin.cleared"))
               /\ work' = [work EXCEPT !.phase = "publish", !.frames = frames \o <<a, b>>,
                                       !.next = b]
          ELSE /\ log' = Append(log, OwnEvent(a, "stateful_session.closed"))
               /\ work' = [work EXCEPT !.phase = "publish", !.frames = frames \o <<a>>,
                                       !.next = a]

\* Mutant: a terminal session is closed again.
OpenOnceStarted == session.status # "none"

\* The session row's guard in close/4 and in the timer handlers.
Open == session.status \in {"starting", "active"}

(* After a committed send: no listening session, the input stored, the     *)
(* backlog overflowing (which closes the session), or a database error     *)
(* that is rescued.                                                        *)
EnqueueNothing ==
  /\ up /\ work.phase = "enqueue"
  /\ work' = [work EXCEPT !.phase = "publish"]
  /\ UNCHANGED <<now, up, seq, inbox, waiting, dbVars, published>>

EnqueueInput ==
  /\ up /\ work.phase = "enqueue"
  /\ session.status = "active" /\ session.pending <= MaxPending
  /\ session' = [session EXCEPT !.pending = @ + 1]
  /\ work' = [work EXCEPT !.phase = "publish"]
  /\ UNCHANGED <<now, up, seq, inbox, waiting, status, log, idem, published>>

EnqueueOverflow ==
  /\ up /\ work.phase = "enqueue"
  /\ session.status = "active" /\ session.pending > MaxPending
  /\ CloseSession(work.next, work.frames)
  /\ UNCHANGED <<now, up, seq, inbox, waiting, status, idem, published>>

(* A start, grace or expiry timer found in the mailbox between two calls.  *)
SessionTimer ==
  /\ up /\ work.phase = "idle" /\ Open
  /\ CloseSession(seq, <<>>)
  /\ UNCHANGED <<now, up, seq, inbox, waiting, status, idem, published>>

-----------------------------------------------------------------------------
(* After the commit: the frames one by one, then the reply.                *)

\* Mutant: the newest frame of a command leaves first.
PublishNewestFirst ==
  /\ up /\ work.phase = "publish" /\ work.frames # <<>>
  /\ published' = work.frames[Len(work.frames)]
  /\ work' = [work EXCEPT !.frames = SubSeq(@, 1, Len(@) - 1)]
  /\ UNCHANGED <<now, up, seq, inbox, waiting, dbVars>>

Publish ==
  /\ up /\ work.phase = "publish" /\ work.frames # <<>>
  /\ published' = Head(work.frames)
  /\ work' = [work EXCEPT !.frames = Tail(@)]
  /\ UNCHANGED <<now, up, seq, inbox, waiting, dbVars>>

\* Mutant: a refused command is not answered.
ReplyOnSuccess ==
  /\ up /\ work.phase = "publish" /\ work.frames = <<>>
  /\ seq' = work.next
  /\ work' = Idle
  /\ waiting' = IF work.call # None /\ work.call.live /\ work.ok
                  THEN waiting \ {work.call.scope.user} ELSE waiting
  /\ UNCHANGED <<now, up, inbox, dbVars, published>>

Reply ==
  /\ up /\ work.phase = "publish" /\ work.frames = <<>>
  /\ seq' = work.next
  /\ work' = Idle
  /\ waiting' = IF work.call # None /\ work.call.live
                  THEN waiting \ {work.call.scope.user} ELSE waiting
  /\ UNCHANGED <<now, up, inbox, dbVars, published>>

-----------------------------------------------------------------------------
Commit  == CommitSend \/ CommitCreate \/ CommitDissolve \/ CommitTombstone
Enqueue == EnqueueNothing \/ EnqueueInput \/ EnqueueOverflow

WriterStep == Begin \/ Replay \/ Refuse \/ Commit \/ Enqueue \/ Publish \/ Reply

Next ==
  \/ \E u \in Users, op \in {"send", "dissolve"}, k \in Keys, b \in Bodies \cup {None} :
       Issue(u, op, k, b)
  \/ \E u \in Users : GiveUp(u)
  \/ Start \/ Crash \/ Tick
  \/ WriterStep \/ StartAck \/ SessionTimer

Spec == Init /\ [][Next]_vars

(* The BEAM schedules a process that has mail; nothing makes callers,      *)
(* timers, crashes or the clock move.                                      *)
FairSpec == Spec /\ WF_vars(WriterStep)

-----------------------------------------------------------------------------
TypeOK ==
  /\ now \in Nat /\ up \in BOOLEAN /\ seq \in SeqState
  /\ inbox \in Seq(Call) /\ work \in Work /\ waiting \subseteq Users
  /\ status \in {"absent", "active", "dissolved"}
  /\ session \in Session
  /\ log \in Seq(Event) /\ idem \in [Scope -> Row]
  /\ published \in SeqState

(* channel.ex, moduledoc: the event_id counter "is never raced".  Stored   *)
(* ids are strictly increasing in commit order, through crashes at any     *)
(* point, restarts and a clock that steps back.                            *)
IdsAscend ==
  \A i, j \in 1..Len(log) : i < j => Before(log[i].id, log[j].id)

(* Contract 2.5: retrying a command with its key never runs it again while *)
(* its row lives.  Two commits under one scope are a TTL apart, whatever   *)
(* timeouts, retries and crashes came between.                             *)
OncePerKey ==
  \A i, j \in 1..Len(log) :
    (/\ i < j /\ log[i].scope # None
     /\ log[i].scope = log[j].scope /\ log[i].kind = log[j].kind)
      => log[j].at >= log[i].at + TTL

(* What a caller is told is in the log: every id of a successful reply,    *)
(* fresh or replayed, is a stored event of that very request.              *)
RepliesDurable ==
  (work.phase = "publish" /\ work.ok) =>
    \A n \in 1..Len(work.ids) : \E i \in 1..Len(log) :
      /\ log[i].id = work.ids[n]
      /\ log[i].scope = work.call.scope /\ log[i].body = work.call.body

(* broadcast_frames: frames leave in event_id order, each at most once,    *)
(* and only after their event has committed.                               *)
BroadcastInOrder ==
  [][published' # published =>
       /\ Before(published, published')
       /\ \E i \in 1..Len(log) : log[i].id = published']_vars

(* The in-transaction dissolved gate: no message commits after the         *)
(* channel.dissolved event.                                                *)
QuietAfterDissolve ==
  \A i, j \in 1..Len(log) :
    (log[i].kind = "channel.dissolved" /\ i < j) => log[j].kind # "message.created"

(* A session is closed once and never starts after its close, though the   *)
(* start ack, the timers and a backlog overflow all move it.               *)
OneSessionClose ==
  \A i, j \in 1..Len(log) :
    (log[i].kind = "stateful_session.closed" /\ i < j)
      => log[j].kind \notin {"stateful_session.closed", "stateful_session.started"}

(* The writer implements the timeline: whatever happens to the process, the *)
(* stored log is only ever extended, and by later ids.                      *)
Timeline == INSTANCE EventLog WITH log <- log
ImplementsEventLog == Timeline!Spec

(* Why IdsAscend holds: outside a command the counter, and inside one the   *)
(* counter it will leave behind, is at or after every stored id.            *)
Held == IF work.phase \in {"enqueue", "publish"} THEN work.next ELSE seq

CounterCoversLog == up => \A i \in 1..Len(log) : AtOrBefore(log[i].id, Held)

(* Every blocked caller stops waiting: the mailbox is drained, or the      *)
(* writer's death or the caller's own timeout ends the wait.               *)
CallsAnswered == \A u \in Users : u \in waiting ~> u \notin waiting
=============================================================================
