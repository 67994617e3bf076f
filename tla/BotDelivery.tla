----------------------------- MODULE BotDelivery -----------------------------
(***************************************************************************)
(* Deliveries of one channel to one bot: the channel writer commits an     *)
(* invocation or an interaction with its delivery row and pushes a frame   *)
(* through the bot's process (BotConnection); the bot answers with a       *)
(* delivery_result, whose effects that process has the writer apply; rows  *)
(* nobody answers are sent again on the next hello or dropped when the bot *)
(* stays away.                                                             *)
(*                                                                         *)
(* The two processes call each other: the writer, inside its transaction,  *)
(* calls the bot's process to push (1 s), and the bot's process calls the  *)
(* writer to apply (30 s).  Either can die at any step.  Passive           *)
(* message_event deliveries have no caller in lib/ and are left out.       *)
(***************************************************************************)
EXTENDS Naturals, FiniteSets, Sequences, SequencesExt

CONSTANTS
  Deliveries,
  Bodies,         \* what the request hash of a result's effects tells apart
  Invalid,        \* the bodies BotEffects.validate rejects
  None,
  AttemptLimits,  \* the max_attempts a row is inserted with: {3} in the code
  Sockets,        \* bound: the bot's sockets, 1..Sockets, each says hello once
  MaxResults,     \* bound: results the bot sends per delivery
  MaxInbox,       \* bound: messages waiting when a socket or the lease adds one
  MaxCrashes      \* bound: deaths of either process

ASSUME DeliveryAssumption ==
  /\ IsFiniteSet(Deliveries) /\ Invalid \subseteq Bodies
  /\ None \notin Deliveries \cup Bodies
  /\ AttemptLimits # {} /\ AttemptLimits \subseteq Nat \ {0}
  /\ {Sockets, MaxResults, MaxInbox, MaxCrashes} \subseteq Nat

VARIABLES
  kind,      \* bot_deliveries: what asked for the delivery
  row,       \* bot_deliveries: status, attempts and max_attempts
  biz,       \* command_invocations / interactions: status
  outcome,   \* the interaction.completed / failed events of each delivery
  idem,      \* the bot_effect idempotency row: the body it was applied with
  applied,   \* ghost: how often the effects were applied
  bot,       \* the BotConnection process
  writer,    \* the channel writer: its job and the requests of the bot process
  issued,    \* the deliveries callers have asked for
  sock,      \* the bot's sockets; "ready": their hello was answered
  got,       \* the deliveries whose frame reached the bot
  sent,      \* results sent per delivery
  crashes

db     == <<kind, row, biz, outcome, idem, applied>>
net    == <<sock, got, sent>>
vars   == <<db, bot, writer, issued, net, crashes>>

Msg  == [t : {"connect", "push", "result", "detach", "lease", "expiry"},
         d : Deliveries \cup {None}, n : 0..Sockets, body : Bodies \cup {None}]
Sock == {"new", "hello", "ready", "closed"}
(* An UPDATE of a delivery's row, to the status `to', or of its attempts;  *)
(* after the row, of its command or interaction, to `result'.              *)
Statement == [table : {"row", "try", "biz"}, d : Deliveries,
              to : {"delivered", "dropped"}, result : {"completed", "failed"},
              pending : BOOLEAN]
(* step: the process is free, in a call to the writer, or executing the    *)
(* statements todo; n and frames: the hello it is answering, 0 if none;    *)
(* expiry: it is handling the offline timer.                               *)
BotWork == [step : {"free", "call", "run"}, d : Deliveries \cup {None},
            todo : Seq(Statement), n : 0..Sockets, frames : SUBSET Deliveries,
            expiry : BOOLEAN]
(* armed: offline_ref is a running timer; orphans: running timers whose    *)
(* reference was overwritten; left: ghost, rows pending at the last detach *)
Process == [alive : BOOLEAN, session : 0..Sockets, armed : BOOLEAN, orphans : Nat,
            reschedules : 0..3, inbox : Seq(Msg), work : BotWork,
            left : SUBSET Deliveries]
Job == [op : {"none", "commit", "apply", "fail"}, d : Deliveries \cup {None},
        body : Bodies \cup {None}, live : BOOLEAN,
        step : {"start", "pushing", "write", "finalize", "reply"}, ok : BOOLEAN]

Free == [step |-> "free", d |-> None, todo |-> <<>>, n |-> 0, frames |-> {},
         expiry |-> FALSE]
Dead == [alive |-> FALSE, session |-> 0, armed |-> FALSE, orphans |-> 0,
         reschedules |-> 0, inbox |-> <<>>, work |-> Free, left |-> {}]
NoJob == [op |-> "none", d |-> None, body |-> None, live |-> FALSE,
          step |-> "start", ok |-> FALSE]

Fresh ==
  /\ kind \in [Deliveries -> {"command_invocation", "message_interaction"}]
  /\ row = [d \in Deliveries |-> [status |-> "none", attempts |-> 0, limit |-> 0]]
  /\ biz = [d \in Deliveries |-> "none"] /\ outcome = [d \in Deliveries |-> <<>>]
  /\ idem = [d \in Deliveries |-> None] /\ applied = [d \in Deliveries |-> 0]
  /\ bot = Dead /\ writer = [job |-> NoJob, queue |-> <<>>]
  /\ got = {}

(* What a behaviour has used of its bounds.                                *)
Used(asked, closed, results, deaths) ==
  /\ issued = asked /\ crashes = deaths
  /\ sock = [n \in 1..Sockets |-> IF n \in closed THEN "closed" ELSE "new"]
  /\ sent = results

Init == Fresh /\ Used({}, {}, [d \in Deliveries |-> 0], 0)

Interactions == {d \in Deliveries : kind[d] = "message_interaction"}
Pending == {d \in Deliveries : row[d].status = "pending"}
Open(n) == sock[n] \in {"hello", "ready"}

-----------------------------------------------------------------------------
(* The bot's sockets.                                                      *)

Message(t, d, n, b) == [t |-> t, d |-> d, n |-> n, body |-> b]
Room == Len(bot.inbox) < MaxInbox
Inbox(m) == bot' = [bot EXCEPT !.inbox = Append(@, m)]

(* hello: connect/3 starts the process if there is none.                   *)
Hello(n) ==
  /\ Room /\ sock[n] = "new" /\ \A m \in 1..n - 1 : sock[m] # "new"
  /\ sock' = [sock EXCEPT ![n] = "hello"]
  /\ bot' = [bot EXCEPT !.alive = TRUE,
                        !.inbox = Append(@, Message("connect", None, n, None))]
  /\ UNCHANGED <<db, writer, issued, got, sent, crashes>>

(* A socket closes.  A channel process that ends before its hello was      *)
(* answered knows no session id, and detaches without one.                 *)
Close(n) ==
  /\ Room /\ Open(n) /\ sock' = [sock EXCEPT ![n] = "closed"]
  /\ IF bot.alive
       THEN Inbox(Message("detach", None, IF sock[n] = "ready" THEN n ELSE 0, None))
       ELSE UNCHANGED bot
  /\ UNCHANGED <<db, writer, issued, got, sent, crashes>>

(* delivery_result for a frame the bot has, again if it likes.             *)
Result(d, b) ==
  /\ Room /\ d \in got /\ sent[d] < MaxResults
  /\ bot.alive /\ \E n \in 1..Sockets : Open(n)
  /\ sent' = [sent EXCEPT ![d] = @ + 1]
  /\ Inbox(Message("result", d, 0, b))
  /\ UNCHANGED <<db, writer, issued, sock, got, crashes>>

-----------------------------------------------------------------------------
(* The writer commits a delivery: online?, then, in the transaction of the *)
(* command, the rows and the push, then the commit.                        *)

Start(op, d, b) ==
  [op |-> op, d |-> d, body |-> b, live |-> TRUE, step |-> "start", ok |-> FALSE]
To(step) == writer' = [writer EXCEPT !.job.step = step]
NextJob == writer' = [writer EXCEPT !.job = NoJob]

(* A busy process may leave online? unanswered for its 100 ms.             *)
Precheck(d) ==
  /\ writer.job = NoJob /\ d \notin issued
  /\ issued' = issued \cup {d}
  /\ \/ /\ bot.session # 0 /\ bot.work = Free
        /\ writer' = [writer EXCEPT !.job = Start("commit", d, None)]
     \/ /\ bot.session = 0 \/ bot.work # Free
        /\ UNCHANGED writer
  /\ UNCHANGED <<db, bot, net, crashes>>

Push ==
  /\ writer.job.op = "commit" /\ writer.job.step = "start"
  /\ IF bot.alive THEN To("pushing") /\ Inbox(Message("push", writer.job.d, 0, None))
                  ELSE To("write") /\ UNCHANGED bot
  /\ UNCHANGED <<db, issued, net, crashes>>

\* Mutant: the push waits for an answer, however long it takes.
PushNoTimeout == FALSE /\ UNCHANGED vars

(* push_frame/2 waits a second; the frame stays in the mailbox.            *)
PushTimeout ==
  /\ writer.job.step = "pushing" /\ To("write")
  /\ UNCHANGED <<db, bot, issued, net, crashes>>

Commit ==
  /\ writer.job.op = "commit" /\ writer.job.step = "write"
  /\ \E limit \in AttemptLimits :
       row' = [row EXCEPT ![writer.job.d] =
                 [status |-> "pending", attempts |-> 0, limit |-> limit]]
  /\ biz' = [biz EXCEPT ![writer.job.d] = "pending"]
  /\ NextJob
  /\ UNCHANGED <<kind, outcome, idem, applied, bot, issued, net, crashes>>

(* What the command does after the push may still raise.                   *)
RollBack ==
  /\ writer.job.op = "commit" /\ writer.job.step = "write"
  /\ NextJob
  /\ UNCHANGED <<db, bot, issued, net, crashes>>

-----------------------------------------------------------------------------
(* The writer serves the bot's process: apply_bot_effects and              *)
(* finalize_interaction.                                                   *)

Take ==
  /\ writer.job = NoJob /\ writer.queue # <<>>
  /\ writer' = [job |-> Head(writer.queue), queue |-> Tail(writer.queue)]
  /\ UNCHANGED <<db, bot, issued, net, crashes>>

\* Mutant: the effects are applied without looking for their idempotency row.
ApplyUnread ==
  /\ writer.job.op = "apply" /\ writer.job.step = "start"
  /\ LET d == writer.job.d IN
     /\ applied' = [applied EXCEPT ![d] = @ + 1]
     /\ idem' = [idem EXCEPT ![d] = writer.job.body]
     /\ writer' = [writer EXCEPT !.job.ok = TRUE,
                                 !.job.step = IF d \in Interactions THEN "finalize" ELSE "reply"]
  /\ UNCHANGED <<kind, row, biz, outcome, bot, issued, net, crashes>>

(* One transaction: replay, conflict, apply and record, or an applier that *)
(* raises and rolls the batch back.                                        *)
Apply ==
  /\ writer.job.op = "apply" /\ writer.job.step = "start"
  /\ LET d == writer.job.d
         Done == writer' = [writer EXCEPT !.job.ok = TRUE,
                   !.job.step = IF d \in Interactions THEN "finalize" ELSE "reply"]
     IN \/ /\ idem[d] = writer.job.body /\ Done
           /\ UNCHANGED <<idem, applied>>
        \/ /\ idem[d] # writer.job.body /\ To("reply")
           /\ UNCHANGED <<idem, applied>>
        \/ /\ idem[d] = None /\ Done
           /\ idem' = [idem EXCEPT ![d] = writer.job.body]
           /\ applied' = [applied EXCEPT ![d] = @ + 1]
  /\ UNCHANGED <<kind, row, biz, outcome, bot, issued, net, crashes>>

\* Mutant: finalize_interaction does not look at the status it finds.
FinalizeAgain ==
  /\ \/ writer.job.step = "finalize"
     \/ writer.job.op = "fail" /\ writer.job.step = "start"
  /\ LET d == writer.job.d
         to == IF writer.job.op = "fail" THEN "failed" ELSE "completed"
     IN /\ biz' = [biz EXCEPT ![d] = to]
        /\ outcome' = [outcome EXCEPT ![d] = Append(@, to)]
  /\ To("reply")
  /\ UNCHANGED <<kind, row, idem, applied, bot, issued, net, crashes>>

Finalize ==
  /\ \/ writer.job.step = "finalize"
     \/ writer.job.op = "fail" /\ writer.job.step = "start"
  /\ LET d == writer.job.d
         to == IF writer.job.op = "fail" THEN "failed" ELSE "completed"
     IN IF biz[d] \in {"completed", "failed"} THEN UNCHANGED <<biz, outcome>>
        ELSE /\ biz' = [biz EXCEPT ![d] = to]
             /\ outcome' = [outcome EXCEPT ![d] = Append(@, to)]
  /\ To("reply")
  /\ UNCHANGED <<kind, row, idem, applied, bot, issued, net, crashes>>

Request(op, d, b) ==
  writer' = [writer EXCEPT !.queue = Append(@, Start(op, d, b))]

Update(table, d, status, result, pending) ==
  [table |-> table, d |-> d, to |-> status, result |-> result, pending |-> pending]
Settle(d, status, result, pending) == Update("row", d, status, result, pending)
Attempt(d)  == Update("try", d, "dropped", "failed", TRUE)
Business(u) == [u EXCEPT !.table = "biz"]

\* Mutant: an error is taken for an answer and settles the row as delivered.
ReplyBlind ==
  /\ writer.job.step = "reply" /\ NextJob
  /\ bot' = IF writer.job.live
              THEN [bot EXCEPT !.work.step = "run",
                      !.work.todo = <<Settle(writer.job.d, "delivered", "completed", FALSE)>>]
              ELSE bot
  /\ UNCHANGED <<db, issued, net, crashes>>

(* The answer moves the bot's process on: finalize_delivered, or           *)
(* finalize_interaction_failed and finalize_failed.                        *)
Reply ==
  /\ writer.job.step = "reply"
  /\ LET d == writer.job.d
         again == ~writer.job.ok /\ writer.job.op = "apply" /\ d \in Interactions
         todo == IF writer.job.ok THEN Settle(d, "delivered", "completed", FALSE)
                                  ELSE Settle(d, "dropped", "failed", FALSE)
     IN IF ~writer.job.live THEN NextJob /\ UNCHANGED bot
        ELSE IF again
          THEN /\ writer' = [job |-> NoJob,
                             queue |-> Append(writer.queue, Start("fail", d, None))]
               /\ UNCHANGED bot
          ELSE /\ NextJob
               /\ bot' = [bot EXCEPT !.work.step = "run", !.work.todo = <<todo>>]
  /\ UNCHANGED <<db, issued, net, crashes>>

-----------------------------------------------------------------------------
(* The bot's process.                                                      *)

Received(t) == bot.alive /\ bot.work = Free /\ bot.inbox # <<>> /\ Head(bot.inbox).t = t
Drained == [bot EXCEPT !.inbox = Tail(@)]

(* push_frame: to the current channel process; its socket may be gone.     *)
HandlePush ==
  /\ Received("push")
  /\ LET d == Head(bot.inbox).d IN
     /\ got' = IF bot.session # 0 /\ Open(bot.session) THEN got \cup {d} ELSE got
     /\ IF writer.job.step = "pushing" /\ writer.job.d = d THEN To("write")
                                                           ELSE UNCHANGED writer
  /\ bot' = Drained
  /\ UNCHANGED <<db, issued, sock, sent, crashes>>

InOrder(S) == SetToSeq(S)

\* Mutant: the limit is never looked at.
RetryUnlimited(d) == Attempt(d)

(* The last attempt drops the row and still sends the frame.  (The count   *)
(* of a dropped row, which nothing reads, is left where it was.)           *)
Retry(d) ==
  IF row[d].attempts + 1 >= row[d].limit
    THEN Settle(d, "dropped", "failed", TRUE)
    ELSE Attempt(d)

(* connect: resume_frames counts an attempt on every pending row, then the *)
(* session is the new one.                                                 *)
HandleConnect ==
  /\ Received("connect")
  /\ bot' = [Drained EXCEPT !.work =
       [Free EXCEPT !.step = "run", !.n = Head(bot.inbox).n, !.frames = Pending,
                    !.todo = [i \in 1..Cardinality(Pending) |-> Retry(InOrder(Pending)[i])]]]
  /\ UNCHANGED <<db, writer, issued, net, crashes>>

(* apply_result: an unknown row is answered at once, a rejected batch      *)
(* fails the delivery, a valid one goes to the writer.                     *)
HandleResult ==
  /\ Received("result")
  /\ LET d == Head(bot.inbox).d  b == Head(bot.inbox).body IN
     \/ /\ row[d].status = "none"
        /\ bot' = Drained /\ UNCHANGED writer
     \/ /\ row[d].status # "none" /\ b \notin Invalid
        /\ bot' = [Drained EXCEPT !.work = [Free EXCEPT !.step = "call", !.d = d]]
        /\ Request("apply", d, b)
     \/ /\ row[d].status # "none" /\ b \in Invalid /\ d \in Interactions
        /\ bot' = [Drained EXCEPT !.work = [Free EXCEPT !.step = "call", !.d = d]]
        /\ Request("fail", d, None)
     \/ /\ row[d].status # "none" /\ b \in Invalid /\ d \notin Interactions
        /\ bot' = [Drained EXCEPT !.work = [Free EXCEPT !.step = "run", !.d = d,
                     !.todo = <<Settle(d, "dropped", "failed", FALSE)>>]]
        /\ UNCHANGED writer
  /\ UNCHANGED <<db, issued, net, crashes>>

\* Mutant: the timer is not armed.
DetachUntimed(b) == [b EXCEPT !.session = 0, !.left = Pending]

(* do_detach: offline; a timer if rows are pending.                        *)
Detach(b) ==
  [b EXCEPT !.session = 0, !.left = Pending,
            !.armed = @ \/ Pending # {},
            !.orphans = IF b.armed /\ Pending # {} THEN @ + 1 ELSE @]

HandleDetach ==
  /\ Received("detach")
  /\ LET n == Head(bot.inbox).n IN
     bot' = IF n \in {0, bot.session} THEN Detach(Drained) ELSE Drained
  /\ UNCHANGED <<db, writer, issued, net, crashes>>

HandleLease ==
  /\ Received("lease")
  /\ bot' = IF bot.session # 0 THEN Detach(Drained) ELSE Drained
  /\ UNCHANGED <<db, writer, issued, net, crashes>>

(* offline_expiry: every pending row is dropped and its command fails,     *)
(* whether or not the bot is back.                                         *)
HandleExpiry ==
  /\ Received("expiry")
  /\ bot' = [Drained EXCEPT !.work =
       [Free EXCEPT !.step = "run", !.expiry = TRUE,
                    !.todo = [i \in 1..Cardinality(Pending) |->
                       Settle(InOrder(Pending)[i], "dropped", "failed", TRUE)]]]
  /\ UNCHANGED <<db, writer, issued, net, crashes>>

(* One UPDATE; they share no transaction.  With `pending', only of a row   *)
(* that is still pending.                                                  *)
Execute ==
  /\ bot.work.step = "run" /\ bot.work.todo # <<>>
  /\ LET u == Head(bot.work.todo)
         skip == u.pending /\ row[u.d].status # "pending"
         Then(rest) == bot' = [bot EXCEPT !.work.todo = rest \o Tail(@)]
     IN \/ /\ u.table = "row" /\ Then(<<Business(u)>>) /\ UNCHANGED biz
           /\ row' = IF skip THEN row ELSE [row EXCEPT ![u.d].status = u.to]
        \/ /\ u.table = "try" /\ Then(<<>>) /\ UNCHANGED biz
           /\ row' = IF skip THEN row ELSE [row EXCEPT ![u.d].attempts = @ + 1]
        \/ /\ u.table = "biz" /\ Then(<<>>) /\ UNCHANGED row
           /\ biz' = [biz EXCEPT ![u.d] = u.result]
  /\ UNCHANGED <<kind, outcome, idem, applied, writer, issued, net, crashes>>

Finish ==
  /\ bot.work.step = "run" /\ bot.work.todo = <<>>
  /\ LET n == bot.work.n
         freed == [bot EXCEPT !.work = Free]
         again == bot.work.expiry /\ Pending # {} /\ bot.reschedules < 3
     IN \/ /\ n # 0
           /\ bot' = [freed EXCEPT !.session = n, !.armed = FALSE, !.reschedules = 0]
           /\ IF Open(n) THEN /\ sock' = [sock EXCEPT ![n] = "ready"]
                              /\ got' = got \cup bot.work.frames
                         ELSE UNCHANGED <<sock, got>>
        \/ /\ n = 0
           /\ bot' = IF ~again THEN freed
                     ELSE [freed EXCEPT !.armed = TRUE, !.reschedules = @ + 1,
                                        !.orphans = IF bot.armed THEN @ + 1 ELSE @]
           /\ UNCHANGED <<sock, got>>
  /\ UNCHANGED <<db, writer, issued, sent, crashes>>

-----------------------------------------------------------------------------
(* Timers put a message in the mailbox; to cancel one later is no use.     *)

NotYet(t) == \A i \in 1..Len(bot.inbox) : bot.inbox[i].t # t

LeaseFires ==
  /\ Room /\ bot.session # 0 /\ NotYet("lease")
  /\ Inbox(Message("lease", None, 0, None))
  /\ UNCHANGED <<db, writer, issued, net, crashes>>

OfflineFires ==
  /\ \/ bot.armed /\ bot' = [bot EXCEPT !.armed = FALSE,
                     !.inbox = Append(@, Message("expiry", None, 0, None))]
     \/ bot.orphans > 0 /\ bot' = [bot EXCEPT !.orphans = @ - 1,
                     !.inbox = Append(@, Message("expiry", None, 0, None))]
  /\ UNCHANGED <<db, writer, issued, net, crashes>>

Unheard == [i \in 1..Len(writer.queue) |-> [writer.queue[i] EXCEPT !.live = FALSE]]

(* The bot's process dies: mailbox, session and timers with it; what it    *)
(* asked the writer stays asked.  A hello it did not answer fails.         *)
BotDies ==
  /\ bot' = Dead
  /\ sock' = [n \in 1..Sockets |-> IF sock[n] = "hello" THEN "closed" ELSE sock[n]]

BotCrash ==
  /\ bot.alive /\ crashes < MaxCrashes /\ crashes' = crashes + 1
  /\ BotDies
  /\ writer' = [job |-> IF writer.job.op = "commit"
                          THEN [writer.job EXCEPT !.step = IF @ = "pushing" THEN "write" ELSE @]
                          ELSE [writer.job EXCEPT !.live = FALSE],
                queue |-> Unheard]
  /\ UNCHANGED <<db, issued, got, sent>>

(* The writer dies with its transaction; a caller in apply_bot_effects or  *)
(* finalize_interaction does not catch the exit and dies too.              *)
WriterCrash ==
  /\ writer.job # NoJob /\ crashes < MaxCrashes /\ crashes' = crashes + 1
  /\ writer' = [job |-> NoJob, queue |-> <<>>]
  /\ IF bot.work.step = "call" THEN BotDies ELSE UNCHANGED <<bot, sock>>
  /\ UNCHANGED <<db, issued, got, sent>>

-----------------------------------------------------------------------------
WriterStep ==
  Push \/ PushTimeout \/ Commit \/ RollBack \/ Take \/ Apply \/ Finalize \/ Reply

BotStep ==
  \/ HandlePush \/ HandleConnect \/ HandleResult \/ HandleDetach \/ HandleLease
  \/ HandleExpiry \/ Execute \/ Finish

Next ==
  \/ \E n \in 1..Sockets : Hello(n) \/ Close(n)
  \/ \E d \in Deliveries : Precheck(d) \/ \E b \in Bodies : Result(d, b)
  \/ WriterStep \/ BotStep
  \/ LeaseFires \/ OfflineFires \/ BotCrash \/ WriterCrash

Spec == Init /\ [][Next]_vars

(* The processes are scheduled, the 1 s and 30 s timers fire; nobody has   *)
(* to open a socket, answer, or die.                                       *)
Fairness == WF_vars(WriterStep) /\ WF_vars(BotStep) /\ WF_vars(OfflineFires)

FairSpec == Spec /\ Fairness

-----------------------------------------------------------------------------
TypeOK ==
  /\ kind \in [Deliveries -> {"command_invocation", "message_interaction"}]
  /\ row \in [Deliveries -> [status : {"none", "pending", "delivered", "dropped"},
                             attempts : Nat, limit : {0} \cup AttemptLimits]]
  /\ \A d \in Pending : row[d].attempts < row[d].limit
  /\ biz \in [Deliveries -> {"none", "pending", "completed", "failed"}]
  /\ outcome \in [Deliveries -> Seq({"completed", "failed"})]
  /\ idem \in [Deliveries -> Bodies \cup {None}] /\ applied \in [Deliveries -> Nat]
  /\ bot \in Process /\ writer \in [job : Job, queue : Seq(Job)]
  /\ issued \subseteq Deliveries /\ sock \in [1..Sockets -> Sock]
  /\ got \subseteq Deliveries /\ sent \in [Deliveries -> 0..MaxResults]
  /\ crashes \in 0..MaxCrashes

(* Contract 9.7.1: delivery is at least once, effects are applied at most  *)
(* once, whatever is resent, retried, or left in the writer's queue by a   *)
(* process that died; and a delivered row's effects are in the timeline.   *)
EffectsOnce ==
  \A d \in Deliveries :
    /\ applied[d] \in {0, 1} /\ (applied[d] = 1) = (idem[d] # None)
    /\ row[d].status = "delivered" => applied[d] = 1

(* Contract 9.6.1: an interaction emits one outcome event at most, and     *)
(* interaction.completed only after its effects were applied.              *)
OneOutcomeEvent ==
  \A d \in Deliveries :
    /\ Len(outcome[d]) <= 1
    /\ outcome[d] = <<"completed">> => applied[d] = 1

(* bot_delivery.ex, offline policy: rows a bot leaves behind are settled   *)
(* after the offline TTL, unless it comes back or its process dies.        *)
GoneBotsRowsExpire ==
  \A d \in Deliveries :
    (d \in bot.left /\ bot.session = 0 /\ row[d].status = "pending")
      ~> (row[d].status # "pending" \/ bot.session # 0 \/ ~bot.alive)

(* The writer calls the bot's process while that process calls the writer: *)
(* the short timeout of the push unties them, and both get on.             *)
NobodyWaitsForever ==
  /\ (writer.job # NoJob) ~> (writer.job = NoJob)
  /\ (bot.work # Free) ~> (bot.work = Free)
=============================================================================
