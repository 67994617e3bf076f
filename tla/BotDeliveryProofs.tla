-------------------------- MODULE BotDeliveryProofs --------------------------
(***************************************************************************)
(* The safety invariants of BotDelivery for every set of deliveries and    *)
(* bodies, every attempt limit and every bound.  The two processes hold    *)
(* work that outlives the state it was made from: a job in the writer's    *)
(* queue, statements the bot's process has still to execute.  The          *)
(* strengthening says what stays true of a delivery while such work waits. *)
(***************************************************************************)
EXTENDS BotDelivery, FiniteSetTheorems, SequenceTheorems, TLAPS

Known(d) == row[d].status # "none"

(* The tables: what was applied is recorded, what was said is settled.     *)
Row == [status : {"none", "pending", "delivered", "dropped"},
        attempts : Nat, limit : {0} \cup AttemptLimits]

DbTypes ==
  /\ kind \in [Deliveries -> {"command_invocation", "message_interaction"}]
  /\ row \in [Deliveries -> Row]
  /\ biz \in [Deliveries -> {"none", "pending", "completed", "failed"}]
  /\ outcome \in [Deliveries -> {<<>>, <<"completed">>, <<"failed">>}]
  /\ idem \in [Deliveries -> Bodies \cup {None}]
  /\ applied \in [Deliveries -> {0, 1}]

DbFacts ==
  \A d \in Deliveries :
    /\ row[d].status = "pending" => row[d].attempts < row[d].limit
    /\ row[d].status = "delivered" => applied[d] = 1
    /\ (applied[d] = 1) = (idem[d] # None)
    /\ outcome[d] # <<>> => Known(d) /\ biz[d] \in {"completed", "failed"}
    /\ outcome[d] = <<"completed">> => applied[d] = 1
    /\ Known(d) => d \in issued

(* A job of the writer: a commit of a delivery not yet known, or something *)
(* to do for one that is; ok and finalize come after the effects.          *)
JobFacts(j) ==
  /\ j.op = "none" => j = NoJob
  /\ j.op = "commit" => /\ j.d \in issued /\ ~Known(j.d)
                        /\ j.step \in {"start", "pushing", "write"}
  /\ j.op \in {"apply", "fail"} => /\ j.d \in Deliveries /\ Known(j.d)
                                   /\ j.step \in {"start", "finalize", "reply"}
  /\ j.op = "apply" => j.body \in Bodies
  /\ j.op = "fail" => j.step # "finalize"
  /\ (j.ok \/ j.step = "finalize") => j.op = "apply" /\ applied[j.d] = 1

Queued(j) == j.op \in {"apply", "fail"} /\ j.step = "start" /\ ~j.ok

WriterInv ==
  /\ writer \in [job : Job, queue : Seq(Job)]
  /\ JobFacts(writer.job)
  /\ \A i \in 1..Len(writer.queue) :
       Queued(writer.queue[i]) /\ JobFacts(writer.queue[i])

(* The bot's process: messages that name what their handlers use, and      *)
(* statements that were decided on some time before they are executed.     *)
GoodMsg ==
  {m \in Msg : /\ m.t \in {"push", "result"} => m.d \in Deliveries
               /\ m.t = "result" => m.body \in Bodies}

Processes ==
  [alive : BOOLEAN, session : 0..Sockets, armed : BOOLEAN, orphans : Nat,
   reschedules : 0..3, inbox : Seq(GoodMsg), work : BotWork, left : SUBSET Deliveries]

BotTypes == bot \in Processes

StatementFacts(u) ==
  /\ Known(u.d)
  /\ u.to = "delivered" => applied[u.d] = 1
  /\ u.table = "try" => row[u.d].attempts + 1 < row[u.d].limit

TodoFacts(todo) ==
  /\ \A i \in 1..Len(todo) : StatementFacts(todo[i])
  /\ \A i, j \in 1..Len(todo) : i # j => todo[i].d # todo[j].d

NetTypes ==
  /\ issued \subseteq Deliveries /\ sock \in [1..Sockets -> Sock]
  /\ got \subseteq Deliveries /\ sent \in [Deliveries -> 0..MaxResults]
  /\ crashes \in 0..MaxCrashes

IInv ==
  DbTypes /\ DbFacts /\ WriterInv /\ BotTypes /\ TodoFacts(bot.work.todo) /\ NetTypes

-----------------------------------------------------------------------------
(* What a step may not take back while work waits.                         *)
Kept ==
  \A d \in Deliveries :
    /\ Known(d) => Known(d)'
    /\ applied[d] = 1 => applied'[d] = 1

CountsKept ==
  \A d \in Deliveries :
    Known(d) => row'[d].limit = row[d].limit /\ row'[d].attempts = row[d].attempts

LEMMA TypesOfInit ==
  ASSUME Init
  PROVE  IInv
<1> USE DeliveryAssumption DEF Init, Fresh, Used
<1>1. DbTypes
  BY DEF DbTypes, Row
<1>2. DbFacts
  BY DEF DbFacts, Known
<1>3. WriterInv
  BY DEF WriterInv, JobFacts, NoJob, Job
<1>4. BotTypes /\ TodoFacts(bot.work.todo)
  BY DEF BotTypes, Processes, TodoFacts, Dead, Free, BotWork
<1>5. NetTypes
  BY DEF NetTypes, Sock
<1> QED BY <1>1, <1>2, <1>3, <1>4, <1>5 DEF IInv

LEMMA StatementsKept ==
  ASSUME IInv, Kept, CountsKept, bot'.work.todo = bot.work.todo
  PROVE  TodoFacts(bot.work.todo)'
<1>1. bot.work.todo \in Seq(Statement)
  BY DEF IInv, BotTypes, Processes, BotWork
<1>2. ASSUME NEW i \in 1..Len(bot.work.todo)
      PROVE  StatementFacts(bot.work.todo[i])'
  <2>1. bot.work.todo[i] \in Statement
    BY <1>1
  <2>2. StatementFacts(bot.work.todo[i])
    BY DEF IInv, TodoFacts
  <2> QED BY <2>1, <2>2 DEF StatementFacts, Statement, Kept, CountsKept, Known
<1> QED BY <1>2 DEF IInv, TodoFacts

(* A job that waits: its delivery stays known, what it applied applied.    *)
LEMMA JobKept ==
  ASSUME IInv, Kept, NEW j \in Job, JobFacts(j), j.op # "commit", issued \subseteq issued'
  PROVE  JobFacts(j)'
BY DEF JobFacts, Kept, Known

LEMMA QueueKept ==
  ASSUME IInv, Kept, writer'.queue = writer.queue, issued \subseteq issued'
  PROVE  \A i \in 1..Len(writer.queue) :
           Queued(writer.queue[i])' /\ JobFacts(writer.queue[i])'
<1> SUFFICES ASSUME NEW i \in 1..Len(writer.queue)
             PROVE  Queued(writer.queue[i])' /\ JobFacts(writer.queue[i])'
  OBVIOUS
<1>1. writer.queue[i] \in Job /\ Queued(writer.queue[i]) /\ JobFacts(writer.queue[i])
  BY DEF IInv, WriterInv
<1>2. JobFacts(writer.queue[i])'
  BY <1>1, JobKept DEF Queued, JobFacts, Kept, Known
<1> QED BY <1>1, <1>2 DEF Queued

(* A step that leaves the tables alone.                                    *)
LEMMA DbSame ==
  ASSUME IInv, UNCHANGED db, issued \subseteq issued'
  PROVE  DbTypes' /\ DbFacts' /\ Kept /\ CountsKept
BY DEF IInv, db, DbTypes, DbFacts, Kept, CountsKept, Known

(* The writer goes on with what it had, or is done with it.                *)
LEMMA WriterSame ==
  ASSUME IInv, UNCHANGED <<row, applied, writer>>, issued \subseteq issued'
  PROVE  WriterInv'
BY DEF IInv, WriterInv, JobFacts, Queued, Known

LEMMA WriterDone ==
  ASSUME IInv, Kept, issued \subseteq issued', NextJob
  PROVE  WriterInv'
<1>1. writer'.job = NoJob /\ writer'.queue = writer.queue
      /\ writer' \in [job : Job, queue : Seq(Job)]
  BY DEF NextJob, IInv, WriterInv, NoJob, Job
<1>2. JobFacts(writer.job)'
  BY <1>1 DEF JobFacts, NoJob
<1>3. \A i \in 1..Len(writer.queue) :
           Queued(writer.queue[i])' /\ JobFacts(writer.queue[i])'
  BY <1>1, QueueKept
<1> QED BY <1>1, <1>2, <1>3 DEF WriterInv, Queued

(* The bot's process gets a message, or takes one.                         *)
LEMMA Mailed ==
  ASSUME IInv, NEW m \in GoodMsg, Inbox(m)
  PROVE  BotTypes' /\ bot'.work = bot.work
<1>1. bot.inbox \in Seq(GoodMsg) /\ Append(bot.inbox, m) \in Seq(GoodMsg)
  BY DEF IInv, BotTypes, Processes
<1>2. bot' = [bot EXCEPT !.inbox = Append(bot.inbox, m)]
  BY DEF Inbox
<1> QED BY <1>1, <1>2 DEF IInv, BotTypes, Processes

LEMMA Taken ==
  ASSUME IInv, bot.inbox # <<>>
  PROVE  /\ Drained \in Processes
         /\ Drained.work = bot.work
         /\ Head(bot.inbox) \in GoodMsg
<1>1. bot.inbox \in Seq(GoodMsg) /\ Tail(bot.inbox) \in Seq(GoodMsg)
  BY HeadTailProperties DEF IInv, BotTypes, Processes
<1>2. Head(bot.inbox) \in GoodMsg
  BY <1>1, HeadTailProperties
<1> QED BY <1>1, <1>2 DEF IInv, BotTypes, Processes, Drained

LEMMA MessageGood ==
  ASSUME NEW t \in {"connect", "push", "result", "detach", "lease", "expiry"},
         NEW d \in Deliveries \cup {None}, NEW n \in 0..Sockets,
         NEW b \in Bodies \cup {None},
         t \in {"push", "result"} => d \in Deliveries, t = "result" => b \in Bodies
  PROVE  Message(t, d, n, b) \in GoodMsg
BY DEF Message, GoodMsg, Msg

LEMMA FreeWork == Free \in BotWork /\ TodoFacts(Free.todo)
BY DeliveryAssumption DEF Free, BotWork, TodoFacts

LEMMA StartJob ==
  ASSUME NEW op \in {"commit", "apply", "fail"}, NEW d \in Deliveries,
         NEW b \in Bodies \cup {None}
  PROVE  /\ Start(op, d, b) \in Job
         /\ Start(op, d, b) = [op |-> op, d |-> d, body |-> b, live |-> TRUE,
                              step |-> "start", ok |-> FALSE]
BY DEF Start, Job

-----------------------------------------------------------------------------
(* The sockets and the timers: mail for the bot's process.                 *)
LEMMA HelloKeeps ==
  ASSUME IInv, NEW n \in 1..Sockets, Hello(n)
  PROVE  IInv'
<1>1. DbTypes' /\ DbFacts' /\ Kept /\ CountsKept
  BY DbSame DEF Hello
<1>2. WriterInv'
  BY WriterSame DEF Hello, db
<1>3. Message("connect", None, n, None) \in GoodMsg
  BY MessageGood, DeliveryAssumption
<1>4. BotTypes' /\ bot'.work = bot.work
  <2>1. Append(bot.inbox, Message("connect", None, n, None)) \in Seq(GoodMsg)
    BY <1>3 DEF IInv, BotTypes, Processes
  <2> QED BY <2>1 DEF IInv, BotTypes, Processes, Hello
<1>5. TodoFacts(bot.work.todo)'
  BY <1>1, <1>4, StatementsKept
<1>6. NetTypes'
  BY DEF IInv, NetTypes, Hello, Sock
<1> QED BY <1>1, <1>2, <1>4, <1>5, <1>6 DEF IInv

LEMMA CloseKeeps ==
  ASSUME IInv, NEW n \in 1..Sockets, Close(n)
  PROVE  IInv'
<1>1. DbTypes' /\ DbFacts' /\ Kept /\ CountsKept
  BY DbSame DEF Close
<1>2. WriterInv'
  BY WriterSame DEF Close, db
<1>3. \A k \in 0..Sockets : Message("detach", None, k, None) \in GoodMsg
  BY MessageGood
<1>4. BotTypes' /\ bot'.work = bot.work
  <2>1. CASE bot.alive
    BY <2>1, <1>3, Mailed, DeliveryAssumption DEF Close
  <2>2. CASE ~bot.alive
    BY <2>2 DEF IInv, BotTypes, Processes, Close
  <2> QED BY <2>1, <2>2
<1>5. TodoFacts(bot.work.todo)'
  BY <1>1, <1>4, StatementsKept
<1>6. NetTypes'
  BY DEF IInv, NetTypes, Close, Sock
<1> QED BY <1>1, <1>2, <1>4, <1>5, <1>6 DEF IInv

LEMMA ResultKeeps ==
  ASSUME IInv, NEW d \in Deliveries, NEW b \in Bodies, Result(d, b)
  PROVE  IInv'
<1>1. DbTypes' /\ DbFacts' /\ Kept /\ CountsKept
  BY DbSame DEF Result
<1>2. WriterInv'
  BY WriterSame DEF Result, db
<1>3. Message("result", d, 0, b) \in GoodMsg
  BY MessageGood, DeliveryAssumption
<1>4. BotTypes' /\ bot'.work = bot.work
  BY <1>3, Mailed DEF Result
<1>5. TodoFacts(bot.work.todo)'
  BY <1>1, <1>4, StatementsKept
<1>6. NetTypes'
  BY DeliveryAssumption DEF IInv, NetTypes, Result
<1> QED BY <1>1, <1>2, <1>4, <1>5, <1>6 DEF IInv

LEMMA TimersKeep ==
  ASSUME IInv, LeaseFires \/ OfflineFires
  PROVE  IInv'
<1>1. DbTypes' /\ DbFacts' /\ Kept /\ CountsKept
  BY DbSame DEF LeaseFires, OfflineFires
<1>2. WriterInv'
  BY WriterSame DEF LeaseFires, OfflineFires, db
<1>3. /\ Message("lease", None, 0, None) \in GoodMsg
      /\ Message("expiry", None, 0, None) \in GoodMsg
  BY MessageGood, DeliveryAssumption
<1>4. BotTypes' /\ bot'.work = bot.work
  <2>1. CASE LeaseFires
    BY <2>1, <1>3, Mailed DEF LeaseFires
  <2>2. CASE OfflineFires
    <3>1. Append(bot.inbox, Message("expiry", None, 0, None)) \in Seq(GoodMsg)
      BY <1>3 DEF IInv, BotTypes, Processes
    <3>2. CASE bot' = [bot EXCEPT !.armed = FALSE,
                  !.inbox = Append(@, Message("expiry", None, 0, None))]
      BY <3>1, <3>2 DEF IInv, BotTypes, Processes
    <3>3. CASE /\ bot.orphans > 0
               /\ bot' = [bot EXCEPT !.orphans = @ - 1,
                  !.inbox = Append(@, Message("expiry", None, 0, None))]
      <4>1. bot.orphans - 1 \in Nat
        BY <3>3 DEF IInv, BotTypes, Processes
      <4> QED BY <3>1, <3>3, <4>1 DEF IInv, BotTypes, Processes
    <3> QED BY <2>2, <3>2, <3>3 DEF OfflineFires
  <2> QED BY <2>1, <2>2
<1>5. TodoFacts(bot.work.todo)'
  BY <1>1, <1>4, StatementsKept
<1>6. NetTypes'
  BY DEF IInv, NetTypes, LeaseFires, OfflineFires, net
<1> QED BY <1>1, <1>2, <1>4, <1>5, <1>6 DEF IInv

-----------------------------------------------------------------------------
(* The writer's steps.                                                     *)

(* A step of the job alone.                                                *)
LEMMA JobSteps ==
  ASSUME IInv, Kept, issued \subseteq issued', NEW j \in Job, JobFacts(j)',
         writer' = [writer EXCEPT !.job = j]
  PROVE  WriterInv'
<1>1. writer'.job = j /\ writer'.queue = writer.queue
      /\ writer' \in [job : Job, queue : Seq(Job)]
  BY DEF IInv, WriterInv
<1>2. \A i \in 1..Len(writer.queue) :
           Queued(writer.queue[i])' /\ JobFacts(writer.queue[i])'
  BY <1>1, QueueKept
<1> QED BY <1>1, <1>2 DEF WriterInv, Queued, JobFacts

LEMMA PrecheckKeeps ==
  ASSUME IInv, NEW d \in Deliveries, Precheck(d)
  PROVE  IInv'
<1>1. UNCHANGED <<db, bot, net, crashes>> /\ d \notin issued
      /\ issued' = issued \cup {d} /\ writer.job = NoJob
  BY DEF Precheck
<1>2. DbTypes' /\ DbFacts' /\ Kept /\ CountsKept
  BY <1>1, DbSame
<1>3. WriterInv'
  <2>1. CASE UNCHANGED writer
    BY <1>1, <2>1, WriterSame DEF db
  <2>2. CASE writer' = [writer EXCEPT !.job = Start("commit", d, None)]
    <3>1. ~Known(d)
      BY <1>1 DEF IInv, DbFacts
    <3>2. Start("commit", d, None) \in Job
          /\ Start("commit", d, None) = [op |-> "commit", d |-> d, body |-> None,
               live |-> TRUE, step |-> "start", ok |-> FALSE]
      BY StartJob
    <3>3. JobFacts(Start("commit", d, None))'
      BY <1>1, <3>1, <3>2 DEF JobFacts, Known, db
    <3> QED BY <1>1, <1>2, <2>2, <3>2, <3>3, JobSteps
  <2> QED BY <2>1, <2>2 DEF Precheck
<1>4. BotTypes' /\ TodoFacts(bot.work.todo)'
  BY <1>1, <1>2, StatementsKept DEF IInv, BotTypes, Processes
<1>5. NetTypes'
  BY <1>1 DEF IInv, NetTypes, net
<1> QED BY <1>2, <1>3, <1>4, <1>5 DEF IInv

(* A commit job moves on to its next step.                                 *)
LEMMA CommitMoves ==
  ASSUME IInv, UNCHANGED <<row, applied, issued>>, writer.job.op = "commit",
         NEW step \in {"pushing", "write"}, To(step)
  PROVE  WriterInv'
<1>1. [writer.job EXCEPT !.step = step] \in Job
  BY DEF IInv, WriterInv, Job
<1>2. PICK j \in Job : j = [writer.job EXCEPT !.step = step]
  BY <1>1
<1>3. j.op = "commit" /\ j.d = writer.job.d /\ j.step = step /\ ~j.ok
  BY <1>2 DEF IInv, WriterInv, JobFacts, Job
<1>4. JobFacts(j)'
  BY <1>3 DEF IInv, WriterInv, JobFacts, Known
<1>5. writer' = [writer EXCEPT !.job = j]
  BY <1>2 DEF To
<1>6. Kept
  BY DEF Kept, Known
<1> QED BY <1>4, <1>5, <1>6, JobSteps

LEMMA PushKeeps ==
  ASSUME IInv, Push
  PROVE  IInv'
<1>1. UNCHANGED <<db, issued, net, crashes>> /\ writer.job.op = "commit"
  BY DEF Push
<1>2. DbTypes' /\ DbFacts' /\ Kept /\ CountsKept
  BY <1>1, DbSame
<1>3. WriterInv'
  BY <1>1, CommitMoves DEF Push, db
<1>4. writer.job.d \in Deliveries
  BY <1>1 DEF IInv, WriterInv, JobFacts, NetTypes
<1>5. BotTypes' /\ bot'.work = bot.work
  <2>1. CASE bot.alive
    <3>1. Message("push", writer.job.d, 0, None) \in GoodMsg
      BY <1>4, MessageGood, DeliveryAssumption
    <3> QED BY <2>1, <3>1, Mailed DEF Push
  <2>2. CASE ~bot.alive
    BY <2>2 DEF IInv, BotTypes, Processes, Push
  <2> QED BY <2>1, <2>2
<1>6. TodoFacts(bot.work.todo)'
  BY <1>2, <1>5, StatementsKept
<1>7. NetTypes'
  BY <1>1 DEF IInv, NetTypes, net
<1> QED BY <1>2, <1>3, <1>5, <1>6, <1>7 DEF IInv

LEMMA PushTimeoutKeeps ==
  ASSUME IInv, PushTimeout
  PROVE  IInv'
<1>1. UNCHANGED <<db, bot, issued, net, crashes>> /\ writer.job.op = "commit"
  BY DEF PushTimeout, IInv, WriterInv, JobFacts, Job, NoJob
<1>2. DbTypes' /\ DbFacts' /\ Kept /\ CountsKept
  BY <1>1, DbSame
<1>3. WriterInv'
  BY <1>1, CommitMoves DEF PushTimeout, db
<1>4. BotTypes' /\ TodoFacts(bot.work.todo)'
  BY <1>1, <1>2, StatementsKept DEF IInv, BotTypes, Processes
<1>5. NetTypes'
  BY <1>1 DEF IInv, NetTypes, net
<1> QED BY <1>2, <1>3, <1>4, <1>5 DEF IInv

(* The row is new: no statement and no other job names its delivery.       *)
LEMMA CommitKeeps ==
  ASSUME IInv, Commit
  PROVE  IInv'
<1> DEFINE d == writer.job.d
<1>1. UNCHANGED <<kind, outcome, idem, applied, bot, issued, net, crashes>> /\ NextJob
  BY DEF Commit
<1>2. d \in Deliveries /\ ~Known(d) /\ d \in issued
  BY DEF Commit, IInv, WriterInv, JobFacts, NetTypes
<1>3. PICK limit \in AttemptLimits :
        row' = [row EXCEPT ![d] = [status |-> "pending", attempts |-> 0, limit |-> limit]]
  BY DEF Commit
<1>4. biz' = [biz EXCEPT ![d] = "pending"]
  BY DEF Commit
<1> HIDE DEF d
<1>5. DbTypes'
  BY <1>1, <1>2, <1>3, <1>4 DEF IInv, DbTypes, Row
<1>6. DbFacts'
  BY <1>1, <1>2, <1>3, <1>4, DeliveryAssumption DEF IInv, DbTypes, DbFacts, Known
<1>7. Kept /\ CountsKept
  BY <1>1, <1>2, <1>3 DEF IInv, DbTypes, Kept, CountsKept, Known
<1>8. WriterInv'
  BY <1>1, <1>7, WriterDone
<1>9. BotTypes' /\ TodoFacts(bot.work.todo)'
  BY <1>1, <1>7, StatementsKept DEF IInv, BotTypes, Processes
<1>10. NetTypes'
  BY <1>1 DEF IInv, NetTypes, net
<1> QED BY <1>5, <1>6, <1>8, <1>9, <1>10 DEF IInv

LEMMA RollBackKeeps ==
  ASSUME IInv, RollBack
  PROVE  IInv'
<1>1. UNCHANGED <<db, bot, issued, net, crashes>> /\ NextJob
  BY DEF RollBack
<1>2. DbTypes' /\ DbFacts' /\ Kept /\ CountsKept
  BY <1>1, DbSame
<1>3. WriterInv'
  BY <1>1, <1>2, WriterDone
<1>4. BotTypes' /\ TodoFacts(bot.work.todo)'
  BY <1>1, <1>2, StatementsKept DEF IInv, BotTypes, Processes
<1>5. NetTypes'
  BY <1>1 DEF IInv, NetTypes, net
<1> QED BY <1>2, <1>3, <1>4, <1>5 DEF IInv

LEMMA TakeKeeps ==
  ASSUME IInv, Take
  PROVE  IInv'
<1>1. UNCHANGED <<db, bot, issued, net, crashes>>
  BY DEF Take
<1>2. DbTypes' /\ DbFacts' /\ Kept /\ CountsKept
  BY <1>1, DbSame
<1>3. WriterInv'
  <2>1. writer.queue \in Seq(Job) /\ writer.queue # <<>>
    BY DEF IInv, WriterInv, Take
  <2>2. /\ Head(writer.queue) \in Job /\ Tail(writer.queue) \in Seq(Job)
        /\ Len(Tail(writer.queue)) = Len(writer.queue) - 1
        /\ \A i \in 1..Len(Tail(writer.queue)) : Tail(writer.queue)[i] = writer.queue[i + 1]
    BY <2>1, HeadTailProperties
  <2>3. Len(writer.queue) \in Nat /\ Head(writer.queue) = writer.queue[1] /\ Len(writer.queue) > 0
    BY <2>1, EmptySeq
  <2>4. writer' = [job |-> Head(writer.queue), queue |-> Tail(writer.queue)]
    BY DEF Take
  <2>5. \A i \in 1..Len(writer.queue) :
          Queued(writer.queue[i]) /\ JobFacts(writer.queue[i])
    BY DEF IInv, WriterInv
  <2>6. JobFacts(Head(writer.queue))
    BY <2>3, <2>5
  <2>7. \A i \in 1..Len(Tail(writer.queue)) :
          Queued(Tail(writer.queue)[i]) /\ JobFacts(Tail(writer.queue)[i])
    BY <2>2, <2>3, <2>5
  <2> QED BY <1>1, <2>2, <2>4, <2>6, <2>7 DEF WriterInv, JobFacts, Queued, Known, db
<1>4. BotTypes' /\ TodoFacts(bot.work.todo)'
  BY <1>1, <1>2, StatementsKept DEF IInv, BotTypes, Processes
<1>5. NetTypes'
  BY <1>1 DEF IInv, NetTypes, net
<1> QED BY <1>2, <1>3, <1>4, <1>5 DEF IInv

(* Effects are applied and recorded in one transaction.                    *)
LEMMA ApplyKeeps ==
  ASSUME IInv, Apply
  PROVE  IInv'
<1> DEFINE d == writer.job.d
           next == IF d \in Interactions THEN "finalize" ELSE "reply"
<1>1. UNCHANGED <<kind, row, biz, outcome, bot, issued, net, crashes>>
      /\ writer.job.op = "apply" /\ writer.job.step = "start"
  BY DEF Apply
<1>2. d \in Deliveries /\ Known(d) /\ writer.job.body \in Bodies /\ writer.job \in Job
  BY <1>1 DEF IInv, WriterInv, JobFacts
<1>3. next \in {"finalize", "reply"}
  OBVIOUS
<1> HIDE DEF next
<1>4. ASSUME DbTypes', DbFacts', Kept, CountsKept, WriterInv'
      PROVE  IInv'
  <2>1. BotTypes' /\ TodoFacts(bot.work.todo)'
    BY <1>1, <1>4, StatementsKept DEF IInv, BotTypes, Processes
  <2>2. NetTypes'
    BY <1>1 DEF IInv, NetTypes, net
  <2> QED BY <1>4, <2>1, <2>2 DEF IInv
<1>5. ASSUME Kept, applied'[d] = 1, writer' = [writer EXCEPT !.job.ok = TRUE, !.job.step = next]
      PROVE  WriterInv'
  <2>1. PICK j \in Job : j = [writer.job EXCEPT !.ok = TRUE, !.step = next]
    BY <1>2, <1>3 DEF Job
  <2>2. j.op = "apply" /\ j.d = d /\ j.body = writer.job.body /\ j.step = next
    BY <1>1, <1>2, <2>1 DEF Job
  <2>3. JobFacts(j)'
    BY <1>1, <1>2, <1>3, <1>5, <2>2 DEF JobFacts, Known
  <2>4. writer' = [writer EXCEPT !.job = j]
    BY <1>5, <2>1 DEF IInv, WriterInv
  <2> QED BY <1>1, <1>5, <2>3, <2>4, JobSteps
<1>6. CASE /\ idem[d] = writer.job.body
           /\ writer' = [writer EXCEPT !.job.ok = TRUE, !.job.step = next]
           /\ UNCHANGED <<idem, applied>>
  <2>1. DbTypes' /\ DbFacts' /\ Kept /\ CountsKept
    BY <1>1, <1>6, DbSame DEF db
  <2>2. applied'[d] = 1
    BY <1>2, <1>6, DeliveryAssumption DEF IInv, DbFacts
  <2>3. WriterInv'
    BY <1>5, <1>6, <2>1, <2>2
  <2> QED BY <1>4, <2>1, <2>3
<1>7. CASE To("reply") /\ UNCHANGED <<idem, applied>>
  <2>1. DbTypes' /\ DbFacts' /\ Kept /\ CountsKept
    BY <1>1, <1>7, DbSame DEF db
  <2>2. PICK j \in Job : j = [writer.job EXCEPT !.step = "reply"]
    BY <1>2 DEF Job
  <2>3. j.op = "apply" /\ j.d = d /\ j.body = writer.job.body /\ j.step = "reply"
        /\ j.ok = writer.job.ok
    BY <1>1, <1>2, <2>2 DEF Job
  <2>4. JobFacts(j)'
    BY <1>1, <1>2, <1>7, <2>3 DEF IInv, WriterInv, JobFacts, Known
  <2>5. writer' = [writer EXCEPT !.job = j]
    BY <1>7, <2>2 DEF IInv, WriterInv, To
  <2>6. WriterInv'
    BY <1>1, <2>1, <2>4, <2>5, JobSteps
  <2> QED BY <1>4, <2>1, <2>6
<1>8. CASE /\ idem[d] = None
           /\ writer' = [writer EXCEPT !.job.ok = TRUE, !.job.step = next]
           /\ idem' = [idem EXCEPT ![d] = writer.job.body]
           /\ applied' = [applied EXCEPT ![d] = @ + 1]
  <2>1. applied[d] = 0
    BY <1>2, <1>8 DEF IInv, DbTypes, DbFacts
  <2>2. applied' = [applied EXCEPT ![d] = 1]
    BY <1>8, <2>1 DEF IInv, DbTypes
  <2>3. DbTypes'
    BY <1>1, <1>2, <1>8, <2>2 DEF IInv, DbTypes
  <2>4. DbFacts'
    BY <1>1, <1>2, <1>8, <2>2, DeliveryAssumption DEF IInv, DbTypes, DbFacts, Known
  <2>5. Kept /\ CountsKept
    BY <1>1, <1>2, <2>2 DEF IInv, DbTypes, Kept, CountsKept, Known
  <2>6. WriterInv'
    BY <1>2, <1>5, <1>8, <2>2, <2>5 DEF IInv, DbTypes
  <2> QED BY <1>4, <2>3, <2>4, <2>5, <2>6
<1> QED BY <1>6, <1>7, <1>8 DEF Apply, next

(* A finalization writes the outcome of an interaction that has none.      *)
LEMMA FinalizeKeeps ==
  ASSUME IInv, Finalize
  PROVE  IInv'
<1> DEFINE d == writer.job.d
           to == IF writer.job.op = "fail" THEN "failed" ELSE "completed"
<1>1. UNCHANGED <<kind, row, idem, applied, bot, issued, net, crashes>> /\ To("reply")
  BY DEF Finalize
<1>2. /\ d \in Deliveries /\ Known(d) /\ writer.job \in Job
      /\ writer.job.op \in {"apply", "fail"}
      /\ writer.job.op # "fail" => applied[d] = 1
  BY DEF Finalize, IInv, WriterInv, JobFacts, Job, NoJob
<1>3. DbTypes' /\ DbFacts'
  <2>1. CASE biz[d] \in {"completed", "failed"} /\ UNCHANGED <<biz, outcome>>
    BY <1>1, <2>1, DbSame DEF db
  <2>2. CASE /\ biz[d] \notin {"completed", "failed"}
             /\ biz' = [biz EXCEPT ![d] = to]
             /\ outcome' = [outcome EXCEPT ![d] = Append(@, to)]
    <3>1. outcome[d] = <<>>
      BY <1>2, <2>2 DEF IInv, DbFacts
    <3>2. outcome' = [outcome EXCEPT ![d] = <<to>>]
      BY <1>2, <2>2, <3>1 DEF IInv, DbTypes
    <3>3. to \in {"completed", "failed"}
      OBVIOUS
    <3>4. to = "completed" => applied[d] = 1
      BY <1>2
    <3>5. PICK said \in {<<"completed">>, <<"failed">>} : said = <<to>>
      BY <3>3
    <3>6. said = <<"completed">> => applied[d] = 1
      BY <3>4, <3>5
    <3> HIDE DEF to, d
    <3>7. outcome' = [outcome EXCEPT ![d] = said]
      BY <3>2, <3>5
    <3>8. DbTypes'
      <4>1. biz' \in [Deliveries -> {"none", "pending", "completed", "failed"}]
        BY <2>2, <3>3 DEF IInv, DbTypes
      <4>2. outcome' \in [Deliveries -> {<<>>, <<"completed">>, <<"failed">>}]
        BY <3>7 DEF IInv, DbTypes
      <4> QED BY <1>1, <4>1, <4>2 DEF IInv, DbTypes
    <3>9. DbFacts'
      <4> SUFFICES ASSUME NEW e \in Deliveries
                   PROVE  /\ outcome'[e] # <<>> => Known(e) /\ biz'[e] \in {"completed", "failed"}
                          /\ outcome'[e] = <<"completed">> => applied[e] = 1
        BY <1>1 DEF IInv, DbFacts, Known
      <4>1. CASE e = d
        BY <4>1, <1>2, <2>2, <3>3, <3>6, <3>7 DEF IInv, DbTypes
      <4>2. CASE e # d
        BY <4>2, <2>2, <3>7 DEF IInv, DbTypes, DbFacts
      <4> QED BY <4>1, <4>2
    <3> QED BY <3>8, <3>9
  <2> QED BY <2>1, <2>2 DEF Finalize
<1>4. Kept /\ CountsKept
  BY <1>1 DEF Kept, CountsKept, Known
<1>5. WriterInv'
  <2>1. PICK j \in Job : j = [writer.job EXCEPT !.step = "reply"]
    BY <1>2 DEF Job
  <2>2. j.op = writer.job.op /\ j.d = d /\ j.body = writer.job.body /\ j.step = "reply"
        /\ j.ok = writer.job.ok
    BY <1>2, <2>1 DEF Job
  <2>3. JobFacts(j)'
    BY <1>1, <1>2, <2>2 DEF IInv, WriterInv, JobFacts, Known
  <2>4. writer' = [writer EXCEPT !.job = j]
    BY <1>1, <2>1 DEF IInv, WriterInv, To
  <2> QED BY <1>1, <1>4, <2>3, <2>4, JobSteps
<1>6. BotTypes' /\ TodoFacts(bot.work.todo)'
  BY <1>1, <1>4, StatementsKept DEF IInv, BotTypes, Processes
<1>7. NetTypes'
  BY <1>1 DEF IInv, NetTypes, net
<1> QED BY <1>3, <1>5, <1>6, <1>7 DEF IInv

(* A request joins the queue behind the job, or behind nothing.            *)
LEMMA RequestKeeps ==
  ASSUME IInv, UNCHANGED <<row, applied>>, issued \subseteq issued',
         NEW op \in {"apply", "fail"}, NEW d \in Deliveries, Known(d),
         NEW b \in Bodies \cup {None}, op = "apply" => b \in Bodies,
         NEW job \in Job, JobFacts(job)',
         writer' = [job |-> job, queue |-> Append(writer.queue, Start(op, d, b))]
  PROVE  WriterInv'
<1>1. Start(op, d, b) \in Job
      /\ Start(op, d, b) = [op |-> op, d |-> d, body |-> b, live |-> TRUE,
                           step |-> "start", ok |-> FALSE]
  BY StartJob
<1>2. PICK q \in Job : q = Start(op, d, b)
  BY <1>1
<1>3. JobFacts(q)' /\ Queued(q)
  BY <1>1, <1>2 DEF JobFacts, Queued, Known
<1>4. Kept
  BY DEF Kept, Known
<1>5. writer.queue \in Seq(Job)
  BY DEF IInv, WriterInv
<1>6. /\ Append(writer.queue, q) \in Seq(Job)
      /\ Len(Append(writer.queue, q)) = Len(writer.queue) + 1
      /\ Len(writer.queue) \in Nat
      /\ \A i \in 1..Len(writer.queue) : Append(writer.queue, q)[i] = writer.queue[i]
      /\ Append(writer.queue, q)[Len(writer.queue) + 1] = q
  BY <1>5, AppendProperties, LenProperties
<1>7. writer'.queue = Append(writer.queue, q) /\ writer'.job = job
      /\ writer' \in [job : Job, queue : Seq(Job)]
  BY <1>2, <1>6
<1>8. ASSUME NEW i \in 1..Len(writer'.queue)
      PROVE  Queued(writer.queue[i])' /\ JobFacts(writer.queue[i])'
  <2>1. CASE i \in 1..Len(writer.queue)
    <3>1. writer'.queue[i] = writer.queue[i]
      BY <1>6, <1>7, <2>1
    <3>2. Queued(writer.queue[i]) /\ JobFacts(writer.queue[i])
      BY <2>1 DEF IInv, WriterInv
    <3> QED BY <3>1, <3>2 DEF Queued, JobFacts, Known
  <2>2. CASE i = Len(writer.queue) + 1
    BY <1>3, <1>6, <1>7, <2>2 DEF Queued, JobFacts
  <2> QED BY <1>6, <1>7, <2>1, <2>2
<1> QED BY <1>7, <1>8 DEF WriterInv, Queued, JobFacts

(* The bot's process takes up other work.                                  *)
LEMMA WorkSteps ==
  ASSUME IInv, UNCHANGED <<row, applied>>, NEW b \in Processes,
         TodoFacts(b.work.todo), bot' = b
  PROVE  BotTypes' /\ TodoFacts(bot.work.todo)'
BY DEF BotTypes, TodoFacts, StatementFacts, Known

LEMMA OneStatement ==
  ASSUME IInv, NEW d \in Deliveries, Known(d),
         NEW to \in {"delivered", "dropped"}, to = "delivered" => applied[d] = 1,
         NEW result \in {"completed", "failed"}, NEW pending \in BOOLEAN
  PROVE  /\ <<Settle(d, to, result, pending)>> \in Seq(Statement)
         /\ TodoFacts(<<Settle(d, to, result, pending)>>)
<1> DEFINE u == Settle(d, to, result, pending)
<1>1. u \in Statement /\ u.d = d /\ u.to = to /\ u.table = "row"
  BY DEF Settle, Update, Statement
<1> HIDE DEF u
<1>2. <<u>> \in Seq(Statement) /\ Len(<<u>>) = 1 /\ <<u>>[1] = u
  BY <1>1
<1>3. TodoFacts(<<u>>)
  BY <1>1, <1>2 DEF TodoFacts, StatementFacts
<1> QED BY <1>2, <1>3 DEF u

LEMMA ReplyKeeps ==
  ASSUME IInv, Reply
  PROVE  IInv'
<1> DEFINE d == writer.job.d
<1>1. UNCHANGED <<db, issued, net, crashes>>
  BY DEF Reply
<1>2. /\ writer.job \in Job /\ writer.job.op \in {"apply", "fail"}
      /\ d \in Deliveries /\ Known(d) /\ (writer.job.ok => applied[d] = 1)
  BY DEF Reply, IInv, WriterInv, JobFacts, Job, NoJob
<1>3. DbTypes' /\ DbFacts' /\ Kept /\ CountsKept
  BY <1>1, DbSame
<1>4. NetTypes'
  BY <1>1 DEF IInv, NetTypes, net
<1>5. CASE NextJob /\ UNCHANGED bot
  <2>1. BotTypes' /\ TodoFacts(bot.work.todo)'
    BY <1>3, <1>5, StatementsKept DEF IInv, BotTypes
  <2>2. WriterInv'
    BY <1>1, <1>3, <1>5, WriterDone
  <2> QED BY <1>3, <1>4, <2>1, <2>2 DEF IInv
<1>6. CASE /\ writer' = [job |-> NoJob,
                         queue |-> Append(writer.queue, Start("fail", d, None))]
           /\ UNCHANGED bot
  <2>1. BotTypes' /\ TodoFacts(bot.work.todo)'
    BY <1>3, <1>6, StatementsKept DEF IInv, BotTypes
  <2>2. NoJob \in Job /\ JobFacts(NoJob)'
    BY DEF NoJob, Job, JobFacts
  <2>3. WriterInv'
    BY <1>1, <1>2, <1>6, <2>2, RequestKeeps DEF db
  <2> QED BY <1>3, <1>4, <2>1, <2>3 DEF IInv
<1>7. ASSUME NEW todo \in {Settle(d, "delivered", "completed", FALSE),
                           Settle(d, "dropped", "failed", FALSE)},
             writer.job.ok \/ todo # Settle(d, "delivered", "completed", FALSE),
             NextJob, bot' = [bot EXCEPT !.work.step = "run", !.work.todo = <<todo>>]
      PROVE  IInv'
  <2>1. <<todo>> \in Seq(Statement) /\ TodoFacts(<<todo>>)
    BY <1>2, <1>7, OneStatement
  <2>2. [bot EXCEPT !.work.step = "run", !.work.todo = <<todo>>] \in Processes
    BY <2>1 DEF IInv, BotTypes, Processes, BotWork
  <2>3. PICK b \in Processes :
          b = [bot EXCEPT !.work.step = "run", !.work.todo = <<todo>>]
    BY <2>2
  <2>4. b.work.todo = <<todo>>
    BY <2>3 DEF IInv, BotTypes, Processes, BotWork
  <2>5. BotTypes' /\ TodoFacts(bot.work.todo)'
    BY <1>1, <1>7, <2>1, <2>3, <2>4, WorkSteps DEF db
  <2>6. WriterInv'
    BY <1>1, <1>3, <1>7, WriterDone
  <2> QED BY <1>3, <1>4, <2>5, <2>6 DEF IInv
<1>8. Settle(d, "dropped", "failed", FALSE) # Settle(d, "delivered", "completed", FALSE)
  BY DEF Settle, Update
<1>9. CASE writer.job.ok
  BY <1>5, <1>7, <1>9 DEF Reply
<1>10. CASE ~writer.job.ok
  BY <1>5, <1>6, <1>7, <1>8, <1>10 DEF Reply
<1> QED BY <1>9, <1>10

-----------------------------------------------------------------------------
(* The bot's steps.                                                        *)

(* The tables, the writer and the net as they were; the process differs.   *)
LEMMA BotMoves ==
  ASSUME IInv, UNCHANGED <<db, writer, issued, net, crashes>>,
         NEW b \in Processes, TodoFacts(b.work.todo), bot' = b
  PROVE  IInv'
<1>1. DbTypes' /\ DbFacts'
  BY DbSame
<1>2. WriterInv'
  BY WriterSame DEF db
<1>3. BotTypes' /\ TodoFacts(bot.work.todo)'
  BY WorkSteps DEF db
<1>4. NetTypes'
  BY DEF IInv, NetTypes, net
<1> QED BY <1>1, <1>2, <1>3, <1>4 DEF IInv

LEMMA HandlePushKeeps ==
  ASSUME IInv, HandlePush
  PROVE  IInv'
<1>1. UNCHANGED <<db, issued, sock, sent, crashes>> /\ bot' = Drained
  BY DEF HandlePush
<1>2. DbTypes' /\ DbFacts' /\ Kept /\ CountsKept
  BY <1>1, DbSame
<1>3. Drained \in Processes /\ Drained.work = bot.work /\ Head(bot.inbox) \in GoodMsg
      /\ Head(bot.inbox).t = "push"
  BY Taken DEF HandlePush, Received
<1>4. BotTypes' /\ TodoFacts(bot.work.todo)'
  BY <1>1, <1>2, <1>3, StatementsKept DEF BotTypes
<1>5. WriterInv'
  <2>1. CASE UNCHANGED writer
    BY <1>1, <2>1, WriterSame DEF db
  <2>2. CASE writer.job.step = "pushing" /\ To("write")
    <3>1. writer.job.op = "commit"
      BY <2>2 DEF IInv, WriterInv, JobFacts, Job, NoJob
    <3> QED BY <1>1, <2>2, <3>1, CommitMoves DEF db
  <2> QED BY <2>1, <2>2 DEF HandlePush
<1>6. NetTypes'
  BY <1>1, <1>3 DEF IInv, NetTypes, HandlePush, GoodMsg
<1> QED BY <1>2, <1>4, <1>5, <1>6 DEF IInv

(* A detach leaves the work of the process as it is.                       *)
LEMMA DetachTypes ==
  ASSUME IInv, NEW b \in Processes
  PROVE  Detach(b) \in Processes /\ Detach(b).work = b.work
<1>1. Pending \in SUBSET Deliveries /\ b.orphans + 1 \in Nat /\ 0 \in 0..Sockets
  BY DeliveryAssumption DEF Pending, Processes
<1> QED BY <1>1 DEF Detach, Processes

LEMMA HandleDetachKeeps ==
  ASSUME IInv, HandleDetach \/ HandleLease
  PROVE  IInv'
<1>1. UNCHANGED <<db, writer, issued, net, crashes>>
      /\ bot' \in {Drained, Detach(Drained)} /\ bot.inbox # <<>>
  BY DEF HandleDetach, HandleLease, Received
<1>2. Drained \in Processes /\ Drained.work = bot.work
  BY <1>1, Taken
<1>3. Detach(Drained) \in Processes /\ Detach(Drained).work = bot.work
  BY <1>2, DetachTypes
<1>4. PICK b \in Processes : b = bot'
  BY <1>1, <1>2, <1>3
<1>5. TodoFacts(b.work.todo)
  BY <1>1, <1>2, <1>3, <1>4 DEF IInv
<1> QED BY <1>1, <1>4, <1>5, BotMoves

(* The rows still pending, each once.                                      *)
LEMMA PendingOnce ==
  ASSUME IInv
  PROVE  /\ Pending \subseteq Deliveries /\ Cardinality(Pending) \in Nat
         /\ InOrder(Pending) \in [1..Cardinality(Pending) -> Pending]
         /\ \A i, j \in 1..Cardinality(Pending) :
              InOrder(Pending)[i] = InOrder(Pending)[j] => i = j
<1>1. Pending \subseteq Deliveries
  BY DEF Pending
<1>2. IsFiniteSet(Pending)
  BY <1>1, DeliveryAssumption, FS_Subset
<1>3. Cardinality(Pending) \in Nat /\ ExistsBijection(1..Cardinality(Pending), Pending)
  BY <1>2, FS_CardinalityType
<1>4. \E f \in [1..Cardinality(Pending) -> Pending] : IsInjective(f)
  BY <1>3 DEF ExistsBijection, Bijection, Injection
<1>5. InOrder(Pending) \in [1..Cardinality(Pending) -> Pending] /\ IsInjective(InOrder(Pending))
  BY <1>4 DEF InOrder, SetToSeq
<1> QED BY <1>1, <1>3, <1>5 DEF IsInjective

(* What a resume and an expiry are to execute.                             *)
LEMMA ResumeTodo ==
  ASSUME IInv,
         NEW todo, todo = [i \in 1..Cardinality(Pending) |-> Retry(InOrder(Pending)[i])]
                \/ todo = [i \in 1..Cardinality(Pending) |->
                             Settle(InOrder(Pending)[i], "dropped", "failed", TRUE)]
  PROVE  todo \in Seq(Statement) /\ TodoFacts(todo)
<1>1. DOMAIN todo = 1..Cardinality(Pending) /\ Cardinality(Pending) \in Nat
  BY PendingOnce
<1>2. ASSUME NEW i \in 1..Cardinality(Pending)
      PROVE  todo[i] \in Statement /\ StatementFacts(todo[i])
             /\ todo[i].d = InOrder(Pending)[i]
  <2>1. PICK d \in Pending : d = InOrder(Pending)[i]
    BY PendingOnce
  <2>2. d \in Deliveries /\ row[d].status = "pending"
        /\ row[d].attempts \in Nat /\ row[d].limit \in Nat
    <3>1. {0} \cup AttemptLimits \subseteq Nat
      BY DeliveryAssumption
    <3>2. d \in Deliveries /\ row[d].status = "pending"
      BY DEF Pending
    <3>3. row[d].attempts \in Nat /\ row[d].limit \in {0} \cup AttemptLimits
      BY <3>2 DEF IInv, DbTypes, Row
    <3> QED BY <3>1, <3>2, <3>3
  <2>3. CASE todo[i] = Settle(d, "dropped", "failed", TRUE)
    BY <2>1, <2>2, <2>3 DEF Settle, Update, Statement, StatementFacts, Known
  <2>4. CASE todo[i] = Attempt(d) /\ ~(row[d].attempts + 1 >= row[d].limit)
    BY <2>1, <2>2, <2>4 DEF Attempt, Update, Statement, StatementFacts, Known
  <2> QED BY <2>1, <2>3, <2>4 DEF Retry
<1>3. todo \in [1..Cardinality(Pending) -> Statement]
  BY <1>1, <1>2
<1>4. todo \in Seq(Statement) /\ Len(todo) = Cardinality(Pending)
  BY <1>1, <1>3, LenProperties
<1> QED BY <1>2, <1>4, PendingOnce DEF TodoFacts

LEMMA ResumesKeep ==
  ASSUME IInv, HandleConnect \/ HandleExpiry
  PROVE  IInv'
<1>1. UNCHANGED <<db, writer, issued, net, crashes>> /\ bot.inbox # <<>>
  BY DEF HandleConnect, HandleExpiry, Received
<1>2. Drained \in Processes /\ Head(bot.inbox) \in GoodMsg
  BY <1>1, Taken
<1>3. Pending \subseteq Deliveries /\ Free \in BotWork
  BY FreeWork DEF Pending
<1>4. CASE HandleConnect
  <2>1. PICK todo \in Seq(Statement) :
          /\ todo = [i \in 1..Cardinality(Pending) |-> Retry(InOrder(Pending)[i])]
          /\ TodoFacts(todo)
    BY ResumeTodo
  <2>2. PICK w : w = [Free EXCEPT !.step = "run", !.n = Head(bot.inbox).n,
                                  !.frames = Pending, !.todo = todo]
    OBVIOUS
  <2>3. w \in BotWork /\ w.todo = todo
    BY <1>2, <1>3, <2>2 DEF BotWork, GoodMsg, Msg
  <2>4. PICK b : b = [Drained EXCEPT !.work = w]
    OBVIOUS
  <2>5. b \in Processes /\ b.work = w
    BY <1>2, <2>3, <2>4 DEF Processes
  <2>6. bot' = b
    BY <1>4, <2>1, <2>2, <2>4 DEF HandleConnect
  <2> QED BY <1>1, <2>1, <2>3, <2>5, <2>6, BotMoves
<1>5. CASE HandleExpiry
  <2>1. PICK todo \in Seq(Statement) :
          /\ todo = [i \in 1..Cardinality(Pending) |->
                     Settle(InOrder(Pending)[i], "dropped", "failed", TRUE)]
          /\ TodoFacts(todo)
    BY ResumeTodo
  <2>2. PICK w : w = [Free EXCEPT !.step = "run", !.expiry = TRUE, !.todo = todo]
    OBVIOUS
  <2>3. w \in BotWork /\ w.todo = todo
    BY <1>3, <2>2 DEF BotWork
  <2>4. PICK b : b = [Drained EXCEPT !.work = w]
    OBVIOUS
  <2>5. b \in Processes /\ b.work = w
    BY <1>2, <2>3, <2>4 DEF Processes
  <2>6. bot' = b
    BY <1>5, <2>1, <2>2, <2>4 DEF HandleExpiry
  <2> QED BY <1>1, <2>1, <2>3, <2>5, <2>6, BotMoves
<1> QED BY <1>4, <1>5

LEMMA HandleResultKeeps ==
  ASSUME IInv, HandleResult
  PROVE  IInv'
<1> DEFINE d == Head(bot.inbox).d
           b == Head(bot.inbox).body
           call == [Free EXCEPT !.step = "call", !.d = d]
<1>1. UNCHANGED <<db, issued, net, crashes>> /\ bot.inbox # <<>>
      /\ Head(bot.inbox).t = "result"
  BY DEF HandleResult, Received
<1>2. Drained \in Processes /\ Drained.work = bot.work /\ Head(bot.inbox) \in GoodMsg
  BY <1>1, Taken
<1>3. d \in Deliveries /\ b \in Bodies
  BY <1>1, <1>2 DEF GoodMsg
<1>4. DbTypes' /\ DbFacts'
  BY <1>1, DbSame
<1>5. NetTypes'
  BY <1>1 DEF IInv, NetTypes, net
<1>6. CASE bot' = Drained /\ UNCHANGED writer
  <2>1. PICK p \in Processes : p = Drained
    BY <1>2
  <2> QED BY <1>1, <1>2, <1>6, <2>1, BotMoves DEF IInv
<1>7. ASSUME NEW op \in {"apply", "fail"}, NEW body \in Bodies \cup {None},
             op = "apply" => body \in Bodies, Known(d),
             bot' = [Drained EXCEPT !.work = call], Request(op, d, body)
      PROVE  IInv'
  <2>1. PICK w : w = call
    OBVIOUS
  <2>2. w \in BotWork /\ w.todo = <<>>
    BY <1>3, <2>1, FreeWork DEF Free, BotWork
  <2>3. PICK p : p = [Drained EXCEPT !.work = w]
    OBVIOUS
  <2>4. p \in Processes /\ p.work = w /\ bot' = p
    BY <1>2, <1>7, <2>1, <2>2, <2>3 DEF Processes
  <2>5. TodoFacts(p.work.todo)
    BY <2>2, <2>4 DEF TodoFacts
  <2>6. BotTypes' /\ TodoFacts(bot.work.todo)'
    BY <1>1, <2>4, <2>5, WorkSteps DEF db
  <2>7. PICK job \in Job : job = writer.job
    BY DEF IInv, WriterInv
  <2>8. JobFacts(job)'
    BY <1>1, <2>7 DEF IInv, WriterInv, JobFacts, Known, db
  <2>9. PICK e \in Deliveries : e = d
    BY <1>3
  <2>10. writer' = [job |-> job, queue |-> Append(writer.queue, Start(op, e, body))]
    BY <1>7, <2>7, <2>9 DEF Request, IInv, WriterInv
  <2>11. WriterInv'
    BY <1>1, <1>7, <2>8, <2>9, <2>10, RequestKeeps DEF db
  <2> QED BY <1>4, <1>5, <2>6, <2>11 DEF IInv
<1>8. CASE /\ Known(d) /\ UNCHANGED writer
           /\ bot' = [Drained EXCEPT !.work = [Free EXCEPT !.step = "run", !.d = d,
                        !.todo = <<Settle(d, "dropped", "failed", FALSE)>>]]
  <2>1. PICK todo \in Seq(Statement) :
          todo = <<Settle(d, "dropped", "failed", FALSE)>> /\ TodoFacts(todo)
    BY <1>3, <1>8, OneStatement
  <2>2. PICK w : w = [Free EXCEPT !.step = "run", !.d = d, !.todo = todo]
    OBVIOUS
  <2>3. w \in BotWork /\ w.todo = todo
    BY <1>3, <2>2, FreeWork DEF BotWork
  <2>4. PICK p : p = [Drained EXCEPT !.work = w]
    OBVIOUS
  <2>5. p \in Processes /\ p.work = w /\ bot' = p
    BY <1>2, <1>8, <2>1, <2>2, <2>3, <2>4 DEF Processes
  <2> QED BY <1>1, <1>8, <2>1, <2>3, <2>5, BotMoves
<1>9. None \in Bodies \cup {None}
  OBVIOUS
<1>10. b \in Bodies \cup {None}
  BY <1>3
<1> QED BY <1>3, <1>6, <1>7, <1>8, <1>9, <1>10 DEF HandleResult, Known

(* What is left of the statements once the first has been executed.        *)
LEMMA RestTodo ==
  ASSUME IInv, bot.work.todo # <<>>, NEW rest \in Seq(Statement),
         rest = Tail(bot.work.todo) \/ rest = <<Business(Head(bot.work.todo))>> \o Tail(bot.work.todo)
  PROVE  /\ \A i \in 1..Len(rest) :
              \/ rest[i].d = Head(bot.work.todo).d /\ rest[i].table = "biz"
                 /\ StatementFacts(rest[i])
              \/ rest[i].d # Head(bot.work.todo).d /\ StatementFacts(rest[i])
         /\ \A i, j \in 1..Len(rest) : i # j => rest[i].d # rest[j].d
<1> DEFINE todo == bot.work.todo
           u == Head(todo)
           tail == Tail(todo)
<1>1. todo \in Seq(Statement) /\ todo # <<>> /\ TodoFacts(todo)
  BY DEF IInv, BotTypes, Processes, BotWork
<1>2. /\ u \in Statement /\ tail \in Seq(Statement) /\ Len(tail) = Len(todo) - 1
      /\ \A i \in 1..Len(tail) : tail[i] = todo[i + 1]
      /\ Len(todo) \in Nat /\ Len(todo) > 0 /\ u = todo[1]
  BY <1>1, HeadTailProperties, LenProperties, EmptySeq
<1> HIDE DEF u, tail, todo
<1>3. StatementFacts(u)
  BY <1>1, <1>2 DEF TodoFacts
<1>4. ASSUME NEW i \in 1..Len(tail)
      PROVE  tail[i].d # u.d /\ StatementFacts(tail[i])
  <2>1. i + 1 \in 1..Len(todo) /\ 1 \in 1..Len(todo) /\ i + 1 # 1
    BY <1>2
  <2> QED BY <1>1, <1>2, <2>1 DEF TodoFacts
<1>5. ASSUME NEW i \in 1..Len(tail), NEW j \in 1..Len(tail), i # j
      PROVE  tail[i].d # tail[j].d
  <2>1. i + 1 \in 1..Len(todo) /\ j + 1 \in 1..Len(todo) /\ i + 1 # j + 1
    BY <1>2, <1>5
  <2> QED BY <1>1, <1>2, <2>1 DEF TodoFacts
<1>6. CASE rest = tail
  BY <1>4, <1>5, <1>6 DEF u, todo
<1>7. CASE rest = <<Business(u)>> \o tail
  <2>1. PICK v \in Statement : v = Business(u)
    BY <1>2 DEF Business, Statement
  <2>2. v.d = u.d /\ v.to = u.to /\ v.table = "biz" /\ StatementFacts(v)
    BY <1>2, <1>3, <2>1 DEF Business, Statement, StatementFacts
  <2>3. <<v>> \in Seq(Statement) /\ Len(<<v>>) = 1 /\ <<v>>[1] = v
    OBVIOUS
  <2>4. Len(rest) = 1 + Len(tail) /\ Len(tail) \in Nat
        /\ \A i \in 1..1 + Len(tail) : rest[i] = IF i <= 1 THEN <<v>>[i] ELSE tail[i - 1]
    BY <1>2, <1>7, <2>1, <2>3, ConcatProperties
  <2>5. rest[1] = v
    BY <2>3, <2>4
  <2>6. \A i \in 1..Len(rest) : i # 1 => i - 1 \in 1..Len(tail) /\ rest[i] = tail[i - 1]
    BY <2>4
  <2>7. \A i \in 1..Len(rest) :
           \/ rest[i].d = u.d /\ rest[i].table = "biz" /\ StatementFacts(rest[i])
           \/ rest[i].d # u.d /\ StatementFacts(rest[i])
    BY <1>4, <2>2, <2>5, <2>6
  <2>8. ASSUME NEW i \in 1..Len(rest), NEW j \in 1..Len(rest), i # j
        PROVE  rest[i].d # rest[j].d
    <3>1. CASE i = 1
      BY <1>4, <2>2, <2>5, <2>6, <2>8, <3>1
    <3>2. CASE j = 1
      BY <1>4, <2>2, <2>5, <2>6, <2>8, <3>2
    <3>3. CASE i # 1 /\ j # 1
      <4>1. i - 1 # j - 1
        BY <2>8
      <4> QED BY <1>5, <2>6, <3>3, <4>1, ZenonT(60)
    <3> QED BY <3>1, <3>2, <3>3
  <2> QED BY <2>7, <2>8 DEF u, todo
<1> QED BY <1>6, <1>7 DEF u, tail, todo

(* A try is of a row that keeps its attempts below the limit: no later     *)
(* statement names the same row but to fail its command.                   *)
LEMMA ExecuteKeeps ==
  ASSUME IInv, Execute
  PROVE  IInv'
<1> DEFINE todo == bot.work.todo
<1>1. UNCHANGED <<kind, outcome, idem, applied, writer, issued, net, crashes>> /\ todo # <<>>
  BY DEF Execute
<1>2. todo \in Seq(Statement) /\ TodoFacts(todo)
  BY DEF IInv, BotTypes, Processes, BotWork
<1>3. Head(todo) \in Statement /\ Tail(todo) \in Seq(Statement)
      /\ Head(todo) = todo[1] /\ Len(todo) \in Nat \ {0}
  BY <1>1, <1>2, HeadTailProperties, EmptySeq
<1>4. PICK u \in Statement : u = Head(todo)
  BY <1>3
<1>5. StatementFacts(u) /\ u.d \in Deliveries /\ u.to \in {"delivered", "dropped"}
      /\ u.result \in {"completed", "failed"}
  BY <1>2, <1>3, <1>4 DEF TodoFacts, Statement
<1>6. <<Business(u)>> \o Tail(todo) \in Seq(Statement) /\ <<>> \o Tail(todo) = Tail(todo)
  <2>1. Business(u) \in Statement
    BY DEF Business, Statement
  <2>2. <<Business(u)>> \in Seq(Statement)
    BY <2>1
  <2> QED BY <1>3, <2>2, ConcatProperties, ConcatEmptySeq
<1>7. PICK rest \in Seq(Statement) :
        /\ rest = Tail(todo) \/ rest = <<Business(u)>> \o Tail(todo)
        /\ bot' = [bot EXCEPT !.work.todo = rest]
  BY <1>3, <1>4, <1>6 DEF Execute
<1>8. /\ \A i \in 1..Len(rest) :
           \/ rest[i].d = u.d /\ rest[i].table = "biz" /\ StatementFacts(rest[i])
           \/ rest[i].d # u.d /\ StatementFacts(rest[i])
      /\ \A i, j \in 1..Len(rest) : i # j => rest[i].d # rest[j].d
  BY <1>1, <1>4, <1>7, RestTodo
<1>9. PICK r \in Row :
        /\ row' = [row EXCEPT ![u.d] = r]
        /\ r.status # "none" /\ r.limit = row[u.d].limit
        /\ r.status = "pending" => r.attempts < r.limit
        /\ r.status = "delivered" => applied[u.d] = 1
  <2>1. row[u.d] \in Row /\ row \in [Deliveries -> Row]
    BY <1>5 DEF IInv, DbTypes, Row
  <2>2. row[u.d].status # "none"
        /\ (row[u.d].status = "pending" => row[u.d].attempts < row[u.d].limit)
        /\ (row[u.d].status = "delivered" => applied[u.d] = 1)
    BY <1>5 DEF IInv, DbFacts, StatementFacts, Known
  <2>3. CASE UNCHANGED row
    <3>1. row = [row EXCEPT ![u.d] = row[u.d]]
      BY <2>1
    <3> QED BY <2>1, <2>2, <2>3, <3>1
  <2>4. CASE row' = [row EXCEPT ![u.d].status = u.to]
    <3>1. PICK r \in Row : r = [row[u.d] EXCEPT !.status = u.to]
      BY <1>5, <2>1 DEF Row
    <3>2. r.status = u.to /\ r.limit = row[u.d].limit
      BY <2>1, <3>1 DEF Row
    <3>3. u.to = "delivered" => applied[u.d] = 1
      BY <1>5 DEF StatementFacts
    <3>4. u.to # "none" /\ u.to # "pending"
      BY <1>5
    <3> QED BY <2>4, <3>1, <3>2, <3>3, <3>4
  <2>5. CASE u.table = "try" /\ row' = [row EXCEPT ![u.d].attempts = @ + 1]
    <3>0. row[u.d].attempts + 1 \in Nat
      BY <2>1 DEF Row
    <3>1. PICK r \in Row : r = [row[u.d] EXCEPT !.attempts = @ + 1]
      BY <2>1, <3>0 DEF Row
    <3>2. r.status = row[u.d].status /\ r.limit = row[u.d].limit
          /\ r.attempts = row[u.d].attempts + 1
      BY <2>1, <3>1 DEF Row
    <3>3. row[u.d].attempts + 1 < row[u.d].limit
      BY <1>5, <2>5 DEF StatementFacts
    <3> QED BY <2>2, <2>5, <3>1, <3>2, <3>3
  <2> QED BY <1>4, <2>3, <2>4, <2>5 DEF Execute
<1>10. biz' \in [Deliveries -> {"none", "pending", "completed", "failed"}]
       /\ \A d \in Deliveries : biz'[d] = biz[d] \/ biz'[d] \in {"completed", "failed"}
  <2>1. CASE UNCHANGED biz
    BY <2>1 DEF IInv, DbTypes
  <2>2. CASE biz' = [biz EXCEPT ![u.d] = u.result]
    BY <1>5, <2>2 DEF IInv, DbTypes
  <2> QED BY <1>4, <2>1, <2>2 DEF Execute
<1>11. DbTypes'
  BY <1>1, <1>5, <1>9, <1>10 DEF IInv, DbTypes, Row
<1>12. \A d \in Deliveries : (d # u.d => row'[d] = row[d]) /\ (Known(d)' <=> Known(d))
  BY <1>5, <1>9 DEF IInv, DbTypes, StatementFacts, Known
<1>13. row'[u.d] = r
  BY <1>5, <1>9 DEF IInv, DbTypes
<1>14. DbFacts'
  <2> SUFFICES ASSUME NEW d \in Deliveries
               PROVE  /\ row'[d].status = "pending" => row'[d].attempts < row'[d].limit
                      /\ row'[d].status = "delivered" => applied[d] = 1
                      /\ outcome[d] # <<>> => Known(d)' /\ biz'[d] \in {"completed", "failed"}
                      /\ Known(d)' => d \in issued
    BY <1>1 DEF IInv, DbFacts
  <2>1. outcome[d] # <<>> => Known(d)' /\ biz'[d] \in {"completed", "failed"}
    BY <1>10, <1>12 DEF IInv, DbFacts
  <2>2. Known(d)' => d \in issued
    BY <1>12 DEF IInv, DbFacts
  <2>3. CASE d = u.d
    BY <1>9, <1>13, <2>1, <2>2, <2>3
  <2>4. CASE d # u.d
    BY <1>12, <2>1, <2>2, <2>4 DEF IInv, DbFacts
  <2> QED BY <2>3, <2>4
<1>15. WriterInv'
  <2>1. Kept
    BY <1>1, <1>12 DEF Kept
  <2>2. PICK job \in Job : job = writer.job
    BY DEF IInv, WriterInv
  <2>3. JobFacts(job)'
    BY <1>1, <1>12, <2>2 DEF IInv, WriterInv, JobFacts, NetTypes
  <2>4. writer' = [writer EXCEPT !.job = job]
    BY <1>1, <2>2 DEF IInv, WriterInv
  <2> QED BY <1>1, <2>1, <2>3, <2>4, JobSteps
<1>16. BotTypes'
  BY <1>7 DEF IInv, BotTypes, Processes, BotWork
<1>17. TodoFacts(bot.work.todo)'
  <2>1. bot'.work.todo = rest
    BY <1>7 DEF IInv, BotTypes, Processes, BotWork
  <2>2. ASSUME NEW i \in 1..Len(rest)
        PROVE  StatementFacts(rest[i])'
    <3>0. rest[i] \in Statement
      OBVIOUS
    <3>1. rest[i].d \in Deliveries
      BY <3>0 DEF Statement
    <3>2. CASE rest[i].d = u.d /\ rest[i].table = "biz" /\ StatementFacts(rest[i])
      BY <1>1, <1>12, <3>1, <3>2 DEF StatementFacts
    <3>3. CASE rest[i].d # u.d /\ StatementFacts(rest[i])
      BY <1>1, <1>12, <3>1, <3>3 DEF StatementFacts
    <3> QED BY <1>8, <3>2, <3>3
  <2> QED BY <1>8, <2>1, <2>2 DEF TodoFacts
<1>18. NetTypes'
  BY <1>1 DEF IInv, NetTypes, net
<1> QED BY <1>11, <1>14, <1>15, <1>16, <1>17, <1>18 DEF IInv

LEMMA FinishKeeps ==
  ASSUME IInv, Finish
  PROVE  IInv'
<1> DEFINE n == bot.work.n
           freed == [bot EXCEPT !.work = Free]
<1>1. UNCHANGED <<db, writer, issued, sent, crashes>>
  BY DEF Finish
<1>2. n \in 0..Sockets /\ bot.work.frames \subseteq Deliveries
  BY DEF IInv, BotTypes, Processes, BotWork
<1>3. freed \in Processes /\ freed.work = Free
  BY FreeWork DEF IInv, BotTypes, Processes
<1> HIDE DEF freed
<1>4. bot' \in Processes /\ bot'.work = Free
  <2>1. CASE bot' = [freed EXCEPT !.session = n, !.armed = FALSE, !.reschedules = 0]
    <3>1. PICK m \in 0..Sockets : m = n
      BY <1>2
    <3>2. PICK k \in 0..3 : k = 0
      OBVIOUS
    <3>3. bot' = [freed EXCEPT !.session = m, !.armed = FALSE, !.reschedules = k]
      BY <2>1, <3>1, <3>2
    <3> QED BY <1>3, <3>3 DEF Processes
  <2>2. CASE bot' = freed
    BY <1>3, <2>2
  <2>3. CASE /\ bot.reschedules < 3
             /\ bot' = [freed EXCEPT !.armed = TRUE, !.reschedules = @ + 1,
                                     !.orphans = IF bot.armed THEN @ + 1 ELSE @]
    <3>1. freed.orphans \in Nat /\ freed.orphans + 1 \in Nat
      BY <1>3 DEF Processes
    <3>2. freed.reschedules = bot.reschedules /\ bot.reschedules + 1 \in 0..3
      BY <2>3 DEF IInv, BotTypes, Processes, freed
    <3>3. PICK o \in Nat, k \in 0..3 :
            bot' = [freed EXCEPT !.armed = TRUE, !.reschedules = k, !.orphans = o]
      BY <2>3, <3>1, <3>2
    <3> QED BY <1>3, <3>3 DEF Processes
  <2> QED BY <2>1, <2>2, <2>3 DEF Finish, freed
<1>5. DbTypes' /\ DbFacts'
  BY <1>1, DbSame
<1>6. WriterInv'
  BY <1>1, WriterSame DEF db
<1>7. BotTypes' /\ TodoFacts(bot.work.todo)'
  BY <1>4, FreeWork DEF BotTypes, TodoFacts, Free
<1>8. NetTypes'
  BY <1>1, <1>2 DEF Finish, IInv, NetTypes, Sock
<1> QED BY <1>5, <1>6, <1>7, <1>8 DEF IInv

-----------------------------------------------------------------------------
(* Deaths.  What the bot's process asked for stays in the writer's queue.  *)
LEMMA DeadTypes ==
  ASSUME IInv, BotDies
  PROVE  BotTypes' /\ TodoFacts(bot.work.todo)' /\ sock' \in [1..Sockets -> Sock]
<1>1. 0 \in 0..Sockets /\ Free \in BotWork /\ <<>> \in Seq(GoodMsg)
  BY DeliveryAssumption, FreeWork
<1>2. Dead \in Processes /\ Dead.work = Free /\ bot' = Dead
  BY <1>1 DEF Dead, Processes, BotDies
<1>3. BotTypes' /\ TodoFacts(bot.work.todo)'
  BY <1>2 DEF BotTypes, TodoFacts, Free
<1> QED BY <1>3 DEF BotDies, IInv, NetTypes, Sock

LEMMA BotCrashKeeps ==
  ASSUME IInv, BotCrash
  PROVE  IInv'
<1>1. UNCHANGED <<db, issued, got, sent>> /\ crashes' \in 0..MaxCrashes
  BY DeliveryAssumption DEF BotCrash, IInv, NetTypes
<1>2. DbTypes' /\ DbFacts' /\ Kept
  BY <1>1, DbSame
<1>3. BotTypes' /\ TodoFacts(bot.work.todo)' /\ sock' \in [1..Sockets -> Sock]
  BY DeadTypes DEF BotCrash
<1>4. PICK j : j = writer'.job
  OBVIOUS
<1>5. j \in Job /\ JobFacts(j)'
  <2>1. CASE writer.job.op = "commit"
    <3>1. j = [writer.job EXCEPT !.step = IF @ = "pushing" THEN "write" ELSE @]
      BY <1>4, <2>1 DEF BotCrash
    <3>2. j \in Job /\ j.op = "commit" /\ j.d = writer.job.d /\ j.ok = writer.job.ok
          /\ j.step \in {"start", "write"}
      BY <2>1, <3>1 DEF IInv, WriterInv, JobFacts, Job
    <3> QED BY <1>1, <2>1, <3>2 DEF IInv, WriterInv, JobFacts, Known, db
  <2>2. CASE writer.job.op # "commit"
    <3>1. j = [writer.job EXCEPT !.live = FALSE]
      BY <1>4, <2>2 DEF BotCrash
    <3>2. j \in Job /\ j.op = writer.job.op /\ j.d = writer.job.d /\ j.ok = writer.job.ok
          /\ j.step = writer.job.step /\ j.body = writer.job.body
      BY <3>1 DEF IInv, WriterInv, Job
    <3>3. j.op = "none" => j = NoJob
      <4> SUFFICES ASSUME j.op = "none" PROVE j = NoJob
        OBVIOUS
      <4>1. writer.job = NoJob
        BY <3>2 DEF IInv, WriterInv, JobFacts
      <4>2. NoJob.live = FALSE /\ NoJob \in Job
        BY DEF NoJob, Job
      <4>3. [NoJob EXCEPT !.live = NoJob.live] = NoJob
        BY <4>2 DEF Job
      <4> QED BY <3>1, <4>1, <4>2, <4>3
    <3> QED BY <1>1, <2>2, <3>2, <3>3 DEF IInv, WriterInv, JobFacts, Known, db
  <2> QED BY <2>1, <2>2
<1>6. PICK heard : heard = Unheard /\ writer' = [job |-> j, queue |-> heard]
  BY <1>4 DEF BotCrash
<1>7. /\ heard \in Seq(Job) /\ Len(heard) = Len(writer.queue)
      /\ \A i \in 1..Len(writer.queue) : heard[i] = [writer.queue[i] EXCEPT !.live = FALSE]
  <2>1. writer.queue \in Seq(Job) /\ Len(writer.queue) \in Nat
    BY LenProperties DEF IInv, WriterInv
  <2>2. Unheard \in [1..Len(writer.queue) -> Job]
    <3> SUFFICES ASSUME NEW i \in 1..Len(writer.queue)
                 PROVE  [writer.queue[i] EXCEPT !.live = FALSE] \in Job
      BY DEF Unheard
    <3>1. writer.queue[i] \in Job
      BY <2>1
    <3> QED BY <3>1 DEF Job
  <2>3. Unheard \in Seq(Job) /\ Len(Unheard) = Len(writer.queue)
    BY <2>1, <2>2, LenProperties
  <2> QED BY <1>6, <2>3 DEF Unheard
<1>8. ASSUME NEW i \in 1..Len(writer.queue)
      PROVE  Queued(heard[i]) /\ JobFacts(heard[i])'
  <2>1. PICK q \in Job : q = writer.queue[i]
    BY DEF IInv, WriterInv
  <2>2. Queued(q) /\ JobFacts(q)
    BY <2>1 DEF IInv, WriterInv
  <2>3. PICK w \in Job : w = [q EXCEPT !.live = FALSE]
    BY DEF Job
  <2>4. w.op = q.op /\ w.d = q.d /\ w.ok = q.ok /\ w.step = q.step /\ w.body = q.body
    BY <2>3 DEF Job
  <2>5. Queued(w) /\ JobFacts(w)'
    BY <1>1, <2>2, <2>4 DEF Queued, JobFacts, Known, db
  <2>6. heard[i] = w
    BY <1>7, <2>1, <2>3
  <2> QED BY <2>5, <2>6
<1>9. WriterInv'
  BY <1>4, <1>5, <1>6, <1>7, <1>8 DEF WriterInv, Queued, JobFacts
<1>10. NetTypes'
  BY <1>1, <1>3 DEF IInv, NetTypes
<1> QED BY <1>2, <1>3, <1>9, <1>10 DEF IInv

LEMMA WriterCrashKeeps ==
  ASSUME IInv, WriterCrash
  PROVE  IInv'
<1>1. UNCHANGED <<db, issued, got, sent>> /\ crashes' \in 0..MaxCrashes
  BY DeliveryAssumption DEF WriterCrash, IInv, NetTypes
<1>2. DbTypes' /\ DbFacts' /\ Kept /\ CountsKept
  BY <1>1, DbSame
<1>3. BotTypes' /\ TodoFacts(bot.work.todo)' /\ sock' \in [1..Sockets -> Sock]
  <2>1. CASE BotDies
    BY <2>1, DeadTypes
  <2>2. CASE UNCHANGED <<bot, sock>>
    BY <1>2, <2>2, StatementsKept DEF IInv, BotTypes, NetTypes
  <2> QED BY <2>1, <2>2 DEF WriterCrash
<1>4. WriterInv'
  <2>1. writer' = [job |-> NoJob, queue |-> <<>>]
    BY DEF WriterCrash
  <2>2. NoJob \in Job /\ <<>> \in Seq(Job) /\ Len(<<>>) = 0
    BY DEF NoJob, Job
  <2> QED BY <2>1, <2>2 DEF WriterInv, JobFacts, NoJob
<1>5. NetTypes'
  BY <1>1, <1>3 DEF IInv, NetTypes
<1> QED BY <1>2, <1>3, <1>4, <1>5 DEF IInv

-----------------------------------------------------------------------------
LEMMA NextIInv == IInv /\ [Next]_vars => IInv'
<1> SUFFICES ASSUME IInv, [Next]_vars PROVE IInv'
  OBVIOUS
<1>1. ASSUME NEW n \in 1..Sockets, Hello(n) \/ Close(n) PROVE IInv'
  BY <1>1, HelloKeeps, CloseKeeps
<1>2. ASSUME NEW d \in Deliveries, Precheck(d) PROVE IInv'
  BY <1>2, PrecheckKeeps
<1>3. ASSUME NEW d \in Deliveries, NEW b \in Bodies, Result(d, b) PROVE IInv'
  BY <1>3, ResultKeeps
<1>4. CASE WriterStep
  BY <1>4, PushKeeps, PushTimeoutKeeps, CommitKeeps, RollBackKeeps, TakeKeeps, ApplyKeeps,
     FinalizeKeeps, ReplyKeeps DEF WriterStep
<1>5. CASE BotStep
  BY <1>5, HandlePushKeeps, ResumesKeep, HandleResultKeeps, HandleDetachKeeps, ExecuteKeeps,
     FinishKeeps DEF BotStep
<1>6. CASE LeaseFires \/ OfflineFires
  BY <1>6, TimersKeep
<1>7. CASE BotCrash \/ WriterCrash
  BY <1>7, BotCrashKeeps, WriterCrashKeeps
<1>8. CASE UNCHANGED vars
  <2>1. UNCHANGED <<db, bot, writer, issued, net, crashes>>
    BY <1>8 DEF vars
  <2>2. PICK b \in Processes : b = bot
    BY DEF IInv, BotTypes
  <2> QED BY <2>1, <2>2, BotMoves DEF IInv
<1> QED BY <1>1, <1>2, <1>3, <1>4, <1>5, <1>6, <1>7, <1>8 DEF Next

LEMMA IInvHolds == Spec => []IInv
<1>1. Init => IInv
  BY TypesOfInit
<1>2. IInv /\ [Next]_vars => IInv'
  BY NextIInv
<1> QED BY <1>1, <1>2, PTL DEF Spec

-----------------------------------------------------------------------------
(* The types, and that a row still pending has attempts left: a resume     *)
(* drops the row with its last one.                                        *)
THEOREM Types == Spec => []TypeOK
<1>1. IInv => TypeOK
  <2> SUFFICES ASSUME IInv PROVE TypeOK
    OBVIOUS
  <2>1. /\ kind \in [Deliveries -> {"command_invocation", "message_interaction"}]
        /\ row \in [Deliveries -> [status : {"none", "pending", "delivered", "dropped"},
                             attempts : Nat, limit : {0} \cup AttemptLimits]]
        /\ biz \in [Deliveries -> {"none", "pending", "completed", "failed"}]
        /\ idem \in [Deliveries -> Bodies \cup {None}] /\ applied \in [Deliveries -> Nat]
    BY DEF IInv, DbTypes, Row
  <2>2. outcome \in [Deliveries -> Seq({"completed", "failed"})]
    <3>1. {<<>>, <<"completed">>, <<"failed">>} \subseteq Seq({"completed", "failed"})
      OBVIOUS
    <3> QED BY <3>1 DEF IInv, DbTypes
  <2>3. \A d \in Pending : row[d].attempts < row[d].limit
    BY DEF IInv, DbFacts, Pending
  <2>4. bot \in Process
    <3>1. bot.inbox \in Seq(GoodMsg) /\ GoodMsg \subseteq Msg
      BY DEF IInv, BotTypes, Processes, GoodMsg
    <3>2. bot.inbox \in Seq(Msg)
      BY <3>1, LenProperties
    <3> QED BY <3>2 DEF IInv, BotTypes, Processes, Process
  <2>5. writer \in [job : Job, queue : Seq(Job)]
    BY DEF IInv, WriterInv
  <2> QED BY <2>1, <2>2, <2>3, <2>4, <2>5 DEF IInv, NetTypes, TypeOK
<1> QED BY <1>1, IInvHolds, PTL

(* Contract 9.7.1, at most once: for any number of deliveries, results,    *)
(* sockets and deaths of either process, the effects of a delivery are     *)
(* applied once at most, and a row is delivered only after they were.      *)
THEOREM AppliedOnce == Spec => []EffectsOnce
<1>1. IInv => EffectsOnce
  BY DEF IInv, DbTypes, DbFacts, EffectsOnce
<1> QED BY <1>1, IInvHolds, PTL

(* Contract 9.6.1: however results, timers and resumes race, an            *)
(* interaction has one outcome event at most, and completes only after its *)
(* effects were applied.                                                   *)
THEOREM OutcomeOnce == Spec => []OneOutcomeEvent
<1>1. IInv => OneOutcomeEvent
  <2> SUFFICES ASSUME IInv, NEW d \in Deliveries
               PROVE  Len(outcome[d]) <= 1 /\ (outcome[d] = <<"completed">> => applied[d] = 1)
    BY DEF OneOutcomeEvent
  <2>1. outcome[d] \in {<<>>, <<"completed">>, <<"failed">>}
    BY DEF IInv, DbTypes
  <2>2. Len(<<>>) = 0 /\ Len(<<"completed">>) = 1 /\ Len(<<"failed">>) = 1
    OBVIOUS
  <2>3. Len(outcome[d]) <= 1
    <3>1. CASE outcome[d] = <<>>
      BY <2>2, <3>1
    <3>2. CASE outcome[d] = <<"completed">>
      BY <2>2, <3>2
    <3>3. CASE outcome[d] = <<"failed">>
      BY <2>2, <3>3
    <3> QED BY <2>1, <3>1, <3>2, <3>3
  <2> QED BY <2>3 DEF IInv, DbFacts
<1> QED BY <1>1, IInvHolds, PTL
=============================================================================
