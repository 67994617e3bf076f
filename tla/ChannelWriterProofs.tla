------------------------ MODULE ChannelWriterProofs ------------------------
(***************************************************************************)
(* The writer and its event ids, for every set of users, keys and bodies,  *)
(* every TTL and every counter width up to 12 bits, in three parts.        *)
(*                                                                         *)
(* Event ids: formatting, parsing and order.                               *)
(*                                                                         *)
(* The log: event ids ascend in commit order.  The inductive invariant is  *)
(* type correctness, a call under every planned command, and that the      *)
(* counter covers the log: what makes each new id later than all stored    *)
(* ones.  The part of it that speaks of the log leaves out the events of   *)
(* another process, the command-binding updates, of which Spec has none.   *)
(* So the step lemma also serves ChannelTimelineProofs, where there are.   *)
(*                                                                         *)
(* What the stored events say: a command runs once per key, an answer      *)
(* names events of its own request, nothing is sent after the dissolve, a  *)
(* session closes once, frames leave in order.  Each theorem has a         *)
(* strengthening of its own beside the invariant of the log.               *)
(***************************************************************************)
EXTENDS ChannelWriter, TLAPS

\* What the three hex digits can hold.
Bits12 == 0..4095

\* A sequence state is its two fields, and the counter fits twelve bits.
LEMMA SeqStateFields ==
  ASSUME NEW s \in SeqState
  PROVE  /\ s.last_ms \in Nat /\ s.counter \in 0..MaxCounter
         /\ s.counter \in Bits12
         /\ s = [last_ms |-> s.last_ms, counter |-> s.counter]
<1>1. \A c \in 0..MaxCounter : c \in Bits12
  BY MaxCounterAssumption DEF Bits12
<1>2. s.last_ms \in Nat /\ s.counter \in 0..MaxCounter
  BY DEF SeqState
<1>3. s = [last_ms |-> s.last_ms, counter |-> s.counter]
  BY DEF SeqState
<1> QED BY <1>1, <1>2, <1>3

\* Three hex digits hold a twelve-bit counter.
LEMMA CounterDigitsExact ==
  ASSUME NEW c \in Bits12
  PROVE  /\ (c \div 256) % 16 \in 0..15 /\ (c % 256) \div 16 \in 0..15 /\ c % 16 \in 0..15
         /\ c = 256 * ((c \div 256) % 16) + (16 * ((c % 256) \div 16) + (c % 16))
<1>1. (c \div 256) % 16 = c \div 256
  BY DEF Bits12
<1>2. c \div 256 \in 0..15
  BY DEF Bits12
<1>3. 16 * ((c % 256) \div 16) + (c % 16) = c % 256
  BY DEF Bits12
<1>4. 256 * (c \div 256) + (c % 256) = c
  BY DEF Bits12
<1>5. (c % 256) \div 16 \in 0..15
  BY DEF Bits12
<1>6. c % 16 \in 0..15
  BY DEF Bits12
<1> QED BY <1>1, <1>2, <1>3, <1>4, <1>5, <1>6

(* The counter survives the hex field: what recover_seq reads back from a   *)
(* stored id is the sequence state the id was allocated at.                 *)
THEOREM ParseFormat ==
  ASSUME NEW s \in SeqState
  PROVE  ParseMonotonic(FormatId(s)) = s
<1>1. ASSUME NEW c \in Bits12
      PROVE  ParseCounter(CounterDigits(c)) = c
  BY CounterDigitsExact DEF ParseCounter, CounterDigits
<1>2. s.counter \in Bits12 /\ s = [last_ms |-> s.last_ms, counter |-> s.counter]
  BY SeqStateFields
<1>3. ParseCounter(CounterDigits(s.counter)) = s.counter
  BY <1>1, <1>2
<1>4. /\ FormatId(s).ms = s.last_ms
      /\ FormatId(s).digits = CounterDigits(s.counter)
  BY DEF FormatId
<1>5. ParseMonotonic(FormatId(s)) = [last_ms |-> s.last_ms, counter |-> s.counter]
  BY <1>3, <1>4 DEF ParseMonotonic
<1> QED BY <1>2, <1>5

(* monotonic_uuidv7 never returns an id at or below the one before it,      *)
(* whatever the clock says, and it stays inside the counter's width.        *)
THEOREM NextSeqIncreases ==
  ASSUME NEW s \in SeqState, NEW t \in Nat
  PROVE  NextSeq(s, t) \in SeqState /\ Before(s, NextSeq(s, t))
BY MaxCounterAssumption DEF SeqState, NextSeq, Before

LEMMA BeforeTransitive ==
  ASSUME NEW a \in SeqState, NEW b \in SeqState, NEW c \in SeqState,
         AtOrBefore(a, b), Before(b, c)
  PROVE  Before(a, c)
BY DEF SeqState, Before, AtOrBefore

LEMMA BeforeTotal ==
  ASSUME NEW a \in SeqState, NEW b \in SeqState
  PROVE  /\ ~(Before(a, b) /\ AtOrBefore(b, a))
         /\ Before(a, b) \/ AtOrBefore(b, a)
BY DEF SeqState, Before, AtOrBefore

(* The order Postgres and the clients use (the order of the strings) is the *)
(* order in which the writer allocates.                                     *)
THEOREM StringOrderIsAllocationOrder ==
  ASSUME NEW a \in SeqState, NEW b \in SeqState
  PROVE  IdBefore(FormatId(a), FormatId(b)) <=> Before(a, b)
<1>1. ASSUME NEW c \in Bits12, NEW d \in Bits12
      PROVE  DigitsBefore(CounterDigits(c), CounterDigits(d)) <=> c < d
  <2> DEFINE c1 == (c \div 256) % 16
             c2 == (c % 256) \div 16
             c3 == c % 16
             d1 == (d \div 256) % 16
             d2 == (d % 256) \div 16
             d3 == d % 16
  <2>1. /\ CounterDigits(c)[1] = c1 /\ CounterDigits(c)[2] = c2 /\ CounterDigits(c)[3] = c3
        /\ CounterDigits(d)[1] = d1 /\ CounterDigits(d)[2] = d2 /\ CounterDigits(d)[3] = d3
    BY DEF CounterDigits
  <2>2. c1 \in 0..15 /\ c2 \in 0..15 /\ c3 \in 0..15 /\ c = 256 * c1 + (16 * c2 + c3)
    BY CounterDigitsExact
  <2>3. d1 \in 0..15 /\ d2 \in 0..15 /\ d3 \in 0..15 /\ d = 256 * d1 + (16 * d2 + d3)
    BY CounterDigitsExact
  <2>4. DigitsBefore(CounterDigits(c), CounterDigits(d))
          <=> (c1 < d1 \/ (c1 = d1 /\ c2 < d2) \/ (c1 = d1 /\ c2 = d2 /\ c3 < d3))
    BY <2>1 DEF DigitsBefore
  <2> HIDE DEF c1, c2, c3, d1, d2, d3
  <2> QED BY <2>2, <2>3, <2>4
<1>2. a.counter \in Bits12 /\ b.counter \in Bits12
  BY SeqStateFields
<1>3. DigitsBefore(CounterDigits(a.counter), CounterDigits(b.counter))
        <=> a.counter < b.counter
  BY <1>1, <1>2
<1>4. /\ FormatId(a).ms = a.last_ms /\ FormatId(a).digits = CounterDigits(a.counter)
      /\ FormatId(b).ms = b.last_ms /\ FormatId(b).digits = CounterDigits(b.counter)
  BY DEF FormatId
<1> QED BY <1>3, <1>4 DEF IdBefore, Before

-----------------------------------------------------------------------------
(* The log.                                                               *)

\* A planned command has its call; a dead process executes nothing.
CallTaken ==
  /\ work.phase \in {"planned", "enqueue"} => work.call \in Call
  /\ ~up => work.phase = "idle"

LEMMA ConstantSets ==
  /\ EmptySeq \in SeqState
  /\ Idle \in Work
  /\ NoRow \in Row
<1>1. EmptySeq \in SeqState
  BY MaxCounterAssumption DEF EmptySeq, SeqState
<1> QED BY <1>1 DEF Idle, Work, NoRow, Row

LEMMA InitType == Init => TypeOK /\ CallTaken
<1> SUFFICES ASSUME Init PROVE TypeOK /\ CallTaken
  OBVIOUS
<1>1. Owner \in Users
  BY ConstantsAssumption
<1>2. /\ now \in Nat /\ seq \in SeqState /\ work \in Work /\ published \in SeqState
      /\ idem \in [Scope -> Row] /\ CallTaken
  BY ConstantSets DEF Init, CallTaken, Idle
<1>3. CASE InitFresh
  <2>1. ASSUME NEW k \in Keys PROVE <<CreateCall(k)>> \in Seq(Call)
    BY <1>1 DEF CreateCall, Call, Scope
  <2>2. inbox \in Seq(Call)
    BY <2>1, <1>3 DEF InitFresh
  <2> QED BY <1>1, <1>2, <1>3, <2>2 DEF InitFresh, TypeOK, Session
<1>4. CASE InitExisting
  <2>1. NextSeq(EmptySeq, 0) \in SeqState
    BY ConstantSets, NextSeqIncreases
  <2>2. /\ OwnEvent(EmptySeq, "channel.created") \in Event
        /\ OwnEvent(NextSeq(EmptySeq, 0), "system.notice") \in Event
    BY <2>1, <1>2, ConstantSets DEF OwnEvent, Event
  <2>3. log \in Seq(Event)
    BY <2>2, <1>4 DEF InitExisting
  <2>4. inbox \in Seq(Call) /\ waiting \subseteq Users
    BY <1>4 DEF InitExisting
  <2>5. up \in BOOLEAN /\ status \in {"absent", "active", "dissolved"} /\ session \in Session
    BY <1>4 DEF InitExisting, Session
  <2> QED BY <1>2, <2>3, <2>4, <2>5 DEF TypeOK
<1> QED BY <1>3, <1>4 DEF Init

-----------------------------------------------------------------------------
(* Extending a log whose own events ascend by later ones.                  *)

\* An event the writer stored itself.
Mine(e) == e.kind # "command.binding_updated"

Asc(s) == \A i, j \in 1..Len(s) :
  (i < j /\ Mine(s[i]) /\ Mine(s[j])) => Before(s[i].id, s[j].id)

Covers(x, s) == \A i \in 1..Len(s) : Mine(s[i]) => AtOrBefore(s[i].id, x)

LEMMA ExtendOne ==
  ASSUME NEW s \in Seq(Event), NEW x \in SeqState, NEW e \in Event,
         Asc(s), Covers(x, s), Before(x, e.id)
  PROVE  /\ Append(s, e) \in Seq(Event)
         /\ Asc(Append(s, e)) /\ Covers(e.id, Append(s, e))
<1> DEFINE t == Append(s, e)
<1>1. t \in Seq(Event) /\ Len(t) = Len(s) + 1 /\ t[Len(t)] = e /\ Len(s) \in Nat
  OBVIOUS
<1>2. \A i \in 1..Len(s) : t[i] = s[i] /\ s[i] \in Event /\ s[i].id \in SeqState
  <2> TAKE i \in 1..Len(s)
  <2>1. s[i] \in Event /\ t[i] = s[i]
    OBVIOUS
  <2> QED BY <2>1 DEF Event
<1>3. e.id \in SeqState
  BY DEF Event
<1>4. \A i \in 1..Len(s) : Mine(t[i]) => Before(t[i].id, e.id)
  BY <1>2, <1>3, BeforeTransitive DEF Covers
<1>5. Asc(t)
  <2> SUFFICES ASSUME NEW i \in 1..Len(t), NEW j \in 1..Len(t), i < j,
                      Mine(t[i]), Mine(t[j])
               PROVE  Before(t[i].id, t[j].id)
    BY DEF Asc
  <2>1. CASE j = Len(t)
    BY <1>1, <1>4, <2>1
  <2>2. CASE j # Len(t)
    BY <1>1, <1>2, <2>2 DEF Asc
  <2> QED BY <2>1, <2>2
<1>6. Covers(e.id, t)
  <2> SUFFICES ASSUME NEW i \in 1..Len(t), Mine(t[i]) PROVE AtOrBefore(t[i].id, e.id)
    BY DEF Covers
  <2>1. CASE i = Len(t)
    BY <1>1, <2>1 DEF AtOrBefore
  <2>2. CASE i # Len(t)
    BY <1>1, <1>4, <2>2 DEF AtOrBefore
  <2> QED BY <2>1, <2>2
<1> QED BY <1>1, <1>5, <1>6

LEMMA ExtendTwo ==
  ASSUME NEW s \in Seq(Event), NEW x \in SeqState, NEW e \in Event, NEW f \in Event,
         Asc(s), Covers(x, s), Before(x, e.id), Before(e.id, f.id)
  PROVE  /\ Append(Append(s, e), f) \in Seq(Event)
         /\ Asc(Append(Append(s, e), f)) /\ Covers(f.id, Append(Append(s, e), f))
<1>1. Append(s, e) \in Seq(Event) /\ Asc(Append(s, e)) /\ Covers(e.id, Append(s, e))
  BY ExtendOne
<1>2. e.id \in SeqState
  BY DEF Event
<1> QED BY <1>1, <1>2, ExtendOne

-----------------------------------------------------------------------------
(* The inductive invariant.                                                *)

MineAscend  == Asc(log)
MineCovered == up => Covers(Held, log)

WInv == TypeOK /\ CallTaken /\ MineCovered /\ MineAscend

LEMMA InitWInv == Init => WInv
<1> SUFFICES ASSUME Init PROVE MineCovered /\ MineAscend
  BY InitType DEF WInv
<1>1. CASE InitFresh
  BY <1>1 DEF InitFresh, MineCovered, MineAscend, Asc, Covers
<1>2. CASE InitExisting
  <2> DEFINE two == NextSeq(EmptySeq, 0)
  <2>1. Before(EmptySeq, two)
    BY ConstantSets, NextSeqIncreases
  <2>2. log[1].id = EmptySeq /\ log[2].id = two /\ Len(log) = 2
    BY <1>2 DEF InitExisting, OwnEvent
  <2>3. MineAscend
    BY <2>1, <2>2 DEF MineAscend, Asc, Covers
  <2>4. MineCovered
    BY <1>2 DEF InitExisting, MineCovered
  <2> QED BY <2>3, <2>4
<1> QED BY <1>1, <1>2 DEF Init

\* The ids of the running command: each after the counter it starts from.
LEMMA PlannedIds ==
  ASSUME TypeOK
  PROVE  /\ First \in SeqState /\ Before(seq, First)
         /\ Second \in SeqState /\ Before(First, Second)
<1>1. seq \in SeqState /\ work.at \in Nat
  BY DEF TypeOK, Work
<1>2. First \in SeqState /\ Before(seq, First)
  BY <1>1, NextSeqIncreases DEF First
<1> QED BY <1>1, <1>2, NextSeqIncreases DEF Second

LEMMA WriteType ==
  ASSUME TypeOK, NEW call \in Call, NEW ids \in Seq(SeqState), WriteCompleted(call, ids)
  PROVE  idem' \in [Scope -> Row]
<1>1. call.scope \in Scope /\ call.body \in Bodies \cup {None}
  BY DEF Call
<1>2. now + TTL \in Nat
  BY ConstantsAssumption DEF TypeOK
<1>3. [body |-> call.body, ids |-> ids, expires |-> now + TTL] \in Row
  BY <1>1, <1>2 DEF Row
<1> QED BY <1>1, <1>3 DEF WriteCompleted, TypeOK

\* A call that ends without an event.
LEMMA FinishStep ==
  ASSUME WInv, up, work.phase = "planned", NEW ok \in BOOLEAN, NEW ids \in Seq(SeqState),
         Finish(ok, ids), UNCHANGED <<up, seq, log>>
  PROVE  work' \in Work /\ CallTaken' /\ MineCovered' /\ MineAscend'
<1>1. work' \in Work /\ work'.phase = "publish" /\ work'.next = seq
  BY DEF WInv, TypeOK, Finish, Work
<1> QED BY <1>1 DEF WInv, CallTaken, MineCovered, Held, MineAscend, Asc, Covers

\* A transaction that appends events and leaves the counter at the last one.
LEMMA LogStep ==
  ASSUME Asc(log'), Covers(work'.next, log'), work'.phase \in {"enqueue", "publish"}
  PROVE  MineCovered' /\ MineAscend'
BY DEF MineCovered, Held, MineAscend, Asc, Covers

LEMMA LogNow ==
  ASSUME WInv, up
  PROVE  Asc(log) /\ Covers(Held, log) /\ Held \in SeqState
BY DEF WInv, TypeOK, Work, MineCovered, Held, MineAscend, Asc, Covers

LEMMA CloseStep ==
  ASSUME WInv, up, NEW frames \in Seq(SeqState), CloseSession(Held, frames), up' = up
  PROVE  /\ session' \in Session /\ log' \in Seq(Event) /\ work' \in Work
         /\ CallTaken' /\ MineCovered' /\ MineAscend'
<1> DEFINE a == NextSeq(Held, now)
           b == NextSeq(a, now)
<1>1. now \in Nat /\ work \in Work /\ session \in Session /\ log \in Seq(Event)
  BY DEF WInv, TypeOK
<1>2. Asc(log) /\ Covers(Held, log) /\ Held \in SeqState
  BY LogNow
<1>3. a \in SeqState /\ Before(Held, a)
  BY <1>1, <1>2, NextSeqIncreases
<1>4. b \in SeqState /\ Before(a, b)
  BY <1>1, <1>3, NextSeqIncreases
<1> DEFINE e == OwnEvent(a, "stateful_session.closed")
           f == OwnEvent(b, "channel.pin.cleared")
<1>5. e \in Event /\ f \in Event /\ e.id = a /\ f.id = b
  BY <1>1, <1>3, <1>4 DEF OwnEvent, Event
<1>6. session' \in Session
  BY <1>1 DEF CloseSession, Session
<1> HIDE DEF a, b, e, f
<1>7. CASE session.status = "active"
  <2>1. log' = Append(Append(log, e), f)
    BY <1>7 DEF CloseSession, a, b, e, f
  <2>2. log' \in Seq(Event) /\ Asc(log') /\ Covers(b, log')
    BY <1>1, <1>2, <1>3, <1>4, <1>5, <2>1, ExtendTwo
  <2>3. work' = [work EXCEPT !.phase = "publish", !.frames = frames \o <<a, b>>, !.next = b]
    BY <1>7 DEF CloseSession, a, b
  <2>4. frames \o <<a, b>> \in Seq(SeqState)
    BY <1>3, <1>4
  <2>5. work' \in Work /\ work'.phase = "publish" /\ work'.next = b
    BY <1>1, <1>4, <2>3, <2>4 DEF Work
  <2> QED BY <1>6, <2>2, <2>5, LogStep DEF CallTaken
<1>8. CASE session.status # "active"
  <2>1. log' = Append(log, e)
    BY <1>8 DEF CloseSession, a, b, e
  <2>2. log' \in Seq(Event) /\ Asc(log') /\ Covers(a, log')
    BY <1>1, <1>2, <1>3, <1>5, <2>1, ExtendOne
  <2>3. work' = [work EXCEPT !.phase = "publish", !.frames = frames \o <<a>>, !.next = a]
    BY <1>8 DEF CloseSession, a
  <2>4. frames \o <<a>> \in Seq(SeqState)
    BY <1>3
  <2>5. work' \in Work /\ work'.phase = "publish" /\ work'.next = a
    BY <1>1, <1>3, <2>3, <2>4 DEF Work
  <2> QED BY <1>6, <2>2, <2>5, LogStep DEF CallTaken
<1> QED BY <1>7, <1>8

\* Actions that leave the log and the counter of the running command alone.
LEMMA QuietStep ==
  ASSUME WInv, UNCHANGED <<log, seq>>, up' => up,
         work'.phase \in {"enqueue", "publish"} <=> work.phase \in {"enqueue", "publish"},
         work'.next = work.next
  PROVE  MineCovered' /\ MineAscend'
BY DEF WInv, MineCovered, Held, MineAscend, Asc, Covers

LEMMA CallerStep ==
  ASSUME WInv,
         \/ \E u \in Users, op \in {"send", "dissolve"}, k \in Keys, b \in Bodies \cup {None} :
              Issue(u, op, k, b)
         \/ \E u \in Users : GiveUp(u)
  PROVE  WInv'
<1>1. TypeOK /\ CallTaken
  BY DEF WInv
<1>2. ASSUME NEW u \in Users, NEW op \in {"send", "dissolve"}, NEW k \in Keys,
             NEW b \in Bodies \cup {None}, Issue(u, op, k, b)
      PROVE  WInv'
  <2> DEFINE c == [scope |-> [user |-> u, op |-> op, key |-> k], body |-> b, live |-> TRUE]
  <2>1. c \in Call
    BY DEF Call, Scope
  <2>2. inbox' = Append(inbox, c)
    BY <1>2 DEF Issue
  <2> HIDE DEF c
  <2>3. inbox' \in Seq(Call)
    BY <1>1, <2>1, <2>2 DEF TypeOK
  <2>4. waiting' \subseteq Users
    BY <1>1, <1>2 DEF Issue, TypeOK
  <2>5. UNCHANGED <<now, up, seq, work, dbVars, published>>
    BY <1>2 DEF Issue
  <2>6. TypeOK' /\ CallTaken'
    BY <1>1, <2>3, <2>4, <2>5 DEF TypeOK, CallTaken, dbVars
  <2>7. MineCovered' /\ MineAscend'
    BY <2>5, QuietStep DEF dbVars
  <2> QED BY <2>6, <2>7 DEF WInv
<1>3. ASSUME NEW u \in Users, GiveUp(u) PROVE WInv'
  <2>1. \A c \in Call : Abandon(c, u) \in Call
    BY DEF Abandon, Call
  <2>2. inbox' = [i \in 1..Len(inbox) |-> Abandon(inbox[i], u)]
    BY <1>3 DEF GiveUp
  <2>3. inbox' \in Seq(Call)
    <3>1. Len(inbox) \in Nat /\ \A i \in 1..Len(inbox) : inbox[i] \in Call
      BY <1>1 DEF TypeOK
    <3>2. \A i \in 1..Len(inbox) : Abandon(inbox[i], u) \in Call
      BY <2>1, <3>1
    <3>3. inbox' \in [1..Len(inbox) -> Call]
      BY <2>2, <3>2
    <3> QED BY <3>1, <3>3
  <2>4. work' \in Work /\ work'.phase = work.phase /\ work'.next = work.next
    <3>1. CASE work.call = None
      BY <1>1, <1>3, <3>1 DEF GiveUp, TypeOK
    <3>2. CASE work.call # None
      <4>1. work \in Work /\ work.call \in Call
        BY <1>1, <3>2 DEF TypeOK, Work
      <4>2. work' = [work EXCEPT !.call = Abandon(work.call, u)] /\ Abandon(work.call, u) \in Call
        BY <1>3, <2>1, <3>2, <4>1 DEF GiveUp
      <4> QED BY <4>1, <4>2 DEF Work
    <3> QED BY <3>1, <3>2
  <2>5. CallTaken'
    BY <1>1, <1>3, <2>1 DEF GiveUp, CallTaken, TypeOK, Work
  <2>6. waiting' \subseteq Users /\ UNCHANGED <<now, up, seq, dbVars, published>>
    BY <1>1, <1>3 DEF GiveUp, TypeOK
  <2>7. TypeOK'
    BY <1>1, <2>3, <2>4, <2>6 DEF TypeOK, dbVars
  <2>8. MineCovered' /\ MineAscend'
    BY <2>4, <2>6, QuietStep DEF dbVars
  <2> QED BY <2>5, <2>7, <2>8 DEF WInv
<1> QED BY <1>2, <1>3

LEMMA ProcessStep ==
  ASSUME WInv, Start \/ Crash \/ Tick
  PROVE  WInv'
<1>1. TypeOK /\ CallTaken
  BY DEF WInv
<1>2. CASE Start
  <2>1. seq' \in SeqState /\ Covers(seq', log)
    <3>1. CASE log = <<>> /\ seq' = EmptySeq
      BY <3>1, ConstantSets DEF Covers
    <3>2. ASSUME NEW m \in 1..Len(log),
                 \A i \in 1..Len(log) : AtOrBefore(log[i].id, log[m].id),
                 seq' = ParseMonotonic(FormatId(log[m].id))
          PROVE  seq' \in SeqState /\ Covers(seq', log)
      <4>1. log[m] \in Event
        BY <1>1 DEF TypeOK
      <4>2. log[m].id \in SeqState
        BY <4>1 DEF Event
      <4>3. seq' = log[m].id
        BY <3>2, <4>2, ParseFormat
      <4> QED BY <3>2, <4>2, <4>3 DEF Covers
    <3> QED BY <1>2, <3>1, <3>2 DEF Start, RecoverSeq
  <2>2. UNCHANGED <<now, inbox, work, waiting, dbVars, published>>
    BY <1>2 DEF Start
  <2>3. TypeOK' /\ CallTaken'
    BY <1>1, <1>2, <2>1, <2>2 DEF Start, TypeOK, CallTaken, dbVars
  <2>4. Held' = seq' /\ log' = log
    BY <1>1, <1>2, <2>2 DEF Start, CallTaken, Held, dbVars
  <2>5. MineCovered' /\ MineAscend'
    BY <2>1, <2>4 DEF WInv, Covers, MineCovered, MineAscend, Asc
  <2> QED BY <2>3, <2>5 DEF WInv
<1>3. CASE Crash
  <2>1. work' = Idle /\ inbox' = <<>> /\ waiting' = {} /\ ~up'
    BY <1>3 DEF Crash
  <2>2. UNCHANGED <<now, seq, dbVars, published>>
    BY <1>3 DEF Crash
  <2>3. inbox' \in Seq(Call) /\ waiting' \subseteq Users /\ work' \in Work
    BY <2>1, ConstantSets
  <2>6. up' \in BOOLEAN
    BY <1>3 DEF Crash
  <2>4. TypeOK'
    BY <1>1, <2>2, <2>3, <2>6 DEF TypeOK, dbVars
  <2>5. CallTaken' /\ MineCovered' /\ MineAscend'
    BY <2>1, <2>2 DEF WInv, CallTaken, Idle, MineCovered, MineAscend, Asc, Covers, dbVars
  <2> QED BY <2>4, <2>5 DEF WInv
<1>4. CASE Tick
  <2>1. now' \in Nat /\ UNCHANGED <<procVars, dbVars, published>>
    BY <1>4, ConstantsAssumption DEF Tick
  <2>2. TypeOK' /\ CallTaken'
    BY <1>1, <2>1 DEF TypeOK, CallTaken, procVars, dbVars
  <2>3. MineCovered' /\ MineAscend'
    BY <2>1, QuietStep DEF procVars, dbVars
  <2> QED BY <2>2, <2>3 DEF WInv
<1> QED BY <1>2, <1>3, <1>4

LEMMA HandlerStep ==
  ASSUME WInv, Begin \/ Replay \/ Refuse \/ Commit
  PROVE  WInv'
<1>1. TypeOK /\ CallTaken
  BY DEF WInv
<1>2. /\ now \in Nat /\ up \in BOOLEAN /\ seq \in SeqState /\ work \in Work
      /\ idem \in [Scope -> Row] /\ log \in Seq(Event)
  BY <1>1 DEF TypeOK
<1>3. \A c \in Call : idem[c.scope].ids \in Seq(SeqState)
  BY <1>2 DEF Call, Row
<1>4. CASE Begin
  <2>1. Head(inbox) \in Call /\ inbox' \in Seq(Call)
    BY <1>1, <1>4 DEF Begin, TypeOK
  <2> DEFINE call == Head(inbox)
             taken == [Idle EXCEPT !.phase = "planned", !.call = call, !.at = now]
  <2>2. taken \in Work /\ taken.call = call /\ taken.phase = "planned"
    BY <1>2, <2>1, ConstantSets DEF Work, Idle
  <2>3. idem[call.scope].ids \in Seq(SeqState) /\ call \in Call
    BY <1>3, <2>1
  <2>4. \/ work' = taken
        \/ work' = [taken EXCEPT !.phase = "publish", !.next = seq]
        \/ work' = [taken EXCEPT !.phase = "publish", !.next = seq, !.ok = TRUE,
                                 !.ids = idem[call.scope].ids]
    BY <1>4 DEF Begin
  <2> HIDE DEF taken
  <2>5. /\ work' \in Work /\ (work'.phase = "publish" => work'.next = seq)
        /\ work'.phase \in {"planned", "publish"} /\ work'.call = call
    <3>1. CASE work' = taken
      BY <2>2, <3>1
    <3>2. CASE work' = [taken EXCEPT !.phase = "publish", !.next = seq]
      BY <1>2, <2>2, <3>2 DEF Work
    <3>3. CASE work' = [taken EXCEPT !.phase = "publish", !.next = seq, !.ok = TRUE,
                                     !.ids = idem[call.scope].ids]
      BY <1>2, <2>2, <2>3, <3>3 DEF Work
    <3> QED BY <2>4, <3>1, <3>2, <3>3
  <2> HIDE DEF call
  <2>6. up /\ work.phase = "idle" /\ UNCHANGED <<now, up, seq, waiting, dbVars, published>>
    BY <1>4 DEF Begin
  <2>7. TypeOK' /\ CallTaken'
    BY <1>1, <2>1, <2>5, <2>6 DEF TypeOK, CallTaken, dbVars, call
  <2>8. MineCovered' /\ MineAscend'
    BY <2>5, <2>6 DEF WInv, MineCovered, Held, MineAscend, Asc, Covers, dbVars
  <2> QED BY <2>7, <2>8 DEF WInv
<1>5. ASSUME NEW ok \in BOOLEAN, NEW ids \in Seq(SeqState), up, work.phase = "planned",
             Finish(ok, ids), UNCHANGED <<now, up, seq, inbox, waiting, status, session,
                                          log, published>>,
             idem' \in [Scope -> Row]
      PROVE  WInv'
  <2>1. work' \in Work /\ CallTaken' /\ MineCovered' /\ MineAscend'
    BY <1>5, FinishStep
  <2> QED BY <1>1, <1>5, <2>1 DEF WInv, TypeOK
<1>6. work.phase = "planned" => work.call \in Call
  BY <1>1 DEF CallTaken
<1>7. CASE Replay
  <2>1. idem[work.call.scope].ids \in Seq(SeqState)
    BY <1>3, <1>6, <1>7 DEF Replay
  <2> QED BY <1>2, <1>5, <1>7, <2>1 DEF Replay, dbVars
<1>8. CASE Refuse
  <2>1. Finish(FALSE, <<>>) /\ up /\ work.phase = "planned"
    BY <1>8 DEF Refuse
  <2>3. <<>> \in Seq(SeqState)
    OBVIOUS
  <2> QED BY <1>2, <1>5, <1>8, <2>1, <2>3 DEF Refuse, dbVars
<1>9. CASE CommitTombstone
  <2>1. Finish(TRUE, <<>>) /\ up /\ work.phase = "planned"
    BY <1>9 DEF CommitTombstone
  <2>3. <<>> \in Seq(SeqState)
    OBVIOUS
  <2>2. idem' \in [Scope -> Row]
    BY <1>1, <1>6, <1>9, <2>1, <2>3, WriteType DEF CommitTombstone
  <2> QED BY <1>5, <1>9, <2>1, <2>2, <2>3 DEF CommitTombstone
<1>10. /\ First \in SeqState /\ Before(seq, First)
       /\ Second \in SeqState /\ Before(First, Second)
  BY <1>1, PlannedIds
<1>11. ASSUME NEW id \in SeqState, work.call \in Call,
              NEW kind \in {"message.created", "channel.created", "channel.dissolved",
                            "system.notice"}
       PROVE  NewEvent(id, kind) \in Event /\ NewEvent(id, kind).id = id
  BY <1>2, <1>11 DEF NewEvent, Event, Call
<1>12. ASSUME up, work.phase = "planned"
       PROVE  Asc(log) /\ Covers(seq, log)
  BY <1>12, LogNow DEF Held
<1>13. CASE CommitSend
  <2>1. up /\ work.phase = "planned" /\ work.call \in Call
    BY <1>6, <1>13 DEF CommitSend
  <2> DEFINE e == NewEvent(First, "message.created")
  <2>2. e \in Event /\ e.id = First
    BY <1>10, <1>11, <2>1
  <2>3. log' = Append(log, e)
    BY <1>13 DEF CommitSend
  <2> HIDE DEF e
  <2>4. log' \in Seq(Event) /\ Asc(log') /\ Covers(First, log')
    BY <1>2, <1>10, <1>12, <2>1, <2>2, <2>3, ExtendOne
  <2>5. <<First>> \in Seq(SeqState)
    BY <1>10
  <2>6. work' = [work EXCEPT !.phase = "enqueue", !.frames = <<First>>,
                             !.next = First, !.ok = TRUE, !.ids = <<First>>]
    BY <1>13 DEF CommitSend
  <2>7. /\ work' \in Work /\ work'.phase = "enqueue" /\ work'.next = First
        /\ work'.call = work.call
    BY <1>2, <1>10, <2>5, <2>6 DEF Work
  <2>8. idem' \in [Scope -> Row]
    BY <1>1, <1>13, <2>1, <2>5, WriteType DEF CommitSend
  <2>9. UNCHANGED <<now, up, seq, inbox, waiting, status, session, published>>
    BY <1>13 DEF CommitSend
  <2>10. TypeOK' /\ CallTaken'
    BY <1>1, <2>1, <2>4, <2>7, <2>8, <2>9 DEF TypeOK, CallTaken
  <2>11. MineCovered' /\ MineAscend'
    BY <2>4, <2>7, LogStep
  <2> QED BY <2>10, <2>11 DEF WInv
<1>14. ASSUME NEW op, NEW kind \in {"channel.created", "channel.dissolved"},
              NEW newStatus \in {"active", "dissolved"}, CommitPair(op, kind, newStatus)
       PROVE  WInv'
  <2>1. up /\ work.phase = "planned" /\ work.call \in Call
    BY <1>6, <1>14 DEF CommitPair
  <2> DEFINE e == NewEvent(First, kind)
             f == NewEvent(Second, "system.notice")
  <2>2. e \in Event /\ e.id = First /\ f \in Event /\ f.id = Second
    BY <1>10, <1>11, <2>1
  <2>3. log' = Append(Append(log, e), f)
    BY <1>14 DEF CommitPair
  <2> HIDE DEF e, f
  <2>4. log' \in Seq(Event) /\ Asc(log') /\ Covers(Second, log')
    BY <1>2, <1>10, <1>12, <2>1, <2>2, <2>3, ExtendTwo
  <2>5. <<First, Second>> \in Seq(SeqState)
    BY <1>10
  <2>6. work' = [work EXCEPT !.phase = "publish", !.frames = <<First, Second>>,
                             !.next = Second, !.ok = TRUE, !.ids = <<First, Second>>]
    BY <1>14 DEF CommitPair
  <2>7. work' \in Work /\ work'.phase = "publish" /\ work'.next = Second
    BY <1>2, <1>10, <2>5, <2>6 DEF Work
  <2>8. idem' \in [Scope -> Row]
    BY <1>1, <1>14, <2>1, <2>5, WriteType DEF CommitPair
  <2>9. UNCHANGED <<now, up, seq, inbox, waiting, session, published>> /\ status' = newStatus
    BY <1>14 DEF CommitPair
  <2>10. TypeOK' /\ CallTaken'
    BY <1>1, <2>1, <2>4, <2>7, <2>8, <2>9 DEF TypeOK, CallTaken
  <2>11. MineCovered' /\ MineAscend'
    BY <2>4, <2>7, LogStep
  <2> QED BY <2>10, <2>11 DEF WInv
<1>15. CASE CommitCreate
  BY <1>14, <1>15 DEF CommitCreate
<1>16. CASE CommitDissolve
  BY <1>14, <1>16 DEF CommitDissolve
<1> QED BY <1>4, <1>7, <1>8, <1>9, <1>13, <1>15, <1>16 DEF Commit

LEMMA SessionStep ==
  ASSUME WInv, StartAck \/ SessionTimer \/ Enqueue
  PROVE  WInv'
<1>1. TypeOK /\ CallTaken
  BY DEF WInv
<1>2. /\ now \in Nat /\ seq \in SeqState /\ work \in Work /\ session \in Session
      /\ log \in Seq(Event)
  BY <1>1 DEF TypeOK
<1>3. CASE StartAck
  <2> DEFINE a == NextSeq(seq, now)
             b == NextSeq(a, now + 1)
             e == OwnEvent(a, "stateful_session.started")
             f == OwnEvent(b, "channel.pin.set")
  <2>1. a \in SeqState /\ Before(seq, a)
    BY <1>2, NextSeqIncreases
  <2>2. b \in SeqState /\ Before(a, b)
    BY <1>2, <2>1, NextSeqIncreases
  <2>3. e \in Event /\ f \in Event /\ e.id = a /\ f.id = b
    BY <1>2, <2>1, <2>2 DEF OwnEvent, Event
  <2>4. /\ log' = Append(Append(log, e), f)
        /\ work' = [Idle EXCEPT !.phase = "publish", !.frames = <<a, b>>, !.next = b]
    BY <1>3 DEF StartAck
  <2>5. up /\ Asc(log) /\ Covers(seq, log)
    BY <1>3, LogNow DEF StartAck, Held
  <2> HIDE DEF a, b, e, f
  <2>6. log' \in Seq(Event) /\ Asc(log') /\ Covers(b, log')
    BY <1>2, <2>1, <2>2, <2>3, <2>4, <2>5, ExtendTwo
  <2>7. <<a, b>> \in Seq(SeqState)
    BY <2>1, <2>2
  <2>8. work' \in Work /\ work'.phase = "publish" /\ work'.next = b
    BY <2>2, <2>4, <2>7, ConstantSets DEF Work, Idle
  <2>9. session' \in Session
    BY <1>2, <1>3 DEF StartAck, Session
  <2>10. UNCHANGED <<now, up, seq, inbox, waiting, status, idem, published>>
    BY <1>3 DEF StartAck
  <2>11. TypeOK' /\ CallTaken'
    BY <1>1, <2>5, <2>6, <2>8, <2>9, <2>10 DEF TypeOK, CallTaken
  <2> QED BY <2>6, <2>8, <2>11, LogStep DEF WInv
<1>4. ASSUME up, NEW frames \in Seq(SeqState), CloseSession(Held, frames),
             UNCHANGED <<now, up, seq, inbox, waiting, status, idem, published>>
      PROVE  WInv'
  <2>1. /\ session' \in Session /\ log' \in Seq(Event) /\ work' \in Work
        /\ CallTaken' /\ MineCovered' /\ MineAscend'
    BY <1>4, CloseStep
  <2> QED BY <1>1, <1>4, <2>1 DEF WInv, TypeOK
<1>5. CASE SessionTimer
  <2>1. Held = seq /\ <<>> \in Seq(SeqState)
    BY <1>5 DEF SessionTimer, Held
  <2> QED BY <1>4, <1>5, <2>1 DEF SessionTimer
<1>6. CASE EnqueueOverflow
  <2>1. Held = work.next /\ work.frames \in Seq(SeqState)
    BY <1>2, <1>6 DEF EnqueueOverflow, Held, Work
  <2> QED BY <1>4, <1>6, <2>1 DEF EnqueueOverflow
<1>7. CASE EnqueueNothing \/ EnqueueInput
  <2>1. up /\ work.phase = "enqueue" /\ work' = [work EXCEPT !.phase = "publish"]
    BY <1>7 DEF EnqueueNothing, EnqueueInput
  <2>2. work' \in Work /\ work'.phase = "publish" /\ work'.next = work.next
    BY <1>2, <2>1 DEF Work
  <2>3. session' \in Session
    BY <1>2, <1>7 DEF EnqueueNothing, EnqueueInput, Session, dbVars
  <2>4. UNCHANGED <<now, up, seq, inbox, waiting, status, log, idem, published>>
    BY <1>7 DEF EnqueueNothing, EnqueueInput, dbVars
  <2>5. TypeOK' /\ CallTaken'
    BY <1>1, <2>1, <2>2, <2>3, <2>4 DEF TypeOK, CallTaken
  <2>6. MineCovered' /\ MineAscend'
    BY <2>1, <2>2, <2>4, QuietStep
  <2> QED BY <2>5, <2>6 DEF WInv
<1> QED BY <1>3, <1>5, <1>6, <1>7 DEF Enqueue

LEMMA AfterCommitStep ==
  ASSUME WInv, Publish \/ Reply
  PROVE  WInv'
<1>1. TypeOK /\ CallTaken
  BY DEF WInv
<1>2. CASE Publish
  <2>1. /\ work \in Work /\ work.frames \in Seq(SeqState) /\ work.frames # <<>>
        /\ work.phase = "publish"
    BY <1>1, <1>2 DEF Publish, TypeOK, Work
  <2>2. Head(work.frames) \in SeqState /\ Tail(work.frames) \in Seq(SeqState)
    BY <2>1
  <2>3. work' = [work EXCEPT !.frames = Tail(work.frames)]
    BY <1>2 DEF Publish
  <2>4. work' \in Work /\ work'.phase = "publish" /\ work'.next = work.next
    BY <2>1, <2>2, <2>3 DEF Work
  <2>5. published' \in SeqState /\ UNCHANGED <<now, up, seq, inbox, waiting, dbVars>> /\ up
    BY <1>2, <2>2 DEF Publish
  <2>6. TypeOK' /\ CallTaken'
    BY <1>1, <2>4, <2>5 DEF TypeOK, CallTaken, dbVars
  <2>7. MineCovered' /\ MineAscend'
    BY <2>1, <2>4, <2>5, QuietStep DEF dbVars
  <2> QED BY <2>6, <2>7 DEF WInv
<1>3. CASE Reply
  <2>1. work.phase = "publish" /\ seq' = work.next /\ work' = Idle /\ up
    BY <1>3 DEF Reply
  <2>2. UNCHANGED <<now, up, inbox, dbVars, published>> /\ waiting' \subseteq Users
    BY <1>1, <1>3 DEF Reply, TypeOK
  <2>3. seq' \in SeqState /\ work' \in Work /\ work'.phase = "idle"
    BY <1>1, <2>1, ConstantSets DEF TypeOK, Work, Idle
  <2>4. TypeOK' /\ CallTaken'
    BY <1>1, <2>2, <2>3 DEF TypeOK, CallTaken, dbVars
  <2>5. MineCovered' /\ MineAscend'
    BY <2>1, <2>2, <2>3 DEF WInv, MineCovered, Held, MineAscend, Asc, Covers, dbVars
  <2> QED BY <2>4, <2>5 DEF WInv
<1> QED BY <1>2, <1>3

LEMMA StepWInv == WInv /\ [Next]_vars => WInv'
<1> SUFFICES ASSUME WInv, [Next]_vars PROVE WInv'
  OBVIOUS
<1>1. CASE UNCHANGED vars
  BY <1>1 DEF vars, procVars, dbVars, WInv, TypeOK, CallTaken, MineCovered, Held, MineAscend, Asc, Covers
<1>2. CASE Next
  BY <1>2, CallerStep, ProcessStep, HandlerStep, SessionStep, AfterCommitStep
     DEF Next, WriterStep, Enqueue
<1> QED BY <1>1, <1>2

-----------------------------------------------------------------------------
(* The log only grows, and only by events of the writer.                   *)

Grows(s, t) ==
  /\ Len(t) > Len(s) /\ \A i \in 1..Len(s) : t[i] = s[i]
  /\ \A i \in Len(s) + 1..Len(t) : Mine(t[i])

LEMMA AppendGrows ==
  ASSUME NEW s \in Seq(Event), NEW e, NEW f, Mine(e), Mine(f)
  PROVE  Grows(s, Append(s, e)) /\ Grows(s, Append(Append(s, e), f))
<1>1. s \in Seq(Event \cup {e, f}) /\ e \in Event \cup {e, f} /\ f \in Event \cup {e, f}
  <2>1. s \in [1..Len(s) -> Event] /\ Len(s) \in Nat
    OBVIOUS
  <2>2. s \in [1..Len(s) -> Event \cup {e, f}]
    BY <2>1
  <2> QED BY <2>1, <2>2
<1> DEFINE D == Event \cup {e, f}
<1>2. /\ Append(s, e) \in Seq(D) /\ Len(Append(s, e)) = Len(s) + 1
      /\ Append(s, e)[Len(s) + 1] = e
  BY <1>1
<1>3. \A i \in 1..Len(s) : Append(s, e)[i] = s[i]
  BY <1>1
<1> DEFINE t == Append(s, e)
<1>4. /\ Len(Append(t, f)) = Len(t) + 1 /\ Append(t, f)[Len(t) + 1] = f
      /\ \A i \in 1..Len(t) : Append(t, f)[i] = t[i]
  BY <1>1, <1>2
<1>5. Len(s) \in Nat
  OBVIOUS
<1> DEFINE u == Append(t, f)
<1> HIDE DEF t, u
<1>6. Grows(s, t)
  <2>1. \A i \in Len(s) + 1..Len(t) : i = Len(s) + 1
    BY <1>2, <1>5 DEF t
  <2> QED BY <1>2, <1>3, <1>5, <2>1 DEF Grows, t
<1>7. Grows(s, u)
  <2>1. \A i \in Len(s) + 1..Len(u) : i = Len(s) + 1 \/ i = Len(s) + 2
    BY <1>2, <1>4, <1>5 DEF t, u
  <2>2. Len(u) = Len(s) + 2 /\ u[Len(s) + 1] = e /\ u[Len(s) + 2] = f
    BY <1>2, <1>4, <1>5 DEF t, u
  <2>3. \A i \in 1..Len(s) : u[i] = s[i]
    BY <1>2, <1>3, <1>4, <1>5 DEF t, u
  <2> QED BY <1>5, <2>1, <2>2, <2>3 DEF Grows
<1> QED BY <1>6, <1>7 DEF t, u

LEMMA LogOnlyGrows ==
  ASSUME TypeOK, [Next]_vars
  PROVE  log' = log \/ Grows(log, log')
<1>1. log \in Seq(Event)
  BY DEF TypeOK
<1>11. /\ \A id : /\ Mine(OwnEvent(id, "stateful_session.started"))
                  /\ Mine(OwnEvent(id, "channel.pin.set"))
                  /\ Mine(OwnEvent(id, "stateful_session.closed"))
                  /\ Mine(OwnEvent(id, "channel.pin.cleared"))
       /\ \A id : /\ Mine(NewEvent(id, "message.created"))
                  /\ Mine(NewEvent(id, "channel.created"))
                  /\ Mine(NewEvent(id, "channel.dissolved"))
                  /\ Mine(NewEvent(id, "system.notice"))
  BY DEF Mine, OwnEvent, NewEvent
<1>2. ASSUME NEW from, NEW frames, CloseSession(from, frames) PROVE Grows(log, log')
  <2>1. PICK e, f : /\ Mine(e) /\ Mine(f)
                    /\ log' = Append(log, e) \/ log' = Append(Append(log, e), f)
    BY <1>2, <1>11, Zenon DEF CloseSession
  <2>2. Grows(log, Append(log, e)) /\ Grows(log, Append(Append(log, e), f))
    BY <1>1, <2>1, AppendGrows
  <2> QED BY <2>1, <2>2
<1>3. CASE CommitSend
  BY <1>1, <1>3, <1>11, AppendGrows DEF CommitSend
<1>10. ASSUME NEW op, NEW kind \in {"channel.created", "channel.dissolved"}, NEW newStatus,
              CommitPair(op, kind, newStatus)
       PROVE  Grows(log, log')
  <2> DEFINE e == NewEvent(First, kind)
             f == NewEvent(Second, "system.notice")
  <2>1. log' = Append(Append(log, e), f)
    BY <1>10 DEF CommitPair
  <2>2. Mine(e) /\ Mine(f)
    BY <1>11
  <2> HIDE DEF e, f
  <2>3. Grows(log, Append(Append(log, e), f))
    BY <1>1, <2>2, AppendGrows
  <2> QED BY <2>1, <2>3
<1>4. CASE CommitCreate \/ CommitDissolve
  BY <1>4, <1>10 DEF CommitCreate, CommitDissolve
<1>5. CASE StartAck
  BY <1>1, <1>5, <1>11, AppendGrows DEF StartAck
<1>6. CASE EnqueueOverflow
  BY <1>2, <1>6 DEF EnqueueOverflow
<1>7. CASE SessionTimer
  BY <1>2, <1>7 DEF SessionTimer
<1>8. CASE UNCHANGED vars
  BY <1>8 DEF vars, dbVars
<1>9. CASE \/ \E u \in Users, op \in {"send", "dissolve"}, k \in Keys, b \in Bodies \cup {None} :
                Issue(u, op, k, b)
           \/ \E u \in Users : GiveUp(u)
           \/ Start \/ Crash \/ Tick \/ Begin \/ Replay \/ Refuse \/ CommitTombstone
           \/ EnqueueNothing \/ EnqueueInput \/ Publish \/ Reply
  BY <1>9 DEF Issue, GiveUp, Start, Crash, Tick, Begin, Replay, Refuse, CommitTombstone,
              EnqueueNothing, EnqueueInput, Publish, Reply, dbVars, procVars
<1> QED BY <1>3, <1>4, <1>5, <1>6, <1>7, <1>8, <1>9 DEF Next, WriterStep, Commit, Enqueue

(* Of Spec every event is the writer's own: the whole log ascends.          *)
OnlyMine == \A i \in 1..Len(log) : Mine(log[i])

IInv == TypeOK /\ CallTaken /\ MineCovered /\ MineAscend /\ OnlyMine

LEMMA InitIInv == Init => IInv
<1> SUFFICES ASSUME Init PROVE OnlyMine
  BY InitWInv DEF IInv, WInv
<1>1. CASE InitFresh
  BY <1>1 DEF InitFresh, OnlyMine
<1>2. CASE InitExisting
  BY <1>2 DEF InitExisting, OnlyMine, Mine, OwnEvent
<1> QED BY <1>1, <1>2 DEF Init

LEMMA StepIInv == IInv /\ [Next]_vars => IInv'
<1> SUFFICES ASSUME IInv, [Next]_vars PROVE OnlyMine'
  BY StepWInv DEF IInv, WInv
<1>1. log' = log \/ Grows(log, log')
  BY LogOnlyGrows DEF IInv
<1>2. CASE log' = log
  BY <1>2 DEF IInv, OnlyMine
<1>3. CASE Grows(log, log')
  <2>1. TypeOK /\ TypeOK'
    BY StepWInv DEF IInv, WInv
  <2>2. Len(log) \in Nat /\ Len(log') \in Nat
    BY <2>1 DEF TypeOK
  <2>3. \A i \in 1..Len(log') : i \in 1..Len(log) \/ i \in Len(log) + 1..Len(log')
    BY <2>2
  <2> QED BY <1>3, <2>3 DEF IInv, OnlyMine, Grows
<1> QED BY <1>1, <1>2, <1>3

LEMMA OwnLog == IInv => CounterCoversLog /\ IdsAscend
BY DEF IInv, OnlyMine, MineCovered, MineAscend, Covers, Asc, CounterCoversLog, IdsAscend

-----------------------------------------------------------------------------
(* The writer's state always has its types.                                *)
THEOREM WriterTypes == Spec => []TypeOK
<1>1. IInv => TypeOK
  BY DEF IInv
<1> QED BY <1>1, InitIInv, StepIInv, PTL DEF Spec

(* Stored event ids strictly increase in commit order: for any callers and *)
(* keys, through crashes between any two steps and any movement of the     *)
(* clock (channel.ex, recover_seq and execute; ids.ex, monotonic_uuidv7).  *)
THEOREM WriterIdsAscend == Spec => []IdsAscend
<1>1. IInv => IdsAscend
  BY OwnLog
<1> QED BY <1>1, InitIInv, StepIInv, PTL DEF Spec

(* The live counter, or the one a command will leave, covers the log.      *)
THEOREM WriterCoversLog == Spec => []CounterCoversLog
<1>1. IInv => CounterCoversLog
  BY OwnLog
<1> QED BY <1>1, InitIInv, StepIInv, PTL DEF Spec

-----------------------------------------------------------------------------
(* Refinement of the append-only timeline.                                 *)

(* The writer implements the timeline: for every behaviour of the process, *)
(* the stored log is only ever extended, and only by later ids.            *)
THEOREM WriterImplementsTimeline == Spec => ImplementsEventLog
<1>1. Init => Timeline!Init
  BY InitIInv, OwnLog DEF IdsAscend, Timeline!Init, Timeline!Ascending, Before, Timeline!Before
<1>2. IInv /\ IInv' /\ [Next]_vars => [Timeline!Extend]_log
  <2> SUFFICES ASSUME IInv, IInv', [Next]_vars, log' # log PROVE Timeline!Extend
    OBVIOUS
  <2>1. Grows(log, log')
    BY LogOnlyGrows DEF IInv
  <2>2. Timeline!Ascending(log')
    <3>1. IdsAscend'
      BY OwnLog, PTL
    <3> QED BY <3>1 DEF IdsAscend, Timeline!Ascending, Before, Timeline!Before
  <2> QED BY <2>1, <2>2 DEF Grows, Timeline!Extend
<1> QED BY <1>1, <1>2, InitIInv, StepIInv, PTL DEF Spec, ImplementsEventLog, Timeline!Spec

-----------------------------------------------------------------------------
(* What the stored events say.                                            *)

\* A transaction stores one more event, or two.
OneMore(e) ==
  /\ log' \in Seq(Event) /\ Len(log) \in Nat /\ Len(log') = Len(log) + 1
  /\ \A i \in 1..Len(log) : log'[i] = log[i]
  /\ log'[Len(log) + 1] = e

TwoMore(e, f) ==
  /\ log' \in Seq(Event) /\ Len(log) \in Nat /\ Len(log') = Len(log) + 2
  /\ \A i \in 1..Len(log) : log'[i] = log[i]
  /\ log'[Len(log) + 1] = e /\ log'[Len(log) + 2] = f

LEMMA StoreOne ==
  ASSUME log \in Seq(Event), NEW e \in Event, log' = Append(log, e)
  PROVE  OneMore(e)
BY DEF OneMore

LEMMA StoreTwo ==
  ASSUME log \in Seq(Event), NEW e \in Event, NEW f \in Event,
         log' = Append(Append(log, e), f)
  PROVE  TwoMore(e, f)
<1> DEFINE t == Append(log, e)
<1>1. /\ t \in Seq(Event) /\ Len(log) \in Nat /\ Len(t) = Len(log) + 1
      /\ t[Len(log) + 1] = e /\ \A i \in 1..Len(log) : t[i] = log[i]
  OBVIOUS
<1>2. log' = Append(t, f)
  OBVIOUS
<1> HIDE DEF t
<1>3. /\ log' \in Seq(Event) /\ Len(log') = Len(t) + 1 /\ log'[Len(t) + 1] = f
      /\ \A i \in 1..Len(t) : log'[i] = t[i]
  BY <1>1, <1>2
<1> QED BY <1>1, <1>3 DEF TwoMore

-----------------------------------------------------------------------------
(* What each transaction stores.                                           *)

LEMMA NewEventFields ==
  ASSUME TypeOK, work.call \in Call, NEW id \in SeqState,
         NEW kind \in {"message.created", "channel.created", "channel.dissolved",
                       "system.notice"}
  PROVE  LET e == NewEvent(id, kind) IN
         /\ e \in Event /\ e.id = id /\ e.kind = kind /\ e.at = now
         /\ e.scope = work.call.scope /\ e.body = work.call.body
BY DEF TypeOK, NewEvent, Event, Call

LEMMA OwnEventFields ==
  ASSUME TypeOK, NEW id \in SeqState,
         NEW kind \in {"stateful_session.started", "channel.pin.set",
                       "stateful_session.closed", "channel.pin.cleared"}
  PROVE  LET e == OwnEvent(id, kind) IN
         e \in Event /\ e.id = id /\ e.kind = kind /\ e.scope = None
BY DEF TypeOK, OwnEvent, Event

LEMMA SendStores ==
  ASSUME IInv, CommitSend
  PROVE  /\ work.call \in Call /\ First \in SeqState
         /\ OneMore(NewEvent(First, "message.created"))
<1>1. TypeOK /\ log \in Seq(Event) /\ work.call \in Call
  BY DEF IInv, CallTaken, TypeOK, CommitSend
<1>2. First \in SeqState
  BY <1>1, PlannedIds
<1>3. NewEvent(First, "message.created") \in Event
  BY <1>1, <1>2, NewEventFields
<1> QED BY <1>1, <1>2, <1>3, StoreOne DEF CommitSend

LEMMA PairStores ==
  ASSUME IInv, NEW op, NEW kind \in {"channel.created", "channel.dissolved"},
         NEW status1, CommitPair(op, kind, status1)
  PROVE  /\ work.call \in Call /\ First \in SeqState /\ Second \in SeqState
         /\ TwoMore(NewEvent(First, kind), NewEvent(Second, "system.notice"))
<1>1. TypeOK /\ log \in Seq(Event) /\ work.call \in Call
  BY DEF IInv, CallTaken, TypeOK, CommitPair
<1>2. First \in SeqState /\ Second \in SeqState
  BY <1>1, PlannedIds
<1> DEFINE e == NewEvent(First, kind)
           f == NewEvent(Second, "system.notice")
<1>3. e \in Event /\ f \in Event
  BY <1>1, <1>2, NewEventFields
<1>4. log' = Append(Append(log, e), f)
  BY DEF CommitPair
<1> HIDE DEF e, f
<1>5. TwoMore(e, f)
  BY <1>1, <1>3, <1>4, StoreTwo
<1> QED BY <1>1, <1>2, <1>5 DEF e, f

LEMMA AckStores ==
  ASSUME IInv, StartAck
  PROVE  LET a == NextSeq(seq, now)  b == NextSeq(a, now + 1) IN
         /\ a \in SeqState /\ b \in SeqState /\ Before(seq, a) /\ Before(a, b)
         /\ TwoMore(OwnEvent(a, "stateful_session.started"), OwnEvent(b, "channel.pin.set"))
<1> DEFINE a == NextSeq(seq, now)
           b == NextSeq(a, now + 1)
           e == OwnEvent(a, "stateful_session.started")
           f == OwnEvent(b, "channel.pin.set")
<1>1. TypeOK /\ log \in Seq(Event) /\ seq \in SeqState /\ now \in Nat
  BY DEF IInv, TypeOK
<1>2. a \in SeqState /\ Before(seq, a)
  BY <1>1, NextSeqIncreases
<1>3. b \in SeqState /\ Before(a, b)
  BY <1>1, <1>2, NextSeqIncreases
<1>4. log' = Append(Append(log, e), f)
  BY DEF StartAck
<1> HIDE DEF a, b
<1>5. e \in Event /\ f \in Event
  BY <1>1, <1>2, <1>3, OwnEventFields
<1> HIDE DEF e, f
<1>6. TwoMore(e, f)
  BY <1>1, <1>4, <1>5, StoreTwo
<1> QED BY <1>2, <1>3, <1>6 DEF a, b, e, f

LEMMA CloseStores ==
  ASSUME IInv, NEW from \in SeqState, NEW frames, CloseSession(from, frames)
  PROVE  LET a == NextSeq(from, now)  b == NextSeq(a, now) IN
         /\ a \in SeqState /\ b \in SeqState /\ Before(from, a) /\ Before(a, b)
         /\ \/ /\ OneMore(OwnEvent(a, "stateful_session.closed"))
               /\ session.status # "active"
            \/ /\ TwoMore(OwnEvent(a, "stateful_session.closed"),
                          OwnEvent(b, "channel.pin.cleared"))
               /\ session.status = "active"
<1> DEFINE a == NextSeq(from, now)
           b == NextSeq(a, now)
           e == OwnEvent(a, "stateful_session.closed")
           f == OwnEvent(b, "channel.pin.cleared")
<1>1. TypeOK /\ log \in Seq(Event) /\ now \in Nat
  BY DEF IInv, TypeOK
<1>2. a \in SeqState /\ Before(from, a)
  BY <1>1, NextSeqIncreases
<1>3. b \in SeqState /\ Before(a, b)
  BY <1>1, <1>2, NextSeqIncreases
<1>4. /\ session.status = "active" => log' = Append(Append(log, e), f)
      /\ session.status # "active" => log' = Append(log, e)
  BY DEF CloseSession
<1> HIDE DEF a, b
<1>5. e \in Event /\ f \in Event
  BY <1>1, <1>2, <1>3, OwnEventFields
<1> HIDE DEF e, f
<1>6. CASE session.status = "active"
  <2>1. TwoMore(e, f)
    BY <1>1, <1>4, <1>5, <1>6, StoreTwo
  <2> QED BY <1>2, <1>3, <1>6, <2>1 DEF a, b, e, f
<1>7. CASE session.status # "active"
  <2>1. OneMore(e)
    BY <1>1, <1>4, <1>5, <1>7, StoreOne
  <2> QED BY <1>2, <1>3, <1>7, <2>1 DEF a, b, e
<1> QED BY <1>6, <1>7

(* Both closes, from the counter the running step holds.                   *)
Closes == EnqueueOverflow \/ SessionTimer

LEMMA ClosesStore ==
  ASSUME IInv, Closes
  PROVE  \E a, b \in SeqState :
           /\ Before(Held, a) /\ Before(a, b) /\ session' = [session EXCEPT !.status = "closed"]
           /\ \/ /\ OneMore(OwnEvent(a, "stateful_session.closed"))
                 /\ work' = [work EXCEPT !.phase = "publish",
                               !.frames = (IF work.phase = "idle" THEN <<>> ELSE @) \o <<a>>,
                               !.next = a]
              \/ /\ TwoMore(OwnEvent(a, "stateful_session.closed"),
                            OwnEvent(b, "channel.pin.cleared"))
                 /\ work' = [work EXCEPT !.phase = "publish",
                               !.frames = (IF work.phase = "idle" THEN <<>> ELSE @) \o <<a, b>>,
                               !.next = b]
<1> DEFINE frames == IF work.phase = "idle" THEN <<>> ELSE work.frames
           a == NextSeq(Held, now)
           b == NextSeq(a, now)
<1>1. Held \in SeqState /\ work \in Work
  BY DEF IInv, TypeOK, Work, Held
<1>2. CloseSession(Held, frames)
  BY DEF Closes, EnqueueOverflow, SessionTimer, Held
<1>3. session' = [session EXCEPT !.status = "closed"]
  BY <1>2 DEF CloseSession
<1> HIDE DEF frames
<1>4. /\ a \in SeqState /\ b \in SeqState /\ Before(Held, a) /\ Before(a, b)
      /\ \/ /\ OneMore(OwnEvent(a, "stateful_session.closed"))
            /\ session.status # "active"
         \/ /\ TwoMore(OwnEvent(a, "stateful_session.closed"),
                       OwnEvent(b, "channel.pin.cleared"))
            /\ session.status = "active"
  BY <1>1, <1>2, CloseStores
<1>5. /\ session.status = "active" =>
           work' = [work EXCEPT !.phase = "publish", !.frames = frames \o <<a, b>>, !.next = b]
      /\ session.status # "active" =>
           work' = [work EXCEPT !.phase = "publish", !.frames = frames \o <<a>>, !.next = a]
  BY <1>2 DEF CloseSession
<1> HIDE DEF a, b
<1> QED BY <1>3, <1>4, <1>5 DEF frames

-----------------------------------------------------------------------------
(* Giving up only marks the call.                                          *)
LEMMA GiveUpKeeps ==
  ASSUME IInv, NEW u \in Users, GiveUp(u)
  PROVE  /\ Len(inbox') = Len(inbox)
         /\ \A i \in 1..Len(inbox) : inbox'[i].scope = inbox[i].scope
         /\ work'.phase = work.phase /\ work'.ok = work.ok /\ work'.ids = work.ids
         /\ work'.frames = work.frames /\ work'.next = work.next
         /\ work.call \in Call => /\ work'.call.scope = work.call.scope
                                  /\ work'.call.body = work.call.body
         /\ work.call \notin Call => work'.call = work.call
<1>1. inbox \in Seq(Call) /\ work \in Work
  BY DEF IInv, TypeOK
<1>2. \A c \in Call : Abandon(c, u).scope = c.scope /\ Abandon(c, u).body = c.body
  BY DEF Abandon, Call
<1>3. /\ inbox' = [i \in 1..Len(inbox) |-> Abandon(inbox[i], u)]
      /\ work' = IF work.call = None THEN work ELSE [work EXCEPT !.call = Abandon(@, u)]
  BY DEF GiveUp
<1>4. Len(inbox) \in Nat /\ \A i \in 1..Len(inbox) : inbox[i] \in Call
  BY <1>1
<1>5. Len(inbox') = Len(inbox) /\ \A i \in 1..Len(inbox) : inbox'[i].scope = inbox[i].scope
  BY <1>2, <1>3, <1>4
<1>6. work.call \in Call \cup {None}
  BY <1>1 DEF Work
<1> QED BY <1>1, <1>2, <1>3, <1>5, <1>6 DEF Work

-----------------------------------------------------------------------------
(* No message after the dissolve.  The create is the first call of a       *)
(* channel nobody else has a command in, so the status never goes back.    *)

CreateFirst ==
  /\ status = "absent" => log = <<>> /\ session.status = "none"
  /\ \A i \in 1..Len(inbox) :
       inbox[i].scope.op = "create" => i = 1 /\ work.phase = "idle" /\ status = "absent"
  /\ work.phase = "planned" => (work.call.scope.op = "create") = (status = "absent")

DissolvedStays ==
  \A i \in 1..Len(log) : log[i].kind = "channel.dissolved" => status = "dissolved"

QuietInv == CreateFirst /\ DissolvedStays /\ QuietAfterDissolve

LEMMA QuietInit == Init => QuietInv
<1> SUFFICES ASSUME Init PROVE QuietInv
  OBVIOUS
<1>1. work.phase = "idle"
  BY DEF Init, Idle
<1>2. CASE InitFresh
  <2>1. PICK k \in Keys : inbox = <<CreateCall(k)>>
    BY <1>2 DEF InitFresh
  <2>2. log = <<>> /\ Len(log) = 0 /\ Len(inbox) = 1
    BY <1>2, <2>1 DEF InitFresh
  <2> QED BY <1>1, <1>2, <2>2
          DEF InitFresh, QuietInv, CreateFirst, DissolvedStays, QuietAfterDissolve
<1>3. CASE InitExisting
  <2>1. /\ Len(log) = 2 /\ log[1].kind = "channel.created" /\ log[2].kind = "system.notice"
        /\ inbox = <<>> /\ status = "active"
    BY <1>3 DEF InitExisting, OwnEvent
  <2> QED BY <1>1, <2>1 DEF QuietInv, CreateFirst, DissolvedStays, QuietAfterDissolve
<1> QED BY <1>2, <1>3 DEF Init

LEMMA QuietStays == IInv /\ QuietInv /\ [Next]_vars => QuietInv'
<1> SUFFICES ASSUME IInv, QuietInv, [Next]_vars PROVE QuietInv'
  OBVIOUS
<1>1. /\ inbox \in Seq(Call) /\ Len(inbox) \in Nat /\ work \in Work /\ log \in Seq(Event)
      /\ status \in {"absent", "active", "dissolved"} /\ session \in Session
      /\ up \in BOOLEAN
  BY DEF IInv, TypeOK
<1>2. CASE UNCHANGED vars
  BY <1>2 DEF vars, procVars, dbVars, QuietInv, CreateFirst, DissolvedStays, QuietAfterDissolve
<1>3. ASSUME UNCHANGED <<status, log, session>>, CreateFirst' PROVE QuietInv'
  BY <1>3 DEF QuietInv, DissolvedStays, QuietAfterDissolve
<1>4. ASSUME NEW u \in Users, NEW op \in {"send", "dissolve"}, NEW k \in Keys,
             NEW b \in Bodies \cup {None}, Issue(u, op, k, b)
      PROVE  QuietInv'
  <2> DEFINE c == [scope |-> [user |-> u, op |-> op, key |-> k], body |-> b, live |-> TRUE]
  <2>1. inbox' = Append(inbox, c) /\ UNCHANGED <<status, log, session, work>>
    BY <1>4 DEF Issue, dbVars
  <2>2. c \in Call /\ c.scope.op # "create"
    BY DEF Call, Scope
  <2> HIDE DEF c
  <2>3. Len(inbox') = Len(inbox) + 1 /\ inbox'[Len(inbox) + 1] = c
        /\ \A i \in 1..Len(inbox) : inbox'[i] = inbox[i]
    BY <1>1, <2>1, <2>2
  <2> QED BY <1>1, <1>3, <2>1, <2>2, <2>3 DEF QuietInv, CreateFirst
<1>5. ASSUME NEW u \in Users, GiveUp(u) PROVE QuietInv'
  <2>1. UNCHANGED <<status, log, session>>
    BY <1>5 DEF GiveUp, dbVars
  <2>2. work.phase = "planned" => work.call \in Call
    BY DEF IInv, CallTaken
  <2> QED BY <1>3, <1>5, <2>1, <2>2, GiveUpKeeps DEF QuietInv, CreateFirst
<1>6. CASE Start \/ Tick
  BY <1>3, <1>6 DEF Start, Tick, procVars, dbVars, QuietInv, CreateFirst
<1>7. CASE Crash
  <2>1. UNCHANGED <<status, log, session>> /\ inbox' = <<>> /\ work'.phase = "idle"
    BY <1>7 DEF Crash, dbVars, Idle
  <2> QED BY <1>3, <2>1 DEF QuietInv, CreateFirst
<1>8. CASE Begin
  <2>1. /\ work.phase = "idle" /\ inbox # <<>> /\ inbox' = Tail(inbox)
        /\ UNCHANGED <<status, log, session>>
    BY <1>8 DEF Begin, dbVars
  <2>2. /\ Head(inbox) = inbox[1] /\ Len(inbox') = Len(inbox) - 1 /\ Head(inbox) \in Call
        /\ \A i \in 1..Len(inbox') : inbox'[i] = inbox[i + 1]
    BY <1>1, <2>1
  <2>3. \A i \in 1..Len(inbox') : inbox'[i].scope.op # "create"
    BY <1>1, <2>2 DEF QuietInv, CreateFirst
  <2> DEFINE call == Head(inbox)
             taken == [Idle EXCEPT !.phase = "planned", !.call = call, !.at = now]
             gated == \/ call.scope.op # "create" /\ status = "absent"
                      \/ call.scope.op = "send" /\ call.scope.user \notin Members
  <2>4. taken.call = call
    BY DEF Idle
  <2>5. \/ work' = taken /\ ~gated
        \/ work'.phase = "publish"
    BY <1>8 DEF Begin, Idle
  <2>6. call.scope.op = "create" => status = "absent"
    BY <1>1, <2>1, <2>2 DEF QuietInv, CreateFirst
  <2>7. work'.phase = "planned" => (work'.call.scope.op = "create") = (status = "absent")
    BY <2>4, <2>5, <2>6
  <2> QED BY <1>3, <2>1, <2>3, <2>7 DEF QuietInv, CreateFirst
<1>9. ASSUME UNCHANGED inbox, status' # "absent", work'.phase # "planned",
             work.phase # "idle" \/ status # "absent"
      PROVE  CreateFirst'
  BY <1>9 DEF QuietInv, CreateFirst
<1>10. ASSUME UNCHANGED <<inbox, status, log, session>>, work.phase # "idle",
              work'.phase # "planned"
       PROVE  QuietInv'
  BY <1>3, <1>10 DEF QuietInv, CreateFirst
<1>11. CASE Replay \/ Refuse \/ CommitTombstone
  <2>1. UNCHANGED <<inbox, status, log, session>> /\ work.phase = "planned"
        /\ work'.phase = "publish"
    BY <1>1, <1>11 DEF Replay, Refuse, CommitTombstone, Finish, dbVars, Work
  <2> QED BY <1>10, <2>1
<1>12. CASE Publish \/ Reply \/ EnqueueNothing
  <2>1. UNCHANGED <<inbox, status, log, session>> /\ work.phase \in {"publish", "enqueue"}
        /\ work'.phase \in {"publish", "idle"}
    BY <1>1, <1>12 DEF Publish, Reply, EnqueueNothing, dbVars, Work, Idle
  <2> QED BY <1>10, <2>1
<1>13. CASE EnqueueInput
  <2>1. /\ UNCHANGED <<inbox, status, log>> /\ work'.phase = "publish" /\ work.phase = "enqueue"
        /\ session.status = "active"
    BY <1>1, <1>13 DEF EnqueueInput, Work
  <2>2. status # "absent"
    BY <2>1 DEF QuietInv, CreateFirst
  <2>3. CreateFirst'
    BY <1>9, <2>1, <2>2
  <2> QED BY <2>1, <2>3 DEF QuietInv, DissolvedStays, QuietAfterDissolve
<1>14. CASE CommitSend
  <2>1. /\ UNCHANGED <<inbox, status>> /\ work'.phase = "enqueue" /\ work.phase = "planned"
        /\ work.call.scope.op = "send" /\ status # "dissolved"
    BY <1>1, <1>14 DEF CommitSend, Work
  <2>2. CreateFirst'
    BY <1>9, <2>1 DEF QuietInv, CreateFirst
  <2> DEFINE e == NewEvent(First, "message.created")
  <2>3. OneMore(e) /\ e.kind = "message.created"
    BY <1>14, SendStores DEF NewEvent
  <2> HIDE DEF e
  <2>4. \A i \in 1..Len(log) : log[i].kind # "channel.dissolved"
    BY <2>1 DEF QuietInv, DissolvedStays
  <2>5. \A i \in 1..Len(log') : log'[i].kind # "channel.dissolved"
    BY <2>3, <2>4 DEF OneMore
  <2> QED BY <2>2, <2>5 DEF QuietInv, DissolvedStays, QuietAfterDissolve
<1>15. ASSUME NEW e, NEW f, OneMore(e) \/ TwoMore(e, f),
              e.kind # "message.created", f.kind # "message.created"
       PROVE  QuietAfterDissolve'
  <2> SUFFICES ASSUME NEW i \in 1..Len(log'), NEW j \in 1..Len(log'),
                      log'[i].kind = "channel.dissolved", i < j
               PROVE  log'[j].kind # "message.created"
    BY DEF QuietAfterDissolve
  <2>1. CASE j \in 1..Len(log)
    <3>1. i \in 1..Len(log) /\ log'[i] = log[i] /\ log'[j] = log[j]
      BY <1>15, <2>1 DEF OneMore, TwoMore
    <3> QED BY <2>1, <3>1 DEF QuietInv, QuietAfterDissolve
  <2>2. CASE j \notin 1..Len(log)
    <3>1. log'[j] = e \/ log'[j] = f
      BY <1>15, <2>2 DEF OneMore, TwoMore
    <3> QED BY <1>15, <3>1
  <2> QED BY <2>1, <2>2
<1>16. CASE CommitCreate
  <2>1. /\ UNCHANGED inbox /\ status' = "active" /\ work.phase = "planned"
        /\ work'.phase = "publish" /\ work.call.scope.op = "create"
    BY <1>1, <1>16 DEF CommitCreate, CommitPair, Work
  <2>2. CreateFirst' /\ log = <<>>
    BY <1>9, <2>1 DEF QuietInv, CreateFirst
  <2> DEFINE e == NewEvent(First, "channel.created")
             f == NewEvent(Second, "system.notice")
  <2>3. TwoMore(e, f) /\ e.kind = "channel.created" /\ f.kind = "system.notice"
    BY <1>16, PairStores DEF CommitCreate, NewEvent
  <2> HIDE DEF e, f
  <2>4. DissolvedStays'
    BY <2>2, <2>3 DEF TwoMore, DissolvedStays
  <2> QED BY <1>15, <2>2, <2>3, <2>4 DEF QuietInv
<1>17. CASE CommitDissolve
  <2>1. /\ UNCHANGED inbox /\ status' = "dissolved" /\ work.phase = "planned"
        /\ work'.phase = "publish" /\ CommitPair("dissolve", "channel.dissolved", "dissolved")
    BY <1>1, <1>17 DEF CommitDissolve, CommitPair, Work
  <2>2. CreateFirst' /\ DissolvedStays'
    BY <1>9, <2>1 DEF DissolvedStays
  <2> DEFINE e == NewEvent(First, "channel.dissolved")
             f == NewEvent(Second, "system.notice")
  <2>3. TwoMore(e, f) /\ e.kind = "channel.dissolved" /\ f.kind = "system.notice"
    BY <2>1, PairStores DEF NewEvent
  <2> HIDE DEF e, f
  <2> QED BY <1>15, <2>2, <2>3 DEF QuietInv
<1>18. ASSUME NEW e, NEW f, OneMore(e) \/ TwoMore(e, f), UNCHANGED <<inbox, status>>,
              e.kind \notin {"message.created", "channel.dissolved"},
              f.kind \notin {"message.created", "channel.dissolved"},
              session.status # "none", work'.phase = "publish"
       PROVE  QuietInv'
  <2>1. status # "absent"
    BY <1>18 DEF QuietInv, CreateFirst
  <2>2. CreateFirst'
    BY <1>9, <1>18, <2>1
  <2>3. DissolvedStays'
    BY <1>18 DEF OneMore, TwoMore, QuietInv, DissolvedStays
  <2> QED BY <1>15, <1>18, <2>2, <2>3 DEF QuietInv
<1>19. CASE StartAck
  <2>1. UNCHANGED <<inbox, status>> /\ session.status # "none" /\ work'.phase = "publish"
    BY <1>19 DEF StartAck, Idle
  <2>2. PICK a, b : TwoMore(OwnEvent(a, "stateful_session.started"),
                            OwnEvent(b, "channel.pin.set"))
    BY <1>19, AckStores
  <2> QED BY <1>18, <2>1, <2>2 DEF OwnEvent
<1>20. CASE Closes
  <2>1. UNCHANGED <<inbox, status>> /\ session.status # "none"
    BY <1>20 DEF Closes, EnqueueOverflow, SessionTimer, Open
  <2>2. PICK a, b \in SeqState :
          /\ \/ OneMore(OwnEvent(a, "stateful_session.closed"))
             \/ TwoMore(OwnEvent(a, "stateful_session.closed"),
                        OwnEvent(b, "channel.pin.cleared"))
          /\ work'.phase = "publish"
    BY <1>1, <1>20, ClosesStore DEF Work
  <2> QED BY <1>18, <2>1, <2>2 DEF OwnEvent
<1> QED BY <1>2, <1>4, <1>5, <1>6, <1>7, <1>8, <1>11, <1>12, <1>13, <1>14, <1>16, <1>17,
           <1>19, <1>20 DEF Next, WriterStep, Commit, Enqueue, Closes

(* The in-transaction dissolved gate: no message is stored after the       *)
(* channel.dissolved event, whatever was planned before it.                *)
THEOREM NothingAfterDissolve == Spec => []QuietAfterDissolve
<1>1. QuietInv => QuietAfterDissolve
  BY DEF QuietInv
<1> QED BY <1>1, InitIInv, StepIInv, QuietInit, QuietStays, PTL DEF Spec

-----------------------------------------------------------------------------
(* What the other steps leave alone.                                       *)

Callers ==
  \/ \E u \in Users, op \in {"send", "dissolve"}, k \in Keys, b \in Bodies \cup {None} :
       Issue(u, op, k, b)
  \/ \E u \in Users : GiveUp(u)

LEMMA SameTables ==
  ASSUME \/ UNCHANGED vars \/ Callers \/ Start \/ Crash \/ Tick \/ Begin \/ Replay \/ Refuse
         \/ EnqueueNothing \/ Publish \/ Reply
  PROVE  UNCHANGED <<log, idem, session>>
BY DEF vars, procVars, dbVars, Callers, Issue, GiveUp, Start, Crash, Tick, Begin, Replay,
       Refuse, EnqueueNothing, Publish, Reply

-----------------------------------------------------------------------------
(* A session that was closed stays closed.                                 *)

ClosedStays ==
  \A i \in 1..Len(log) :
    log[i].kind = "stateful_session.closed" => session.status = "closed"

CloseInv == ClosedStays /\ OneSessionClose

LEMMA CloseInit == Init => CloseInv
<1> SUFFICES ASSUME Init PROVE CloseInv
  OBVIOUS
<1>1. CASE InitFresh
  BY <1>1 DEF InitFresh, CloseInv, ClosedStays, OneSessionClose
<1>2. CASE InitExisting
  <2>1. Len(log) = 2 /\ log[1].kind = "channel.created" /\ log[2].kind = "system.notice"
    BY <1>2 DEF InitExisting, OwnEvent
  <2> QED BY <2>1 DEF CloseInv, ClosedStays, OneSessionClose
<1> QED BY <1>1, <1>2 DEF Init

LEMMA CloseStays == IInv /\ CloseInv /\ [Next]_vars => CloseInv'
<1> SUFFICES ASSUME IInv, CloseInv, [Next]_vars PROVE CloseInv'
  OBVIOUS
<1>1. session \in Session /\ log \in Seq(Event)
  BY DEF IInv, TypeOK
<1> DEFINE Ends == {"stateful_session.closed", "stateful_session.started"}
<1>2. ASSUME UNCHANGED log, session.status = "closed" => session'.status = "closed"
      PROVE  CloseInv'
  BY <1>2 DEF CloseInv, ClosedStays, OneSessionClose
<1>3. CASE \/ UNCHANGED vars \/ Callers \/ Start \/ Crash \/ Tick \/ Begin \/ Replay \/ Refuse
           \/ EnqueueNothing \/ Publish \/ Reply
  BY <1>2, <1>3, SameTables
<1>4. CASE CommitTombstone \/ EnqueueInput
  BY <1>1, <1>2, <1>4 DEF CommitTombstone, EnqueueInput, Session
<1>5. ASSUME NEW e, NEW f, OneMore(e) \/ TwoMore(e, f), UNCHANGED session,
             e.kind \notin Ends, f.kind \notin Ends
      PROVE  CloseInv'
  <2>1. \A i \in 1..Len(log') : log'[i].kind \in Ends => i \in 1..Len(log) /\ log'[i] = log[i]
    BY <1>5 DEF OneMore, TwoMore
  <2> QED BY <1>5, <2>1 DEF CloseInv, ClosedStays, OneSessionClose
<1>6. ASSUME NEW e, NEW f, OneMore(e) \/ TwoMore(e, f),
             session.status # "closed", f.kind \notin Ends,
             e.kind = "stateful_session.closed" => session'.status = "closed"
      PROVE  CloseInv'
  <2>1. \A i \in 1..Len(log) : log[i].kind # "stateful_session.closed"
    BY <1>6 DEF CloseInv, ClosedStays
  <2>2. \A i \in 1..Len(log') :
          \/ log'[i].kind # "stateful_session.closed" /\ i \in 1..Len(log)
          \/ i = Len(log) + 1 /\ log'[i] = e
          \/ i = Len(log) + 2 /\ log'[i] = f
    BY <1>6, <2>1 DEF OneMore, TwoMore
  <2> QED BY <1>6, <2>1, <2>2, SMTT(30) DEF CloseInv, ClosedStays, OneSessionClose, OneMore, TwoMore
<1>7. CASE CommitSend
  <2>1. OneMore(NewEvent(First, "message.created")) /\ UNCHANGED session
    BY <1>7, SendStores DEF CommitSend
  <2> QED BY <1>5, <2>1 DEF NewEvent
<1>8. ASSUME NEW op, NEW kind \in {"channel.created", "channel.dissolved"}, NEW status1,
             CommitPair(op, kind, status1)
      PROVE  CloseInv'
  <2>1. TwoMore(NewEvent(First, kind), NewEvent(Second, "system.notice")) /\ UNCHANGED session
    BY <1>8, PairStores DEF CommitPair
  <2> QED BY <1>5, <2>1 DEF NewEvent
<1>9. CASE CommitCreate \/ CommitDissolve
  BY <1>8, <1>9 DEF CommitCreate, CommitDissolve
<1>10. CASE StartAck
  <2>1. session.status # "closed"
    BY <1>10 DEF StartAck
  <2>2. PICK a, b : TwoMore(OwnEvent(a, "stateful_session.started"),
                            OwnEvent(b, "channel.pin.set"))
    BY <1>10, AckStores
  <2> QED BY <1>6, <2>1, <2>2 DEF OwnEvent
<1>11. CASE Closes
  <2>1. session.status # "closed"
    BY <1>11 DEF Closes, EnqueueOverflow, SessionTimer, Open
  <2>2. PICK a, b \in SeqState :
          /\ session' = [session EXCEPT !.status = "closed"]
          /\ \/ OneMore(OwnEvent(a, "stateful_session.closed"))
             \/ TwoMore(OwnEvent(a, "stateful_session.closed"),
                        OwnEvent(b, "channel.pin.cleared"))
    BY <1>11, ClosesStore
  <2>3. session'.status = "closed"
    BY <1>1, <2>2 DEF Session
  <2> QED BY <1>6, <2>1, <2>2, <2>3 DEF OwnEvent
<1> QED BY <1>3, <1>4, <1>7, <1>9, <1>10, <1>11
        DEF Next, WriterStep, Commit, Enqueue, Closes, Callers

(* A session is closed once and never starts after its close, though the   *)
(* start ack, the timers and a backlog overflow all move it.               *)
THEOREM SessionClosesOnce == Spec => []OneSessionClose
<1>1. CloseInv => OneSessionClose
  BY DEF CloseInv
<1> QED BY <1>1, InitIInv, StepIInv, CloseInit, CloseStays, PTL DEF Spec

-----------------------------------------------------------------------------
(* Idempotency.  A row outlives the events of its scope by what is left of *)
(* their TTL, and it is overwritten only when it is dead.                  *)

RowsCover ==
  \A i \in 1..Len(log) : log[i].scope # None =>
    /\ log[i].scope \in Scope
    /\ idem[log[i].scope].expires >= log[i].at + TTL

KeyInv == RowsCover /\ OncePerKey

LEMMA KeyInit == Init => KeyInv
<1> SUFFICES ASSUME Init PROVE KeyInv
  OBVIOUS
<1>1. CASE InitFresh
  BY <1>1 DEF InitFresh, KeyInv, RowsCover, OncePerKey
<1>2. CASE InitExisting
  <2>1. Len(log) = 2 /\ log[1].scope = None /\ log[2].scope = None
    BY <1>2 DEF InitExisting, OwnEvent
  <2> QED BY <2>1 DEF KeyInv, RowsCover, OncePerKey
<1> QED BY <1>1, <1>2 DEF Init

\* A row that is dead and overwritten, or left alone, covers what it covered.
LEMMA RowsExtend ==
  ASSUME IInv, NEW call \in Call, NEW ids, WriteCompleted(call, ids)
  PROVE  /\ \A s \in Scope : idem'[s].expires >= idem[s].expires
         /\ ~Live(call.scope) => idem'[call.scope].expires = now + TTL
<1>1. /\ idem \in [Scope -> Row] /\ now \in Nat /\ call.scope \in Scope /\ TTL \in Nat
      /\ \A s \in Scope : idem[s].expires \in Nat
  BY ConstantsAssumption DEF IInv, TypeOK, Call, Row
<1>2. idem' = [idem EXCEPT ![call.scope] =
                 IF Live(call.scope) THEN idem[call.scope]
                 ELSE [body |-> call.body, ids |-> ids, expires |-> now + TTL]]
  BY DEF WriteCompleted
<1>3. ~Live(call.scope) => idem[call.scope].expires <= now
  BY <1>1 DEF Live
<1> QED BY <1>1, <1>2, <1>3

LEMMA KeyStays == IInv /\ KeyInv /\ [Next]_vars => KeyInv'
<1> SUFFICES ASSUME IInv, KeyInv, [Next]_vars PROVE KeyInv'
  OBVIOUS
<1>1. /\ idem \in [Scope -> Row] /\ log \in Seq(Event) /\ now \in Nat /\ TTL \in Nat
      /\ work.phase = "planned" => work.call \in Call
  BY ConstantsAssumption DEF IInv, TypeOK, CallTaken
<1>2. /\ \A i \in 1..Len(log) : log[i].at \in Nat
      /\ \A s \in Scope : idem[s].expires \in Nat
  <2>1. \A i \in 1..Len(log) : log[i] \in Event
    BY <1>1
  <2> QED BY <1>1, <2>1 DEF Event, Row
<1>3. ASSUME UNCHANGED log, idem' \in [Scope -> Row],
             \A s \in Scope : idem'[s].expires >= idem[s].expires
      PROVE  KeyInv'
  <2>1. \A s \in Scope : idem'[s].expires \in Nat
    BY <1>3 DEF Row
  <2> QED BY <1>1, <1>2, <1>3, <2>1 DEF KeyInv, RowsCover, OncePerKey
<1>4. ASSUME UNCHANGED <<log, idem>> PROVE KeyInv'
  BY <1>4 DEF KeyInv, RowsCover, OncePerKey
<1>5. CASE \/ UNCHANGED vars \/ Callers \/ Start \/ Crash \/ Tick \/ Begin \/ Replay \/ Refuse
           \/ EnqueueNothing \/ Publish \/ Reply
  BY <1>4, <1>5, SameTables
<1>6. CASE EnqueueInput
  BY <1>4, <1>6 DEF EnqueueInput
<1>7. idem' \in [Scope -> Row]
  BY StepIInv DEF IInv, TypeOK
<1>8. CASE CommitTombstone
  <2>1. WriteCompleted(work.call, <<>>) /\ work.call \in Call /\ UNCHANGED log
    BY <1>1, <1>8 DEF CommitTombstone
  <2> QED BY <1>3, <1>7, <2>1, RowsExtend
<1>9. ASSUME NEW e, NEW f, OneMore(e) \/ TwoMore(e, f), e.scope = None, f.scope = None,
             UNCHANGED idem
      PROVE  KeyInv'
  <2>1. \A i \in 1..Len(log') : log'[i].scope # None => i \in 1..Len(log) /\ log'[i] = log[i]
    BY <1>9 DEF OneMore, TwoMore
  <2>2. RowsCover'
    BY <1>9, <2>1 DEF KeyInv, RowsCover
  <2>3. OncePerKey'
    BY <2>1 DEF KeyInv, OncePerKey
  <2> QED BY <2>2, <2>3 DEF KeyInv
(* A transaction under a key whose row is dead: its events are a TTL after *)
(* those the row covers, and the new row covers them.                      *)
<1>10. ASSUME NEW e \in Event, NEW f \in Event, OneMore(e) \/ TwoMore(e, f),
              NEW ids, work.call \in Call, ~Live(work.call.scope),
              WriteCompleted(work.call, ids), e.kind # f.kind,
              e.scope = work.call.scope, f.scope = work.call.scope,
              e.at = now, f.at = now
       PROVE  KeyInv'
  <2> DEFINE s == work.call.scope
  <2>1. s \in Scope
    BY <1>10 DEF Call
  <2>2. /\ \A r \in Scope : idem'[r].expires >= idem[r].expires
        /\ idem'[s].expires = now + TTL
    BY <1>10, RowsExtend
  <2>3. \A r \in Scope : idem'[r].expires \in Nat
    BY <1>7 DEF Row
  <2>4. idem[s].expires <= now
    BY <1>1, <1>2, <1>10, <2>1 DEF Live
  <2> HIDE DEF s
  <2>5. \A i \in 1..Len(log') :
          \/ i \in 1..Len(log) /\ log'[i] = log[i]
          \/ i = Len(log) + 1 /\ log'[i] = e
          \/ i = Len(log) + 2 /\ log'[i] = f
    BY <1>10 DEF OneMore, TwoMore
  <2>6. RowsCover'
    <3> SUFFICES ASSUME NEW i \in 1..Len(log'), log'[i].scope # None
                 PROVE  /\ log'[i].scope \in Scope
                        /\ idem'[log'[i].scope].expires >= log'[i].at + TTL
      BY DEF RowsCover
    <3>1. CASE i \in 1..Len(log) /\ log'[i] = log[i]
      <4>1. log[i].scope \in Scope /\ idem[log[i].scope].expires >= log[i].at + TTL
        BY <3>1 DEF KeyInv, RowsCover
      <4> QED BY <1>1, <1>2, <2>2, <2>3, <3>1, <4>1, SMTT(30)
    <3>2. CASE log'[i] = e \/ log'[i] = f
      BY <1>1, <1>10, <2>1, <2>2, <3>2 DEF s
    <3> QED BY <2>5, <3>1, <3>2
  <2>7. OncePerKey'
    <3> SUFFICES ASSUME NEW i \in 1..Len(log'), NEW j \in 1..Len(log'), i < j,
                        log'[i].scope # None, log'[i].scope = log'[j].scope,
                        log'[i].kind = log'[j].kind
                 PROVE  log'[j].at >= log'[i].at + TTL
      BY DEF OncePerKey
    <3>1. CASE j \in 1..Len(log)
      <4>1. i \in 1..Len(log) /\ log'[i] = log[i] /\ log'[j] = log[j]
        BY <1>10, <3>1 DEF OneMore, TwoMore
      <4> QED BY <3>1, <4>1 DEF KeyInv, OncePerKey
    <3>2. CASE j \notin 1..Len(log) /\ i \in 1..Len(log)
      <4>1. log'[i] = log[i] /\ (log'[j] = e \/ log'[j] = f)
        BY <1>10, <2>5, <3>2 DEF OneMore, TwoMore
      <4>2. log[i].scope = s /\ log'[j].at = now
        BY <1>10, <4>1 DEF s
      <4>3. idem[s].expires >= log[i].at + TTL
        BY <3>2, <4>1, <4>2 DEF KeyInv, RowsCover
      <4> QED BY <1>1, <1>2, <2>1, <2>4, <3>2, <4>1, <4>2, <4>3
    <3>3. CASE i \notin 1..Len(log)
      <4>1. log'[i] = e /\ log'[j] = f
        BY <1>10, <3>3 DEF OneMore, TwoMore
      <4> QED BY <1>10, <4>1
    <3> QED BY <3>1, <3>2, <3>3
  <2> QED BY <2>6, <2>7 DEF KeyInv
<1>11. CASE CommitSend
  <2> DEFINE e == NewEvent(First, "message.created")
             f == NewEvent(First, "system.notice")
  <2>1. OneMore(e) /\ work.call \in Call /\ TypeOK /\ First \in SeqState
    BY <1>11, SendStores DEF IInv
  <2>2. /\ e \in Event /\ e.kind = "message.created" /\ e.scope = work.call.scope /\ e.at = now
        /\ f \in Event /\ f.kind = "system.notice" /\ f.scope = work.call.scope /\ f.at = now
    BY <2>1, NewEventFields
  <2>3. ~Live(work.call.scope) /\ WriteCompleted(work.call, <<First>>)
    BY <1>11 DEF CommitSend, Check
  <2> HIDE DEF e, f
  <2> QED BY <1>10, <2>1, <2>2, <2>3
<1>12. ASSUME NEW op, NEW kind \in {"channel.created", "channel.dissolved"}, NEW status1,
              CommitPair(op, kind, status1)
       PROVE  KeyInv'
  <2> DEFINE e == NewEvent(First, kind)
             f == NewEvent(Second, "system.notice")
  <2>1. /\ TwoMore(e, f) /\ work.call \in Call /\ TypeOK
        /\ First \in SeqState /\ Second \in SeqState
    BY <1>12, PairStores DEF IInv
  <2>2. /\ e \in Event /\ e.kind = kind /\ e.scope = work.call.scope /\ e.at = now
        /\ f \in Event /\ f.kind = "system.notice" /\ f.scope = work.call.scope /\ f.at = now
    BY <2>1, NewEventFields
  <2>3. ~Live(work.call.scope) /\ WriteCompleted(work.call, <<First, Second>>)
    BY <1>12 DEF CommitPair, Check
  <2> HIDE DEF e, f
  <2> QED BY <1>10, <2>1, <2>2, <2>3
<1>13. CASE CommitCreate \/ CommitDissolve
  BY <1>12, <1>13 DEF CommitCreate, CommitDissolve
<1>14. CASE StartAck
  <2>1. PICK a, b : TwoMore(OwnEvent(a, "stateful_session.started"),
                            OwnEvent(b, "channel.pin.set"))
    BY <1>14, AckStores
  <2> QED BY <1>9, <1>14, <2>1 DEF OwnEvent, StartAck
<1>15. CASE Closes
  <2>1. PICK a, b \in SeqState :
          \/ OneMore(OwnEvent(a, "stateful_session.closed"))
          \/ TwoMore(OwnEvent(a, "stateful_session.closed"),
                     OwnEvent(b, "channel.pin.cleared"))
    BY <1>15, ClosesStore
  <2>2. UNCHANGED idem
    BY <1>15 DEF Closes, EnqueueOverflow, SessionTimer
  <2> QED BY <1>9, <2>1, <2>2 DEF OwnEvent
<1> QED BY <1>5, <1>6, <1>8, <1>11, <1>13, <1>14, <1>15
        DEF Next, WriterStep, Commit, Enqueue, Closes, Callers

(* Contract 2.5: a command does not run again under its key while its row  *)
(* lives; two runs are a TTL apart, whatever was retried, given up on or   *)
(* interrupted, and wherever the clock went.                               *)
THEOREM OncePerLiveKey == Spec => []OncePerKey
<1>1. KeyInv => OncePerKey
  BY DEF KeyInv
<1> QED BY <1>1, InitIInv, StepIInv, KeyInit, KeyStays, PTL DEF Spec

-----------------------------------------------------------------------------
(* What is answered is stored.                                             *)

Stored(id, s, b) ==
  \E i \in 1..Len(log) : log[i].id = id /\ log[i].scope = s /\ log[i].body = b

Named(ids, s, b) == \A n \in 1..Len(ids) : Stored(ids[n], s, b)

RowsNamed == \A s \in Scope : Named(idem[s].ids, s, idem[s].body)

AnswerNamed ==
  /\ work.phase \in {"idle", "planned"} => ~work.ok
  /\ work.ok => Named(work.ids, work.call.scope, work.call.body)

ReplyInv == RowsNamed /\ AnswerNamed

LEMMA ReplyInit == Init => ReplyInv
<1> SUFFICES ASSUME Init PROVE ReplyInv
  OBVIOUS
<1>1. \A s \in Scope : idem[s].ids = <<>>
  BY DEF Init, NoRow
<1> QED BY <1>1 DEF Init, Idle, ReplyInv, RowsNamed, Named, AnswerNamed

LEMMA StoredStays ==
  ASSUME IInv, [Next]_vars, NEW id, NEW s, NEW b, Stored(id, s, b)
  PROVE  Stored(id, s, b)'
<1>1. log' = log \/ Grows(log, log')
  BY LogOnlyGrows DEF IInv
<1>2. log \in Seq(Event) /\ Len(log) \in Nat /\ log' \in Seq(Event) /\ Len(log') \in Nat
  BY StepIInv DEF IInv, TypeOK
<1>3. CASE log' = log
  BY <1>3 DEF Stored
<1>4. CASE Grows(log, log')
  <2>1. PICK i \in 1..Len(log) : log[i].id = id /\ log[i].scope = s /\ log[i].body = b
    BY DEF Stored
  <2>2. log'[i] = log[i] /\ Len(log') > Len(log)
    BY <1>4 DEF Grows
  <2>3. i \in 1..Len(log')
    BY <1>2, <2>2
  <2> QED BY <2>1, <2>2, <2>3 DEF Stored
<1> QED BY <1>1, <1>3, <1>4

LEMMA NamedStays ==
  ASSUME IInv, [Next]_vars, NEW ids, NEW s, NEW b, Named(ids, s, b)
  PROVE  Named(ids, s, b)'
BY StoredStays DEF Named

LEMMA ReplyStays == IInv /\ ReplyInv /\ [Next]_vars => ReplyInv'
<1> SUFFICES ASSUME IInv, ReplyInv, [Next]_vars PROVE ReplyInv'
  OBVIOUS
<1>1. /\ work \in Work /\ idem \in [Scope -> Row] /\ inbox \in Seq(Call)
      /\ work.phase \in {"planned", "enqueue"} => work.call \in Call
  BY DEF IInv, TypeOK, CallTaken
<1>2. ASSUME UNCHANGED idem PROVE RowsNamed'
  <2>1. ASSUME NEW s \in Scope PROVE Named(idem[s].ids, s, idem[s].body)'
    <3> DEFINE ids == idem[s].ids
               b == idem[s].body
    <3>1. PICK i, c : i = ids /\ c = b
      OBVIOUS
    <3>2. Named(i, s, c)
      BY <3>1 DEF ReplyInv, RowsNamed
    <3>3. Named(i, s, c)'
      BY <3>2, NamedStays
    <3> QED BY <1>2, <3>1, <3>3 DEF Named, Stored
  <2> QED BY <2>1 DEF RowsNamed
<1>3. ASSUME work'.ok => work.ok /\ work'.ids = work.ids,
             work.ok => work'.call.scope = work.call.scope /\ work'.call.body = work.call.body,
             work'.phase \in {"idle", "planned"} => ~work'.ok
      PROVE  AnswerNamed'
  <2> SUFFICES ASSUME work'.ok PROVE Named(work.ids, work.call.scope, work.call.body)'
    BY <1>3 DEF AnswerNamed, Named, Stored
  <2>1. PICK i, s, b : i = work.ids /\ s = work.call.scope /\ b = work.call.body
    OBVIOUS
  <2>2. Named(i, s, b)'
    BY <1>3, <2>1, NamedStays DEF ReplyInv, AnswerNamed
  <2> QED BY <1>3, <2>1, <2>2 DEF Named, Stored
<1>4. CASE UNCHANGED vars
  BY <1>2, <1>3, <1>4 DEF vars, procVars, dbVars, ReplyInv, AnswerNamed
<1>5. CASE Callers
  <2>1. ASSUME NEW u \in Users, GiveUp(u) PROVE AnswerNamed'
    BY <1>3, <2>1, GiveUpKeeps DEF ReplyInv, AnswerNamed
  <2>2. ASSUME UNCHANGED work PROVE AnswerNamed'
    BY <1>3, <2>2 DEF ReplyInv, AnswerNamed
  <2>3. AnswerNamed'
    BY <1>5, <2>1, <2>2 DEF Callers, Issue
  <2> QED BY <1>2, <1>5, <2>3, SameTables DEF ReplyInv
<1>6. CASE Start \/ Tick
  <2>1. UNCHANGED <<work, idem>>
    BY <1>6 DEF Start, Tick, procVars, dbVars
  <2> QED BY <1>2, <1>3, <2>1 DEF ReplyInv, AnswerNamed
<1>7. ASSUME ~work'.ok, UNCHANGED idem PROVE ReplyInv'
  BY <1>2, <1>7 DEF ReplyInv, AnswerNamed
<1>8. CASE Crash \/ Reply \/ StartAck
  <2>1. CASE Crash \/ Reply
    BY <1>7, <2>1 DEF Crash, Reply, Idle, dbVars
  <2>2. CASE StartAck
    <3>1. UNCHANGED idem
          /\ \E fr, x : work' = [Idle EXCEPT !.phase = "publish", !.frames = fr, !.next = x]
      BY <2>2, Zenon DEF StartAck
    <3> QED BY <1>7, <3>1 DEF Idle
  <2> QED BY <1>8, <2>1, <2>2
<1>9. CASE Refuse
  <2>1. ~work'.ok /\ UNCHANGED idem
    BY <1>1, <1>9 DEF Refuse, Finish, Work, dbVars
  <2> QED BY <1>7, <2>1
(* A replay answers with the row of a request with the same body.          *)
<1>10. ASSUME NEW c \in Call, Check(c) = "cached"
       PROVE  Named(idem[c.scope].ids, c.scope, c.body)
  <2>1. c.scope \in Scope /\ idem[c.scope].body = c.body
    BY <1>10 DEF Check, Call
  <2> QED BY <2>1 DEF ReplyInv, RowsNamed
<1>11. ASSUME NEW c \in Call, Check(c) = "cached", UNCHANGED <<idem, log>>,
              work'.ids = idem[c.scope].ids, work'.call = c,
              work'.phase = "publish"
       PROVE  ReplyInv'
  <2>1. Named(work'.ids, work'.call.scope, work'.call.body)
    BY <1>10, <1>11
  <2>2. AnswerNamed'
    BY <1>11, <2>1 DEF AnswerNamed, Named, Stored
  <2> QED BY <1>2, <1>11, <2>2 DEF ReplyInv
<1>12. CASE Begin
  <2> DEFINE call == Head(inbox)
  <2>1. call \in Call /\ UNCHANGED <<idem, log>>
    BY <1>1, <1>12 DEF Begin, dbVars
  <2>2. \/ ~work'.ok
        \/ /\ Check(call) = "cached" /\ work'.ids = idem[call.scope].ids
           /\ work'.call = call /\ work'.phase = "publish"
    BY <1>12 DEF Begin, Idle
  <2> HIDE DEF call
  <2> QED BY <1>7, <1>11, <2>1, <2>2
<1>13. CASE Replay
  <2>1. /\ work.call \in Call /\ Check(work.call) = "cached" /\ UNCHANGED <<idem, log>>
        /\ work' = [work EXCEPT !.phase = "publish", !.ok = TRUE,
                               !.ids = idem[work.call.scope].ids, !.next = seq]
    BY <1>1, <1>13 DEF Replay, Finish, dbVars
  <2>2. /\ work'.ids = idem[work.call.scope].ids /\ work'.call = work.call
        /\ work'.phase = "publish"
    BY <1>1, <2>1 DEF Work
  <2> QED BY <1>11, <2>1, <2>2
(* A transaction records what it stores and answers with it.               *)
<1>14. ASSUME NEW ids, work.call \in Call, WriteCompleted(work.call, ids),
              Named(ids, work.call.scope, work.call.body)',
              work'.ids = ids, work'.call = work.call,
              work'.phase \in {"enqueue", "publish"}
       PROVE  ReplyInv'
  <2>1. PICK sc, bo : sc = work.call.scope /\ bo = work.call.body
    OBVIOUS
  <2>2. Named(ids, sc, bo)'
    BY <1>14, <2>1 DEF Named, Stored
  <2>3. AnswerNamed'
    BY <1>14, <2>1, <2>2 DEF AnswerNamed, Named, Stored
  <2>4. ASSUME NEW s \in Scope PROVE Named(idem[s].ids, s, idem[s].body)'
    <3>1. \/ idem'[s] = idem[s]
          \/ s = sc /\ idem'[s].ids = ids /\ idem'[s].body = bo
      BY <1>1, <1>14, <2>1 DEF WriteCompleted
    <3>2. PICK i, c : i = idem[s].ids /\ c = idem[s].body
      OBVIOUS
    <3>3. Named(i, s, c)'
      BY <3>2, NamedStays DEF ReplyInv, RowsNamed
    <3>4. CASE idem'[s] = idem[s]
      BY <3>2, <3>3, <3>4 DEF Named, Stored
    <3>5. CASE s = sc /\ idem'[s].ids = ids /\ idem'[s].body = bo
      BY <2>2, <3>5 DEF Named, Stored
    <3> QED BY <3>1, <3>4, <3>5
  <2>5. RowsNamed'
    BY <2>4 DEF RowsNamed
  <2> QED BY <2>3, <2>5 DEF ReplyInv
<1>15. CASE CommitTombstone
  <2>1. /\ work.call \in Call /\ WriteCompleted(work.call, <<>>)
        /\ work' = [work EXCEPT !.phase = "publish", !.ok = TRUE, !.ids = <<>>, !.next = seq]
    BY <1>1, <1>15 DEF CommitTombstone, Finish
  <2>2. work'.ids = <<>> /\ work'.call = work.call /\ work'.phase = "publish"
    BY <1>1, <2>1 DEF Work
  <2>3. Named(<<>>, work.call.scope, work.call.body)'
    BY DEF Named
  <2> QED BY <1>14, <2>1, <2>2, <2>3
<1>16. CASE CommitSend
  <2> DEFINE e == NewEvent(First, "message.created")
  <2>1. OneMore(e) /\ work.call \in Call /\ TypeOK /\ First \in SeqState
    BY <1>16, SendStores DEF IInv
  <2>2. e.id = First /\ e.scope = work.call.scope /\ e.body = work.call.body
    BY <2>1, NewEventFields
  <2>3. /\ WriteCompleted(work.call, <<First>>)
        /\ work' = [work EXCEPT !.phase = "enqueue", !.frames = <<First>>,
                               !.next = First, !.ok = TRUE, !.ids = <<First>>]
    BY <1>16 DEF CommitSend
  <2> HIDE DEF e
  <2>4. work'.ids = <<First>> /\ work'.call = work.call /\ work'.phase = "enqueue"
    BY <1>1, <2>3 DEF Work
  <2>5. PICK ids : ids = <<First>>
    OBVIOUS
  <2>6. Named(ids, work.call.scope, work.call.body)'
    <3>1. Len(log) + 1 \in 1..Len(log') /\ log'[Len(log) + 1] = e
      BY <2>1 DEF OneMore
    <3> QED BY <2>2, <2>4, <2>5, <3>1 DEF Named, Stored
  <2> QED BY <1>14, <2>1, <2>3, <2>4, <2>5, <2>6
<1>17. ASSUME NEW op, NEW kind \in {"channel.created", "channel.dissolved"}, NEW status1,
              CommitPair(op, kind, status1)
       PROVE  ReplyInv'
  <2> DEFINE e == NewEvent(First, kind)
             f == NewEvent(Second, "system.notice")
  <2>1. /\ TwoMore(e, f) /\ work.call \in Call /\ TypeOK
        /\ First \in SeqState /\ Second \in SeqState
    BY <1>17, PairStores DEF IInv
  <2>2. /\ e.id = First /\ e.scope = work.call.scope /\ e.body = work.call.body
        /\ f.id = Second /\ f.scope = work.call.scope /\ f.body = work.call.body
    BY <2>1, NewEventFields
  <2>3. /\ WriteCompleted(work.call, <<First, Second>>)
        /\ work' = [work EXCEPT !.phase = "publish", !.frames = <<First, Second>>,
                               !.next = Second, !.ok = TRUE, !.ids = <<First, Second>>]
    BY <1>17 DEF CommitPair
  <2> HIDE DEF e, f
  <2>4. work'.ids = <<First, Second>> /\ work'.call = work.call /\ work'.phase = "publish"
    BY <1>1, <2>3 DEF Work
  <2>5. PICK ids : ids = <<First, Second>>
    OBVIOUS
  <2>6. Named(ids, work.call.scope, work.call.body)'
    <3>1. /\ Len(log) + 1 \in 1..Len(log') /\ log'[Len(log) + 1] = e
          /\ Len(log) + 2 \in 1..Len(log') /\ log'[Len(log) + 2] = f
      BY <2>1 DEF TwoMore
    <3>2. \A n \in 1..Len(ids) : ids[n] = First \/ ids[n] = Second
      BY <2>5
    <3> QED BY <2>2, <2>4, <3>1, <3>2 DEF Named, Stored
  <2> QED BY <1>14, <2>1, <2>3, <2>4, <2>5, <2>6
<1>18. CASE CommitCreate \/ CommitDissolve
  BY <1>17, <1>18 DEF CommitCreate, CommitDissolve
<1>19. ASSUME work'.ok = work.ok, work'.ids = work.ids, work'.call = work.call,
              work'.phase = "publish", UNCHANGED idem
       PROVE  ReplyInv'
  BY <1>2, <1>3, <1>19 DEF ReplyInv
<1>20. CASE Closes
  <2>1. /\ UNCHANGED idem
        /\ \E fr, x : work' = [work EXCEPT !.phase = "publish", !.frames = fr, !.next = x]
    BY <1>20, Zenon DEF Closes, EnqueueOverflow, SessionTimer, CloseSession
  <2> QED BY <1>1, <1>19, <2>1 DEF Work
<1>21. CASE EnqueueNothing \/ EnqueueInput
  <2>1. UNCHANGED idem /\ work' = [work EXCEPT !.phase = "publish"]
    BY <1>21 DEF EnqueueNothing, EnqueueInput, dbVars
  <2> QED BY <1>1, <1>19, <2>1 DEF Work
<1>22. CASE Publish
  <2>1. UNCHANGED idem /\ work' = [work EXCEPT !.frames = Tail(work.frames)]
        /\ work.phase = "publish"
    BY <1>22 DEF Publish, dbVars
  <2> QED BY <1>1, <1>19, <2>1 DEF Work
<1> QED BY <1>4, <1>5, <1>6, <1>8, <1>9, <1>12, <1>13, <1>15, <1>16, <1>18, <1>20, <1>21,
           <1>22 DEF Next, WriterStep, Commit, Enqueue, Closes, Callers

(* What a caller is told is in the log: every id of a successful answer,   *)
(* fresh or replayed, is a stored event of that very request.              *)
THEOREM AnswersAreStored == Spec => []RepliesDurable
<1>1. ReplyInv => RepliesDurable
  BY DEF ReplyInv, AnswerNamed, Named, Stored, RepliesDurable
<1> QED BY <1>1, InitIInv, StepIInv, ReplyInit, ReplyStays, PTL DEF Spec

-----------------------------------------------------------------------------
(* Frames leave in order: those of the running command are stored, ascend  *)
(* and are after the newest that left, because a command's ids are after   *)
(* every stored id and what left was stored.                               *)

InLog(id) == \E i \in 1..Len(log) : log[i].id = id

InOrder(fs, p) ==
  /\ \A n \in 1..Len(fs) : Before(p, fs[n])
  /\ \A m, n \in 1..Len(fs) : m < n => Before(fs[m], fs[n])

FramesStored == \A n \in 1..Len(work.frames) : InLog(work.frames[n])

BroadcastInv ==
  /\ published = EmptySeq \/ InLog(published)
  /\ FramesStored /\ InOrder(work.frames, published)
  /\ work.phase \in {"idle", "planned"} => work.frames = <<>>

LEMMA BroadcastInit == Init => BroadcastInv
<1> SUFFICES ASSUME Init PROVE BroadcastInv
  OBVIOUS
<1>1. work.frames = <<>> /\ published = EmptySeq
  BY DEF Init, Idle
<1> QED BY <1>1 DEF BroadcastInv, FramesStored, InOrder

LEMMA InLogStays ==
  ASSUME IInv, [Next]_vars, NEW id, InLog(id)
  PROVE  InLog(id)'
<1>1. log' = log \/ Grows(log, log')
  BY LogOnlyGrows DEF IInv
<1>2. log \in Seq(Event) /\ Len(log) \in Nat /\ log' \in Seq(Event) /\ Len(log') \in Nat
  BY StepIInv DEF IInv, TypeOK
<1> QED BY <1>1, <1>2 DEF InLog, Grows

\* One later id after a sequence in order, and after its last.
LEMMA OneFrameMore ==
  ASSUME NEW fs \in Seq(SeqState), NEW p \in SeqState, NEW x \in SeqState, NEW a \in SeqState,
         InOrder(fs, p), AtOrBefore(p, x), Before(x, a),
         \A n \in 1..Len(fs) : AtOrBefore(fs[n], x)
  PROVE  /\ Append(fs, a) \in Seq(SeqState) /\ InOrder(Append(fs, a), p)
         /\ AtOrBefore(p, a) /\ \A n \in 1..Len(Append(fs, a)) : AtOrBefore(Append(fs, a)[n], a)
<1> DEFINE t == Append(fs, a)
<1>1. /\ t \in Seq(SeqState) /\ Len(fs) \in Nat /\ Len(t) = Len(fs) + 1 /\ t[Len(fs) + 1] = a
      /\ \A n \in 1..Len(fs) : t[n] = fs[n] /\ fs[n] \in SeqState
  OBVIOUS
<1>2. Before(p, a) /\ \A n \in 1..Len(fs) : Before(fs[n], a)
  BY <1>1, BeforeTransitive
<1> HIDE DEF t
<1>3. InOrder(t, p)
  <2>1. \A n \in 1..Len(t) : Before(p, t[n])
    BY <1>1, <1>2 DEF InOrder
  <2>2. ASSUME NEW m \in 1..Len(t), NEW n \in 1..Len(t), m < n
        PROVE  Before(t[m], t[n])
    <3>1. CASE n \in 1..Len(fs)
      BY <1>1, <2>2, <3>1 DEF InOrder
    <3>2. CASE n \notin 1..Len(fs)
      BY <1>1, <1>2, <2>2, <3>2
    <3> QED BY <3>1, <3>2
  <2> QED BY <2>1, <2>2 DEF InOrder
<1>4. \A n \in 1..Len(t) : AtOrBefore(t[n], a)
  BY <1>1, <1>2 DEF AtOrBefore
<1>5. AtOrBefore(p, a)
  BY <1>2 DEF AtOrBefore
<1> QED BY <1>1, <1>3, <1>4, <1>5 DEF t

LEMMA TwoFramesMore ==
  ASSUME NEW fs \in Seq(SeqState), NEW p \in SeqState, NEW x \in SeqState, NEW a \in SeqState,
         NEW b \in SeqState, InOrder(fs, p), AtOrBefore(p, x), Before(x, a), Before(a, b),
         \A n \in 1..Len(fs) : AtOrBefore(fs[n], x)
  PROVE  InOrder(Append(Append(fs, a), b), p)
<1>1. /\ Append(fs, a) \in Seq(SeqState) /\ InOrder(Append(fs, a), p)
      /\ AtOrBefore(p, a) /\ \A n \in 1..Len(Append(fs, a)) : AtOrBefore(Append(fs, a)[n], a)
  BY OneFrameMore
<1> QED BY <1>1, OneFrameMore

LEMMA AppendIsConcat ==
  ASSUME NEW fs \in Seq(SeqState), NEW a \in SeqState, NEW b \in SeqState
  PROVE  fs \o <<a>> = Append(fs, a) /\ fs \o <<a, b>> = Append(Append(fs, a), b)
OBVIOUS

LEMMA CoveredByHeld ==
  ASSUME IInv, BroadcastInv, up
  PROVE  /\ published \in SeqState /\ work.frames \in Seq(SeqState) /\ Held \in SeqState
         /\ AtOrBefore(published, Held)
         /\ \A n \in 1..Len(work.frames) : AtOrBefore(work.frames[n], Held)
<1>1. /\ published \in SeqState /\ work.frames \in Seq(SeqState) /\ Held \in SeqState
      /\ \A i \in 1..Len(log) : AtOrBefore(log[i].id, Held)
  BY OwnLog DEF IInv, TypeOK, Work, Held, CounterCoversLog
<1>2. AtOrBefore(EmptySeq, Held)
  BY <1>1, MaxCounterAssumption DEF AtOrBefore, Before, EmptySeq, SeqState
<1> QED BY <1>1, <1>2 DEF BroadcastInv, FramesStored, InLog

\* A transaction hands over the ids it stored, behind the frames there are.
LEMMA FramesAdded ==
  ASSUME IInv, BroadcastInv, up, [Next]_vars, UNCHANGED published,
         NEW fs \in {<<>>, work.frames}, NEW a \in SeqState, NEW b \in SeqState, NEW e, NEW f,
         Before(Held, a), Before(a, b), e.id = a, f.id = b,
         \/ OneMore(e) /\ work'.frames = fs \o <<a>>
         \/ TwoMore(e, f) /\ work'.frames = fs \o <<a, b>>,
         work'.phase \notin {"idle", "planned"}
  PROVE  BroadcastInv'
<1>1. /\ published \in SeqState /\ fs \in Seq(SeqState) /\ Held \in SeqState
      /\ AtOrBefore(published, Held)
      /\ \A n \in 1..Len(fs) : AtOrBefore(fs[n], Held)
  <2>1. CASE fs = work.frames
    BY <2>1, CoveredByHeld
  <2>2. CASE fs = <<>>
    BY <2>2, CoveredByHeld
  <2> QED BY <2>1, <2>2
<1>2. InOrder(fs, published) /\ \A n \in 1..Len(fs) : InLog(fs[n])
  BY DEF BroadcastInv, FramesStored, InOrder
<1>3. \A n \in 1..Len(fs) : InLog(fs[n])'
  BY <1>2, InLogStays
<1>4. (published = EmptySeq \/ InLog(published))'
  <2>1. PICK p : p = published
    OBVIOUS
  <2>2. p = EmptySeq \/ InLog(p)'
    BY <2>1, InLogStays DEF BroadcastInv
  <2> QED BY <2>1, <2>2 DEF InLog
<1>5. CASE OneMore(e) /\ work'.frames = fs \o <<a>>
  <2>1. work'.frames = Append(fs, a)
    BY <1>1, <1>5, AppendIsConcat
  <2>2. InOrder(Append(fs, a), published)
    BY <1>1, <1>2, OneFrameMore
  <2>3. InLog(a)'
    BY <1>5 DEF OneMore, InLog
  <2>4. \A n \in 1..Len(Append(fs, a)) :
          \/ n \in 1..Len(fs) /\ Append(fs, a)[n] = fs[n]
          \/ Append(fs, a)[n] = a
    BY <1>1
  <2>5. FramesStored'
    BY <1>3, <2>1, <2>3, <2>4 DEF FramesStored, InLog
  <2>6. InOrder(work.frames, published)'
    BY <2>1, <2>2 DEF InOrder
  <2> QED BY <1>4, <2>5, <2>6 DEF BroadcastInv
<1>6. CASE TwoMore(e, f) /\ work'.frames = fs \o <<a, b>>
  <2> DEFINE t == Append(Append(fs, a), b)
  <2>1. work'.frames = t
    BY <1>1, <1>6, AppendIsConcat
  <2>2. InOrder(t, published)
    BY <1>1, <1>2, TwoFramesMore
  <2>3. InLog(a)' /\ InLog(b)'
    <3>1. /\ Len(log) + 1 \in 1..Len(log') /\ log'[Len(log) + 1].id = a
          /\ Len(log) + 2 \in 1..Len(log') /\ log'[Len(log) + 2].id = b
      BY <1>6 DEF TwoMore
    <3> QED BY <3>1 DEF InLog
  <2>4. \A n \in 1..Len(t) : (n \in 1..Len(fs) /\ t[n] = fs[n]) \/ t[n] = a \/ t[n] = b
    BY <1>1
  <2> HIDE DEF t
  <2>5. FramesStored'
    BY <1>3, <2>1, <2>3, <2>4 DEF FramesStored, InLog
  <2>6. InOrder(work.frames, published)'
    BY <2>1, <2>2 DEF InOrder
  <2> QED BY <1>4, <2>5, <2>6 DEF BroadcastInv
<1> QED BY <1>5, <1>6

LEMMA BroadcastStays == IInv /\ BroadcastInv /\ [Next]_vars => BroadcastInv'
<1> SUFFICES ASSUME IInv, BroadcastInv, [Next]_vars PROVE BroadcastInv'
  OBVIOUS
<1>1. work \in Work /\ work.frames \in Seq(SeqState) /\ Len(work.frames) \in Nat
  BY DEF IInv, TypeOK, Work
<1>2. \A id : InLog(id) => InLog(id)'
  BY InLogStays
<1>3. ASSUME UNCHANGED published PROVE (published = EmptySeq \/ InLog(published))'
  BY <1>2, <1>3 DEF BroadcastInv, InLog
<1>4. ASSUME UNCHANGED published, work'.frames = <<>> PROVE BroadcastInv'
  BY <1>3, <1>4 DEF BroadcastInv, FramesStored, InOrder
<1>5. ASSUME UNCHANGED published, work'.frames = work.frames,
             work'.phase \in {"idle", "planned"} => work.phase \in {"idle", "planned"}
      PROVE  BroadcastInv'
  <2>1. FramesStored' /\ InOrder(work.frames, published)'
    BY <1>2, <1>5, ZenonT(60) DEF BroadcastInv, FramesStored, InOrder, InLog
  <2> QED BY <1>3, <1>5, <2>1 DEF BroadcastInv
<1>6. CASE UNCHANGED vars \/ Start \/ Tick
  BY <1>5, <1>6 DEF vars, procVars, Start, Tick
<1>7. CASE Callers
  <2>1. ASSUME NEW u \in Users, GiveUp(u) PROVE BroadcastInv'
    BY <1>5, <2>1, GiveUpKeeps DEF GiveUp
  <2> QED BY <1>5, <1>7, <2>1 DEF Callers, Issue
<1>8. CASE Crash \/ Begin \/ Reply
  <2>1. UNCHANGED published
    BY <1>8 DEF Crash, Begin, Reply
  <2>2. work'.frames = <<>>
    <3>1. CASE Crash \/ Reply
      BY <3>1 DEF Crash, Reply, Idle
    <3>2. CASE Begin
      BY <3>2 DEF Begin, Idle
    <3> QED BY <1>8, <3>1, <3>2
  <2> QED BY <1>4, <2>1, <2>2
<1>9. CASE Replay \/ Refuse \/ CommitTombstone
  <2>1. /\ UNCHANGED published /\ work.phase = "planned"
        /\ work'.frames = work.frames
    BY <1>1, <1>9 DEF Replay, Refuse, CommitTombstone, Finish, Work
  <2> QED BY <1>5, <2>1
<1>10. CASE EnqueueNothing \/ EnqueueInput
  <2>1. UNCHANGED published /\ work'.frames = work.frames /\ work'.phase = "publish"
    BY <1>1, <1>10 DEF EnqueueNothing, EnqueueInput, Work
  <2> QED BY <1>5, <2>1
<1>11. CASE Publish
  <2> DEFINE fs == work.frames
  <2>1. /\ fs # <<>> /\ published' = fs[1] /\ work'.frames = Tail(fs) /\ work'.phase = "publish"
    BY <1>1, <1>11 DEF Publish, Work
  <2>2. /\ Len(Tail(fs)) = Len(fs) - 1 /\ 1 \in 1..Len(fs)
        /\ \A n \in 1..Len(Tail(fs)) : Tail(fs)[n] = fs[n + 1] /\ n + 1 \in 1..Len(fs)
    BY <1>1, <2>1
  <2>3. InLog(fs[1]) /\ \A n \in 1..Len(Tail(fs)) : InLog(Tail(fs)[n])
    BY <2>2 DEF BroadcastInv, FramesStored
  <2>4. InOrder(Tail(fs), fs[1])
    <3>1. PICK t : t = Tail(fs)
      OBVIOUS
    <3>2. /\ Len(t) \in Nat
          /\ \A n \in 1..Len(t) : t[n] = fs[n + 1] /\ n + 1 \in 1..Len(fs) /\ 1 < n + 1
      BY <1>1, <2>2, <3>1
    <3>3. \A m, n \in 1..Len(fs) : m < n => Before(fs[m], fs[n])
      BY DEF BroadcastInv, InOrder
    <3>4. \A n \in 1..Len(t) : Before(fs[1], t[n])
      BY <2>2, <3>2, <3>3
    <3>5. \A m, n \in 1..Len(t) : m < n => Before(t[m], t[n])
      <4> TAKE m, n \in 1..Len(t)
      <4>1. m < n => m + 1 < n + 1
        OBVIOUS
      <4> QED BY <3>2, <3>3, <4>1
    <3> QED BY <3>1, <3>4, <3>5 DEF InOrder
  <2>5. UNCHANGED log
    BY <1>11 DEF Publish, dbVars
  <2> QED BY <2>1, <2>3, <2>4, <2>5 DEF BroadcastInv, FramesStored, InOrder, InLog
<1>12. CASE CommitSend
  <2>1. /\ up /\ work.phase = "planned" /\ UNCHANGED published /\ Held = seq /\ TypeOK
        /\ work'.frames = <<First>> /\ work'.phase = "enqueue"
    BY <1>1, <1>12 DEF CommitSend, Held, Work, IInv
  <2>2. /\ First \in SeqState /\ Before(seq, First)
        /\ Second \in SeqState /\ Before(First, Second)
    BY <2>1, PlannedIds
  <2>3. PICK e, f : OneMore(e) /\ e.id = First /\ f.id = Second
    BY <1>12, SendStores, NewEventFields, <2>1, <2>2
  <2>4. work'.frames = <<>> \o <<First>>
    BY <2>1, <2>2
  <2> QED BY <2>1, <2>2, <2>3, <2>4, FramesAdded
<1>13. ASSUME NEW op, NEW kind \in {"channel.created", "channel.dissolved"}, NEW status1,
              CommitPair(op, kind, status1)
       PROVE  BroadcastInv'
  <2>1. /\ up /\ work.phase = "planned" /\ UNCHANGED published /\ Held = seq /\ TypeOK
        /\ work'.frames = <<First, Second>> /\ work'.phase = "publish"
    BY <1>1, <1>13 DEF CommitPair, Held, Work, IInv
  <2>2. /\ First \in SeqState /\ Before(seq, First)
        /\ Second \in SeqState /\ Before(First, Second)
    BY <2>1, PlannedIds
  <2>3. PICK e, f : TwoMore(e, f) /\ e.id = First /\ f.id = Second
    BY <1>13, PairStores, NewEventFields, <2>1, <2>2
  <2>4. work'.frames = <<>> \o <<First, Second>>
    BY <2>1, <2>2
  <2> QED BY <2>1, <2>2, <2>3, <2>4, FramesAdded
<1>14. CASE CommitCreate \/ CommitDissolve
  BY <1>13, <1>14 DEF CommitCreate, CommitDissolve
<1>15. CASE StartAck
  <2> DEFINE a == NextSeq(seq, now)
             b == NextSeq(a, now + 1)
  <2>1. up /\ work.phase = "idle" /\ UNCHANGED published /\ Held = seq
    BY <1>15 DEF StartAck, Held
  <2>2. /\ a \in SeqState /\ b \in SeqState /\ Before(seq, a) /\ Before(a, b)
        /\ TwoMore(OwnEvent(a, "stateful_session.started"), OwnEvent(b, "channel.pin.set"))
    BY <1>15, AckStores
  <2>3. work' = [Idle EXCEPT !.phase = "publish", !.frames = <<a, b>>, !.next = b]
    BY <1>15 DEF StartAck
  <2> HIDE DEF a, b
  <2>4. work'.frames = <<>> \o <<a, b>> /\ work'.phase = "publish"
    BY <2>2, <2>3 DEF Idle
  <2>5. PICK e, f : TwoMore(e, f) /\ e.id = a /\ f.id = b
    BY <2>2 DEF OwnEvent
  <2> QED BY <2>1, <2>2, <2>4, <2>5, FramesAdded
<1>16. CASE Closes
  <2>1. up /\ UNCHANGED published
    BY <1>16 DEF Closes, EnqueueOverflow, SessionTimer
  <2>2. PICK a \in SeqState, b \in SeqState :
          /\ Before(Held, a) /\ Before(a, b)
          /\ \/ /\ OneMore(OwnEvent(a, "stateful_session.closed"))
                /\ work' = [work EXCEPT !.phase = "publish",
                              !.frames = (IF work.phase = "idle" THEN <<>> ELSE @) \o <<a>>,
                              !.next = a]
             \/ /\ TwoMore(OwnEvent(a, "stateful_session.closed"),
                           OwnEvent(b, "channel.pin.cleared"))
                /\ work' = [work EXCEPT !.phase = "publish",
                              !.frames = (IF work.phase = "idle" THEN <<>> ELSE @) \o <<a, b>>,
                              !.next = b]
    BY <1>16, ClosesStore
  <2>3. PICK fs \in {<<>>, work.frames} :
          fs = IF work.phase = "idle" THEN <<>> ELSE work.frames
    OBVIOUS
  <2>4. PICK e, f : /\ e.id = a /\ f.id = b /\ work'.phase = "publish"
                    /\ \/ OneMore(e) /\ work'.frames = fs \o <<a>>
                       \/ TwoMore(e, f) /\ work'.frames = fs \o <<a, b>>
    <3>1. /\ OwnEvent(a, "stateful_session.closed").id = a
          /\ OwnEvent(b, "channel.pin.cleared").id = b
      BY DEF OwnEvent
    <3>2. work'.phase = "publish"
      BY <1>1, <2>2 DEF Work
    <3>3. \/ /\ OneMore(OwnEvent(a, "stateful_session.closed"))
             /\ work'.frames = fs \o <<a>>
          \/ /\ TwoMore(OwnEvent(a, "stateful_session.closed"),
                        OwnEvent(b, "channel.pin.cleared"))
             /\ work'.frames = fs \o <<a, b>>
      BY <1>1, <2>2, <2>3 DEF Work
    <3> QED BY <3>1, <3>2, <3>3
  <2> QED BY <2>1, <2>2, <2>4, FramesAdded
<1> QED BY <1>6, <1>7, <1>8, <1>9, <1>10, <1>11, <1>12, <1>14, <1>15, <1>16
        DEF Next, WriterStep, Commit, Enqueue, Closes, Callers

(* broadcast_frames: frames leave in event_id order, each at most once,    *)
(* and only after their event has committed.                               *)
THEOREM FramesLeaveInOrder == Spec => BroadcastInOrder
<1> DEFINE Ordered == published' # published =>
             /\ Before(published, published')
             /\ \E i \in 1..Len(log) : log[i].id = published'
<1>1. IInv /\ BroadcastInv /\ [Next]_vars => [Ordered]_vars
  <2> SUFFICES ASSUME IInv, BroadcastInv, [Next]_vars, published' # published PROVE Ordered
    OBVIOUS
  <2>1. Publish
    BY DEF Next, vars, procVars, dbVars, WriterStep, Commit, Enqueue, Issue, GiveUp, Start,
           Crash, Tick, Begin, Replay, Refuse, CommitSend, CommitCreate, CommitDissolve,
           CommitPair, CommitTombstone, EnqueueNothing, EnqueueInput, EnqueueOverflow, Reply,
           StartAck, SessionTimer
  <2>2. work.frames \in Seq(SeqState) /\ work.frames # <<>> /\ published' = Head(work.frames)
    BY <2>1 DEF Publish, IInv, TypeOK, Work
  <2>3. published' = work.frames[1] /\ 1 \in 1..Len(work.frames)
    BY <2>2
  <2> QED BY <2>3 DEF BroadcastInv, FramesStored, InOrder, InLog
<1>2. IInv /\ BroadcastInv /\ [Next]_vars => BroadcastInv'
  BY BroadcastStays
<1> QED BY <1>1, <1>2, InitIInv, StepIInv, BroadcastInit, PTL DEF Spec, BroadcastInOrder
=============================================================================
