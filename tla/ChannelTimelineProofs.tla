------------------------ MODULE ChannelTimelineProofs ------------------------
(***************************************************************************)
(* What the code keeps of the recovery contract, for every number of       *)
(* binding updates and every page size: only a binding update's id can     *)
(* hide an event from a client that pages from its cursor.                 *)
(*                                                                         *)
(* The argument: the writer's own events still ascend among themselves     *)
(* (WInv of ChannelWriterProofs survives the foreign events), the cursor   *)
(* is the id of an event the client has been given, and a page holds       *)
(* everything between the old cursor and the new one.                      *)
(***************************************************************************)
EXTENDS ChannelTimeline, ChannelWriterProofs, FiniteSetTheorems

\* i is behind a binding update the client has been given.
Overtaken(i) == \E j \in seen : ~Mine(log[j]) /\ AtOrBefore(log[i].id, log[j].id)

Given(i) == i \in seen \/ Overtaken(i)

ReaderInv ==
  /\ seen \subseteq 1..Len(log)
  /\ cursor # None =>
       /\ \E j \in seen : log[j].id = cursor
       /\ \A i \in 1..Len(log) : (Mine(log[i]) /\ Before(log[i].id, cursor)) => Given(i)

TInv == WInv /\ update \in [Requests -> Update] /\ manifest \in Nat /\ ReaderInv

LEMMA TInvStarts == TInit => TInv
BY InitWInv, ConstantSets DEF TInit, TInv, ReaderInv, Update

LEMMA LogIds ==
  ASSUME TypeOK
  PROVE  /\ log \in Seq(Event) /\ Len(log) \in Nat
         /\ \A i \in 1..Len(log) : log[i] \in Event /\ log[i].id \in SeqState
<1>1. log \in Seq(Event) /\ Len(log) \in Nat
  BY DEF TypeOK
<1>2. \A i \in 1..Len(log) : log[i] \in Event
  BY <1>1
<1> QED BY <1>1, <1>2 DEF Event

-----------------------------------------------------------------------------
(* The writer appends events later than all its own: the ones it puts      *)
(* below the cursor have been overtaken by a foreign id.                   *)
LEMMA WriterKeeps == ASSUME TInv, WriterNext PROVE TInv'
<1>1. WInv /\ WInv' /\ TypeOK /\ TypeOK'
  BY StepWInv DEF TInv, WInv, WriterNext
<1>2. /\ UNCHANGED <<update, manifest, cursor, seen>>
      /\ log' = log \/ Grows(log, log')
  BY <1>1, LogOnlyGrows DEF WriterNext, updateVars, readerVars
<1>3. /\ Len(log) \in Nat /\ Len(log') \in Nat /\ Len(log) <= Len(log')
      /\ \A i \in 1..Len(log) : log'[i] = log[i]
  BY <1>1, <1>2, LogIds DEF TypeOK, Grows
<1>4. seen' \subseteq 1..Len(log') /\ \A j \in seen : j \in 1..Len(log) /\ log'[j] = log[j]
  BY <1>2, <1>3 DEF TInv, ReaderInv
<1>5. ASSUME cursor # None
      PROVE  /\ \E j \in seen' : log'[j].id = cursor'
             /\ \A i \in 1..Len(log') :
                  (Mine(log'[i]) /\ Before(log'[i].id, cursor')) => Given(i)'
  <2>1. PICK j \in seen : log[j].id = cursor
    BY <1>5 DEF TInv, ReaderInv
  <2>2. j \in 1..Len(log) /\ j \in seen' /\ log'[j] = log[j] /\ log'[j].id = cursor'
    BY <1>2, <1>4, <2>1
  <2>3. ASSUME NEW i \in 1..Len(log'), Mine(log'[i]), Before(log'[i].id, cursor)
        PROVE  Given(i)'
    <3>1. CASE i \in 1..Len(log)
      <4>1. log'[i] = log[i]
        BY <1>3, <3>1
      <4>2. Given(i)
        BY <1>5, <2>3, <3>1, <4>1 DEF TInv, ReaderInv
      <4> QED BY <1>2, <1>4, <4>1, <4>2 DEF Given, Overtaken
    <3>2. CASE i \notin 1..Len(log)
      <4>1. j < i /\ j \in 1..Len(log')
        BY <1>3, <2>2, <3>2
      <4>2. log'[i].id \in SeqState /\ log'[j].id \in SeqState
        <5>1. \A n \in 1..Len(log') : log'[n] \in Event
          BY <1>1 DEF TypeOK
        <5> QED BY <4>1, <5>1 DEF Event
      <4>3. Mine(log'[j]) => Before(log'[j].id, log'[i].id)
        BY <1>1, <2>3, <4>1 DEF WInv, MineAscend, Asc
      <4>4. ~Mine(log'[j])
        BY <2>2, <2>3, <4>2, <4>3, BeforeTotal, <1>2 DEF AtOrBefore
      <4> QED BY <1>2, <2>2, <2>3, <4>4 DEF Given, Overtaken, AtOrBefore
    <3> QED BY <3>1, <3>2
  <2> QED BY <1>2, <2>2, <2>3
<1>6. ReaderInv'
  BY <1>2, <1>4, <1>5 DEF ReaderInv
<1> QED BY <1>1, <1>2, <1>6 DEF TInv

(* A binding update is a foreign event: nothing is asked of it.            *)
LEMMA BindingKeeps ==
  ASSUME TInv, NEW r \in Requests,
         ReadChannel(r) \/ WriteBinding(r) \/ CommitBinding(r)
  PROVE  TInv'
<1>1. /\ WInv /\ TypeOK /\ update[r] \in Update /\ update \in [Requests -> Update]
      /\ manifest \in Nat
  BY DEF TInv, WInv
<1>2. CASE CommitBinding(r)
  <2> DEFINE e == OwnEvent(update[r].id, "command.binding_updated")
  <2>1. e \in Event /\ ~Mine(e)
    BY <1>1 DEF OwnEvent, Event, Update, Mine, TypeOK
  <2>2. /\ log' = Append(log, e)
        /\ UNCHANGED <<now, procVars, status, session, idem, published, readerVars>>
    BY <1>2 DEF CommitBinding
  <2>3. /\ log' \in Seq(Event) /\ Len(log') = Len(log) + 1 /\ Len(log) \in Nat
        /\ \A i \in 1..Len(log) : log'[i] = log[i]
        /\ log'[Len(log) + 1] = e
    <3> HIDE DEF e
    <3> QED BY <1>1, <2>1, <2>2, LogIds
  <2> HIDE DEF e
  <2>4. \A i \in 1..Len(log') : Mine(log'[i]) => i \in 1..Len(log) /\ log'[i] = log[i]
    BY <2>1, <2>3
  <2>5. TypeOK' /\ CallTaken'
    BY <1>1, <2>2, <2>3 DEF WInv, TypeOK, CallTaken, procVars
  <2>6. MineAscend'
    BY <1>1, <2>4 DEF WInv, MineAscend, Asc
  <2>7. MineCovered'
    <3>1. up' = up /\ Held' = Held
      BY <2>2 DEF procVars, Held
    <3> QED BY <1>1, <2>4, <3>1 DEF WInv, MineCovered, Covers
  <2>8. update' \in [Requests -> Update] /\ manifest' \in Nat
    <3>1. update' = [update EXCEPT ![r].phase = "done"] /\ manifest' = update[r].version + 1
      BY <1>2 DEF CommitBinding
    <3> QED BY <1>1, <3>1 DEF Update
  <2>9. ReaderInv'
    <3>1. UNCHANGED <<cursor, seen>> /\ seen \subseteq 1..Len(log)
      BY <2>2 DEF readerVars, TInv, ReaderInv
    <3>2. seen \subseteq 1..Len(log') /\ \A j \in seen : log'[j] = log[j]
      BY <2>3, <3>1
    <3>3. \A i \in 1..Len(log) : Given(i) => Given(i)'
      BY <2>3, <3>1, <3>2 DEF Given, Overtaken
    <3> QED BY <2>4, <3>1, <3>2, <3>3 DEF TInv, ReaderInv
  <2> QED BY <2>5, <2>6, <2>7, <2>8, <2>9 DEF TInv, WInv
<1>3. CASE ReadChannel(r) \/ WriteBinding(r)
  <2>1. UNCHANGED <<vars, manifest, cursor, seen>>
    BY <1>3 DEF ReadChannel, WriteBinding, readerVars
  <2>2. WInv'
    BY <1>1, <2>1, StepWInv
  <2>3. ReaderInv'
    BY <2>1 DEF vars, dbVars, TInv, ReaderInv, Given, Overtaken
  <2>4. update' \in [Requests -> Update]
    <3>1. CASE ReadChannel(r)
      BY <1>1, <3>1 DEF ReadChannel, Update
    <3>2. CASE WriteBinding(r)
      <4>1. PICK id \in RandomId :
              update' = [update EXCEPT ![r].phase = "written", ![r].id = id]
        BY <3>2 DEF WriteBinding
      <4>2. id \in SeqState
        BY <1>1 DEF RandomId, SeqState, TypeOK
      <4> QED BY <1>1, <4>1, <4>2 DEF Update
    <3> QED BY <1>3, <3>1, <3>2
  <2> QED BY <1>1, <2>1, <2>2, <2>3, <2>4 DEF TInv
<1> QED BY <1>2, <1>3

-----------------------------------------------------------------------------
(* A page has no holes: what is after the cursor and before the page's     *)
(* last event is in the page.                                              *)
LEMMA PageIsDense ==
  ASSUME TypeOK, NEW last \in Page, NEW i \in Later, Before(log[i].id, log[last].id)
  PROVE  i \in Page
<1> DEFINE B(k) == {j \in Later : Before(log[j].id, log[k].id)}
<1>1. Later \subseteq 1..Len(log) /\ last \in Later /\ Len(log) \in Nat
  BY LogIds DEF Later, Page
<1>2. B(i) \subseteq B(last)
  <2> SUFFICES ASSUME NEW j \in Later, Before(log[j].id, log[i].id)
               PROVE  Before(log[j].id, log[last].id)
    OBVIOUS
  <2>1. log[j].id \in SeqState /\ log[i].id \in SeqState /\ log[last].id \in SeqState
    BY <1>1, LogIds
  <2> QED BY <2>1, BeforeTransitive DEF AtOrBefore
<1>3. IsFiniteSet(B(last))
  <2>1. B(last) \subseteq 1..Len(log)
    BY <1>1
  <2>2. IsFiniteSet(1..Len(log))
    BY <1>1, FS_Interval
  <2> HIDE DEF B
  <2> QED BY <2>1, <2>2, FS_Subset
<1>4. /\ Cardinality(B(i)) <= Cardinality(B(last))
      /\ Cardinality(B(i)) \in Nat /\ Cardinality(B(last)) \in Nat
  BY <1>2, <1>3, FS_Subset, FS_CardinalityType
<1>5. Cardinality(B(last)) < Limit
  BY DEF Page
<1>6. Cardinality(B(i)) < Limit
  BY <1>4, <1>5, TimelineAssumption
<1> QED BY <1>6 DEF Page

LEMMA FetchKeeps == ASSUME TInv, FetchPage PROVE TInv'
<1>1. WInv /\ TypeOK /\ UNCHANGED <<vars, update, manifest>>
  BY DEF TInv, WInv, FetchPage, updateVars
<1>2. WInv' /\ log' = log
  BY <1>1, StepWInv DEF vars, dbVars
<1>3. PICK last \in Page : cursor' = log[last].id
  BY DEF FetchPage
<1>4. seen' = seen \cup Page /\ Page \subseteq 1..Len(log) /\ last \in seen'
  BY <1>3 DEF FetchPage, Page, Later
<1>5. ASSUME NEW i \in 1..Len(log), Given(i) PROVE Given(i)'
  BY <1>2, <1>4, <1>5 DEF Given, Overtaken
<1>6. ASSUME NEW i \in 1..Len(log), Mine(log[i]), Before(log[i].id, cursor')
      PROVE  Given(i)'
  <2>1. CASE i \in Later
    <3>1. i \in Page
      BY <1>1, <1>3, <1>6, <2>1, PageIsDense
    <3> QED BY <1>4, <3>1 DEF Given
  <2>2. CASE i \notin Later
    <3>1. cursor # None /\ ~Before(cursor, log[i].id)
      BY <2>2 DEF Later
    <3>2. PICK j \in seen : log[j].id = cursor
      BY <3>1 DEF TInv, ReaderInv
    <3>3. j \in 1..Len(log) /\ cursor \in SeqState /\ log[i].id \in SeqState
      BY <1>1, <3>2, LogIds DEF TInv, ReaderInv
    <3>4. AtOrBefore(log[i].id, cursor)
      BY <3>1, <3>3, BeforeTotal
    <3>5. CASE Before(log[i].id, cursor)
      <4>1. Given(i)
        BY <1>6, <3>1, <3>5 DEF TInv, ReaderInv
      <4> QED BY <1>5, <4>1
    <3>6. CASE log[i].id = cursor
      <4>1. CASE ~Mine(log[j])
        <5>1. Given(i)
          BY <3>2, <3>4, <4>1 DEF Given, Overtaken
        <5> QED BY <1>5, <5>1
      <4>2. CASE Mine(log[j])
        <5>1. ~Before(cursor, cursor)
          BY <3>3, BeforeTotal DEF AtOrBefore
        <5>2. ~(i < j) /\ ~(j < i)
          BY <1>1, <1>6, <3>2, <3>3, <3>6, <4>2, <5>1 DEF WInv, MineAscend, Asc
        <5>3. i = j
          BY <3>3, <5>2, LogIds, <1>1
        <5> QED BY <1>5, <3>2, <5>3 DEF Given
      <4> QED BY <4>1, <4>2
    <3> QED BY <3>4, <3>5, <3>6 DEF AtOrBefore
  <2> QED BY <2>1, <2>2
<1>7. ReaderInv'
  <2>1. seen' \subseteq 1..Len(log')
    BY <1>2, <1>4 DEF TInv, ReaderInv
  <2>2. \E j \in seen' : log'[j].id = cursor'
    BY <1>2, <1>3, <1>4
  <2> QED BY <1>2, <1>6, <2>1, <2>2 DEF ReaderInv
<1> QED BY <1>1, <1>2, <1>7 DEF TInv

LEMMA TInvStays == TInv /\ [TNext]_tvars => TInv'
<1> SUFFICES ASSUME TInv, [TNext]_tvars PROVE TInv'
  OBVIOUS
<1>1. CASE UNCHANGED tvars
  <2>1. UNCHANGED <<vars, update, manifest, cursor, seen>>
    BY <1>1 DEF tvars, updateVars, readerVars
  <2>2. WInv'
    BY <2>1, StepWInv DEF TInv
  <2>3. ReaderInv'
    BY <2>1 DEF vars, dbVars, TInv, ReaderInv, Given, Overtaken
  <2> QED BY <2>1, <2>2, <2>3 DEF TInv
<1> QED BY <1>1, WriterKeeps, BindingKeeps, FetchKeeps DEF TNext

(* The writer, its restarts and the clock open no gap: an event below the  *)
(* client's cursor that the client was not given is a binding update's, or *)
(* the id of a binding update it was given has overtaken it.               *)
THEOREM GapsAreBindings == TSpec => []OnlyBindingsOpenGaps
<1>1. TInv => OnlyBindingsOpenGaps
  BY DEF TInv, ReaderInv, Given, Overtaken, Mine, OnlyBindingsOpenGaps
<1> QED BY <1>1, TInvStarts, TInvStays, PTL DEF TSpec
=============================================================================
