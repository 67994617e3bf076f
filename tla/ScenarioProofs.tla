--------------------------- MODULE ScenarioProofs ---------------------------
(***************************************************************************)
(* No run of the conformance runner loses, repeats or reorders a frame,    *)
(* no run misses a variable without a cause, and a run without mishaps     *)
(* captures what its script fixes and fails where its script says, for     *)
(* every suite of scripts, any number of mishaps and any delay of the      *)
(* sockets.                                                                *)
(*                                                                         *)
(* The inductive invariant has three parts.  Kept says where the frames    *)
(* are: for each socket, what was captured, what is pending and what is in *)
(* flight make up, in this order, what was pushed on it.  Every move of    *)
(* the runner takes frames from the head of one list to the tail of the    *)
(* one before; a replaced or closed socket forgets the two last lists.     *)
(* Control says which steps have set their variables, so that a step that  *)
(* lacks one can name the step that owes it.  Undisturbed says of a run    *)
(* without mishaps that its sockets, its refused actors and its variables  *)
(* are those its script fixes, and that what a step has captured and what  *)
(* its sockets are still to give are together what is expected of it: what *)
(* arrives, a window that closes and the settle each keep that sum.        *)
(*                                                                         *)
(* FlattenSeq of the community modules, Unmatched of the windows and       *)
(* SocketsAfter of the scripts are recursive functions: that they exist,   *)
(* and what they do with one more step, is proved here first, by an        *)
(* induction stated with sets.                                             *)
(***************************************************************************)
EXTENDS ScenarioSuite, SequenceTheorems, WellFoundedInduction, TLAPS

(* Induction, stated with sets: a set that contains 0 and is closed under  *)
(* the successor contains the natural numbers.                             *)
LEMMA SetInduction ==
  ASSUME NEW S, 0 \in S, \A n \in Nat : n \in S => n + 1 \in S
  PROVE  Nat \subseteq S
<1> DEFINE T == Nat \ S
<1>1. SUFFICES ASSUME T # {} PROVE FALSE
  BY <1>1
<1>2. \E x \in T : \A y \in T : ~(<<y, x>> \in {p \in Nat \X Nat : p[1] < p[2]})
  <2> HIDE DEF T
  <2>1. T \subseteq Nat
    BY DEF T
  <2>2. IsWellFoundedOn({p \in Nat \X Nat : p[1] < p[2]}, Nat)
    BY NatLessThanWellFounded DEF OpToRel
  <2> QED BY <1>1, <2>1, <2>2, WFMin
<1>3. PICK x \in T : \A y \in T : ~(y < x)
  BY <1>2
<1>4. x # 0 /\ x - 1 \in Nat /\ x - 1 < x /\ x - 1 \notin T
  BY <1>3
<1> QED BY <1>3, <1>4

(* A nonempty set of natural numbers has a least element.                  *)
LEMMA LeastNumber ==
  ASSUME NEW T \in SUBSET Nat, T # {}
  PROVE  \E x \in T : \A y \in T : x <= y
<1>1. \E x \in T : \A y \in T : ~(<<y, x>> \in {p \in Nat \X Nat : p[1] < p[2]})
  <2>1. IsWellFoundedOn({p \in Nat \X Nat : p[1] < p[2]}, Nat)
    BY NatLessThanWellFounded DEF OpToRel
  <2> QED BY <2>1, WFMin
<1>2. PICK x \in T : \A y \in T : ~(y < x)
  BY <1>1
<1>3. \A y \in T : x <= y
  BY <1>2
<1> QED BY <1>3

(* The same induction over finite sequences.                               *)
LEMMA SequenceInduction ==
  ASSUME NEW S, NEW P, <<>> \in P,
         \A s \in Seq(S), e \in S : s \in P => Append(s, e) \in P
  PROVE  Seq(S) \subseteq P
<1> DEFINE N == {n \in Nat : \A s \in Seq(S) : Len(s) = n => s \in P}
<1>1. 0 \in N
  <2>1. \A s \in Seq(S) : Len(s) = 0 => s = <<>>
    BY EmptySeq
  <2> QED BY <2>1
<1>2. ASSUME NEW n \in Nat, n \in N PROVE n + 1 \in N
  <2>1. SUFFICES ASSUME NEW s \in Seq(S), Len(s) = n + 1 PROVE s \in P
    OBVIOUS
  <2>2. s # <<>>
    BY <2>1, EmptySeq
  <2>3. PICK front \in Seq(S), e \in S : s = Append(front, e)
    BY <2>2, SequenceEmptyOrAppend
  <2>4. Len(front) = n
    BY <2>1, <2>3, AppendProperties, LenProperties
  <2> QED BY <1>2, <2>3, <2>4
<1>3. Nat \subseteq N
  <2> HIDE DEF N
  <2> QED BY <1>1, <1>2, SetInduction
<1> QED BY <1>3, LenProperties

-----------------------------------------------------------------------------
(* FlattenSeq, defined by a recursive function, exists and is what its     *)
(* equations say.                                                          *)
LEMMA FlattenFunction ==
  ASSUME NEW S, NEW ss \in Seq(Seq(S))
  PROVE  \E f \in [1..Len(ss) -> Seq(S)] :
           f = [k \in 1..Len(ss) |-> IF k = 1 THEN ss[k] ELSE f[k - 1] \o ss[k]]
<1> DEFINE P == {s \in Seq(Seq(S)) : \E f \in [1..Len(s) -> Seq(S)] :
                   f = [k \in 1..Len(s) |-> IF k = 1 THEN s[k] ELSE f[k - 1] \o s[k]]}
<1>1. <<>> \in P
  <2>1. <<>> \in Seq(Seq(S)) /\ Len(<<>>) = 0
    BY EmptySeq
  <2>2. 1..0 = {} /\ [k \in 1..0 |-> <<>>] \in [1..0 -> Seq(S)]
    OBVIOUS
  <2>3. [k \in 1..0 |-> <<>>] =
          [k \in 1..0 |-> IF k = 1 THEN (<<>>)[k] ELSE [j \in 1..0 |-> <<>>][k - 1] \o (<<>>)[k]]
    BY <2>2
  <2> QED BY <2>1, <2>2, <2>3
<1>2. ASSUME NEW s \in Seq(Seq(S)), NEW e \in Seq(S), s \in P PROVE Append(s, e) \in P
  <2>1. PICK f \in [1..Len(s) -> Seq(S)] :
               f = [k \in 1..Len(s) |-> IF k = 1 THEN s[k] ELSE f[k - 1] \o s[k]]
    BY <1>2
  <2>2. /\ Append(s, e) \in Seq(Seq(S)) /\ Len(s) \in Nat /\ Len(Append(s, e)) = Len(s) + 1
        /\ \A k \in 1..Len(s) : Append(s, e)[k] = s[k]
        /\ Append(s, e)[Len(s) + 1] = e
    BY AppendProperties, LenProperties
  <2> DEFINE g == [k \in 1..(Len(s) + 1) |->
                     IF k <= Len(s) THEN f[k] ELSE IF k = 1 THEN e ELSE f[k - 1] \o e]
  <2>3. ASSUME NEW k \in 1..(Len(s) + 1)
        PROVE  /\ g[k] \in Seq(S)
               /\ g[k] = IF k = 1 THEN Append(s, e)[k] ELSE g[k - 1] \o Append(s, e)[k]
    <3>1. CASE k <= Len(s)
      <4>1. k \in 1..Len(s) /\ g[k] = f[k] /\ Append(s, e)[k] = s[k]
        BY <2>2, <3>1
      <4>2. k # 1 => k - 1 \in 1..Len(s) /\ g[k - 1] = f[k - 1]
        BY <2>2, <3>1
      <4>3. f[k] = IF k = 1 THEN s[k] ELSE f[k - 1] \o s[k]
        BY <2>1, <4>1
      <4> QED BY <4>1, <4>2, <4>3
    <3>2. CASE k = Len(s) + 1
      <4>1. g[k] = IF k = 1 THEN e ELSE f[k - 1] \o e
        BY <2>2, <3>2
      <4>2. k # 1 => k - 1 \in 1..Len(s) /\ g[k - 1] = f[k - 1]
        BY <2>2, <3>2
      <4> HIDE DEF g
      <4>3. g[k] \in Seq(S)
        <5>1. CASE k = 1
          BY <4>1, <5>1
        <5>2. CASE k # 1
          <6>1. f[k - 1] \in Seq(S)
            BY <4>2, <5>2
          <6> QED BY <4>1, <5>2, <6>1, ConcatProperties
        <5> QED BY <5>1, <5>2
      <4> QED BY <2>2, <3>2, <4>1, <4>2, <4>3
    <3> QED BY <2>2, <3>1, <3>2
  <2>4. g \in [1..(Len(s) + 1) -> Seq(S)]
    BY <2>3
  <2>5. g = [k \in 1..(Len(s) + 1) |->
               IF k = 1 THEN Append(s, e)[k] ELSE g[k - 1] \o Append(s, e)[k]]
    BY <2>3
  <2> HIDE DEF g
  <2>6. \E h \in [1..Len(Append(s, e)) -> Seq(S)] :
          h = [k \in 1..Len(Append(s, e)) |->
                 IF k = 1 THEN Append(s, e)[k] ELSE h[k - 1] \o Append(s, e)[k]]
    <3> DEFINE t == Append(s, e)
    <3>1. Len(t) = Len(s) + 1
      BY <2>2
    <3> HIDE DEF t
    <3>2. g \in [1..Len(t) -> Seq(S)]
      BY <3>1, <2>4
    <3>3. g = [k \in 1..Len(t) |-> IF k = 1 THEN t[k] ELSE g[k - 1] \o t[k]]
      BY <3>1, <2>5 DEF t
    <3> QED BY <3>2, <3>3 DEF t
  <2> QED BY <2>2, <2>6
<1>3. Seq(Seq(S)) \subseteq P
  <2> HIDE DEF P
  <2> QED BY <1>1, <1>2, SequenceInduction
<1> QED BY <1>3

LEMMA FlattenEmpty == FlattenSeq(<<>>) = <<>>
BY EmptySeq DEF FlattenSeq

LEMMA FlattenEquations ==
  ASSUME NEW S, NEW ss \in Seq(Seq(S)), ss # <<>>
  PROVE  \E f \in [1..Len(ss) -> Seq(S)] :
           /\ \A k \in 1..Len(ss) : f[k] = IF k = 1 THEN ss[k] ELSE f[k - 1] \o ss[k]
           /\ FlattenSeq(ss) = f[Len(ss)]
<1> DEFINE Is(f) == f = [k \in 1..Len(ss) |-> IF k = 1 THEN ss[k] ELSE f[k - 1] \o ss[k]]
           flatten == CHOOSE f : Is(f)
<1>1. Len(ss) # 0
  BY EmptySeq
<1>2. FlattenSeq(ss) = flatten[Len(ss)]
  BY <1>1 DEF FlattenSeq
<1>3. Is(flatten)
  <2>1. PICK f \in [1..Len(ss) -> Seq(S)] :
               f = [k \in 1..Len(ss) |-> IF k = 1 THEN ss[k] ELSE f[k - 1] \o ss[k]]
    BY FlattenFunction
  <2>2. Is(f)
    BY <2>1
  <2> HIDE DEF Is
  <2> QED BY <2>2
<1>4. PICK f \in [1..Len(ss) -> Seq(S)] : Is(f)
  BY FlattenFunction
<1>5. \A k \in 1..Len(ss) : flatten[k] = f[k]
  <2> HIDE DEF flatten
  <2> DEFINE N == {n \in Nat : n + 1 \in 1..Len(ss) => flatten[n + 1] = f[n + 1]}
  <2>1. 0 \in N
    BY <1>3, <1>4
  <2>2. ASSUME NEW n \in Nat, n \in N PROVE n + 1 \in N
    <3>1. SUFFICES ASSUME n + 2 \in 1..Len(ss) PROVE flatten[n + 2] = f[n + 2]
      BY <3>1
    <3>2. Len(ss) \in Nat
      BY LenProperties
    <3>3. n + 1 \in 1..Len(ss) /\ n + 2 # 1 /\ (n + 2) - 1 = n + 1
      BY <3>1, <3>2
    <3>4. flatten[n + 1] = f[n + 1]
      BY <2>2, <3>3
    <3>5. flatten[n + 2] = flatten[n + 1] \o ss[n + 2]
      BY <1>3, <3>1, <3>3
    <3>6. f[n + 2] = f[n + 1] \o ss[n + 2]
      BY <1>4, <3>1, <3>3
    <3> QED BY <3>4, <3>5, <3>6
  <2>3. Nat \subseteq N
    <3> HIDE DEF N
    <3> QED BY <2>1, <2>2, SetInduction
  <2>4. ASSUME NEW k \in 1..Len(ss) PROVE k - 1 \in Nat /\ (k - 1) + 1 = k
    BY LenProperties
  <2> QED BY <2>3, <2>4
<1>6. Len(ss) \in 1..Len(ss)
  BY <1>1, LenProperties
<1> HIDE DEF flatten
<1> QED BY <1>2, <1>4, <1>5, <1>6

LEMMA FlattenTyped ==
  ASSUME NEW S, NEW ss \in Seq(Seq(S))
  PROVE  FlattenSeq(ss) \in Seq(S)
<1>1. CASE ss = <<>>
  BY <1>1, FlattenEmpty, EmptySeq
<1>2. CASE ss # <<>>
  <2>1. PICK f \in [1..Len(ss) -> Seq(S)] : FlattenSeq(ss) = f[Len(ss)]
    BY <1>2, FlattenEquations
  <2>2. Len(ss) \in 1..Len(ss)
    BY <1>2, EmptySeq, LenProperties
  <2> QED BY <2>1, <2>2
<1> QED BY <1>1, <1>2

\* One more part goes last.
LEMMA FlattenAppend ==
  ASSUME NEW S, NEW ss \in Seq(Seq(S)), NEW s \in Seq(S)
  PROVE  FlattenSeq(Append(ss, s)) = FlattenSeq(ss) \o s
<1>1. /\ Append(ss, s) \in Seq(Seq(S)) /\ Append(ss, s) # <<>>
      /\ Len(ss) \in Nat /\ Len(Append(ss, s)) = Len(ss) + 1
      /\ \A k \in 1..Len(ss) : Append(ss, s)[k] = ss[k]
      /\ Append(ss, s)[Len(ss) + 1] = s
  BY AppendProperties, LenProperties
<1> DEFINE L == Len(ss)
           t == Append(ss, s)
<1> HIDE DEF t
<1>2. PICK g \in [1..Len(t) -> Seq(S)] :
             /\ \A k \in 1..Len(t) : g[k] = IF k = 1 THEN t[k] ELSE g[k - 1] \o t[k]
             /\ FlattenSeq(t) = g[Len(t)]
  BY <1>1, FlattenEquations DEF t
<1>3. /\ Len(t) = L + 1 /\ L \in Nat /\ t[L + 1] = s /\ \A k \in 1..L : t[k] = ss[k]
  BY <1>1 DEF t
<1>4. CASE ss = <<>>
  <2>1. L = 0
    BY <1>4, EmptySeq
  <2>2. FlattenSeq(t) = s
    BY <1>2, <1>3, <2>1
  <2>3. <<>> \o s = s
    BY ConcatEmptySeq
  <2> QED BY <1>4, <2>2, <2>3, FlattenEmpty DEF t
<1>5. CASE ss # <<>>
  <2>1. PICK f \in [1..L -> Seq(S)] :
               /\ \A k \in 1..L : f[k] = IF k = 1 THEN ss[k] ELSE f[k - 1] \o ss[k]
               /\ FlattenSeq(ss) = f[L]
    BY <1>5, FlattenEquations
  <2>2. L # 0 /\ L \in 1..L
    BY <1>3, <1>5, EmptySeq
  <2> DEFINE N == {n \in Nat : n + 1 \in 1..L => g[n + 1] = f[n + 1]}
  <2>3. 0 \in N
    <3>1. 1 \in 1..L /\ 1 \in 1..Len(t)
      BY <1>3, <2>2
    <3>2. g[1] = t[1]
      BY <1>2, <3>1
    <3>3. f[1] = ss[1] /\ t[1] = ss[1]
      BY <1>3, <2>1, <3>1
    <3> QED BY <3>2, <3>3
  <2>4. ASSUME NEW n \in Nat, n \in N PROVE n + 1 \in N
    <3>1. SUFFICES ASSUME n + 2 \in 1..L PROVE g[n + 2] = f[n + 2]
      BY <3>1
    <3>2. /\ n + 1 \in 1..L /\ n + 2 # 1 /\ (n + 2) - 1 = n + 1 /\ n + 2 \in 1..(L + 1)
      BY <1>3, <3>1
    <3>3. g[n + 1] = f[n + 1]
      BY <2>4, <3>2
    <3>4. f[n + 2] = f[n + 1] \o ss[n + 2]
      BY <2>1, <3>1, <3>2
    <3>5. g[n + 2] = g[n + 1] \o t[n + 2]
      BY <1>2, <1>3, <3>2
    <3> QED BY <1>3, <3>1, <3>3, <3>4, <3>5
  <2>5. Nat \subseteq N
    <3> HIDE DEF N
    <3> QED BY <2>3, <2>4, SetInduction
  <2>6. g[L] = f[L]
    <3>1. L - 1 \in Nat /\ (L - 1) + 1 = L
      BY <1>3, <2>2
    <3> QED BY <2>2, <2>5, <3>1
  <2>7. g[L + 1] = g[L] \o t[L + 1]
    <3>1. L + 1 \in 1..Len(t) /\ L + 1 # 1 /\ (L + 1) - 1 = L
      BY <1>3, <2>2
    <3> QED BY <1>2, <3>1
  <2> QED BY <1>2, <1>3, <2>1, <2>6, <2>7 DEF t
<1> QED BY <1>4, <1>5

-----------------------------------------------------------------------------
(* The frames of one socket, in the order of a list of frames.             *)
One(a, f) == IF f.on = a THEN <<f>> ELSE <<>>

Ones(a, frames) ==
  [n \in DOMAIN frames |-> IF frames[n].on = a THEN <<frames[n]>> ELSE <<>>]

LEMMA OnesTyped ==
  ASSUME NEW S, NEW a, NEW frames \in Seq(S)
  PROVE  Ones(a, frames) \in Seq(Seq(S)) /\ Len(Ones(a, frames)) = Len(frames)
<1>1. DOMAIN frames = 1..Len(frames) /\ Len(frames) \in Nat
  BY LenProperties
<1>2. \A n \in 1..Len(frames) : frames[n] \in S
  BY ElementOfSeq
<1>3. \A n \in 1..Len(frames) :
        (IF frames[n].on = a THEN <<frames[n]>> ELSE <<>>) \in Seq(S)
  BY <1>2, EmptySeq
<1>4. Ones(a, frames) \in [1..Len(frames) -> Seq(S)]
  BY <1>1, <1>3 DEF Ones
<1> QED BY <1>1, <1>4, SeqDef

\* The frames of a socket are frames of the list.
LEMMA OnTyped ==
  ASSUME NEW S, NEW a, NEW frames \in Seq(S)
  PROVE  On(a, frames) \in Seq(S)
BY OnesTyped, FlattenTyped DEF On, Ones

LEMMA OnEmpty == ASSUME NEW a PROVE On(a, <<>>) = <<>>
<1>1. Ones(a, <<>>) = <<>>
  <2>1. Ones(a, <<>>) \in Seq(Seq({})) /\ Len(Ones(a, <<>>)) = 0
    BY OnesTyped, EmptySeq
  <2> QED BY <2>1, EmptySeq
<1> QED BY <1>1, FlattenEmpty DEF On, Ones

LEMMA OnAppend ==
  ASSUME NEW S, NEW a, NEW frames \in Seq(S), NEW f \in S
  PROVE  On(a, Append(frames, f)) = On(a, frames) \o One(a, f)
<1> DEFINE one == One(a, f)
<1>1. one \in Seq(S)
  BY EmptySeq DEF One
<1>2. Ones(a, frames) \in Seq(Seq(S)) /\ Len(Ones(a, frames)) = Len(frames)
  BY OnesTyped
<1>3. /\ Append(frames, f) \in Seq(S) /\ Len(Append(frames, f)) = Len(frames) + 1
      /\ \A k \in 1..Len(frames) : Append(frames, f)[k] = frames[k]
      /\ Append(frames, f)[Len(frames) + 1] = f
      /\ Len(frames) \in Nat /\ DOMAIN frames = 1..Len(frames)
  BY AppendProperties, LenProperties
<1>4. DOMAIN Append(frames, f) = 1..(Len(frames) + 1)
  BY <1>3, LenProperties
<1>5. Ones(a, Append(frames, f)) = Append(Ones(a, frames), one)
  <2> DEFINE left == Ones(a, Append(frames, f))
             right == Append(Ones(a, frames), one)
  <2>1. left \in Seq(Seq(S)) /\ Len(left) = Len(frames) + 1
    BY <1>3, OnesTyped
  <2>2. /\ right \in Seq(Seq(S)) /\ Len(right) = Len(frames) + 1
        /\ \A k \in 1..Len(frames) : right[k] = Ones(a, frames)[k]
        /\ right[Len(frames) + 1] = one
    BY <1>1, <1>2, AppendProperties
  <2>3. \A k \in 1..Len(frames) : left[k] = Ones(a, frames)[k]
    BY <1>3, <1>4 DEF Ones
  <2>4. left[Len(frames) + 1] = one
    BY <1>3, <1>4 DEF Ones, One
  <2> HIDE DEF left, right
  <2>5. \A k \in 1..Len(left) : left[k] = right[k]
    <3>1. \A k \in 1..(Len(frames) + 1) : k \in 1..Len(frames) \/ k = Len(frames) + 1
      BY <1>3
    <3> QED BY <2>1, <2>2, <2>3, <2>4, <3>1
  <2>6. left = right
    BY <2>1, <2>2, <2>5, SeqEqual
  <2> QED BY <2>6 DEF left, right
<1> HIDE DEF one
<1>6. FlattenSeq(Append(Ones(a, frames), one)) = FlattenSeq(Ones(a, frames)) \o one
  BY <1>1, <1>2, FlattenAppend
<1> QED BY <1>5, <1>6 DEF On, Ones, one

\* The frames of a socket in one list and then another.
LEMMA OnConcat ==
  ASSUME NEW S, NEW a, NEW s \in Seq(S), NEW t \in Seq(S)
  PROVE  On(a, s \o t) = On(a, s) \o On(a, t)
<1> DEFINE P == {u \in Seq(S) : On(a, s \o u) = On(a, s) \o On(a, u)}
<1>1. <<>> \in P
  <2>1. On(a, s) \in Seq(S) /\ <<>> \in Seq(S)
    BY OnTyped, EmptySeq
  <2>2. s \o <<>> = s /\ On(a, s) \o <<>> = On(a, s)
    BY <2>1, ConcatEmptySeq
  <2> QED BY <2>1, <2>2, OnEmpty
<1>2. ASSUME NEW u \in Seq(S), NEW f \in S, u \in P PROVE Append(u, f) \in P
  <2>1. One(a, f) \in Seq(S) /\ <<f>> \in Seq(S)
    BY EmptySeq DEF One
  <2>2. s \o u \in Seq(S) /\ Append(u, f) \in Seq(S) /\ Append(s \o u, f) \in Seq(S)
    BY ConcatProperties, AppendProperties
  <2>3. s \o Append(u, f) = Append(s \o u, f)
    BY <2>1, <2>2, AppendIsConcat, ConcatAssociative
  <2>4. On(a, Append(s \o u, f)) = On(a, s \o u) \o One(a, f)
    BY <2>2, OnAppend
  <2>5. On(a, Append(u, f)) = On(a, u) \o One(a, f)
    BY OnAppend
  <2>6. On(a, s) \in Seq(S) /\ On(a, u) \in Seq(S)
    BY OnTyped
  <2>7. On(a, s \o u) = On(a, s) \o On(a, u)
    BY <1>2
  <2>8. (On(a, s) \o On(a, u)) \o One(a, f) = On(a, s) \o (On(a, u) \o One(a, f))
    <3> DEFINE x == On(a, s)
               y == On(a, u)
               z == One(a, f)
    <3>1. x \in Seq(S) /\ y \in Seq(S) /\ z \in Seq(S)
      BY <2>1, <2>6
    <3> HIDE DEF x, y, z, P
    <3>2. (x \o y) \o z = x \o (y \o z)
      BY <3>1, ConcatAssociative, SMTT(30)
    <3> QED BY <3>2 DEF x, y, z
  <2> QED BY <2>2, <2>3, <2>4, <2>5, <2>7, <2>8
<1>3. Seq(S) \subseteq P
  <2> HIDE DEF P
  <2> QED BY <1>1, <1>2, SequenceInduction
<1> QED BY <1>3

\* A list of one socket holds only its frames.
LEMMA OnOwn ==
  ASSUME NEW S, NEW a, \A f \in S : f.on = a, NEW s \in Seq(S)
  PROVE  On(a, s) = s
<1> DEFINE P == {u \in Seq(S) : On(a, u) = u}
<1>1. <<>> \in P
  BY EmptySeq, OnEmpty
<1>2. ASSUME NEW u \in Seq(S), NEW f \in S, u \in P PROVE Append(u, f) \in P
  <2>1. One(a, f) = <<f>>
    BY DEF One
  <2>3. On(a, Append(u, f)) = On(a, u) \o <<f>>
    <3> HIDE DEF P
    <3>1. On(a, Append(u, f)) = On(a, u) \o One(a, f)
      BY OnAppend
    <3> QED BY <2>1, <3>1
  <2>4. Append(u, f) = u \o <<f>> /\ Append(u, f) \in Seq(S)
    BY AppendIsConcat, AppendProperties
  <2> QED BY <1>2, <2>3, <2>4
<1>3. Seq(S) \subseteq P
  <2> HIDE DEF P
  <2> QED BY <1>1, <1>2, SequenceInduction
<1> QED BY <1>3

\* A list of other sockets holds none of its frames.
LEMMA OnOther ==
  ASSUME NEW S, NEW a, \A f \in S : f.on # a, NEW s \in Seq(S)
  PROVE  On(a, s) = <<>>
<1> DEFINE P == {u \in Seq(S) : On(a, u) = <<>>}
<1>1. <<>> \in P
  BY EmptySeq, OnEmpty
<1>2. ASSUME NEW u \in Seq(S), NEW f \in S, u \in P PROVE Append(u, f) \in P
  <2>1. On(a, Append(u, f)) = On(a, u) \o <<>>
    <3>1. One(a, f) = <<>>
      BY DEF One
    <3> QED BY <3>1, OnAppend
  <2>2. On(a, u) \o <<>> = <<>>
    BY <1>2, EmptySeq, ConcatEmptySeq
  <2> QED BY <2>1, <2>2, AppendProperties
<1>3. Seq(S) \subseteq P
  <2> HIDE DEF P
  <2> QED BY <1>1, <1>2, SequenceInduction
<1> QED BY <1>3

(* What several sockets give, one after the other, holds what each gives.  *)
Lists(A, S) == [A -> Seq(S)]
Parts(parts, order) == [k \in DOMAIN order |-> parts[order[k]]]
InTurn(parts, order) == FlattenSeq(Parts(parts, order))

LEMMA InTurnTyped ==
  ASSUME NEW S, NEW A, NEW parts \in Lists(A, S), NEW order \in Seq(A)
  PROVE  /\ Parts(parts, order) \in Seq(Seq(S))
         /\ Len(Parts(parts, order)) = Len(order)
         /\ InTurn(parts, order) \in Seq(S)
<1>1. DOMAIN order = 1..Len(order) /\ Len(order) \in Nat
  BY LenProperties
<1>2. \A k \in 1..Len(order) : parts[order[k]] \in Seq(S)
  BY ElementOfSeq DEF Lists
<1>3. Parts(parts, order) \in [1..Len(order) -> Seq(S)]
  BY <1>1, <1>2 DEF Parts
<1>4. Parts(parts, order) \in Seq(Seq(S)) /\ Len(Parts(parts, order)) = Len(order)
  BY <1>1, <1>3, SeqDef
<1> QED BY <1>4, FlattenTyped DEF InTurn

LEMMA InTurnAppend ==
  ASSUME NEW S, NEW A, NEW parts \in Lists(A, S), NEW order \in Seq(A), NEW b \in A
  PROVE  InTurn(parts, Append(order, b)) = InTurn(parts, order) \o parts[b]
<1> DEFINE left == Parts(parts, Append(order, b))
           front == Parts(parts, order)
           right == Append(front, parts[b])
<1>1. /\ Append(order, b) \in Seq(A) /\ Len(Append(order, b)) = Len(order) + 1
      /\ \A k \in 1..Len(order) : Append(order, b)[k] = order[k]
      /\ Append(order, b)[Len(order) + 1] = b
      /\ Len(order) \in Nat /\ DOMAIN order = 1..Len(order)
  BY AppendProperties, LenProperties
<1>2. DOMAIN Append(order, b) = 1..(Len(order) + 1)
  BY <1>1, LenProperties
<1>3. left \in Seq(Seq(S)) /\ Len(left) = Len(order) + 1
  <2> DEFINE o2 == Append(order, b)
  <2>0. o2 \in Seq(A)
    BY <1>1
  <2> HIDE DEF o2
  <2>2. Parts(parts, o2) \in Seq(Seq(S)) /\ Len(Parts(parts, o2)) = Len(o2)
    BY <2>0, InTurnTyped
  <2>1. left \in Seq(Seq(S)) /\ Len(left) = Len(Append(order, b))
    BY <2>2 DEF o2
  <2> QED BY <1>1, <2>1
<1>4. front \in Seq(Seq(S)) /\ Len(front) = Len(order)
  BY InTurnTyped
<1>5. \A k \in 1..Len(order) : left[k] = parts[order[k]] /\ front[k] = parts[order[k]]
  BY <1>1, <1>2 DEF Parts
<1>6. left[Len(order) + 1] = parts[b]
  BY <1>1, <1>2 DEF Parts
<1>7. parts[b] \in Seq(S)
  BY DEF Lists
<1> HIDE DEF left, front
<1>8. /\ right \in Seq(Seq(S)) /\ Len(right) = Len(order) + 1
      /\ \A k \in 1..Len(order) : right[k] = front[k]
      /\ right[Len(order) + 1] = parts[b]
  BY <1>4, <1>7, AppendProperties
<1>9. left = right
  <2>1. \A k \in 1..Len(left) : k \in 1..Len(order) \/ k = Len(order) + 1
    BY <1>1, <1>3
  <2>2. \A k \in 1..Len(left) : left[k] = right[k]
    BY <1>5, <1>6, <1>8, <2>1
  <2> HIDE DEF right
  <2> QED BY <1>3, <1>8, <2>2, SeqEqual
<1>10. FlattenSeq(right) = FlattenSeq(front) \o parts[b]
  BY <1>4, <1>7, FlattenAppend
<1> QED BY <1>9, <1>10 DEF InTurn, left, front

\* Of what distinct sockets give in turn, the frames of one are what it gave.
LEMMA OnInTurn ==
  ASSUME NEW S, NEW A, NEW parts \in Lists(A, S),
         \A b \in A : \A n \in DOMAIN parts[b] : parts[b][n].on = b,
         NEW order \in Seq(A), IsInjective(order), NEW a \in A
  PROVE  On(a, InTurn(parts, order)) = IF a \in ToSet(order) THEN parts[a] ELSE <<>>
<1>0. \A b \in A : On(a, parts[b]) = IF b = a THEN parts[b] ELSE <<>>
  <2> SUFFICES ASSUME NEW b \in A
               PROVE  On(a, parts[b]) = IF b = a THEN parts[b] ELSE <<>>
    OBVIOUS
  <2> DEFINE B == {f \in S : f.on = b}
  <2>1. parts[b] \in Seq(S) /\ DOMAIN parts[b] = 1..Len(parts[b])
    BY LenProperties DEF Lists
  <2>2. \A n \in 1..Len(parts[b]) : parts[b][n] \in B
    BY <2>1, ElementOfSeq
  <2>3. parts[b] \in Seq(B)
    <3>1. Len(parts[b]) \in Nat /\ parts[b] \in [1..Len(parts[b]) -> B]
      BY <2>1, <2>2, LenProperties
    <3> QED BY <3>1, SeqDef
  <2>4. \A f \in B : f.on = b
    OBVIOUS
  <2>5. CASE b = a
    BY <2>3, <2>4, <2>5, OnOwn
  <2>6. CASE b # a
    <3>1. \A f \in B : f.on # a
      BY <2>4, <2>6
    <3> HIDE DEF B
    <3> QED BY <2>3, <2>6, <3>1, OnOther
  <2> QED BY <2>5, <2>6
<1> DEFINE P == {o \in Seq(A) : IsInjective(o) =>
                   On(a, InTurn(parts, o)) = IF a \in ToSet(o) THEN parts[a] ELSE <<>>}
<1>1. <<>> \in P
  <2>1. InTurn(parts, <<>>) = <<>>
    <3>1. Parts(parts, <<>>) = <<>>
      <4>1. <<>> \in Seq(A) /\ Len(<<>>) = 0
        BY EmptySeq
      <4>2. \A o \in Seq(A) : Parts(parts, o) \in Seq(Seq(S)) /\ Len(Parts(parts, o)) = Len(o)
        BY InTurnTyped
      <4> QED BY <4>1, <4>2, EmptySeq
    <3> QED BY <3>1, FlattenEmpty DEF InTurn
  <2>2. ToSet(<<>>) = {}
    BY EmptySeq DEF ToSet
  <2> QED BY <2>1, <2>2, OnEmpty, EmptySeq
<1>2. ASSUME NEW o \in Seq(A), NEW b \in A, o \in P PROVE Append(o, b) \in P
  <2> DEFINE o2 == Append(o, b)
  <2>1. /\ o2 \in Seq(A) /\ Len(o2) = Len(o) + 1 /\ Len(o) \in Nat
        /\ \A k \in 1..Len(o) : o2[k] = o[k]
        /\ o2[Len(o) + 1] = b
        /\ DOMAIN o = 1..Len(o) /\ DOMAIN o2 = 1..Len(o2)
    BY AppendProperties, LenProperties
  <2>2. InTurn(parts, o2) = InTurn(parts, o) \o parts[b]
    BY InTurnAppend
  <2> HIDE DEF o2
  <2> SUFFICES ASSUME IsInjective(o2)
               PROVE  On(a, InTurn(parts, o2)) = IF a \in ToSet(o2) THEN parts[a] ELSE <<>>
    BY <2>1 DEF o2
  <2>3. IsInjective(o)
    BY <2>1 DEF IsInjective
  <2>4. b \notin ToSet(o)
    <3>1. SUFFICES ASSUME NEW k \in 1..Len(o), o[k] = b PROVE FALSE
      BY <2>1 DEF ToSet
    <3>2. o2[k] = o2[Len(o) + 1] /\ k # Len(o) + 1 /\ k \in DOMAIN o2 /\ Len(o) + 1 \in DOMAIN o2
      BY <2>1, <3>1
    <3> QED BY <3>2 DEF IsInjective
  <2>5. ToSet(o2) = ToSet(o) \cup {b}
    <3>1. DOMAIN o2 = DOMAIN o \cup {Len(o) + 1}
      BY <2>1
    <3>2. \A k \in DOMAIN o : o2[k] = o[k]
      BY <2>1
    <3>3. ToSet(o2) \subseteq ToSet(o) \cup {b}
      BY <2>1, <3>1, <3>2 DEF ToSet
    <3>4. ToSet(o) \subseteq ToSet(o2)
      BY <3>1, <3>2 DEF ToSet
    <3>5. b \in ToSet(o2)
      BY <2>1, <3>1 DEF ToSet
    <3> QED BY <3>3, <3>4, <3>5
  <2>6. On(a, InTurn(parts, o)) = IF a \in ToSet(o) THEN parts[a] ELSE <<>>
    BY <1>2, <2>3
  <2>7. On(a, InTurn(parts, o2)) = On(a, InTurn(parts, o)) \o On(a, parts[b])
    <3>1. InTurn(parts, o) \in Seq(S) /\ parts[b] \in Seq(S)
      BY InTurnTyped DEF Lists
    <3> DEFINE x == InTurn(parts, o)
               y == parts[b]
    <3> HIDE DEF x, y
    <3>2. On(a, x \o y) = On(a, x) \o On(a, y)
      <4>1. x \in Seq(S) /\ y \in Seq(S)
        BY <3>1 DEF x, y
      <4> QED BY <4>1, OnConcat
    <3> QED BY <2>2, <3>2 DEF x, y
  <2>8. parts[a] \in Seq(S) /\ parts[a] \o <<>> = parts[a] /\ <<>> \o parts[a] = parts[a]
    BY ConcatEmptySeq DEF Lists
  <2>9. <<>> \o <<>> = <<>>
    BY ConcatEmptySeq, EmptySeq
  <2>10. CASE b = a
    <3>1. On(a, parts[b]) = parts[a] /\ On(a, InTurn(parts, o)) = <<>>
      BY <1>0, <2>4, <2>6, <2>10
    <3> QED BY <2>5, <2>7, <2>8, <2>10, <3>1
  <2>11. CASE b # a
    <3>1. On(a, parts[b]) = <<>> /\ (a \in ToSet(o2) <=> a \in ToSet(o))
      BY <1>0, <2>5, <2>11
    <3> QED BY <2>6, <2>7, <2>8, <2>9, <3>1
  <2> QED BY <2>10, <2>11
<1>3. Seq(A) \subseteq P
  <2> HIDE DEF P
  <2> QED BY <1>1, <1>2, SequenceInduction
<1> QED BY <1>3

(* Removing a key that occurs once leaves the others in their order.       *)
LEMMA RemoveOne ==
  ASSUME NEW A, NEW s \in Seq(A), IsInjective(s), NEW e
  PROVE  /\ RemoveFirst(s, e) \in Seq(A)
         /\ IsInjective(RemoveFirst(s, e))
         /\ ToSet(RemoveFirst(s, e)) = ToSet(s) \ {e}
<1>1. Len(s) \in Nat /\ DOMAIN s = 1..Len(s)
  BY LenProperties
<1>2. CASE ~(\E k \in 1..Len(s) : s[k] = e)
  <2>1. RemoveFirst(s, e) = s
    BY <1>2 DEF RemoveFirst
  <2>2. e \notin ToSet(s)
    BY <1>1, <1>2 DEF ToSet
  <2> QED BY <2>1, <2>2
<1>3. CASE \E k \in 1..Len(s) : s[k] = e
  <2> DEFINE I == {k \in 1..Len(s) : s[k] = e}
             k == SelectInSeq(s, LAMBDA v : v = e)
  <2>1. k \in 1..Len(s) /\ s[k] = e
    <3>1. I # {} /\ I \subseteq Nat
      BY <1>1, <1>3
    <3>2. \E x \in I : \A y \in I : x <= y
      BY <3>1, LeastNumber
    <3>3. k = CHOOSE x \in I : \A y \in I : x <= y
      BY <3>1 DEF SelectInSeq, Min
    <3>4. k \in I
      BY <3>2, <3>3
    <3> QED BY <3>4
  <2>2. RemoveFirst(s, e) = SubSeq(s, 1, k - 1) \o SubSeq(s, k + 1, Len(s))
    BY <1>3 DEF RemoveFirst, RemoveAt
  <2> HIDE DEF k
  <2> DEFINE left == SubSeq(s, 1, k - 1)
             right == SubSeq(s, k + 1, Len(s))
             r == left \o right
  <2>3. /\ left \in Seq(A) /\ Len(left) = k - 1
        /\ \A n \in 1..(k - 1) : left[n] = s[n]
    <3>1. 1 \in Int /\ k - 1 \in Int /\ \A n \in 1..(k - 1) : s[n] \in A
      BY <1>1, <2>1, ElementOfSeq
    <3> QED BY <2>1, <3>1, SubSeqProperties
  <2>4. /\ right \in Seq(A) /\ Len(right) = Len(s) - k
        /\ \A n \in 1..(Len(s) - k) : right[n] = s[n + k]
    <3>1. k + 1 \in Int /\ Len(s) \in Int /\ \A n \in (k + 1)..Len(s) : s[n] \in A
      BY <1>1, <2>1, ElementOfSeq
    <3>2. /\ right \in Seq(A)
          /\ Len(right) = IF k + 1 <= Len(s) THEN Len(s) - (k + 1) + 1 ELSE 0
          /\ \A n \in 1..(Len(s) - (k + 1) + 1) : right[n] = s[(k + 1) + n - 1]
      BY <3>1, SubSeqProperties
    <3> HIDE DEF right
    <3>5. Len(right) = IF k + 1 <= Len(s) THEN Len(s) - (k + 1) + 1 ELSE 0
      BY <3>2
    <3>6. Len(s) \in Nat /\ k \in 1..Len(s)
      BY <1>1, <2>1
    <3>3. Len(right) = Len(s) - k /\ Len(s) - (k + 1) + 1 = Len(s) - k
      BY <3>5, <3>6
    <3>4. \A n \in 1..(Len(s) - k) : (k + 1) + n - 1 = n + k
      BY <1>1, <2>1
    <3> QED BY <3>2, <3>3, <3>4
  <2> HIDE DEF left, right
  <2>5. /\ r \in Seq(A) /\ Len(r) = Len(s) - 1
        /\ \A n \in 1..(Len(s) - 1) : r[n] = IF n < k THEN s[n] ELSE s[n + 1]
    <3>0. r \in Seq(A) /\ Len(r) = Len(left) + Len(right)
      BY <2>3, <2>4, ConcatProperties
    <3>1. r \in Seq(A) /\ Len(r) = Len(s) - 1
      BY <1>1, <2>1, <2>3, <2>4, <3>0
    <3>2. ASSUME NEW n \in 1..(Len(s) - 1)
          PROVE  r[n] = IF n < k THEN s[n] ELSE s[n + 1]
      <4>1. n \in 1..(Len(left) + Len(right))
        BY <1>1, <2>1, <2>3, <2>4
      <4>2. r[n] = IF n <= Len(left) THEN left[n] ELSE right[n - Len(left)]
        BY <2>3, <2>4, <4>1, ConcatProperties
      <4>3. CASE n < k
        BY <1>1, <2>1, <2>3, <4>2, <4>3
      <4>4. CASE n >= k
        <5>1. n - Len(left) \in 1..(Len(s) - k) /\ (n - Len(left)) + k = n + 1
          BY <1>1, <2>1, <2>3, <4>4
        <5>2. ~(n <= Len(left)) /\ ~(n < k)
          BY <1>1, <2>1, <2>3, <4>4
        <5>3. right[n - Len(left)] = s[n + 1]
          BY <2>4, <5>1
        <5> QED BY <4>2, <5>2, <5>3
      <4>5. n < k \/ n >= k
        BY <1>1, <2>1
      <4> QED BY <4>3, <4>4, <4>5
    <3> QED BY <3>1, <3>2
  <2> HIDE DEF r
  <2>6. DOMAIN r = 1..(Len(s) - 1)
    BY <2>5, LenProperties
  <2>7. IsInjective(r)
    <3> SUFFICES ASSUME NEW m \in 1..(Len(s) - 1), NEW n \in 1..(Len(s) - 1), r[m] = r[n]
                 PROVE  m = n
      BY <2>6 DEF IsInjective
    <3> DEFINE at(x) == IF x < k THEN x ELSE x + 1
    <3>1. at(m) \in 1..Len(s) /\ at(n) \in 1..Len(s)
      BY <1>1, <2>1
    <3>2. r[m] = s[at(m)] /\ r[n] = s[at(n)]
      BY <2>5
    <3>3. at(m) = at(n)
      BY <1>1, <3>1, <3>2 DEF IsInjective
    <3> QED BY <1>1, <2>1, <3>3
  <2>8. ToSet(r) = ToSet(s) \ {e}
    <3>1. ASSUME NEW n \in 1..(Len(s) - 1) PROVE r[n] \in ToSet(s) \ {e}
      <4> DEFINE x == IF n < k THEN n ELSE n + 1
      <4>1. x \in 1..Len(s) /\ x # k /\ r[n] = s[x]
        BY <1>1, <2>1, <2>5
      <4>2. s[x] # e
        BY <1>1, <2>1, <4>1 DEF IsInjective
      <4> QED BY <1>1, <4>1, <4>2 DEF ToSet
    <3>2. ASSUME NEW n \in 1..Len(s), s[n] # e PROVE s[n] \in ToSet(r)
      <4> DEFINE x == IF n < k THEN n ELSE n - 1
      <4>1. x \in 1..(Len(s) - 1) /\ r[x] = s[n]
        BY <1>1, <2>1, <2>5, <3>2
      <4> QED BY <2>6, <4>1 DEF ToSet
    <3>3. ToSet(r) \subseteq ToSet(s) \ {e}
      BY <2>6, <3>1 DEF ToSet
    <3>4. ToSet(s) \ {e} \subseteq ToSet(r)
      BY <1>1, <3>2 DEF ToSet
    <3> QED BY <3>3, <3>4
  <2> QED BY <2>2, <2>5, <2>7, <2>8 DEF r, left, right
<1> QED BY <1>2, <1>3

(* A key that is not there goes last.                                      *)
LEMMA AddOne ==
  ASSUME NEW A, NEW s \in Seq(A), IsInjective(s), NEW e \in A, e \notin ToSet(s)
  PROVE  Append(s, e) \in Seq(A) /\ IsInjective(Append(s, e))
<1> DEFINE t == Append(s, e)
<1>1. /\ t \in Seq(A) /\ Len(t) = Len(s) + 1 /\ Len(s) \in Nat
      /\ DOMAIN s = 1..Len(s) /\ DOMAIN t = 1..Len(t)
      /\ \A k \in 1..Len(s) : t[k] = s[k]
      /\ t[Len(s) + 1] = e
  BY AppendProperties, LenProperties
<1> HIDE DEF t
<1>2. \A k \in 1..Len(s) : s[k] # e
  BY <1>1 DEF ToSet
<1>3. IsInjective(t)
  <2> SUFFICES ASSUME NEW m \in 1..(Len(s) + 1), NEW n \in 1..(Len(s) + 1), t[m] = t[n]
               PROVE  m = n
    BY <1>1 DEF IsInjective
  <2>1. CASE m \in 1..Len(s) /\ n \in 1..Len(s)
    BY <1>1, <2>1 DEF IsInjective
  <2>2. CASE m = Len(s) + 1 \/ n = Len(s) + 1
    <3>1. \A k \in 1..(Len(s) + 1) : k \in 1..Len(s) \/ k = Len(s) + 1
      BY <1>1
    <3> QED BY <1>1, <1>2, <2>2, <3>1
  <2> QED BY <1>1, <2>1, <2>2
<1> QED BY <1>1, <1>3 DEF t

(* What a waiting window takes is there to be taken.                       *)
LEMMA LastMatchBound ==
  ASSUME NEW S, NEW frames \in Seq(S), NEW step, AllMatched(frames, step)
  PROVE  LastMatch(frames, step) \in 0..Len(frames)
<1> DEFINE u == Unmatched(frames, step)
           T == {n \in 0..Len(frames) : u[n] = {}}
<1>1. Len(frames) \in Nat /\ u[Len(frames)] = {}
  BY LenProperties DEF AllMatched
<1> HIDE DEF u
<1>2. T # {} /\ T \in SUBSET Nat
  BY <1>1
<1>3. PICK x \in T : \A y \in T : x <= y
  BY <1>2, LeastNumber
<1>4. \A m \in 0..(x - 1) : u[m] # {}
  BY <1>1, <1>3
<1>5. \E n \in 0..Len(frames) : u[n] = {} /\ \A m \in 0..(n - 1) : u[m] # {}
  BY <1>3, <1>4
<1> QED BY <1>5 DEF LastMatch, u

\* So is what is spliced from another socket.
LEMMA LastOfAnyBound ==
  ASSUME NEW S, NEW frames \in Seq(S), NEW step
  PROVE  LastOfAny(frames, step) \in 0..Len(frames)
<1> DEFINE hits == {n \in DOMAIN frames :
                      \E type \in ToSet(Predicates(step)) : Satisfies(frames[n], type, step)}
<1>1. Len(frames) \in Nat /\ hits \subseteq 1..Len(frames)
  BY LenProperties
<1>2. LastOfAny(frames, step) = IF hits = {} THEN 0
                                ELSE CHOOSE n \in hits : \A m \in hits : m <= n
  BY DEF LastOfAny
<1> HIDE DEF hits
<1>3. CASE hits # {}
  <2> DEFINE T == {n \in Nat : \A m \in hits : m <= n}
  <2>1. Len(frames) \in T
    BY <1>1
  <2>2. PICK x \in T : \A y \in T : x <= y
    BY <2>1, LeastNumber
  <2>3. x \in hits
    <3>1. SUFFICES ASSUME x \notin hits PROVE FALSE
      OBVIOUS
    <3>2. \A m \in hits : m <= x - 1 /\ m >= 1
      BY <1>1, <2>2, <3>1
    <3>3. PICK h \in hits : TRUE
      BY <1>3
    <3>4. h \in Int /\ x \in Int /\ h <= x - 1 /\ h >= 1
      BY <1>1, <2>2, <3>2, <3>3
    <3>5. x - 1 \in T
      BY <3>2, <3>4
    <3> QED BY <2>2, <3>4, <3>5
  <2>4. \E n \in hits : \A m \in hits : m <= n
    BY <2>2, <2>3
  <2>5. LastOfAny(frames, step) \in hits
    BY <1>2, <1>3, <2>4
  <2>6. Len(frames) \in Nat /\ LastOfAny(frames, step) \in 1..Len(frames)
    BY <1>1, <2>5
  <2> QED BY <2>6
<1> QED BY <1>1, <1>2, <1>3

-----------------------------------------------------------------------------
(* The state of a run.                                                     *)
Frames == [type : STRING, step : Nat, id : STRING, on : Actors]
Errors == {None, "missing var", "probe", "retryUntil", "capture", "transport error",
           "refused", "no open socket", "timeout"}
Records == [received : Seq(Frames), error : Errors]

\* A step in a phase of its kind; a frame of a window waits for the settle.
RunTypes ==
  /\ scenario \in DOMAIN Scripts /\ script = Scripts[scenario]
  /\ i \in 1..(Len(script) + 1)
  /\ phase \in {"step", "http", "connect", "window", "settle", "final", "done"}
  /\ phase \in {"final", "done"} <=> i = Len(script) + 1
  /\ phase = "http" => Step.kind = "http"
  /\ phase = "connect" => Step.kind = "ws.connect"
  /\ phase = "window" => Step.kind \in {"ws.command", "ws.event"}
  /\ error \in Errors
  /\ phase # "settle" => error = None /\ received = <<>>
  /\ sockets \in Seq(Actors) /\ IsInjective(sockets)
  /\ Len(steps) >= i - 1
  /\ phase # "done" => Len(steps) = i - 1

FrameTypes ==
  /\ pending \in [Actors -> Seq(Frames)]
  /\ wire \in [Actors -> Seq(Frames)]
  /\ sent \in [Actors -> Seq(Frames)]
  /\ received \in Seq(Frames)
  /\ steps \in Seq(Records)

\* The lists of a socket hold its own frames.
OwnFrames(lists) == \A a \in Actors : \A n \in DOMAIN lists[a] : lists[a][n].on = a

Kept == FrameTypes /\ OwnFrames(pending) /\ OwnFrames(wire) /\ CapturedInOrder

\* What step n lacks is the error of an earlier step, or a frame without it,
\* or a null that an earlier step took.
Explained(n) ==
  \E m \in Providers(n) :
    \/ steps[m].error # None
    \/ script[m].kind = "ws.command"
    \/ \E v \in script[n].uses : <<m, v>> \in nulls

\* A null is the capture of the running step, at its settle, or of an earlier.
NullsHeld ==
  \A p \in nulls :
    /\ p[1] \in 1..i /\ (phase # "settle" => p[1] # i)
    /\ p[2] \in ToSet(script[p[1]].caps)

\* What an earlier step took stays as it is.
NullsStay == \A p \in nulls : p[1] # i => p \in nulls'

\* An http step without an error has set what it captures.
VariablesSet ==
  /\ \A m \in 1..(i - 1) : script[m].kind = "http" /\ steps[m].error = None
                           => ToSet(script[m].caps) \subseteq DOMAIN vars
  /\ phase = "settle" /\ Step.kind = "http" /\ error = None
       => ToSet(Step.caps) \subseteq DOMAIN vars

MissesExplained ==
  /\ \A m \in 1..(i - 1) : steps[m].error = "missing var" => Explained(m)
  /\ phase = "settle" /\ error = "missing var" => Explained(i)

Control == RunTypes /\ VariablesSet /\ MissesExplained

-----------------------------------------------------------------------------
\* Where a run is in its script.
LEMMA Positions ==
  ASSUME RunTypes
  PROVE  /\ script \in Seq(StepDefs) /\ Len(script) \in Nat /\ DOMAIN script = 1..Len(script)
         /\ Len(script) >= 1 /\ i \in Nat
         /\ phase \notin {"final", "done"} => i \in 1..Len(script)
<1>1. script \in Seq(StepDefs) /\ script # <<>>
  BY SuiteAssumption DEF RunTypes
<1>2. Len(script) \in Nat /\ DOMAIN script = 1..Len(script) /\ Len(script) # 0
  BY <1>1, EmptySeq, LenProperties
<1>3. i \in 1..(Len(script) + 1) /\ (phase \notin {"final", "done"} => i # Len(script) + 1)
  BY DEF RunTypes
<1> QED BY <1>1, <1>2, <1>3

LEMMA StepIsDefined ==
  ASSUME RunTypes, i \in 1..Len(script)
  PROVE  /\ Step \in StepDefs /\ Actor \in Actors
         /\ Step.splice \in Seq(Actors) /\ IsInjective(Step.splice)
<1>1. Step \in StepDefs
  BY Positions, ElementOfSeq DEF Step
<1> QED BY <1>1 DEF StepDefs, Actor

\* The captures are what the steps give in turn.
LEMMA CapturesInTurn ==
  ASSUME FrameTypes
  PROVE  /\ Captures = InTurn([r \in Records |-> r.received], steps)
         /\ [r \in Records |-> r.received] \in Lists(Records, Frames)
         /\ Captures \in Seq(Frames)
<1> DEFINE parts == [r \in Records |-> r.received]
<1>1. parts \in Lists(Records, Frames)
  BY DEF Lists, Records
<1>2. \A n \in DOMAIN steps : steps[n] \in Records
  BY LenProperties, ElementOfSeq DEF FrameTypes
<1>3. Parts(parts, steps) = [n \in DOMAIN steps |-> steps[n].received]
  BY <1>2 DEF Parts
<1>4. Captures = InTurn(parts, steps)
  BY <1>3 DEF Captures, InTurn
<1> HIDE DEF parts
<1>5. InTurn(parts, steps) \in Seq(Frames)
  BY <1>1, InTurnTyped DEF FrameTypes
<1> QED BY <1>1, <1>4, <1>5 DEF parts

LEMMA RecordsInTurn ==
  ASSUME NEW parts \in Lists(Records, Frames), NEW st \in Seq(Records), NEW r \in Records
  PROVE  InTurn(parts, Append(st, r)) = InTurn(parts, st) \o parts[r]
BY InTurnAppend

\* A finished step adds what it received to the captures.
LEMMA CapturesGrow ==
  ASSUME FrameTypes, FrameTypes', NEW r \in Records, steps' = Append(steps, r)
  PROVE  Captures' = Captures \o r.received
<1> DEFINE parts == [q \in Records |-> q.received]
<1>1. Captures = InTurn(parts, steps) /\ parts \in Lists(Records, Frames)
  BY CapturesInTurn
<1>2. Captures' = InTurn(parts, steps')
  <2>1. \A n \in DOMAIN steps' : steps'[n] \in Records
    BY LenProperties, ElementOfSeq DEF FrameTypes
  <2>2. Parts(parts, steps') = [n \in DOMAIN steps' |-> steps'[n].received]
    BY <2>1 DEF Parts
  <2> QED BY <2>2 DEF Captures, InTurn
<1>3. parts[r] = r.received
  OBVIOUS
<1> HIDE DEF parts
<1>0. steps \in Seq(Records)
  BY DEF FrameTypes
<1>4. InTurn(parts, Append(steps, r)) = InTurn(parts, steps) \o parts[r]
  <2>1. parts \in Lists(Records, Frames)
    BY <1>1
  <2> QED BY <1>0, <2>1, RecordsInTurn
<1> QED BY <1>1, <1>2, <1>3, <1>4

\* What is left of a list without its last two parts.
LEMMA Prefix ==
  ASSUME NEW S, NEW a \in Seq(S), NEW b \in Seq(S), NEW c \in Seq(S)
  PROVE  SubSeq((a \o b) \o c, 1, Len((a \o b) \o c) - Len(c) - Len(b)) = a
<1> DEFINE s == (a \o b) \o c
<1>1. s = a \o (b \o c) /\ b \o c \in Seq(S)
  BY ConcatAssociative, ConcatProperties, SMTT(30)
<1>2. /\ Len(b \o c) = Len(b) + Len(c) /\ Len(a) \in Nat /\ Len(b) \in Nat /\ Len(c) \in Nat
  BY ConcatProperties, LenProperties
<1>3. Len(a \o (b \o c)) = Len(a) + Len(b \o c)
  BY <1>1, ConcatProperties
<1>4. Len(s) - Len(c) - Len(b) = Len(a)
  BY <1>1, <1>2, <1>3
<1>5. SubSeq(a \o (b \o c), 1, Len(a)) = a
  <2>1. CASE a = <<>>
    <3>1. Len(a) = 0
      BY <2>1, EmptySeq
    <3> QED BY <2>1, <3>1, SubSeqEmpty
  <2>2. CASE a # <<>>
    <3>1. 1 \in 1..Len(a) /\ Len(a) \in 1..Len(a)
      BY <1>2, <2>2, EmptySeq
    <3>2. SubSeq(a \o (b \o c), 1, Len(a)) = SubSeq(a, 1, Len(a))
      BY <1>1, <3>1, SubSeqOfConcat1
    <3> QED BY <3>2, SubSeqFull
  <2> QED BY <2>1, <2>2
<1> HIDE DEF s
<1>6. SubSeq(s, 1, Len(s) - Len(c) - Len(b)) = a
  BY <1>1, <1>4, <1>5
<1> QED BY <1>6 DEF s

\* Concatenation, under a name the provers do not see through.
Cat(s, t) == s \o t

LEMMA CatTyped ==
  ASSUME NEW S, NEW a \in Seq(S), NEW b \in Seq(S)
  PROVE  Cat(a, b) \in Seq(S)
BY ConcatProperties DEF Cat

LEMMA CatEmpty ==
  ASSUME NEW S, NEW a \in Seq(S)
  PROVE  Cat(a, <<>>) = a /\ Cat(<<>>, a) = a
BY ConcatEmptySeq DEF Cat

LEMMA CatAssociative ==
  ASSUME NEW S, NEW a \in Seq(S), NEW b \in Seq(S), NEW c \in Seq(S)
  PROVE  Cat(Cat(a, b), c) = Cat(a, Cat(b, c))
BY ConcatAssociative DEF Cat

\* What a step makes the target push to a socket is for that socket.
LEMMA PushedFrames ==
  ASSUME NEW scr \in Seq(StepDefs), NEW n \in 1..Len(scr), NEW a \in Actors
  PROVE  /\ PushedTo(scr, n, a) \in Seq(Frames)
         /\ \A k \in DOMAIN PushedTo(scr, n, a) : PushedTo(scr, n, a)[k].on = a
<1> DEFINE step == scr[n]
           reply == IF a = step.actor /\ step.reply \notin {None, "refused"}
                    THEN <<step.reply>> ELSE <<>>
           events == IF a \in step.to THEN step.fan ELSE <<>>
           types == reply \o events \o step.push[a]
<1>1. step \in StepDefs /\ n \in Nat
  BY LenProperties, ElementOfSeq
<1> HIDE DEF step
<1>2. /\ step.reply \in STRING /\ step.fan \in Seq(STRING) /\ step.push[a] \in Seq(STRING)
      /\ step.id \in STRING
  BY <1>1 DEF StepDefs
<1>3. reply \in Seq(STRING) /\ events \in Seq(STRING)
  <2>1. <<step.reply>> \in Seq(STRING) /\ <<>> \in Seq(STRING)
    BY <1>2, EmptySeq
  <2> QED BY <1>2, <2>1
<1> HIDE DEF reply, events
<1>4. types \in Seq(STRING)
  <2>1. reply \o events \in Seq(STRING)
    BY <1>3, ConcatProperties
  <2> QED BY <1>2, <2>1, ConcatProperties
<1>5. PushedTo(scr, n, a) =
        [k \in DOMAIN types |-> [type |-> types[k], step |-> n, id |-> step.id, on |-> a]]
  BY DEF PushedTo, step, reply, events
<1> HIDE DEF types
<1>6. Len(types) \in Nat /\ DOMAIN types = 1..Len(types)
      /\ \A k \in 1..Len(types) : types[k] \in STRING
  BY <1>4, LenProperties, ElementOfSeq
<1>7. \A k \in 1..Len(types) : [type |-> types[k], step |-> n, id |-> step.id, on |-> a] \in Frames
  BY <1>1, <1>2, <1>6 DEF Frames
<1>8. PushedTo(scr, n, a) \in [1..Len(types) -> Frames]
  BY <1>5, <1>6, <1>7
<1>9. PushedTo(scr, n, a) \in Seq(Frames)
  BY <1>6, <1>8, SeqDef
<1> QED BY <1>5, <1>6, <1>9

LEMMA PushedNow ==
  ASSUME RunTypes, i \in 1..Len(script)
  PROVE  Pushed \in [Actors -> Seq(Frames)] /\ OwnFrames(Pushed)
<1>1. script \in Seq(StepDefs)
  BY Positions
<1>2. \A a \in Actors : /\ PushedTo(script, i, a) \in Seq(Frames)
                        /\ \A k \in DOMAIN PushedTo(script, i, a) : PushedTo(script, i, a)[k].on = a
  BY <1>1, PushedFrames
<1> QED BY <1>2 DEF Pushed, OwnFrames

\* Of a list of one socket, On keeps all or nothing.
LEMMA OnList ==
  ASSUME NEW lists \in [Actors -> Seq(Frames)], OwnFrames(lists),
         NEW a \in Actors, NEW b \in Actors
  PROVE  On(a, lists[b]) = IF a = b THEN lists[b] ELSE <<>>
<1> DEFINE B == {f \in Frames : f.on = b}
<1>1. /\ lists[b] \in Seq(Frames) /\ Len(lists[b]) \in Nat
      /\ DOMAIN lists[b] = 1..Len(lists[b]) /\ lists[b] \in [1..Len(lists[b]) -> Frames]
  BY LenProperties
<1>2. \A n \in 1..Len(lists[b]) : lists[b][n] \in B
  BY <1>1, ElementOfSeq DEF OwnFrames
<1>3. lists[b] \in Seq(B)
  <2>1. lists[b] \in [1..Len(lists[b]) -> B]
    BY <1>1, <1>2
  <2> QED BY <1>1, <2>1, SeqDef
<1>4. CASE a = b
  <2>1. \A f \in B : f.on = a
    BY <1>4
  <2> HIDE DEF B
  <2> QED BY <1>3, <1>4, <2>1, OnOwn
<1>5. CASE a # b
  <2>1. \A f \in B : f.on # a
    BY <1>5
  <2> HIDE DEF B
  <2> QED BY <1>3, <1>5, <2>1, OnOther
<1> QED BY <1>4, <1>5

\* The frames of each socket, captured, pending and in flight, in the order
\* they were sent.
InOrder(captured, pend, w, s) ==
  \A a \in Actors : Cat(Cat(On(a, captured), pend[a]), w[a]) = s[a]

\* The invariant of the frames in terms of its lists.
LEMMA InOrderOfState ==
  Kept <=> /\ FrameTypes /\ OwnFrames(pending) /\ OwnFrames(wire)
           /\ InOrder(Captures \o received, pending, wire, sent)
BY DEF Kept, CapturedInOrder, InOrder, Cat

LEMMA CapturedTyped ==
  ASSUME FrameTypes
  PROVE  Captures \in Seq(Frames) /\ Captures \o received \in Seq(Frames)
BY CapturesInTurn, ConcatProperties DEF FrameTypes

-----------------------------------------------------------------------------
(* The moves of the frames: a socket reads one, the target pushes some,    *)
(* some are captured, those of a replaced or closed socket are forgotten.  *)
LEMMA Moved ==
  ASSUME NEW captured \in Seq(Frames),
         NEW pend \in Lists(Actors, Frames), NEW w \in Lists(Actors, Frames),
         NEW s \in Lists(Actors, Frames), InOrder(captured, pend, w, s), NEW a \in Actors
  PROVE  /\ On(a, captured) \in Seq(Frames) /\ pend[a] \in Seq(Frames)
         /\ w[a] \in Seq(Frames) /\ s[a] \in Seq(Frames)
         /\ Cat(Cat(On(a, captured), pend[a]), w[a]) = s[a]
<1>1. On(a, captured) \in Seq(Frames)
  BY OnTyped
<1> QED BY <1>1 DEF InOrder, Lists

Behind(open, lists, out) ==
  [a \in Actors |-> IF a \in open THEN lists[a] \o out[a] ELSE lists[a]]

\* The target pushes behind what is in flight.
LEMMA MovePush ==
  ASSUME NEW captured \in Seq(Frames),
         NEW pend \in Lists(Actors, Frames), NEW w \in Lists(Actors, Frames),
         NEW s \in Lists(Actors, Frames), InOrder(captured, pend, w, s),
         NEW out \in Lists(Actors, Frames), NEW open
  PROVE  InOrder(captured, pend, Behind(open, w, out), Behind(open, s, out))
<1> DEFINE w2 == Behind(open, w, out)
           s2 == Behind(open, s, out)
<1> SUFFICES ASSUME NEW a \in Actors
             PROVE  Cat(Cat(On(a, captured), pend[a]), w2[a]) = s2[a]
  BY DEF InOrder
<1> DEFINE c == On(a, captured)
           p == pend[a]
           v == w[a]
           o == out[a]
           t == s[a]
<1>0. /\ c \in Seq(Frames) /\ p \in Seq(Frames) /\ v \in Seq(Frames)
      /\ Cat(Cat(c, p), v) = t
  BY Moved
<1>1. /\ c \in Seq(Frames) /\ p \in Seq(Frames) /\ v \in Seq(Frames) /\ o \in Seq(Frames)
      /\ Cat(Cat(c, p), v) = t
  BY <1>0 DEF Lists
<1>2. w2[a] = IF a \in open THEN Cat(v, o) ELSE v
  BY DEF Cat, Behind
<1>3. s2[a] = IF a \in open THEN Cat(t, o) ELSE t
  BY DEF Cat, Behind
<1> HIDE DEF c, p, v, o, t, w2, s2
<1>4. Cat(Cat(Cat(c, p), v), o) = Cat(Cat(c, p), Cat(v, o))
  BY <1>1, CatTyped, CatAssociative
<1>5. Cat(Cat(c, p), w2[a]) = s2[a]
  BY <1>1, <1>2, <1>3, <1>4
<1> QED BY <1>5 DEF c, p, w2, s2

\* Frames from the head of what is pending are captured.
LEMMA MoveCapture ==
  ASSUME NEW captured \in Seq(Frames),
         NEW pend \in Lists(Actors, Frames), NEW w \in Lists(Actors, Frames),
         NEW s \in Lists(Actors, Frames), InOrder(captured, pend, w, s),
         NEW gain \in Seq(Frames), NEW left \in Lists(Actors, Frames),
         \A a \in Actors : Cat(On(a, gain), left[a]) = pend[a]
  PROVE  InOrder(captured \o gain, left, w, s)
<1> SUFFICES ASSUME NEW a \in Actors
             PROVE  Cat(Cat(On(a, captured \o gain), left[a]), w[a]) = s[a]
  BY DEF InOrder
<1> DEFINE c == On(a, captured)
           g == On(a, gain)
           l == left[a]
<1>0. c \in Seq(Frames) /\ Cat(Cat(c, pend[a]), w[a]) = s[a]
  BY Moved
<1>1. /\ c \in Seq(Frames) /\ g \in Seq(Frames) /\ l \in Seq(Frames)
      /\ Cat(Cat(c, pend[a]), w[a]) = s[a]
  BY <1>0, OnTyped DEF Lists
<1>2. On(a, captured \o gain) = Cat(c, g)
  BY OnConcat DEF Cat
<1>3. Cat(g, l) = pend[a]
  OBVIOUS
<1> HIDE DEF c, g, l
<1>4. Cat(Cat(c, g), l) = Cat(c, Cat(g, l))
  BY <1>1, CatAssociative
<1>5. Cat(Cat(Cat(c, g), l), w[a]) = s[a]
  BY <1>1, <1>3, <1>4
<1> QED BY <1>2, <1>5 DEF l

\* A socket forgets what it has pending and in flight.
LEMMA MoveForget ==
  ASSUME NEW captured \in Seq(Frames),
         NEW pend \in Lists(Actors, Frames), NEW w \in Lists(Actors, Frames),
         NEW s \in Lists(Actors, Frames), InOrder(captured, pend, w, s),
         NEW b \in Actors
  PROVE  /\ SubSeq(s[b], 1, Len(s[b]) - Len(w[b]) - Len(pend[b])) \in Seq(Frames)
         /\ InOrder(captured, [pend EXCEPT ![b] = <<>>], [w EXCEPT ![b] = <<>>],
                    [s EXCEPT ![b] = SubSeq(s[b], 1, Len(s[b]) - Len(w[b]) - Len(pend[b]))])
<1> DEFINE c == On(b, captured)
           p == pend[b]
           v == w[b]
           t == s[b]
           cut == SubSeq(t, 1, Len(t) - Len(v) - Len(p))
<1>1. /\ c \in Seq(Frames) /\ p \in Seq(Frames) /\ v \in Seq(Frames)
      /\ Cat(Cat(c, p), v) = t
  BY Moved
<1> HIDE DEF c, p, v
<1>2. SubSeq((c \o p) \o v, 1, Len((c \o p) \o v) - Len(v) - Len(p)) = c
  BY <1>1, Prefix
<1>3. cut = c
  BY <1>1, <1>2 DEF Cat
<1> HIDE DEF cut
<1>4. Cat(Cat(c, <<>>), <<>>) = c
  BY <1>1, CatEmpty
<1> SUFFICES ASSUME NEW a \in Actors
             PROVE  Cat(Cat(On(a, captured), [pend EXCEPT ![b] = <<>>][a]),
                        [w EXCEPT ![b] = <<>>][a]) = [s EXCEPT ![b] = cut][a]
  BY <1>1, <1>3 DEF InOrder, cut, p, v
<1>5. CASE a = b
  <2>1. /\ [pend EXCEPT ![b] = <<>>][b] = <<>> /\ [w EXCEPT ![b] = <<>>][b] = <<>>
        /\ [s EXCEPT ![b] = cut][b] = cut
    BY DEF Lists
  <2> QED BY <1>3, <1>4, <1>5, <2>1 DEF c
<1>6. CASE a # b
  BY <1>6, Moved
<1> QED BY <1>5, <1>6

\* Draining some sockets captures all they have pending.
LEMMA DrainTakes ==
  ASSUME NEW pend \in Lists(Actors, Frames), OwnFrames(pend),
         NEW socks \in Seq(Actors), IsInjective(socks)
  PROVE  /\ Drained(socks, pend) \in Seq(Frames)
         /\ \A a \in Actors : Cat(On(a, Drained(socks, pend)),
                                  IF a \in ToSet(socks) THEN <<>> ELSE pend[a]) = pend[a]
<1>1. Drained(socks, pend) = InTurn(pend, socks)
  BY DEF Drained, InTurn, Parts
<1>3. InTurn(pend, socks) \in Seq(Frames)
  BY InTurnTyped
<1>4. ASSUME NEW a \in Actors
      PROVE  On(a, InTurn(pend, socks)) = IF a \in ToSet(socks) THEN pend[a] ELSE <<>>
  BY OnInTurn DEF OwnFrames
<1>5. ASSUME NEW a \in Actors
      PROVE  Cat(On(a, InTurn(pend, socks)), IF a \in ToSet(socks) THEN <<>> ELSE pend[a])
               = pend[a]
  <2>1. pend[a] \in Seq(Frames)
    BY DEF Lists
  <2>2. Cat(pend[a], <<>>) = pend[a] /\ Cat(<<>>, pend[a]) = pend[a]
    BY <2>1, CatEmpty
  <2> QED BY <1>4, <2>2
<1> QED BY <1>1, <1>3, <1>5

-----------------------------------------------------------------------------
LEMMA NoFrameMoves ==
  ASSUME Kept, UNCHANGED <<pending, received, steps, wire, sent>>
  PROVE  Kept'
<1>1. Captures' = Captures
  BY DEF Captures
<1> QED BY <1>1 DEF Kept, FrameTypes, OwnFrames, CapturedInOrder

\* A socket reads a frame.
LEMMA ReadOne ==
  ASSUME Kept, NEW a \in Actors, Arrive(a)
  PROVE  Kept'
<1> DEFINE f == Head(wire[a])
           rest == Tail(wire[a])
<1>1. /\ pending[a] \in Seq(Frames) /\ wire[a] \in Seq(Frames) /\ wire[a] # <<>>
      /\ pending' = [pending EXCEPT ![a] = Append(pending[a], f)]
      /\ wire' = [wire EXCEPT ![a] = rest]
      /\ UNCHANGED <<received, steps, sent>>
      /\ pending \in [Actors -> Seq(Frames)] /\ wire \in [Actors -> Seq(Frames)]
  BY DEF Arrive, Kept, FrameTypes
<1>2. /\ f \in Frames /\ rest \in Seq(Frames) /\ Len(rest) = Len(wire[a]) - 1
      /\ \A n \in 1..Len(rest) : rest[n] = wire[a][n + 1]
      /\ f = wire[a][1]
  BY <1>1, HeadTailProperties
<1>3. wire[a] = <<f>> \o rest
  <2>1. 1 \in 1..Len(wire[a]) /\ Len(wire[a]) \in 1..Len(wire[a])
    BY <1>1, EmptySeq, LenProperties
  <2>2. SubSeq(wire[a], 1, Len(wire[a])) = <<wire[a][1]>> \o SubSeq(wire[a], 1 + 1, Len(wire[a]))
    BY <1>1, <2>1, SubSeqRecursiveFirst
  <2> QED BY <1>1, <1>2, <2>2, SubSeqFull, TailIsSubSeq
<1> HIDE DEF f, rest
<1>4. /\ Append(pending[a], f) \in Seq(Frames)
      /\ Len(Append(pending[a], f)) = Len(pending[a]) + 1
      /\ \A n \in 1..Len(pending[a]) : Append(pending[a], f)[n] = pending[a][n]
      /\ Append(pending[a], f)[Len(pending[a]) + 1] = f
      /\ Append(pending[a], f) = pending[a] \o <<f>> /\ <<f>> \in Seq(Frames)
  BY <1>1, <1>2, AppendProperties, AppendIsConcat
<1>5. /\ DOMAIN pending[a] = 1..Len(pending[a]) /\ DOMAIN wire[a] = 1..Len(wire[a])
      /\ DOMAIN rest = 1..Len(rest) /\ Len(pending[a]) \in Nat /\ Len(wire[a]) \in Nat
      /\ DOMAIN Append(pending[a], f) = 1..(Len(pending[a]) + 1) /\ Len(rest) \in Nat
  BY <1>1, <1>2, <1>4, LenProperties
<1>6. FrameTypes'
  BY <1>1, <1>2, <1>4 DEF Kept, FrameTypes
<1>7. f.on = a /\ \A n \in DOMAIN rest : rest[n].on = a
  <2>1. 1 \in DOMAIN wire[a] /\ \A n \in DOMAIN rest : n + 1 \in DOMAIN wire[a]
    BY <1>2, <1>5
  <2> QED BY <1>2, <1>5, <2>1 DEF Kept, OwnFrames
<1>8. OwnFrames(pending')
  <2>1. \A n \in DOMAIN Append(pending[a], f) : Append(pending[a], f)[n].on = a
    <3>1. \A n \in 1..(Len(pending[a]) + 1) : n \in 1..Len(pending[a]) \/ n = Len(pending[a]) + 1
      BY <1>5
    <3> QED BY <1>4, <1>5, <1>7, <3>1 DEF Kept, OwnFrames
  <2> QED BY <1>1, <2>1 DEF Kept, OwnFrames
<1>9. OwnFrames(wire')
  BY <1>1, <1>7 DEF Kept, OwnFrames
<1>10. Captures' = Captures
  BY <1>1 DEF Captures
<1>11. InOrder(Captures \o received, pending', wire', sent)
  <2> SUFFICES ASSUME NEW b \in Actors
               PROVE  Cat(Cat(On(b, Captures \o received), pending'[b]), wire'[b]) = sent[b]
    BY DEF InOrder
  <2>1. Captures \o received \in Seq(Frames) /\ InOrder(Captures \o received, pending, wire, sent)
    BY CapturedTyped, InOrderOfState DEF Kept
  <2>2. CASE b # a
    BY <1>1, <2>1, <2>2 DEF InOrder
  <2>3. CASE b = a
    <3> DEFINE c == On(a, Captures \o received)
               p == pending[a]
               one == <<f>>
    <3>1. c \in Seq(Frames) /\ p \in Seq(Frames) /\ Cat(Cat(c, p), wire[a]) = sent[a]
      BY <1>1, <2>1, OnTyped DEF InOrder
    <3>2. pending'[a] = Cat(p, one) /\ wire'[a] = rest /\ wire[a] = Cat(one, rest)
      BY <1>1, <1>3, <1>4 DEF Cat
    <3>3. one \in Seq(Frames) /\ rest \in Seq(Frames)
      BY <1>2, <1>4
    <3> HIDE DEF c, p, one
    <3>4. /\ Cat(Cat(c, p), Cat(one, rest)) = Cat(Cat(Cat(c, p), one), rest)
          /\ Cat(Cat(c, p), one) = Cat(c, Cat(p, one))
      BY <3>1, <3>3, CatTyped, CatAssociative
    <3>5. Cat(Cat(c, pending'[a]), wire'[a]) = sent[a]
      BY <3>1, <3>2, <3>4
    <3> QED BY <2>3, <3>5 DEF c
  <2> QED BY <2>2, <2>3
<1>12. (Captures \o received)' = Captures \o received /\ sent' = sent
  BY <1>1, <1>10
<1> QED BY <1>6, <1>8, <1>9, <1>11, <1>12, InOrderOfState DEF Kept, CapturedInOrder, InOrder, Cat

\* What is pushed on a socket is for that socket.
LEMMA PushTyped ==
  ASSUME FrameTypes, OwnFrames(wire), NEW out \in [Actors -> Seq(Frames)], OwnFrames(out),
         Emit(out)
  PROVE  /\ wire' \in [Actors -> Seq(Frames)] /\ sent' \in [Actors -> Seq(Frames)]
         /\ OwnFrames(wire')
<1>1. /\ wire \in [Actors -> Seq(Frames)] /\ sent \in [Actors -> Seq(Frames)]
      /\ wire' = [a \in Actors |-> IF a \in Open THEN wire[a] \o out[a] ELSE wire[a]]
      /\ sent' = [a \in Actors |-> IF a \in Open THEN sent[a] \o out[a] ELSE sent[a]]
  BY DEF Emit, FrameTypes
<1>2. \A a \in Actors : wire[a] \o out[a] \in Seq(Frames) /\ sent[a] \o out[a] \in Seq(Frames)
  BY <1>1, ConcatProperties
<1>3. wire' \in [Actors -> Seq(Frames)] /\ sent' \in [Actors -> Seq(Frames)]
  BY <1>1, <1>2
<1>4. OwnFrames(wire')
  <2> SUFFICES ASSUME NEW a \in Actors, a \in Open, NEW n \in DOMAIN (wire[a] \o out[a])
               PROVE  (wire[a] \o out[a])[n].on = a
    BY <1>1 DEF OwnFrames
  <2>1. /\ wire[a] \in Seq(Frames) /\ out[a] \in Seq(Frames)
        /\ DOMAIN wire[a] = 1..Len(wire[a]) /\ DOMAIN out[a] = 1..Len(out[a])
        /\ Len(wire[a]) \in Nat /\ Len(out[a]) \in Nat
    BY <1>1, LenProperties
  <2>2. n \in 1..(Len(wire[a]) + Len(out[a]))
    <3>1. DOMAIN (wire[a] \o out[a]) = 1..Len(wire[a] \o out[a])
      BY <1>2, LenProperties
    <3>2. Len(wire[a] \o out[a]) = Len(wire[a]) + Len(out[a])
      BY <2>1, ConcatProperties
    <3> QED BY <3>1, <3>2
  <2>3. (wire[a] \o out[a])[n] = IF n <= Len(wire[a]) THEN wire[a][n] ELSE out[a][n - Len(wire[a])]
    BY <2>1, <2>2, ConcatProperties
  <2>4. CASE n <= Len(wire[a])
    <3>1. n \in DOMAIN wire[a]
      BY <2>1, <2>2, <2>4
    <3> QED BY <2>3, <2>4, <3>1 DEF OwnFrames
  <2>5. CASE ~(n <= Len(wire[a]))
    <3>1. n - Len(wire[a]) \in DOMAIN out[a]
      BY <2>1, <2>2, <2>5
    <3> QED BY <2>3, <2>5, <3>1 DEF OwnFrames
  <2> QED BY <2>4, <2>5
<1> QED BY <1>3, <1>4

\* Frames are pushed on the open sockets, behind those in flight.
LEMMA PushMore ==
  ASSUME Kept, NEW out \in [Actors -> Seq(Frames)], OwnFrames(out),
         Emit(out), UNCHANGED <<pending, received, steps>>
  PROVE  Kept'
<1>1. /\ wire' = [a \in Actors |-> IF a \in Open THEN wire[a] \o out[a] ELSE wire[a]]
      /\ sent' = [a \in Actors |-> IF a \in Open THEN sent[a] \o out[a] ELSE sent[a]]
  BY DEF Emit
<1>3. FrameTypes' /\ OwnFrames(wire')
  BY PushTyped DEF Kept, FrameTypes
<1>5. Captures' = Captures
  BY DEF Captures
<1>6. InOrder(Captures \o received, pending, wire', sent')
  <2>1. /\ Captures \o received \in Seq(Frames)
        /\ InOrder(Captures \o received, pending, wire, sent)
        /\ pending \in Lists(Actors, Frames) /\ wire \in Lists(Actors, Frames)
        /\ sent \in Lists(Actors, Frames) /\ out \in Lists(Actors, Frames)
    BY CapturedTyped, InOrderOfState DEF Kept, FrameTypes, Lists
  <2>2. wire' = Behind(Open, wire, out) /\ sent' = Behind(Open, sent, out)
    BY <1>1 DEF Behind
  <2> QED BY <2>1, <2>2, MovePush
<1> QED BY <1>3, <1>5, <1>6 DEF Kept, CapturedInOrder, InOrder, Cat

\* The end of a step: what is pending on the open sockets is captured.
LEMMA DrainKeeps ==
  ASSUME FrameTypes, NEW frames \in Seq(Frames), NEW err \in Errors,
         NEW socks \in Seq(Actors), IsInjective(socks),
         NEW pend \in Lists(Actors, Frames), OwnFrames(pend),
         wire' \in Lists(Actors, Frames), OwnFrames(wire'), sent' \in Lists(Actors, Frames),
         InOrder(Captures \o frames, pend, wire', sent'),
         steps' = Append(steps, [received |-> frames \o Drained(socks, pend), error |-> err]),
         pending' = [a \in Actors |-> IF a \in ToSet(socks) THEN <<>> ELSE pend[a]],
         received' = <<>>
  PROVE  Kept'
<1> DEFINE gain == Drained(socks, pend)
           all == frames \o gain
           r == [received |-> all, error |-> err]
           left == [a \in Actors |-> IF a \in ToSet(socks) THEN <<>> ELSE pend[a]]
<1>1. /\ gain \in Seq(Frames)
      /\ \A a \in Actors : Cat(On(a, gain), IF a \in ToSet(socks) THEN <<>> ELSE pend[a]) = pend[a]
  BY DrainTakes
<1> HIDE DEF gain
<1>2. all \in Seq(Frames)
  BY <1>1, ConcatProperties
<1>3. left \in Lists(Actors, Frames)
  BY EmptySeq DEF Lists
<1>4. OwnFrames(left)
  BY EmptySeq DEF OwnFrames
<1>5. r \in Records /\ r.received = all
  BY <1>2 DEF Records
<1>6. steps' = Append(steps, r)
  BY DEF gain
<1>7. FrameTypes'
  <2>1. steps \in Seq(Records)
    BY DEF FrameTypes
  <2>2. steps' \in Seq(Records)
    BY <1>5, <1>6, <2>1, AppendProperties
  <2>3. received' \in Seq(Frames)
    BY EmptySeq
  <2>4. pending' \in [Actors -> Seq(Frames)]
    BY <1>3 DEF Lists
  <2>5. wire' \in [Actors -> Seq(Frames)] /\ sent' \in [Actors -> Seq(Frames)]
    BY DEF Lists
  <2> QED BY <2>2, <2>3, <2>4, <2>5 DEF FrameTypes
<1>8. Captures' = Captures \o all
  BY <1>5, <1>6, <1>7, CapturesGrow
<1>9. Captures \in Seq(Frames) /\ Captures \o frames \in Seq(Frames)
  BY CapturedTyped, ConcatProperties
<1>10. (Captures \o frames) \o gain = Captures \o all
  <2>1. Captures \in Seq(Frames) /\ frames \in Seq(Frames) /\ gain \in Seq(Frames)
    BY <1>1, <1>9
  <2>2. Cat(Cat(Captures, frames), gain) = Cat(Captures, Cat(frames, gain))
    BY <2>1, CatAssociative
  <2> QED BY <2>2 DEF Cat
<1>11. Captures' \o received' = (Captures \o frames) \o gain
  <2>1. Captures \o all \in Seq(Frames)
    BY <1>2, <1>9, ConcatProperties
  <2>2. (Captures \o all) \o <<>> = Captures \o all
    BY <2>1, ConcatEmptySeq
  <2> QED BY <1>8, <1>10, <2>2
<1>12. \A a \in Actors : Cat(On(a, gain), left[a]) = pend[a]
  BY <1>1
<1>13. pending' = left
  OBVIOUS
<1> HIDE DEF left
<1>14. InOrder((Captures \o frames) \o gain, left, wire', sent')
  BY <1>1, <1>3, <1>9, <1>12, MoveCapture
<1>15. OwnFrames(pending') /\ InOrder(Captures' \o received', pending', wire', sent')
  BY <1>4, <1>11, <1>13, <1>14
<1> QED BY <1>7, <1>15 DEF Kept, CapturedInOrder, InOrder, Cat

LEMMA EndKeeps ==
  ASSUME FrameTypes, NEW frames \in Seq(Frames), NEW err \in Errors,
         NEW socks \in Seq(Actors), IsInjective(socks),
         NEW pend \in Lists(Actors, Frames), OwnFrames(pend),
         wire' \in Lists(Actors, Frames), OwnFrames(wire'), sent' \in Lists(Actors, Frames),
         InOrder(Captures \o frames, pend, wire', sent'), EndStep(frames, err, socks, pend)
  PROVE  Kept'
<1>1. /\ steps' = Append(steps, [received |-> frames \o Drained(socks, pend), error |-> err])
      /\ pending' = [a \in Actors |-> IF a \in ToSet(socks) THEN <<>> ELSE pend[a]]
      /\ received' = <<>>
  BY DEF EndStep
<1> QED BY <1>1, DrainKeeps

\* A step that ends with the sockets as they are.
LEMMA EndUnmoved ==
  ASSUME Kept, sockets \in Seq(Actors), IsInjective(sockets), NEW err \in Errors,
         EndStep(received, err, sockets, pending), UNCHANGED <<wire, sent>>
  PROVE  Kept'
<1>1. /\ pending \in Lists(Actors, Frames) /\ wire \in Lists(Actors, Frames)
      /\ sent \in Lists(Actors, Frames) /\ received \in Seq(Frames)
      /\ FrameTypes /\ OwnFrames(pending) /\ OwnFrames(wire)
      /\ InOrder(Captures \o received, pending, wire, sent)
  BY InOrderOfState DEF Kept, FrameTypes, Lists
<1>2. wire' = wire /\ sent' = sent
  OBVIOUS
<1> QED BY <1>1, <1>2, EndKeeps

\* A step that ends with the socket of its actor replaced or closed.
LEMMA EndForgets ==
  ASSUME Kept, received = <<>>, NEW b \in Actors,
         NEW socks \in Seq(Actors), IsInjective(socks),
         EndStep(<<>>, None, socks, [pending EXCEPT ![b] = <<>>]),
         wire' = [wire EXCEPT ![b] = <<>>],
         sent' = [sent EXCEPT ![b] =
                    SubSeq(sent[b], 1, Len(sent[b]) - Len(wire[b]) - Len(pending[b]))]
  PROVE  Kept'
<1>1. /\ pending \in Lists(Actors, Frames) /\ wire \in Lists(Actors, Frames)
      /\ sent \in Lists(Actors, Frames) /\ FrameTypes
      /\ OwnFrames(pending) /\ OwnFrames(wire) /\ Captures \o received \in Seq(Frames)
      /\ InOrder(Captures \o received, pending, wire, sent)
  BY InOrderOfState, CapturedTyped DEF Kept, FrameTypes, Lists
<1> DEFINE pend == [pending EXCEPT ![b] = <<>>]
           w == [wire EXCEPT ![b] = <<>>]
           cut == SubSeq(sent[b], 1, Len(sent[b]) - Len(wire[b]) - Len(pending[b]))
           s == [sent EXCEPT ![b] = cut]
<1>2. cut \in Seq(Frames) /\ InOrder(Captures \o received, pend, w, s)
  BY <1>1, MoveForget
<1> HIDE DEF cut
<1>3. pend \in Lists(Actors, Frames) /\ w \in Lists(Actors, Frames) /\ s \in Lists(Actors, Frames)
  BY <1>1, <1>2, EmptySeq DEF Lists
<1>4. OwnFrames(pend) /\ OwnFrames(w)
  BY <1>1, EmptySeq DEF OwnFrames, Lists
<1>5. wire' = w /\ sent' = s /\ EndStep(<<>>, None, socks, pend)
  BY DEF cut
<1> HIDE DEF pend, w, s
<1>6. <<>> \in Seq(Frames) /\ None \in Errors /\ InOrder(Captures \o <<>>, pend, w, s)
  BY <1>2, EmptySeq DEF Errors
<1> QED BY <1>1, <1>3, <1>4, <1>5, <1>6, EndKeeps

\* The end of the run, which is a step of its own when frames are left.
LEMMA FinalKeeps ==
  ASSUME Kept, received = <<>>, sockets \in Seq(Actors), IsInjective(sockets), FinalDrain
  PROVE  Kept'
<1>1. /\ pending \in Lists(Actors, Frames) /\ wire \in Lists(Actors, Frames)
      /\ sent \in Lists(Actors, Frames) /\ FrameTypes
      /\ OwnFrames(pending) /\ OwnFrames(wire) /\ Captures \o received \in Seq(Frames)
      /\ InOrder(Captures \o received, pending, wire, sent)
  BY InOrderOfState, CapturedTyped DEF Kept, FrameTypes, Lists
<1> DEFINE all == Drained(sockets, pending)
<1>2. /\ steps' = IF all = <<>> THEN steps
                  ELSE Append(steps, [received |-> all, error |-> None])
      /\ pending' = [a \in Actors |-> IF a \in ToSet(sockets) THEN <<>> ELSE pending[a]]
      /\ received' = <<>> /\ wire' = wire /\ sent' = sent
  BY DEF FinalDrain, Open
<1>3. /\ all \in Seq(Frames)
      /\ \A a \in Actors : Cat(On(a, all), IF a \in ToSet(sockets) THEN <<>> ELSE pending[a])
                             = pending[a]
  BY <1>1, DrainTakes
<1>4. CASE all = <<>>
  <2>1. ASSUME NEW a \in Actors PROVE pending'[a] = pending[a]
    <3>1. CASE a \in ToSet(sockets)
      <4>1. Cat(On(a, <<>>), <<>>) = pending[a]
        BY <1>3, <1>4, <3>1
      <4>2. On(a, <<>>) = <<>>
        BY OnEmpty
      <4>3. Cat(<<>>, <<>>) = <<>>
        BY CatEmpty, EmptySeq
      <4> QED BY <1>2, <3>1, <4>1, <4>2, <4>3
    <3>2. CASE a \notin ToSet(sockets)
      BY <1>2, <3>2
    <3> QED BY <3>1, <3>2
  <2>2. pending' = pending
    BY <1>1, <1>2, <2>1 DEF Lists
  <2> HIDE DEF all
  <2>3. UNCHANGED <<pending, received, steps, wire, sent>>
    BY <1>2, <1>4, <2>2
  <2> QED BY <2>3, NoFrameMoves
<1>5. CASE all # <<>>
  <2>1. <<>> \o all = all
    BY <1>3, ConcatEmptySeq
  <2>2. steps' = Append(steps, [received |-> <<>> \o all, error |-> None])
    BY <1>2, <1>5, <2>1
  <2>3. <<>> \in Seq(Frames) /\ None \in Errors
    BY EmptySeq DEF Errors
  <2>4. InOrder(Captures \o <<>>, pending, wire', sent')
    BY <1>1, <1>2
  <2> QED BY <1>1, <1>2, <2>2, <2>3, <2>4, DrainKeeps
<1> QED BY <1>4, <1>5

\* A list cut in two.
LEMMA CutInTwo ==
  ASSUME NEW S, NEW s \in Seq(S), NEW n \in 0..Len(s)
  PROVE  /\ SubSeq(s, 1, n) \in Seq(S) /\ SubSeq(s, n + 1, Len(s)) \in Seq(S)
         /\ Cat(SubSeq(s, 1, n), SubSeq(s, n + 1, Len(s))) = s
         /\ \A k \in DOMAIN SubSeq(s, 1, n) : k \in DOMAIN s /\ SubSeq(s, 1, n)[k] = s[k]
         /\ \A k \in DOMAIN SubSeq(s, n + 1, Len(s)) :
              k + n \in DOMAIN s /\ SubSeq(s, n + 1, Len(s))[k] = s[k + n]
<1>1. Len(s) \in Nat /\ DOMAIN s = 1..Len(s) /\ n \in Nat /\ n <= Len(s)
      /\ \A k \in 1..Len(s) : s[k] \in S
  BY LenProperties, ElementOfSeq
<1> DEFINE l == SubSeq(s, 1, n)
           r == SubSeq(s, n + 1, Len(s))
<1>2. l \in Seq(S) /\ Len(l) = n /\ \A k \in 1..n : l[k] = s[k]
  <2>1. 1 \in Int /\ n \in Int /\ \A k \in 1..n : s[k] \in S
    BY <1>1
  <2> QED BY <1>1, <2>1, SubSeqProperties
<1>3. r \in Seq(S) /\ Len(r) = Len(s) - n /\ \A k \in 1..(Len(s) - n) : r[k] = s[k + n]
  <2>1. n + 1 \in Int /\ Len(s) \in Int /\ \A k \in (n + 1)..Len(s) : s[k] \in S
    BY <1>1
  <2>2. /\ r \in Seq(S)
        /\ Len(r) = IF n + 1 <= Len(s) THEN Len(s) - (n + 1) + 1 ELSE 0
        /\ \A k \in 1..(Len(s) - (n + 1) + 1) : r[k] = s[(n + 1) + k - 1]
    BY <2>1, SubSeqProperties
  <2> HIDE DEF r
  <2>0. Len(r) = IF n + 1 <= Len(s) THEN Len(s) - (n + 1) + 1 ELSE 0
    BY <2>2
  <2>5. Len(s) \in Nat /\ n \in Nat /\ n <= Len(s)
    BY <1>1
  <2>3. Len(r) = Len(s) - n /\ Len(s) - (n + 1) + 1 = Len(s) - n
    BY <2>0, <2>5
  <2>4. \A k \in 1..(Len(s) - n) : (n + 1) + k - 1 = k + n
    BY <1>1
  <2> QED BY <2>2, <2>3, <2>4
<1> HIDE DEF l, r
<1>4. DOMAIN l = 1..n /\ DOMAIN r = 1..(Len(s) - n)
  BY <1>2, <1>3, LenProperties
<1>5. l \o r \in Seq(S) /\ Len(l \o r) = Len(s)
  <2>1. l \o r \in Seq(S) /\ Len(l \o r) = Len(l) + Len(r)
    BY <1>2, <1>3, ConcatProperties
  <2>2. Len(l) + Len(r) = Len(s)
    BY <1>1, <1>2, <1>3
  <2> QED BY <2>1, <2>2
<1>6. \A k \in 1..Len(s) : (l \o r)[k] = s[k]
  <2> SUFFICES ASSUME NEW k \in 1..Len(s) PROVE (l \o r)[k] = s[k]
    OBVIOUS
  <2>1. k \in 1..(Len(l) + Len(r))
    BY <1>1, <1>2, <1>3
  <2>2. (l \o r)[k] = IF k <= Len(l) THEN l[k] ELSE r[k - Len(l)]
    BY <1>2, <1>3, <2>1, ConcatProperties
  <2>3. CASE k <= n
    BY <1>1, <1>2, <2>2, <2>3
  <2>4. CASE ~(k <= n)
    <3>1. k - n \in 1..(Len(s) - n) /\ (k - n) + n = k
      BY <1>1, <2>4
    <3> QED BY <1>2, <1>3, <2>2, <2>4, <3>1
  <2> QED BY <2>3, <2>4
<1>7. l \o r = s
  <2> DEFINE lr == l \o r
  <2>1. lr \in Seq(S) /\ Len(lr) = Len(s) /\ \A k \in 1..Len(lr) : lr[k] = s[k]
    BY <1>5, <1>6
  <2> HIDE DEF lr
  <2>2. lr = s
    BY <2>1, SeqEqual
  <2> QED BY <2>2 DEF lr
<1>8. /\ \A k \in DOMAIN l : k \in DOMAIN s /\ l[k] = s[k]
      /\ \A k \in DOMAIN r : k + n \in DOMAIN s /\ r[k] = s[k + n]
  BY <1>1, <1>2, <1>3, <1>4
<1> QED BY <1>2, <1>3, <1>7, <1>8 DEF l, r, Cat

-----------------------------------------------------------------------------
\* A window that takes the first frames of some sockets and leaves the rest.
LEMMA TakeKeeps ==
  ASSUME Kept, received = <<>>, NEW takes \in [Actors -> Nat],
         \A a \in Actors : takes[a] \in 0..Len(pending[a]),
         NEW order \in Seq(Actors), IsInjective(order),
         \A a \in Actors : a \notin ToSet(order) => takes[a] = 0,
         received' = Taken(takes, order), pending' = Rest(takes),
         UNCHANGED <<steps, wire, sent>>
  PROVE  Kept'
<1>1. /\ pending \in Lists(Actors, Frames) /\ FrameTypes
      /\ wire \in Lists(Actors, Frames) /\ sent \in Lists(Actors, Frames)
      /\ OwnFrames(pending) /\ OwnFrames(wire) /\ Captures \in Seq(Frames)
      /\ InOrder(Captures \o received, pending, wire, sent)
  BY InOrderOfState, CapturedTyped DEF Kept, FrameTypes, Lists
<1> DEFINE l(a) == SubSeq(pending[a], 1, takes[a])
           r(a) == SubSeq(pending[a], takes[a] + 1, Len(pending[a]))
           heads == [a \in Actors |-> l(a)]
           rests == [a \in Actors |-> r(a)]
<1>2. ASSUME NEW a \in Actors
      PROVE  /\ l(a) \in Seq(Frames) /\ r(a) \in Seq(Frames) /\ Cat(l(a), r(a)) = pending[a]
             /\ \A k \in DOMAIN l(a) : l(a)[k].on = a
             /\ \A k \in DOMAIN r(a) : r(a)[k].on = a
             /\ takes[a] = 0 => l(a) = <<>>
  <2>1. pending[a] \in Seq(Frames) /\ takes[a] \in 0..Len(pending[a])
    BY <1>1 DEF Lists
  <2>2. \A k \in DOMAIN pending[a] : pending[a][k].on = a
    BY <1>1 DEF OwnFrames
  <2> DEFINE p == pending[a]
             n == takes[a]
             head == SubSeq(p, 1, n)
             rest == SubSeq(p, n + 1, Len(p))
  <2>3. /\ head \in Seq(Frames) /\ rest \in Seq(Frames) /\ Cat(head, rest) = p
        /\ \A k \in DOMAIN head : k \in DOMAIN p /\ head[k] = p[k]
        /\ \A k \in DOMAIN rest : k + n \in DOMAIN p /\ rest[k] = p[k + n]
    <3> HIDE DEF p, n
    <3>1. p \in Seq(Frames) /\ n \in 0..Len(p)
      BY <2>1 DEF p, n
    <3> QED BY <3>1, CutInTwo
  <2>4. n = 0 => head = <<>>
    BY SubSeqEmpty
  <2>5. head = l(a) /\ rest = r(a)
    OBVIOUS
  <2>6. /\ \A k \in DOMAIN head : head[k].on = a
        /\ \A k \in DOMAIN rest : rest[k].on = a
    <3> HIDE DEF head, rest, n
    <3> QED BY <2>2, <2>3
  <2> HIDE DEF head, rest
  <2> QED BY <2>3, <2>4, <2>5, <2>6
<1>3. heads \in Lists(Actors, Frames) /\ rests \in Lists(Actors, Frames)
  BY <1>2 DEF Lists
<1>4. OwnFrames(heads) /\ OwnFrames(rests)
  BY <1>2 DEF OwnFrames
<1>5. received' = InTurn(heads, order)
  <2>1. DOMAIN order = 1..Len(order) /\ \A k \in DOMAIN order : order[k] \in Actors
    BY LenProperties, ElementOfSeq
  <2>2. Parts(heads, order) = [k \in DOMAIN order |-> SubSeq(pending[order[k]], 1, takes[order[k]])]
    BY <2>1 DEF Parts
  <2> QED BY <2>2 DEF Taken, InTurn
<1>6. pending' = rests
  BY DEF Rest
<1>7. \A a \in Actors : heads[a] = l(a) /\ rests[a] = r(a)
  OBVIOUS
<1>8. \A a \in Actors : Cat(heads[a], rests[a]) = pending[a] /\ (a \notin ToSet(order) => heads[a] = <<>>)
  BY <1>2, <1>7
<1> HIDE DEF heads, rests
<1>9. ASSUME NEW a \in Actors PROVE Cat(On(a, InTurn(heads, order)), rests[a]) = pending[a]
  <2>1. On(a, InTurn(heads, order)) = IF a \in ToSet(order) THEN heads[a] ELSE <<>>
    <3>1. \A b \in Actors : \A n \in DOMAIN heads[b] : heads[b][n].on = b
      BY <1>4 DEF OwnFrames
    <3> QED BY <1>3, <3>1, OnInTurn
  <2> QED BY <1>8, <2>1
<1>10. InTurn(heads, order) \in Seq(Frames)
  BY <1>3, InTurnTyped
<1>11. InOrder(Captures \o InTurn(heads, order), rests, wire, sent)
  <2>1. Captures \o received = Captures
    BY <1>1, ConcatEmptySeq
  <2>2. InOrder(Captures, pending, wire, sent)
    BY <1>1, <2>1
  <2> QED BY <1>1, <1>3, <1>9, <1>10, <2>2, MoveCapture
<1>12. Captures' = Captures /\ wire' = wire /\ sent' = sent
  BY DEF Captures
<1>13. FrameTypes'
  BY <1>1, <1>3, <1>5, <1>6, <1>10 DEF FrameTypes, Lists
<1>14. InOrder(Captures' \o received', pending', wire', sent')
  BY <1>5, <1>6, <1>11, <1>12
<1> QED BY <1>1, <1>4, <1>6, <1>12, <1>13, <1>14 DEF Kept, CapturedInOrder, InOrder, Cat

\* The actors of a window are distinct, and those that give frames are in it.
LEMMA SpliceOrderHas ==
  ASSUME RunTypes, i \in 1..Len(script)
  PROVE  /\ SpliceOrder \in Seq(Actors) /\ IsInjective(SpliceOrder)
         /\ ToSet(SpliceOrder) = {Actor} \cup ToSet(Step.splice)
<1> DEFINE r == RemoveFirst(Step.splice, Actor)
<1>1. /\ r \in Seq(Actors) /\ IsInjective(r) /\ ToSet(r) = ToSet(Step.splice) \ {Actor}
      /\ Actor \in Actors
  BY StepIsDefined, RemoveOne
<1> HIDE DEF r
<1> DEFINE o == <<Actor>> \o r
<1>2. Len(r) \in Nat /\ DOMAIN r = 1..Len(r) /\ <<Actor>> \in Seq(Actors) /\ Len(<<Actor>>) = 1
      /\ <<Actor>>[1] = Actor
  BY <1>1, LenProperties
<1>3. o \in Seq(Actors) /\ Len(o) = Len(r) + 1
      /\ \A k \in 1..(Len(r) + 1) : o[k] = IF k = 1 THEN Actor ELSE r[k - 1]
  <2>1. o \in Seq(Actors) /\ Len(o) = Len(<<Actor>>) + Len(r)
        /\ \A k \in 1..(Len(<<Actor>>) + Len(r)) :
             o[k] = IF k <= Len(<<Actor>>) THEN <<Actor>>[k] ELSE r[k - Len(<<Actor>>)]
    BY <1>1, <1>2, ConcatProperties
  <2> HIDE DEF o
  <2>2. Len(o) = Len(r) + 1
    BY <1>2, <2>1
  <2>3. ASSUME NEW k \in 1..(Len(r) + 1) PROVE o[k] = IF k = 1 THEN Actor ELSE r[k - 1]
    <3>1. k \in 1..(Len(<<Actor>>) + Len(r)) /\ (k <= Len(<<Actor>>) <=> k = 1)
      BY <1>2
    <3>2. o[k] = IF k <= Len(<<Actor>>) THEN <<Actor>>[k] ELSE r[k - Len(<<Actor>>)]
      BY <2>1, <3>1
    <3> QED BY <1>2, <3>1, <3>2
  <2> QED BY <2>1, <2>2, <2>3
<1> HIDE DEF o
<1>4. DOMAIN o = 1..(Len(r) + 1)
  BY <1>3, LenProperties
<1>5. \A k \in 1..Len(r) : r[k] # Actor /\ r[k] \in ToSet(r)
  BY <1>1, <1>2 DEF ToSet
<1>6. IsInjective(o)
  <2> SUFFICES ASSUME NEW m \in 1..(Len(r) + 1), NEW n \in 1..(Len(r) + 1), o[m] = o[n]
               PROVE  m = n
    BY <1>4 DEF IsInjective
  <2>1. m # 1 => m - 1 \in 1..Len(r) /\ o[m] = r[m - 1]
    BY <1>2, <1>3
  <2>2. n # 1 => n - 1 \in 1..Len(r) /\ o[n] = r[n - 1]
    BY <1>2, <1>3
  <2>3. m = 1 => o[m] = Actor
    BY <1>3
  <2>4. n = 1 => o[n] = Actor
    BY <1>3
  <2>5. CASE m = 1 \/ n = 1
    BY <1>5, <2>1, <2>2, <2>3, <2>4, <2>5
  <2>6. CASE m # 1 /\ n # 1
    <3>1. m - 1 = n - 1
      BY <1>1, <1>2, <2>1, <2>2, <2>6 DEF IsInjective
    <3> QED BY <1>2, <3>1
  <2> QED BY <2>5, <2>6
<1>7. ToSet(o) = {Actor} \cup ToSet(r)
  <2>1. ASSUME NEW k \in 1..(Len(r) + 1) PROVE o[k] \in {Actor} \cup ToSet(r)
    <3>1. k = 1 \/ k - 1 \in 1..Len(r)
      BY <1>2
    <3> QED BY <1>3, <1>5, <3>1
  <2>2. ASSUME NEW k \in 1..Len(r) PROVE k + 1 \in DOMAIN o /\ o[k + 1] = r[k]
    <3>1. k + 1 \in 1..(Len(r) + 1) /\ k + 1 # 1 /\ (k + 1) - 1 = k
      BY <1>2
    <3> QED BY <1>3, <1>4, <3>1
  <2>3. 1 \in DOMAIN o /\ o[1] = Actor
    BY <1>2, <1>3, <1>4
  <2>4. ToSet(o) \subseteq {Actor} \cup ToSet(r)
    BY <1>4, <2>1 DEF ToSet
  <2>5. {Actor} \cup ToSet(r) \subseteq ToSet(o)
    BY <1>2, <2>2, <2>3 DEF ToSet
  <2> QED BY <2>4, <2>5
<1> QED BY <1>1, <1>3, <1>6, <1>7 DEF o, r, SpliceOrder

\* A command without a window captures what its socket has, and is sent.
LEMMA SendAndTake ==
  ASSUME Kept, received = <<>>, NEW b \in Actors,
         NEW out \in [Actors -> Seq(Frames)], OwnFrames(out), Emit(out),
         received' = pending[b], pending' = [pending EXCEPT ![b] = <<>>], UNCHANGED steps
  PROVE  Kept'
<1>1. /\ pending \in Lists(Actors, Frames) /\ FrameTypes
      /\ wire \in Lists(Actors, Frames) /\ sent \in Lists(Actors, Frames)
      /\ out \in Lists(Actors, Frames)
      /\ OwnFrames(pending) /\ OwnFrames(wire) /\ Captures \in Seq(Frames)
      /\ InOrder(Captures \o received, pending, wire, sent)
  BY InOrderOfState, CapturedTyped DEF Kept, FrameTypes, Lists
<1> DEFINE gain == pending[b]
           left == [pending EXCEPT ![b] = <<>>]
<1>2. gain \in Seq(Frames)
  BY <1>1 DEF Lists
<1>3. left \in Lists(Actors, Frames) /\ OwnFrames(left)
  BY <1>1, EmptySeq DEF Lists, OwnFrames
<1>4. ASSUME NEW a \in Actors PROVE Cat(On(a, gain), left[a]) = pending[a]
  <2>1. On(a, gain) = IF a = b THEN pending[b] ELSE <<>>
    <3>1. pending \in [Actors -> Seq(Frames)]
      BY <1>1 DEF Lists
    <3> QED BY <1>1, <3>1, OnList
  <2>2. left[a] = IF a = b THEN <<>> ELSE pending[a]
    BY <1>1 DEF Lists
  <2>3. pending[a] \in Seq(Frames)
    BY <1>1 DEF Lists
  <2>4. Cat(pending[a], <<>>) = pending[a] /\ Cat(<<>>, pending[a]) = pending[a]
    BY <2>3, CatEmpty
  <2> QED BY <2>1, <2>2, <2>4
<1>5. received' = gain /\ pending' = left
  OBVIOUS
<1> HIDE DEF gain, left
<1>6. InOrder(Captures \o gain, left, wire, sent)
  <2>1. Captures \o received = Captures
    BY <1>1, ConcatEmptySeq
  <2>2. InOrder(Captures, pending, wire, sent)
    BY <1>1, <2>1
  <2> QED BY <1>1, <1>2, <1>3, <1>4, <2>2, MoveCapture
<1>7. wire' = Behind(Open, wire, out) /\ sent' = Behind(Open, sent, out)
  BY DEF Emit, Behind
<1>8. InOrder(Captures \o gain, left, wire', sent')
  <2>1. Captures \o gain \in Seq(Frames)
    BY <1>1, <1>2, ConcatProperties
  <2> QED BY <1>1, <1>3, <1>6, <1>7, <2>1, MovePush
<1>9. Captures' = Captures
  BY DEF Captures
<1>10. /\ wire' \in [Actors -> Seq(Frames)] /\ sent' \in [Actors -> Seq(Frames)]
       /\ OwnFrames(wire')
  BY <1>1, PushTyped
<1>11. FrameTypes'
  BY <1>1, <1>2, <1>3, <1>5, <1>10 DEF FrameTypes, Lists
<1>12. InOrder(Captures' \o received', pending', wire', sent') /\ OwnFrames(pending')
  BY <1>3, <1>5, <1>8, <1>9
<1> QED BY <1>10, <1>11, <1>12 DEF Kept, CapturedInOrder, InOrder, Cat

-----------------------------------------------------------------------------
\* A window takes no more than there is, and nothing outside its splice.
LEMMA WindowTakesBound ==
  ASSUME RunTypes, FrameTypes, i \in 1..Len(script), AllMatched(pending[Actor], Step)
  PROVE  \A a \in Actors : /\ WindowTakes[a] \in 0..Len(pending[a]) /\ WindowTakes[a] \in Nat
                           /\ a \notin ToSet(SpliceOrder) => WindowTakes[a] = 0
<1>1. \A a \in Actors : pending[a] \in Seq(Frames)
  BY DEF FrameTypes
<1> SUFFICES ASSUME NEW a \in Actors
             PROVE  /\ WindowTakes[a] \in 0..Len(pending[a]) /\ WindowTakes[a] \in Nat
                    /\ a \notin ToSet(SpliceOrder) => WindowTakes[a] = 0
  OBVIOUS
<1>2. WindowTakes[a] = CASE a = Actor -> LastMatch(pending[a], Step)
                         [] a # Actor /\ a \in Open \cap ToSet(Step.splice)
                              -> LastOfAny(pending[a], Step)
                         [] OTHER -> 0
  BY DEF WindowTakes
<1>3. Len(pending[a]) \in Nat /\ 0 \in 0..Len(pending[a])
  BY <1>1, LenProperties
<1>4. LastOfAny(pending[a], Step) \in 0..Len(pending[a])
  BY <1>1, LastOfAnyBound
<1>5. a = Actor => LastMatch(pending[a], Step) \in 0..Len(pending[a])
  BY <1>1, LastMatchBound
<1>6. WindowTakes[a] \in 0..Len(pending[a])
  BY <1>2, <1>3, <1>4, <1>5
<1>7. a \notin ToSet(SpliceOrder) => a # Actor /\ a \notin ToSet(Step.splice)
  BY SpliceOrderHas
<1> QED BY <1>2, <1>3, <1>6, <1>7

\* Every step of a run keeps the frames.
LEMMA ClosedWindowKeeps ==
  ASSUME RunTypes, Kept, NEW found, NEW empty, CloseWindow(found, empty)
  PROVE  Kept'
<1>1. /\ received = <<>> /\ i \in 1..Len(script)
      /\ AllMatched(pending[Actor], Step)
      /\ received' = Taken(WindowTakes, SpliceOrder) /\ pending' = Rest(WindowTakes)
      /\ UNCHANGED <<steps, wire, sent>>
  BY Positions DEF CloseWindow, RunTypes
<1>2. \A a \in Actors : /\ WindowTakes[a] \in 0..Len(pending[a]) /\ WindowTakes[a] \in Nat
                        /\ a \notin ToSet(SpliceOrder) => WindowTakes[a] = 0
  BY <1>1, WindowTakesBound DEF Kept
<1>3. WindowTakes \in [Actors -> Nat]
  BY <1>2 DEF WindowTakes
<1> QED BY <1>1, <1>2, <1>3, SpliceOrderHas, TakeKeeps

LEMMA TimeoutKeeps ==
  ASSUME RunTypes, Kept, Timeout
  PROVE  Kept'
<1>1. /\ received = <<>> /\ i \in 1..Len(script) /\ Actor \in Actors
      /\ received' = Taken(TimeoutTakes, SpliceOrder) /\ pending' = Rest(TimeoutTakes)
      /\ UNCHANGED <<steps, wire, sent>>
  BY Positions, StepIsDefined DEF Timeout, SettleWith, RunTypes
<1>2. \A a \in Actors : pending[a] \in Seq(Frames)
  BY DEF Kept, FrameTypes
<1>3. ASSUME NEW a \in Actors
      PROVE  /\ TimeoutTakes[a] \in 0..Len(pending[a]) /\ TimeoutTakes[a] \in Nat
             /\ a \notin ToSet(SpliceOrder) => TimeoutTakes[a] = 0
  <2>1. TimeoutTakes[a] = IF a \in {Actor} \cup (Open \cap ToSet(Step.splice))
                          THEN Len(pending[a]) ELSE 0
    BY DEF TimeoutTakes
  <2>2. Len(pending[a]) \in Nat /\ 0 \in 0..Len(pending[a]) /\ Len(pending[a]) \in 0..Len(pending[a])
    BY <1>2, LenProperties
  <2>6. a \notin ToSet(SpliceOrder) => a # Actor /\ a \notin ToSet(Step.splice)
    BY <1>1, SpliceOrderHas
  <2> QED BY <2>1, <2>2, <2>6
<1>4. TimeoutTakes \in [Actors -> Nat]
  BY <1>3 DEF TimeoutTakes
<1> QED BY <1>1, <1>3, <1>4, SpliceOrderHas, TakeKeeps

LEMMA ConnectKeeps ==
  ASSUME RunTypes, Kept, ConnectStart \/ ConnectAccepted \/ ConnectRefused
  PROVE  Kept'
<1>1. /\ received = <<>> /\ i \in 1..Len(script) /\ Actor \in Actors
      /\ sockets \in Seq(Actors) /\ IsInjective(sockets)
  BY Positions, StepIsDefined DEF ConnectStart, Starts, ConnectAccepted, ConnectRefused, RunTypes
<1>2. {"missing var", "refused"} \subseteq Errors
  BY DEF Errors
<1>3. CASE ConnectStart
  <2>1. CASE MissingVar
    <3>1. EndStep(<<>>, "missing var", sockets, pending) /\ wire' = wire /\ sent' = sent
      BY <1>3, <2>1 DEF ConnectStart
    <3> QED BY <1>1, <1>2, <3>1, EndUnmoved
  <2>2. CASE ~MissingVar
    <3>1. UNCHANGED <<pending, received, steps, wire, sent>>
      BY <1>3, <2>2 DEF ConnectStart
    <3> QED BY <3>1, NoFrameMoves
  <2> QED BY <2>1, <2>2
<1>4. CASE ConnectAccepted
  <2>1. WithSocket(Actor) \in Seq(Actors) /\ IsInjective(WithSocket(Actor))
    BY <1>1, AddOne DEF WithSocket, Open
  <2>2. /\ EndStep(<<>>, None, WithSocket(Actor), [pending EXCEPT ![Actor] = <<>>])
        /\ wire' = [wire EXCEPT ![Actor] = <<>>]
        /\ sent' = [sent EXCEPT ![Actor] =
                      SubSeq(sent[Actor], 1, Len(sent[Actor]) - Len(wire[Actor]) - Len(pending[Actor]))]
    BY <1>4 DEF ConnectAccepted
  <2> QED BY <1>1, <2>1, <2>2, EndForgets
<1>5. CASE ConnectRefused
  <2>1. EndStep(<<>>, "refused", sockets, pending) /\ wire' = wire /\ sent' = sent
    BY <1>5 DEF ConnectRefused
  <2> QED BY <1>1, <1>2, <2>1, EndUnmoved
<1> QED BY <1>3, <1>4, <1>5

LEMMA CloseKeeps ==
  ASSUME RunTypes, Kept, CloseStep
  PROVE  Kept'
<1>1. /\ received = <<>> /\ i \in 1..Len(script) /\ Actor \in Actors
      /\ sockets \in Seq(Actors) /\ IsInjective(sockets)
  BY Positions, StepIsDefined DEF CloseStep, Starts, RunTypes
<1>2. CASE Actor \in Open
  <2>1. RemoveFirst(sockets, Actor) \in Seq(Actors) /\ IsInjective(RemoveFirst(sockets, Actor))
    BY <1>1, RemoveOne
  <2>2. /\ EndStep(<<>>, None, RemoveFirst(sockets, Actor), [pending EXCEPT ![Actor] = <<>>])
        /\ wire' = [wire EXCEPT ![Actor] = <<>>]
        /\ sent' = [sent EXCEPT ![Actor] =
                      SubSeq(sent[Actor], 1, Len(sent[Actor]) - Len(wire[Actor]) - Len(pending[Actor]))]
    BY <1>2 DEF CloseStep
  <2> QED BY <1>1, <2>1, <2>2, EndForgets
<1>3. CASE Actor \notin Open
  <2>1. EndStep(<<>>, "no open socket", sockets, pending) /\ wire' = wire /\ sent' = sent
    BY <1>3 DEF CloseStep
  <2>2. "no open socket" \in Errors
    BY DEF Errors
  <2> QED BY <1>1, <2>1, <2>2, EndUnmoved
<1> QED BY <1>2, <1>3

LEMMA SendKeeps ==
  ASSUME RunTypes, Kept, CommandStart(Pushed) \/ EventStart(Pushed)
  PROVE  Kept'
<1>1. /\ received = <<>> /\ i \in 1..Len(script) /\ Actor \in Actors
      /\ Pushed \in [Actors -> Seq(Frames)] /\ OwnFrames(Pushed)
  <2>1. phase = "step"
    BY DEF CommandStart, EventStart, Starts
  <2>2. received = <<>> /\ i \in 1..Len(script)
    BY <2>1, Positions DEF RunTypes
  <2> QED BY <2>2, StepIsDefined, PushedNow
<1> HIDE DEF Pushed
<1> DEFINE out == Pushed
<1> HIDE DEF out
<1>2. out \in [Actors -> Seq(Frames)] /\ OwnFrames(out)
  BY <1>1 DEF out
<1>3. ASSUME CommandStart(out) PROVE Kept'
  <2>1. CASE NoOpenSocket \/ MissingVar
    <3>1. UNCHANGED <<pending, received, steps, wire, sent>>
      BY <1>3, <2>1 DEF CommandStart
    <3> QED BY <3>1, NoFrameMoves
  <2>2. CASE ~(NoOpenSocket \/ MissingVar) /\ Step.wait = None
    <3>1. /\ Emit(out) /\ received' = pending[Actor]
          /\ pending' = [pending EXCEPT ![Actor] = <<>>] /\ UNCHANGED steps
      BY <1>3, <2>2 DEF CommandStart
    <3> QED BY <1>1, <1>2, <3>1, SendAndTake
  <2>3. CASE ~(NoOpenSocket \/ MissingVar) /\ Step.wait # None
    <3>1. Emit(out) /\ UNCHANGED <<pending, received, steps>>
      BY <1>3, <2>3 DEF CommandStart
    <3> QED BY <1>2, <3>1, PushMore
  <2> QED BY <2>1, <2>2, <2>3
<1>4. ASSUME EventStart(out) PROVE Kept'
  <2>1. CASE NoOpenSocket
    <3>1. UNCHANGED <<pending, received, steps, wire, sent>>
      BY <1>4, <2>1 DEF EventStart
    <3> QED BY <3>1, NoFrameMoves
  <2>2. CASE ~NoOpenSocket
    <3>1. Emit(out) /\ UNCHANGED <<pending, received, steps>>
      BY <1>4, <2>2 DEF EventStart
    <3> QED BY <1>2, <3>1, PushMore
  <2> QED BY <2>1, <2>2
<1> QED BY <1>3, <1>4 DEF out

LEMMA AnswerKeeps ==
  ASSUME RunTypes, Kept, NEW good, NEW found, NEW empty, HttpAnswer(good, found, empty, Pushed)
  PROVE  Kept'
<1>1. i \in 1..Len(script)
  BY Positions DEF HttpAnswer
<1>2. Pushed \in [Actors -> Seq(Frames)] /\ OwnFrames(Pushed)
  BY <1>1, PushedNow
<1>3. Emit(Pushed) /\ UNCHANGED <<pending, received, steps>>
  BY DEF HttpAnswer
<1> QED BY <1>2, <1>3, PushMore

\* No step moves a frame out of its order.
LEMMA FramesStep ==
  ASSUME RunTypes, Kept, [SuiteNext]_runnerVars
  PROVE  Kept'
<1>1. ASSUME NEW a \in Actors, Arrive(a) PROVE Kept'
  BY <1>1, ReadOne
<1>2. CASE HttpStart \/ BeginReadFails \/ EndReadFails \/ HttpTransportError \/ WaitStep
  <2>1. UNCHANGED <<pending, received, steps, wire, sent>>
    BY <1>2 DEF HttpStart, BeginReadFails, EndReadFails, HttpTransportError, WaitStep
  <2> QED BY <2>1, NoFrameMoves
<1>3. CASE ConnectStart \/ ConnectAccepted \/ ConnectRefused
  BY <1>3, ConnectKeeps
<1>4. CASE Timeout
  BY <1>4, TimeoutKeeps
<1>5. CASE CloseStep
  BY <1>5, CloseKeeps
<1>6. CASE Settle
  <2>1. /\ sockets \in Seq(Actors) /\ IsInjective(sockets) /\ error \in Errors
        /\ EndStep(received, error, sockets, pending) /\ wire' = wire /\ sent' = sent
    BY <1>6 DEF Settle, RunTypes
  <2> QED BY <2>1, EndUnmoved
<1>7. CASE FinalDrain
  <2>1. received = <<>> /\ sockets \in Seq(Actors) /\ IsInjective(sockets)
    BY <1>7 DEF FinalDrain, RunTypes
  <2> QED BY <1>7, <2>1, FinalKeeps
<1>8. ASSUME NEW good, NEW found, NEW empty, HttpAnswer(good, found, empty, Pushed) PROVE Kept'
  BY <1>8, AnswerKeeps
<1>9. CASE CommandStart(Pushed) \/ EventStart(Pushed)
  BY <1>9, SendKeeps
<1>10. ASSUME NEW found, NEW empty, CloseWindow(found, empty) PROVE Kept'
  BY <1>10, ClosedWindowKeeps
<1>11. CASE UNCHANGED runnerVars
  BY <1>11, NoFrameMoves DEF runnerVars
<1> QED BY <1>1, <1>2, <1>3, <1>4, <1>5, <1>6, <1>7, <1>8, <1>9, <1>10, <1>11
        DEF SuiteNext, RunnerInternal, Target, Done

-----------------------------------------------------------------------------
(* The control of a run, the variables it sets and those it misses.        *)
LEMMA StepsGrow ==
  ASSUME RunTypes, FrameTypes, phase # "done", NEW r \in Records, steps' = Append(steps, r)
  PROVE  /\ Len(steps) = i - 1 /\ Len(steps') = i /\ steps'[i] = r
         /\ \A m \in 1..(i - 1) : steps'[m] = steps[m]
<1>1. steps \in Seq(Records) /\ Len(steps) = i - 1 /\ i \in Nat
  BY Positions DEF RunTypes, FrameTypes
<1>2. /\ Len(steps') = Len(steps) + 1
      /\ \A m \in 1..Len(steps) : steps'[m] = steps[m]
      /\ steps'[Len(steps) + 1] = r
  BY <1>1, AppendProperties
<1>3. Len(steps) + 1 = i
  BY <1>1
<1> QED BY <1>1, <1>2, <1>3

\* What a step leaves is a record.
LEMMA EndRecords ==
  ASSUME FrameTypes, NEW frames \in Seq(Frames), NEW err \in Errors,
         NEW socks \in Seq(Actors), IsInjective(socks),
         NEW pend \in Lists(Actors, Frames), OwnFrames(pend)
  PROVE  [received |-> frames \o Drained(socks, pend), error |-> err] \in Records
<1>1. Drained(socks, pend) \in Seq(Frames)
  BY DrainTakes
<1>2. frames \o Drained(socks, pend) \in Seq(Frames)
  BY <1>1, ConcatProperties
<1> QED BY <1>2 DEF Records

\* A step that ends moves the run to the next.
LEMMA EndTypes ==
  ASSUME RunTypes, FrameTypes, i \in 1..Len(script), UNCHANGED theScenario,
         NEW frames \in Seq(Frames), NEW err \in Errors,
         NEW socks \in Seq(Actors), IsInjective(socks),
         NEW pend \in Lists(Actors, Frames), OwnFrames(pend), EndStep(frames, err, socks, pend)
  PROVE  /\ RunTypes'
         /\ i' = i + 1 /\ phase' # "settle" /\ steps'[i].error = err
         /\ \A m \in 1..(i - 1) : steps'[m] = steps[m]
<1> DEFINE r == [received |-> frames \o Drained(socks, pend), error |-> err]
<1>1. r \in Records /\ r.error = err
  BY EndRecords
<1>2. /\ steps' = Append(steps, r) /\ sockets' = socks /\ received' = <<>> /\ error' = None
      /\ i' = i + 1 /\ phase' = IF i < Len(script) THEN "step" ELSE "final"
      /\ script' = script /\ scenario' = scenario
  BY DEF EndStep, theScenario
<1> HIDE DEF r
<1>3. phase # "done"
  BY Positions DEF RunTypes
<1>4. /\ Len(steps) = i - 1 /\ Len(steps') = i /\ steps'[i] = r
      /\ \A m \in 1..(i - 1) : steps'[m] = steps[m]
  BY <1>1, <1>2, <1>3, StepsGrow
<1>5. Len(script) \in Nat /\ i \in Nat
  BY Positions
<1>6. i' \in 1..(Len(script) + 1) /\ (phase' \in {"final", "done"} <=> i' = Len(script) + 1)
  BY <1>2, <1>5
<1>7. Len(steps') >= i' - 1 /\ Len(steps') = i' - 1
  BY <1>2, <1>4, <1>5
<1>8. /\ phase' \in {"step", "final"} /\ phase' # "settle"
      /\ error' \in Errors
  BY <1>2 DEF Errors
<1>9. RunTypes'
  BY <1>2, <1>6, <1>7, <1>8 DEF RunTypes
<1> QED BY <1>1, <1>2, <1>4, <1>8, <1>9

\* A step that goes on stays where it is.
LEMMA QuietTypes ==
  ASSUME RunTypes, UNCHANGED <<theScenario, i, sockets, steps>>,
         phase \notin {"final", "done"},
         phase' \in {"step", "http", "connect", "window", "settle"},
         phase' = "http" => Step.kind = "http",
         phase' = "connect" => Step.kind = "ws.connect",
         phase' = "window" => Step.kind \in {"ws.command", "ws.event"},
         error' \in Errors, phase' # "settle" => error' = None /\ received' = <<>>
  PROVE  RunTypes'
<1>1. /\ script' = script /\ scenario' = scenario /\ i' = i /\ sockets' = sockets /\ steps' = steps
  BY DEF theScenario
<1>2. Step' = Step
  BY <1>1 DEF Step
<1> QED BY <1>1, <1>2 DEF RunTypes

\* A variable that is missing has a step that did not set it.
LEMMA MissIsExplained ==
  ASSUME RunTypes, VariablesSet, NullsHeld, phase # "settle", i \in 1..Len(script), MissingVar
  PROVE  Explained(i)
<1>1. PICK v \in script[i].uses : v \notin DOMAIN vars \/ <<vars[v], v>> \in nulls
  BY DEF MissingVar, Usable, Step
<1>2. CASE <<vars[v], v>> \in nulls
  <2>1. vars[v] \in 1..i /\ vars[v] # i /\ v \in ToSet(script[vars[v]].caps)
    BY <1>2 DEF NullsHeld
  <2>2. i \in Nat
    BY Positions
  <2>3. vars[v] \in 1..(i - 1)
    BY <2>1, <2>2
  <2>4. vars[v] \in Providers(i)
    BY <1>1, <2>1, <2>3 DEF Providers
  <2> QED BY <1>1, <1>2, <2>4 DEF Explained
<1>3. CASE v \notin DOMAIN vars
  <2>1. PICK m \in 1..(i - 1) : Sets(script[m], v)
    <3>1. scenario \in DOMAIN Scripts /\ i \in DOMAIN Scripts[scenario] /\ script = Scripts[scenario]
      BY Positions DEF RunTypes
    <3> QED BY <1>1, <3>1, VariablesAreSet
  <2>2. m \in Providers(i)
    BY <1>1, <2>1 DEF Providers, Sets
  <2>3. CASE script[m].kind = "http" /\ v \in ToSet(script[m].caps)
    <3>1. steps[m].error # None
      BY <1>3, <2>3 DEF VariablesSet
    <3> QED BY <2>2, <3>1 DEF Explained
  <2>4. CASE script[m].kind = "ws.command"
    BY <2>2, <2>4 DEF Explained
  <2> QED BY <2>1, <2>3, <2>4 DEF Sets
<1> QED BY <1>1, <1>2, <1>3

\* An explanation is about steps that are over.
LEMMA StillExplained ==
  ASSUME NEW n \in Nat, script' = script,
         \A m \in 1..(n - 1) : steps'[m] = steps[m] /\ m # i, NullsStay, Explained(n)
  PROVE  Explained(n)'
<1>1. PICK m \in Providers(n) : \/ steps[m].error # None
                                \/ script[m].kind = "ws.command"
                                \/ \E v \in script[n].uses : <<m, v>> \in nulls
  BY DEF Explained
<1>2. steps'[m] = steps[m] /\ m # i
  BY DEF Providers
<1>3. m \in Providers(n)'
  BY DEF Providers
<1>4. \A v : <<m, v>> \in nulls => <<m, v>> \in nulls'
  BY <1>2 DEF NullsStay
<1> QED BY <1>1, <1>2, <1>3, <1>4 DEF Explained

LEMMA Places ==
  ASSUME NEW n \in Nat
  PROVE  /\ (n + 1) - 1 = n
         /\ \A m \in 1..n : m \in Nat /\ m <= n /\ (m \in 1..(n - 1) \/ m = n)
         /\ \A m \in 1..(n - 1) : m \in Nat /\ m <= n
         /\ n > 1 => n - 1 \in 1..(n - 1)
OBVIOUS

LEMMA Within ==
  ASSUME NEW n \in Nat, NEW m \in Nat, m <= n
  PROVE  \A k \in 1..(m - 1) : k \in 1..(n - 1) /\ k # n
OBVIOUS

\* What a step that ends owes the later ones.
LEMMA EndVars ==
  ASSUME RunTypes, VariablesSet, MissesExplained, i \in 1..Len(script), script' = script,
         i' = i + 1, phase' # "settle", \A m \in 1..(i - 1) : steps'[m] = steps[m], NullsStay,
         DOMAIN vars \subseteq DOMAIN vars',
         Step.kind = "http" /\ steps'[i].error = None => ToSet(Step.caps) \subseteq DOMAIN vars,
         steps'[i].error = "missing var" => Explained(i)
  PROVE  VariablesSet' /\ MissesExplained'
<1>0. i \in Nat
  BY Positions
<1>1. \A m \in 1..(i' - 1) : m \in Nat /\ m <= i /\ (m \in 1..(i - 1) \/ m = i)
  <2>1. i' - 1 = i
    BY <1>0, Places
  <2>2. \A m \in 1..i : m \in Nat /\ m <= i /\ (m \in 1..(i - 1) \/ m = i)
    BY <1>0, Places
  <2> QED BY <2>1, <2>2
<1>2. VariablesSet'
  <2> SUFFICES ASSUME NEW m \in 1..(i' - 1), script[m].kind = "http", steps'[m].error = None
               PROVE  ToSet(script[m].caps) \subseteq DOMAIN vars'
    BY DEF VariablesSet
  <2>1. CASE m \in 1..(i - 1)
    BY <2>1 DEF VariablesSet
  <2>2. CASE m = i
    BY <2>2 DEF Step
  <2> QED BY <1>1, <2>1, <2>2
<1>3. MissesExplained'
  <2> SUFFICES ASSUME NEW m \in 1..(i' - 1), steps'[m].error = "missing var"
               PROVE  Explained(m)'
    BY DEF MissesExplained
  <2>1. m \in Nat /\ m <= i /\ (m \in 1..(i - 1) \/ m = i)
    BY <1>1
  <2>2. Explained(m)
    <3>1. CASE m \in 1..(i - 1)
      BY <3>1 DEF MissesExplained
    <3>2. CASE m = i
      BY <3>2
    <3> QED BY <2>1, <3>1, <3>2
  <2>3. \A n \in 1..(m - 1) : steps'[n] = steps[n] /\ n # i
    <3>1. \A n \in 1..(m - 1) : n \in 1..(i - 1) /\ n # i
      BY <1>0, <2>1, Within
    <3> QED BY <3>1
  <2> QED BY <2>1, <2>2, <2>3, StillExplained
<1> QED BY <1>2, <1>3

\* The step goes on.
LEMMA QuietVars ==
  ASSUME RunTypes, VariablesSet, MissesExplained, script' = script, i' = i,
         \A m \in 1..(i - 1) : steps'[m] = steps[m], NullsStay,
         DOMAIN vars \subseteq DOMAIN vars',
         phase' = "settle" /\ Step.kind = "http" /\ error' = None
           => ToSet(Step.caps) \subseteq DOMAIN vars',
         phase' = "settle" /\ error' = "missing var" => Explained(i)
  PROVE  VariablesSet' /\ MissesExplained'
<1>1. i \in Nat /\ Step' = Step
  BY Positions DEF Step
<1>2. VariablesSet'
  <2>1. \A m \in 1..(i - 1) : script[m].kind = "http" /\ steps'[m].error = None
                                => ToSet(script[m].caps) \subseteq DOMAIN vars'
    BY DEF VariablesSet
  <2> QED BY <1>1, <2>1 DEF VariablesSet
<1>3. MissesExplained'
  <2>1. ASSUME NEW m \in 1..(i - 1), steps'[m].error = "missing var" PROVE Explained(m)'
    <3>2. m \in Nat /\ m <= i
      BY <1>1, Places
    <3>0. m \in Nat /\ \A n \in 1..(m - 1) : n \in 1..(i - 1) /\ n # i
      BY <1>1, <3>2, Within
    <3>1. m \in Nat /\ \A n \in 1..(m - 1) : steps'[n] = steps[n] /\ n # i
      BY <3>0
    <3>3. Explained(m)
      BY <2>1 DEF MissesExplained
    <3> QED BY <3>1, <3>3, StillExplained
  <2>2. phase' = "settle" /\ error' = "missing var" => Explained(i)'
    <3>1. \A n \in 1..(i - 1) : n # i
      <4>1. i \in Nat
        BY <1>1, Zenon
      <4>2. i <= i /\ \A n \in 1..(i - 1) : n # i
        BY ONLY <4>1
      <4> QED BY <4>2
    <3>2. \A n \in 1..(i - 1) : steps'[n] = steps[n] /\ n # i
      BY <3>1
    <3> QED BY <1>1, <3>2, StillExplained
  <2> QED BY <2>1, <2>2 DEF MissesExplained
<1> QED BY <1>2, <1>3

\* When all pointers are found, all are captured.
LEMMA AllCaptured ==
  ASSUME NEW caps \in Seq(STRING), Step.caps = caps, NEW found, ToSet(caps) \subseteq found
  PROVE  FoundPrefix(found) = ToSet(caps)
<1>1. Len(caps) \in Nat /\ DOMAIN caps = 1..Len(caps)
  BY LenProperties
<1>2. ToSet(caps) = {caps[k] : k \in 1..Len(caps)}
  BY <1>1 DEF ToSet
<1> DEFINE P(n) == (\A k \in 1..n : caps[k] \in found) /\ (n < Len(caps) => caps[n + 1] \notin found)
           c == CHOOSE n \in 0..Len(caps) : P(n)
<1>3. Len(caps) \in 0..Len(caps) /\ P(Len(caps))
  BY <1>1, <1>2
<1>4. ASSUME NEW n \in 0..Len(caps), P(n) PROVE n = Len(caps)
  <2>0. n \in Nat /\ n <= Len(caps) /\ Len(caps) \in Nat
    BY <1>1
  <2>1. SUFFICES ASSUME n < Len(caps) PROVE FALSE
    BY <2>0
  <2>2. n + 1 \in 1..Len(caps)
    BY <1>1, <2>1
  <2>3. caps[n + 1] \in ToSet(caps)
    BY <1>2, <2>2
  <2> QED BY <1>4, <2>1, <2>3
<1>5. c = Len(caps)
  <2>1. c \in 0..Len(caps) /\ P(c)
    BY <1>3
  <2> QED BY <1>4, <2>1
<1>6. FoundPrefix(found) = {caps[k] : k \in 1..c}
  BY DEF FoundPrefix
<1> QED BY <1>2, <1>5, <1>6

LEMMA VarsStay ==
  ASSUME NEW names
  PROVE  DOMAIN vars \subseteq DOMAIN Captured(names) /\ names \subseteq DOMAIN Captured(names)
BY DEF Captured

-----------------------------------------------------------------------------
(* Every step of a run keeps the control.                                  *)
\* A step in progress that sets nothing.
LEMMA GoesOn ==
  ASSUME Control, NullsStay, UNCHANGED <<theScenario, i, sockets, steps>>,
         phase \notin {"final", "done"},
         phase' \in {"step", "http", "connect", "window", "settle"},
         phase' = "http" => Step.kind = "http",
         phase' = "connect" => Step.kind = "ws.connect",
         phase' = "window" => Step.kind \in {"ws.command", "ws.event"},
         error' \in Errors, phase' # "settle" => error' = None /\ received' = <<>>,
         DOMAIN vars \subseteq DOMAIN vars',
         phase' = "settle" /\ Step.kind = "http" /\ error' = None
           => ToSet(Step.caps) \subseteq DOMAIN vars',
         phase' = "settle" /\ error' = "missing var" => Explained(i)
  PROVE  Control'
<1>1. RunTypes /\ VariablesSet /\ MissesExplained
  BY DEF Control
<1>2. RunTypes'
  BY <1>1, QuietTypes
<1>3. script' = script /\ i' = i /\ \A m \in 1..(i - 1) : steps'[m] = steps[m]
  BY DEF theScenario
<1>4. VariablesSet' /\ MissesExplained'
  BY <1>1, <1>3, QuietVars
<1> QED BY <1>2, <1>4 DEF Control

\* A step that ends, in the phase it ends in.
LEMMA Ends ==
  ASSUME Control, NullsStay, FrameTypes, i \in 1..Len(script), UNCHANGED theScenario,
         NEW frames \in Seq(Frames), NEW err \in Errors,
         NEW socks \in Seq(Actors), IsInjective(socks),
         NEW pend \in Lists(Actors, Frames), OwnFrames(pend), EndStep(frames, err, socks, pend),
         Step.kind = "http" /\ err = None => ToSet(Step.caps) \subseteq DOMAIN vars,
         err = "missing var" => Explained(i)
  PROVE  Control'
<1>1. RunTypes /\ VariablesSet /\ MissesExplained
  BY DEF Control
<1>2. /\ RunTypes'
      /\ i' = i + 1 /\ phase' # "settle" /\ steps'[i].error = err
      /\ \A m \in 1..(i - 1) : steps'[m] = steps[m]
  BY <1>1, EndTypes
<1>3. DOMAIN vars \subseteq DOMAIN vars'
  BY VarsStay DEF EndStep
<1>4. script' = script
  BY DEF theScenario
<1>5. VariablesSet' /\ MissesExplained'
  <2>1. Step.kind = "http" /\ steps'[i].error = None => ToSet(Step.caps) \subseteq DOMAIN vars
    BY <1>2
  <2>2. steps'[i].error = "missing var" => Explained(i)
    BY <1>2
  <2> QED BY <1>1, <1>2, <1>3, <1>4, <2>1, <2>2, EndVars
<1> QED BY <1>2, <1>5 DEF Control

\* A step that lacks a variable can name the step that owes it.
LEMMA Lacks ==
  ASSUME Control, NullsHeld, phase # "settle", i \in 1..Len(script), MissingVar
  PROVE  Explained(i)
BY MissIsExplained DEF Control

\* What is known of a step in progress.
LEMMA InProgress ==
  ASSUME Control, phase \notin {"final", "done"}
  PROVE  /\ RunTypes /\ i \in 1..Len(script) /\ Step \in StepDefs /\ Actor \in Actors
         /\ phase # "settle" => error = None /\ received = <<>>
         /\ error \in Errors /\ sockets \in Seq(Actors) /\ IsInjective(sockets)
         /\ phase = "http" => Step.kind = "http"
         /\ phase = "connect" => Step.kind = "ws.connect"
         /\ phase = "window" => Step.kind \in {"ws.command", "ws.event"}
<1>1. RunTypes
  BY DEF Control
<1>2. i \in 1..Len(script)
  BY <1>1, Positions
<1>3. /\ phase # "settle" => error = None /\ received = <<>>
      /\ error \in Errors /\ sockets \in Seq(Actors) /\ IsInjective(sockets)
      /\ phase = "http" => Step.kind = "http"
      /\ phase = "connect" => Step.kind = "ws.connect"
      /\ phase = "window" => Step.kind \in {"ws.command", "ws.event"}
  BY <1>1 DEF RunTypes
<1> QED BY <1>1, <1>2, <1>3, StepIsDefined

LEMMA HttpControl ==
  ASSUME Control, NullsHeld, NullsStay,
         HttpStart \/ BeginReadFails \/ EndReadFails \/ HttpTransportError \/ WaitStep
  PROVE  Control'
<1>1. phase \in {"step", "http", "settle"} /\ phase \notin {"final", "done"}
  BY DEF HttpStart, BeginReadFails, EndReadFails, HttpTransportError, WaitStep, Starts
<1>2. i \in 1..Len(script) /\ (phase # "settle" => error = None /\ received = <<>>)
  BY <1>1, InProgress
<1>3. DOMAIN vars \subseteq DOMAIN vars' /\ UNCHANGED <<theScenario, i, sockets, steps, received>>
  BY DEF HttpStart, BeginReadFails, EndReadFails, HttpTransportError, WaitStep
<1>4. {"missing var", "probe", "transport error", None} \subseteq Errors
      /\ "probe" # None /\ "transport error" # None /\ "missing var" # None
      /\ "probe" # "missing var" /\ "transport error" # "missing var"
  BY DEF Errors, None
<1>5. CASE HttpStart
  <2>1. CASE MissingVar
    <3>1. phase' = "settle" /\ error' = "missing var"
      BY <1>5, <2>1 DEF HttpStart, SettleWith
    <3>2. Explained(i)
      <4>1. phase = "step"
        BY <1>5 DEF HttpStart, Starts
      <4> QED BY <1>2, <2>1, <4>1, Lacks
    <3> QED BY <1>1, <1>3, <1>4, <3>1, <3>2, GoesOn
  <2>2. CASE ~MissingVar
    <3>1. phase' = "http" /\ error' = None /\ received' = <<>> /\ Step.kind = "http"
      <4>1. phase = "step" /\ phase' = "http" /\ error' = error /\ received' = received
            /\ Step.kind = "http"
        BY <1>5, <2>2 DEF HttpStart, Starts
      <4> QED BY <1>2, <4>1
    <3> QED BY <1>1, <1>3, <1>4, <3>1, GoesOn
  <2> QED BY <2>1, <2>2
<1>6. CASE BeginReadFails \/ EndReadFails
  <2>1. phase' = "settle" /\ error' = "probe"
    BY <1>6 DEF BeginReadFails, EndReadFails, SettleWith
  <2> QED BY <1>1, <1>3, <1>4, <2>1, GoesOn
<1>7. CASE HttpTransportError
  <2>1. phase' = "settle" /\ error' = "transport error"
    BY <1>7 DEF HttpTransportError, SettleWith
  <2> QED BY <1>1, <1>3, <1>4, <2>1, GoesOn
<1>8. CASE WaitStep
  <2>1. phase = "step" /\ phase' = "settle" /\ error' = error /\ Step.kind = "wait"
    BY <1>8 DEF WaitStep, Starts
  <2>2. error' = None
    BY <1>2, <2>1
  <2> QED BY <1>1, <1>3, <1>4, <2>1, <2>2, GoesOn
<1> QED BY <1>5, <1>6, <1>7, <1>8

LEMMA AnswerControl ==
  ASSUME Control, NullsStay, NEW good, NEW found, NEW empty, NEW out,
         HttpAnswer(good, found, empty, out)
  PROVE  Control'
<1>1. phase = "http" /\ phase \notin {"final", "done"}
  BY DEF HttpAnswer
<1>2. Step \in StepDefs /\ Step.kind = "http" /\ error = None /\ received = <<>>
  BY <1>1, InProgress
<1>3. UNCHANGED <<theScenario, i, sockets, steps, received>>
  BY DEF HttpAnswer
<1>4. {"retryUntil", "capture", None} \subseteq Errors
      /\ "retryUntil" # None /\ "capture" # None /\ "missing var" # None
      /\ "retryUntil" # "missing var" /\ "capture" # "missing var"
  BY DEF Errors, None
<1>5. CASE phase' = "http" /\ UNCHANGED <<vars, error>>
  BY <1>1, <1>2, <1>3, <1>4, <1>5, GoesOn
<1>6. CASE SettleWith("retryUntil") /\ UNCHANGED vars
  <2>1. phase' = "settle" /\ error' = "retryUntil" /\ vars' = vars
    BY <1>6 DEF SettleWith
  <2> QED BY <1>1, <1>3, <1>4, <2>1, GoesOn
<1>7. CASE /\ vars' = Captured(FoundPrefix(found))
           /\ SettleWith(IF ToSet(Step.caps) \subseteq found THEN None ELSE "capture")
  <2>1. DOMAIN vars \subseteq DOMAIN vars' /\ FoundPrefix(found) \subseteq DOMAIN vars'
    BY <1>7, VarsStay
  <2>2. phase' = "settle" /\ error' = IF ToSet(Step.caps) \subseteq found THEN None ELSE "capture"
    BY <1>7 DEF SettleWith
  <2>3. error' = None => ToSet(Step.caps) \subseteq DOMAIN vars'
    <3>1. SUFFICES ASSUME ToSet(Step.caps) \subseteq found
                   PROVE  ToSet(Step.caps) \subseteq DOMAIN vars'
      BY <1>4, <2>2
    <3>2. Step.caps \in Seq(STRING)
      BY <1>2 DEF StepDefs
    <3>3. FoundPrefix(found) = ToSet(Step.caps)
      BY <3>1, <3>2, AllCaptured
    <3> QED BY <2>1, <3>3
  <2>4. error' \in Errors /\ error' # "missing var"
    BY <1>4, <2>2
  <2> QED BY <1>1, <1>3, <2>1, <2>2, <2>3, <2>4, GoesOn
<1> QED BY <1>1, <1>5, <1>6, <1>7 DEF HttpAnswer

LEMMA SendControl ==
  ASSUME Control, NullsHeld, NullsStay, NEW out, CommandStart(out) \/ EventStart(out)
  PROVE  Control'
<1>1. phase = "step" /\ phase \notin {"final", "done"}
      /\ Step.kind \in {"ws.command", "ws.event"} /\ Step.kind # "http"
  BY DEF CommandStart, EventStart, Starts
<1>2. i \in 1..Len(script) /\ error = None /\ received = <<>>
  BY <1>1, InProgress
<1>3. UNCHANGED <<theScenario, i, sockets, steps, vars>>
  BY DEF CommandStart, EventStart
<1>4. {"missing var", "no open socket", None} \subseteq Errors
      /\ "no open socket" # "missing var" /\ None # "missing var"
  BY DEF Errors, None
<1>5. CASE phase' = "window" /\ UNCHANGED <<error, received>>
  BY <1>1, <1>2, <1>3, <1>4, <1>5, GoesOn
<1>6. CASE phase' = "settle" /\ error' \in {"no open socket", None}
  BY <1>1, <1>3, <1>4, <1>6, GoesOn
<1>7. CASE phase' = "settle" /\ error' = "missing var" /\ MissingVar
  <2>1. Explained(i)
    BY <1>1, <1>2, <1>7, Lacks
  <2> QED BY <1>1, <1>3, <1>4, <1>7, <2>1, GoesOn
<1>8. ASSUME CommandStart(out)
      PROVE  \/ phase' = "window" /\ UNCHANGED <<error, received>>
             \/ phase' = "settle" /\ error' \in {"no open socket", None}
             \/ phase' = "settle" /\ error' = "missing var" /\ MissingVar
  <2>1. CASE NoOpenSocket \/ MissingVar
    BY <1>8, <2>1 DEF CommandStart, SettleWith
  <2>2. CASE ~(NoOpenSocket \/ MissingVar)
    BY <1>8, <2>2 DEF CommandStart, SettleWith
  <2> QED BY <2>1, <2>2
<1>9. ASSUME EventStart(out)
      PROVE  \/ phase' = "window" /\ UNCHANGED <<error, received>>
             \/ phase' = "settle" /\ error' \in {"no open socket", None}
  BY <1>9 DEF EventStart, SettleWith
<1> QED BY <1>5, <1>6, <1>7, <1>8, <1>9

LEMMA WindowControl ==
  ASSUME Control, NullsStay,
         Timeout \/ \E found \in Findings : \E empty \in Nullings : CloseWindow(found, empty)
  PROVE  Control'
<1>1. phase = "window" /\ phase \notin {"final", "done"}
  BY DEF Timeout, CloseWindow
<1>2. Step.kind \in {"ws.command", "ws.event"} /\ Step.kind # "http"
  BY <1>1, InProgress
<1>3. UNCHANGED <<theScenario, i, sockets, steps>>
  BY DEF Timeout, CloseWindow
<1>4. "timeout" \in Errors /\ None \in Errors /\ "timeout" # "missing var" /\ None # "missing var"
  BY DEF Errors, None
<1>5. phase' = "settle" /\ error' \in {"timeout", None}
  BY DEF Timeout, CloseWindow, SettleWith
<1>6. DOMAIN vars \subseteq DOMAIN vars'
  <2>1. CASE Timeout
    BY <2>1 DEF Timeout
  <2>2. ASSUME NEW found, NEW empty, CloseWindow(found, empty)
        PROVE  DOMAIN vars \subseteq DOMAIN vars'
    BY <2>2, VarsStay DEF CloseWindow
  <2> QED BY <2>1, <2>2
<1> QED BY <1>1, <1>2, <1>3, <1>4, <1>5, <1>6, GoesOn

LEMMA KeptTyped ==
  ASSUME Kept
  PROVE  /\ FrameTypes /\ pending \in Lists(Actors, Frames) /\ OwnFrames(pending)
         /\ received \in Seq(Frames)
         /\ \A b \in Actors : /\ [pending EXCEPT ![b] = <<>>] \in Lists(Actors, Frames)
                              /\ OwnFrames([pending EXCEPT ![b] = <<>>])
<1>1. FrameTypes /\ pending \in Lists(Actors, Frames) /\ OwnFrames(pending) /\ received \in Seq(Frames)
  BY DEF Kept, FrameTypes, Lists
<1>2. ASSUME NEW b \in Actors
      PROVE  /\ [pending EXCEPT ![b] = <<>>] \in Lists(Actors, Frames)
             /\ OwnFrames([pending EXCEPT ![b] = <<>>])
  BY <1>1, EmptySeq DEF Lists, OwnFrames
<1> QED BY <1>1, <1>2

LEMMA ConnectControl ==
  ASSUME Control, Kept, NullsHeld, NullsStay,
         ConnectStart \/ ConnectAccepted \/ ConnectRefused \/ CloseStep
  PROVE  Control'
<1>1. phase \in {"step", "connect"} /\ phase \notin {"final", "done"}
  BY DEF ConnectStart, ConnectAccepted, ConnectRefused, CloseStep, Starts
<1>2. /\ i \in 1..Len(script) /\ Actor \in Actors /\ error = None /\ received = <<>>
      /\ sockets \in Seq(Actors) /\ IsInjective(sockets)
      /\ phase = "connect" => Step.kind = "ws.connect"
  BY <1>1, InProgress
<1>3. Step.kind # "http" /\ UNCHANGED theScenario
  BY <1>2 DEF ConnectStart, ConnectAccepted, ConnectRefused, CloseStep, Starts
<1>4. {"missing var", "refused", "no open socket", None} \subseteq Errors
      /\ "no open socket" # "missing var" /\ None # "missing var" /\ "refused" # "missing var"
  BY DEF Errors, None
<1>5. <<>> \in Seq(Frames) /\ <<>> \in Seq(Actors)
  BY EmptySeq
<1>6. ASSUME NEW err \in {"refused", "no open socket"}, EndStep(<<>>, err, sockets, pending)
      PROVE  Control'
  <2>1. err \in Errors /\ err # "missing var"
    BY <1>4
  <2> QED BY <1>2, <1>3, <1>5, <1>6, <2>1, KeptTyped, Ends
<1>7. ASSUME NEW socks \in Seq(Actors), IsInjective(socks),
             EndStep(<<>>, None, socks, [pending EXCEPT ![Actor] = <<>>])
      PROVE  Control'
  <2> DEFINE pend == [pending EXCEPT ![Actor] = <<>>]
  <2>1. pend \in Lists(Actors, Frames) /\ OwnFrames(pend) /\ FrameTypes
    BY <1>2, KeptTyped
  <2> HIDE DEF pend
  <2>2. EndStep(<<>>, None, socks, pend) /\ None \in Errors /\ None # "missing var"
    BY <1>4, <1>7 DEF pend
  <2> QED BY <1>2, <1>3, <1>5, <1>7, <2>1, <2>2, Ends
<1>8. CASE ConnectStart
  <2>3. phase # "settle"
    BY <1>1
  <2>1. CASE MissingVar
    <3>1. EndStep(<<>>, "missing var", sockets, pending) /\ "missing var" \in Errors
      BY <1>4, <1>8, <2>1 DEF ConnectStart
    <3>2. Explained(i)
      BY <1>2, <2>1, <2>3, Lacks
    <3> QED BY <1>2, <1>3, <1>5, <3>1, <3>2, KeptTyped, Ends
  <2>2. CASE ~MissingVar
    <3>1. /\ phase' = "connect" /\ UNCHANGED <<i, vars, sockets, received, error, steps>>
          /\ Step.kind = "ws.connect"
      BY <1>8, <2>2 DEF ConnectStart, Starts
    <3>2. error' = None /\ received' = <<>> /\ None \in Errors
      BY <1>2, <1>4, <3>1
    <3> QED BY <1>1, <1>3, <3>1, <3>2, GoesOn
  <2> QED BY <2>1, <2>2
<1>9. CASE ConnectAccepted
  <2>1. WithSocket(Actor) \in Seq(Actors) /\ IsInjective(WithSocket(Actor))
    BY <1>2, AddOne DEF WithSocket, Open
  <2>2. EndStep(<<>>, None, WithSocket(Actor), [pending EXCEPT ![Actor] = <<>>])
    BY <1>9 DEF ConnectAccepted
  <2> QED BY <1>7, <2>1, <2>2
<1>10. CASE ConnectRefused
  <2>1. EndStep(<<>>, "refused", sockets, pending)
    BY <1>10 DEF ConnectRefused
  <2> QED BY <1>6, <2>1
<1>11. CASE CloseStep
  <2>1. CASE Actor \in Open
    <3>1. RemoveFirst(sockets, Actor) \in Seq(Actors) /\ IsInjective(RemoveFirst(sockets, Actor))
      BY <1>2, RemoveOne
    <3>2. EndStep(<<>>, None, RemoveFirst(sockets, Actor), [pending EXCEPT ![Actor] = <<>>])
      BY <1>11, <2>1 DEF CloseStep
    <3> QED BY <1>7, <3>1, <3>2
  <2>2. CASE Actor \notin Open
    <3>1. EndStep(<<>>, "no open socket", sockets, pending)
      BY <1>11, <2>2 DEF CloseStep
    <3> QED BY <1>6, <3>1
  <2> QED BY <2>1, <2>2
<1> QED BY <1>8, <1>9, <1>10, <1>11

LEMMA SettleControl ==
  ASSUME Control, Kept, NullsStay, Settle
  PROVE  Control'
<1>1. phase = "settle" /\ phase \notin {"final", "done"}
      /\ EndStep(received, error, sockets, pending) /\ UNCHANGED theScenario
  BY DEF Settle
<1>2. /\ i \in 1..Len(script) /\ error \in Errors
      /\ sockets \in Seq(Actors) /\ IsInjective(sockets)
  BY <1>1, InProgress
<1>3. Step.kind = "http" /\ error = None => ToSet(Step.caps) \subseteq DOMAIN vars
  BY <1>1 DEF Control, VariablesSet
<1>4. error = "missing var" => Explained(i)
  BY <1>1 DEF Control, MissesExplained
<1> QED BY <1>1, <1>2, <1>3, <1>4, KeptTyped, Ends

LEMMA FinalControl ==
  ASSUME Control, Kept, NullsStay, FinalDrain
  PROVE  Control'
<1>1. /\ phase = "final" /\ phase' = "done" /\ UNCHANGED <<theScenario, i, vars, sockets, received, error>>
      /\ \/ steps' = steps
         \/ steps' = Append(steps, [received |-> Drained(sockets, pending), error |-> None])
  BY DEF FinalDrain
<1>2. RunTypes /\ VariablesSet /\ MissesExplained
  BY DEF Control
<1>3. /\ FrameTypes /\ Len(steps) = i - 1 /\ i \in Nat /\ sockets \in Seq(Actors)
      /\ IsInjective(sockets) /\ steps \in Seq(Records)
  BY <1>1, <1>2, Positions DEF RunTypes, Kept, FrameTypes
<1>4. Len(steps') >= i - 1 /\ \A m \in 1..(i - 1) : steps'[m] = steps[m]
  <2>1. CASE steps' = steps
    BY <1>3, <2>1
  <2>2. CASE steps' = Append(steps, [received |-> Drained(sockets, pending), error |-> None])
    <3> DEFINE r == [received |-> Drained(sockets, pending), error |-> None]
    <3>1. r \in Records
      <4>1. Drained(sockets, pending) \in Seq(Frames)
        BY <1>3, KeptTyped, DrainTakes
      <4> QED BY <4>1 DEF Records, Errors
    <3>2. steps' = Append(steps, r) /\ phase # "done"
      BY <1>1, <2>2
    <3> HIDE DEF r
    <3>3. Len(steps') = i /\ \A m \in 1..(i - 1) : steps'[m] = steps[m]
      BY <1>2, <1>3, <3>1, <3>2, StepsGrow
    <3> QED BY <1>3, <3>3
  <2> QED BY <1>1, <2>1, <2>2
<1>5. RunTypes'
  BY <1>1, <1>2, <1>4 DEF RunTypes, theScenario
<1>6. VariablesSet' /\ MissesExplained'
  <2>1. script' = script /\ i' = i /\ DOMAIN vars \subseteq DOMAIN vars' /\ phase' # "settle"
    BY <1>1 DEF theScenario
  <2> QED BY <1>2, <1>4, <2>1, QuietVars
<1> QED BY <1>5, <1>6 DEF Control

\* A frame that arrives changes nothing else.
LEMMA SameControl ==
  ASSUME Control, NullsStay, UNCHANGED <<theScenario, i, phase, vars, sockets, received, error, steps>>
  PROVE  Control'
<1>1. RunTypes /\ VariablesSet /\ MissesExplained
  BY DEF Control
<1>2. /\ script' = script /\ scenario' = scenario /\ i' = i /\ phase' = phase /\ vars' = vars
      /\ sockets' = sockets /\ received' = received /\ error' = error /\ steps' = steps
      /\ Step' = Step
  BY DEF theScenario, Step
<1>3. RunTypes'
  BY <1>1, <1>2 DEF RunTypes
<1>4. VariablesSet' /\ MissesExplained'
  <2>1. phase' = "settle" /\ Step.kind = "http" /\ error' = None
          => ToSet(Step.caps) \subseteq DOMAIN vars'
    BY <1>1, <1>2 DEF VariablesSet
  <2>2. phase' = "settle" /\ error' = "missing var" => Explained(i)
    BY <1>1, <1>2 DEF MissesExplained
  <2> QED BY <1>1, <1>2, <2>1, <2>2, QuietVars
<1> QED BY <1>3, <1>4 DEF Control

LEMMA ArriveControl ==
  ASSUME Control, NullsStay, NEW a \in Actors, Arrive(a)
  PROVE  Control'
<1>1. UNCHANGED <<theScenario, i, phase, vars, sockets, received, error, steps>>
  BY DEF Arrive
<1> QED BY <1>1, SameControl

\* A step that ends drops nulls of its own only; one that goes on keeps them,
\* or goes to its settle with more of its own.
Dropped == nulls' \subseteq nulls /\ i' = i + 1 /\ NullsStay
Same == nulls' = nulls /\ i' = i /\ (phase = "settle" => phase' = "settle")
Taking ==
  /\ phase' = "settle" /\ i' = i /\ nulls \subseteq nulls'
  /\ nulls' \subseteq nulls \cup {i} \X ToSet(Step.caps)
  /\ AsExpected(FALSE) \/ nulls' = nulls

LEMMA NullsOfEnd ==
  ASSUME NEW frames, NEW err, NEW socks, NEW pend, EndStep(frames, err, socks, pend)
  PROVE  Dropped
BY DEF EndStep, NullsStay, Dropped

LEMMA NullsOfAnswer ==
  ASSUME NEW good, NEW found, NEW empty, NEW out, HttpAnswer(good, found, empty, out)
  PROVE  Same \/ Taking
<1>1. phase = "http" /\ i' = i
  BY DEF HttpAnswer
<1>2. CASE nulls' = nulls
  BY <1>1, <1>2 DEF Same
<1>3. CASE /\ nulls' = nulls \cup {i} \X (FoundPrefix(found) \cap empty)
           /\ phase' = "settle"
  <2>1. FoundPrefix(found) \subseteq ToSet(Step.caps)
    BY DEF FoundPrefix, ToSet
  <2>2. AsExpected(FALSE) \/ empty = {}
    BY DEF HttpAnswer, AsExpected
  <2> QED BY <1>1, <1>3, <2>1, <2>2 DEF Taking
<1> QED BY <1>2, <1>3 DEF HttpAnswer, SettleWith

LEMMA NullsOfWindow ==
  ASSUME NEW found, NEW empty, CloseWindow(found, empty)
  PROVE  Taking
<1>1. /\ i' = i /\ phase' = "settle"
      /\ nulls' = nulls \cup {i} \X (ToSet(Step.caps) \cap found \cap empty)
  BY DEF CloseWindow, SettleWith
<1>2. AsExpected(FALSE) \/ empty = {}
  BY DEF CloseWindow, AsExpected
<1> QED BY <1>1, <1>2 DEF Taking

LEMMA NullsMove ==
  ASSUME [SuiteNext]_runnerVars
  PROVE  (Dropped \/ Same \/ Taking) /\ script' = script
<1>1. ASSUME NEW a \in Actors, Arrive(a) PROVE Same /\ script' = script
  BY <1>1 DEF Arrive, Same, theScenario
<1>2. CASE HttpStart \/ BeginReadFails \/ EndReadFails \/ HttpTransportError \/ WaitStep
  <2>1. UNCHANGED <<nulls, i, script>> /\ (phase = "settle" => phase' = "settle")
    BY <1>2 DEF HttpStart, BeginReadFails, EndReadFails, HttpTransportError, WaitStep,
                SettleWith, Starts, theScenario
  <2> QED BY <2>1 DEF Same
<1>3. CASE ConnectStart
  <2>1. CASE MissingVar
    BY <1>3, <2>1, NullsOfEnd DEF ConnectStart, theScenario
  <2>2. CASE ~MissingVar
    BY <1>3, <2>2 DEF ConnectStart, theScenario, Same, Starts
  <2> QED BY <2>1, <2>2
<1>4. CASE ConnectAccepted \/ ConnectRefused \/ CloseStep \/ Settle
  BY <1>4, NullsOfEnd DEF ConnectAccepted, ConnectRefused, CloseStep, Settle, theScenario
<1>5. CASE Timeout \/ FinalDrain \/ CommandStart(Pushed) \/ EventStart(Pushed)
  <2>1. UNCHANGED <<nulls, i, script>> /\ phase # "settle"
    BY <1>5 DEF Timeout, FinalDrain, CommandStart, EventStart, Starts, theScenario
  <2> QED BY <2>1 DEF Same
<1>6. ASSUME NEW good, NEW found, NEW empty, HttpAnswer(good, found, empty, Pushed)
      PROVE  (Same \/ Taking) /\ script' = script
  BY <1>6, NullsOfAnswer DEF HttpAnswer, theScenario
<1>7. ASSUME NEW found, NEW empty, CloseWindow(found, empty)
      PROVE  Taking /\ script' = script
  BY <1>7, NullsOfWindow DEF CloseWindow, theScenario
<1>8. CASE UNCHANGED runnerVars
  BY <1>8 DEF runnerVars, theScenario, Same
<1> QED BY <1>1, <1>2, <1>3, <1>4, <1>5, <1>6, <1>7, <1>8
        DEF SuiteNext, RunnerInternal, Target, Done

LEMMA NullsStep ==
  ASSUME RunTypes, NullsHeld, [SuiteNext]_runnerVars
  PROVE  NullsHeld' /\ NullsStay
<1>1. i \in Nat /\ i >= 1 /\ i \in 1..i /\ \A k \in 1..i : k \in 1..(i + 1) /\ k # i + 1
  BY Positions DEF RunTypes
<1>2. script' = script
  BY NullsMove
<1>3. CASE Dropped
  BY <1>1, <1>2, <1>3 DEF Dropped, NullsHeld
<1>4. CASE Same
  BY <1>2, <1>4 DEF Same, NullsHeld, NullsStay
<1>5. CASE Taking
  <2>1. NullsHeld'
    <3> SUFFICES ASSUME NEW p \in nulls'
                 PROVE  p[1] \in 1..i /\ p[2] \in ToSet(script[p[1]].caps)
      BY <1>2, <1>5 DEF Taking, NullsHeld
    <3>1. CASE p \in nulls
      BY <3>1 DEF NullsHeld
    <3>2. CASE p \in {i} \X ToSet(Step.caps)
      BY <1>1, <3>2 DEF Step
    <3> QED BY <1>5, <3>1, <3>2 DEF Taking
  <2> QED BY <1>5, <2>1 DEF Taking, NullsStay
<1> QED BY <1>3, <1>4, <1>5, NullsMove

\* No step loses the control.
LEMMA ControlStep ==
  ASSUME Control, Kept, NullsHeld, [SuiteNext]_runnerVars
  PROVE  Control'
<1>0. NullsStay
  BY NullsStep DEF Control
<1>1. ASSUME NEW a \in Actors, Arrive(a) PROVE Control'
  BY <1>1, <1>0, ArriveControl
<1>2. CASE HttpStart \/ BeginReadFails \/ EndReadFails \/ HttpTransportError \/ WaitStep
  BY <1>2, <1>0, HttpControl
<1>3. CASE ConnectStart \/ ConnectAccepted \/ ConnectRefused \/ CloseStep
  BY <1>3, <1>0, ConnectControl
<1>4. CASE Timeout \/ \E found \in Findings : \E empty \in Nullings : CloseWindow(found, empty)
  BY <1>4, <1>0, WindowControl
<1>5. CASE Settle
  BY <1>5, <1>0, SettleControl
<1>6. CASE FinalDrain
  BY <1>6, <1>0, FinalControl
<1>7. ASSUME NEW good, NEW found, NEW empty, HttpAnswer(good, found, empty, Pushed) PROVE Control'
  BY <1>7, <1>0, AnswerControl
<1>8. CASE CommandStart(Pushed) \/ EventStart(Pushed)
  BY <1>8, <1>0, SendControl
<1>9. CASE UNCHANGED runnerVars
  <2>1. UNCHANGED <<theScenario, i, phase, vars, sockets, received, error, steps>>
    BY <1>9 DEF runnerVars
  <2> QED BY <2>1, <1>0, SameControl
<1> QED BY <1>1, <1>2, <1>3, <1>4, <1>5, <1>6, <1>7, <1>8, <1>9
        DEF SuiteNext, RunnerInternal, Target, Done

-----------------------------------------------------------------------------
LEMMA AllEmpty == Silent \in [Actors -> Seq(Frames)] /\ OwnFrames(Silent)
BY EmptySeq DEF Silent, OwnFrames

\* A run starts with all lists empty and no step behind it.
LEMMA RunStarts ==
  ASSUME RunnerInit
  PROVE  Kept /\ Control /\ NullsHeld
<1>0. NullsHeld
  BY DEF RunnerInit, NullsHeld
<1>1. /\ scenario \in DOMAIN Scripts /\ script = Scripts[scenario] /\ i = 1 /\ phase = "step"
      /\ vars = <<>> /\ sockets = <<>> /\ pending = Silent /\ received = <<>> /\ error = None
      /\ steps = <<>> /\ wire = Silent /\ sent = Silent
  BY DEF RunnerInit
<1>2. /\ <<>> \in Seq(Actors) /\ <<>> \in Seq(Frames) /\ <<>> \in Seq(Records) /\ Len(<<>>) = 0
      /\ IsInjective(<<>>)
  BY EmptySeq DEF IsInjective
<1>3. Len(script) \in Nat /\ Len(script) # 0
  <2>1. script \in Seq(StepDefs) /\ script # <<>>
    BY <1>1, SuiteAssumption
  <2> QED BY <2>1, EmptySeq, LenProperties
<1>4. FrameTypes
  BY <1>1, <1>2, AllEmpty DEF FrameTypes
<1>5. CapturedInOrder
  <2> SUFFICES ASSUME NEW a \in Actors
               PROVE  (On(a, Captures \o received) \o pending[a]) \o wire[a] = sent[a]
    BY DEF CapturedInOrder
  <2>1. pending[a] = <<>> /\ wire[a] = <<>> /\ sent[a] = <<>>
    BY <1>1 DEF Silent
  <2>2. Captures = <<>>
    <3>1. [n \in DOMAIN <<>> |-> (<<>>)[n].received] = <<>>
      BY EmptySeq
    <3> QED BY <1>1, <3>1, FlattenEmpty DEF Captures
  <2>3. <<>> \o <<>> = <<>>
    BY EmptySeq, ConcatEmptySeq
  <2>4. On(a, Captures \o received) = <<>>
    BY <1>1, <2>2, <2>3, OnEmpty
  <2> QED BY <2>1, <2>3, <2>4
<1>6. Kept
  BY <1>1, <1>4, <1>5, AllEmpty DEF Kept
<1>7. RunTypes
  <2>1. /\ i \in 1..(Len(script) + 1) /\ i # Len(script) + 1 /\ i - 1 = 0 /\ error \in Errors
    BY <1>1, <1>3 DEF Errors
  <2> QED BY <1>1, <1>2, <2>1 DEF RunTypes
<1>8. VariablesSet /\ MissesExplained
  <2>1. 1..(i - 1) = {} /\ phase # "settle"
    BY <1>1
  <2> QED BY <2>1 DEF VariablesSet, MissesExplained
<1> QED BY <1>0, <1>6, <1>7, <1>8 DEF Control

(***************************************************************************)
(* Between the windows, the settles, the drains and the final drain no     *)
(* frame is lost, recorded twice or moved before an earlier one of its     *)
(* socket: SocketSession.pending, drainTo and the splices of waitUntilAll  *)
(* lose nothing, however early a timer of runner.ts fires.                 *)
(***************************************************************************)
THEOREM FramesAreKept == SuiteSpec => []CapturedInOrder
<1>1. RunnerInit => Kept /\ Control /\ NullsHeld
  BY RunStarts
<1>2. Kept /\ Control /\ NullsHeld /\ [SuiteNext]_runnerVars => (Kept /\ Control /\ NullsHeld)'
  BY FramesStep, ControlStep, NullsStep DEF Control
<1>3. Kept /\ Control => CapturedInOrder
  BY DEF Kept
<1> QED BY <1>1, <1>2, <1>3, PTL DEF SuiteSpec

(***************************************************************************)
(* A step that fails because a variable is missing follows a step that was *)
(* to set it and is recorded with an error, a command whose frame lacked   *)
(* the value, or a step that captured it as null: interpolateString throws *)
(* for no other reason that the capture does not show.                     *)
(***************************************************************************)
THEOREM MissesHaveCause == SuiteSpec => []MissingVarsExplained
<1>1. RunnerInit => Kept /\ Control /\ NullsHeld
  BY RunStarts
<1>2. Kept /\ Control /\ NullsHeld /\ [SuiteNext]_runnerVars => (Kept /\ Control /\ NullsHeld)'
  BY FramesStep, ControlStep, NullsStep DEF Control
<1>3. Kept /\ Control => MissingVarsExplained
  <2> SUFFICES ASSUME Kept, Control, JustFinished, Last(steps).error = "missing var"
               PROVE  Explained(i - 1)
    BY DEF MissingVarsExplained, Explained
  <2>1. i \in Nat /\ i > 1 /\ Len(steps) = i - 1
    BY Positions DEF JustFinished, Control, RunTypes
  <2>2. i - 1 \in 1..(i - 1)
    BY <2>1, Places
  <2>3. steps[Len(steps)].error = "missing var"
    BY DEF Last
  <2> QED BY <2>1, <2>2, <2>3 DEF Control, MissesExplained
<1> QED BY <1>1, <1>2, <1>3, PTL DEF SuiteSpec

-----------------------------------------------------------------------------
(* Recursive functions of the scripts and of the windows.                  *)

(* A function given by its first value and the step from one to the next   *)
(* exists.                                                                 *)
LEMMA Recursion ==
  ASSUME NEW V, NEW first \in V, NEW N \in Nat, NEW G \in [1..N -> [V -> V]]
  PROVE  \E f \in [0..N -> V] :
           f[0] = first /\ \A n \in 1..N : f[n] = G[n][f[n - 1]]
<1> DEFINE Up(m, f) == f[0] = first /\ \A n \in 1..m : f[n] = G[n][f[n - 1]]
           T == {m \in Nat : m <= N => \E f \in [0..m -> V] : Up(m, f)}
<1>1. 0 \in T
  <2> DEFINE f == [n \in 0..0 |-> first]
  <2>1. f \in [0..0 -> V] /\ f[0] = first /\ 1..0 = {}
    OBVIOUS
  <2> QED BY <2>1
<1>2. ASSUME NEW m \in Nat, m \in T PROVE m + 1 \in T
  <2>1. SUFFICES ASSUME m + 1 <= N PROVE \E f \in [0..(m + 1) -> V] : Up(m + 1, f)
    BY <1>2
  <2>2. m <= N
    BY <2>1
  <2>3. PICK f \in [0..m -> V] : Up(m, f)
    BY <1>2, <2>2
  <2>4. G[m + 1][f[m]] \in V
    BY <2>1
  <2> DEFINE g == [n \in 0..(m + 1) |-> IF n = m + 1 THEN G[m + 1][f[m]] ELSE f[n]]
  <2>5. \A n \in 0..(m + 1) : n = m + 1 \/ n \in 0..m
    OBVIOUS
  <2>6. g \in [0..(m + 1) -> V]
    BY <2>4, <2>5
  <2>7. g[0] = first
    BY <2>3
  <2>8. \A n \in 1..m : g[n] = f[n] /\ g[n - 1] = f[n - 1]
    OBVIOUS
  <2>9. g[m + 1] = G[m + 1][f[m]] /\ g[m] = f[m]
    OBVIOUS
  <2> HIDE DEF g
  <2>10. \A n \in 1..(m + 1) : g[n] = G[n][g[n - 1]]
    <3> SUFFICES ASSUME NEW n \in 1..(m + 1) PROVE g[n] = G[n][g[n - 1]]
      OBVIOUS
    <3>1. CASE n = m + 1
      <4>1. n - 1 = m
        BY <3>1
      <4> QED BY <2>9, <3>1, <4>1
    <3>2. CASE n \in 1..m
      BY <2>3, <2>8, <3>2
    <3> QED BY <3>1, <3>2
  <2> QED BY <2>6, <2>7, <2>10
<1>3. Nat \subseteq T
  <2> HIDE DEF T
  <2> QED BY <1>1, <1>2, SetInduction
<1> QED BY <1>3

\* The sockets a step leaves are distinct if those it found were.
LEMMA SocketsPastTyped ==
  ASSUME NEW step \in StepDefs, NEW open \in Seq(Actors), IsInjective(open)
  PROVE  SocketsPast(step, open) \in Seq(Actors) /\ IsInjective(SocketsPast(step, open))
<1>1. step.actor \in Actors
  BY DEF StepDefs
<1>2. CASE step.kind = "ws.connect" /\ step.reply # "refused"
  <2>1. SocketsPast(step, open) =
          IF step.actor \in ToSet(open) THEN open ELSE Append(open, step.actor)
    BY <1>2 DEF SocketsPast
  <2> QED BY <1>1, <2>1, AddOne
<1>3. CASE step.kind = "ws.close"
  <2>1. SocketsPast(step, open) = RemoveFirst(open, step.actor)
    BY <1>3 DEF SocketsPast
  <2> QED BY <1>1, <2>1, RemoveOne
<1>4. CASE ~(step.kind = "ws.connect" /\ step.reply # "refused") /\ step.kind # "ws.close"
  <2>1. SocketsPast(step, open) = open
    BY <1>4 DEF SocketsPast
  <2> QED BY <2>1
<1> QED BY <1>2, <1>3, <1>4

\* SocketsAfter goes from step to step.
LEMMA SocketsStepByStep ==
  ASSUME NEW scr \in Seq(StepDefs)
  PROVE  /\ SocketsAfter(scr)[0] = <<>>
         /\ \A n \in 1..Len(scr) :
              SocketsAfter(scr)[n] = SocketsPast(scr[n], SocketsAfter(scr)[n - 1])
<1> DEFINE V == {s \in Seq(Actors) : IsInjective(s)}
           G == [n \in 1..Len(scr) |-> [open \in V |-> SocketsPast(scr[n], open)]]
           N == Len(scr)
           none == <<>>
<1>1. N \in Nat /\ \A n \in 1..N : scr[n] \in StepDefs
  BY LenProperties, ElementOfSeq
<1>2. none \in V
  BY EmptySeq DEF IsInjective
<1>3. G \in [1..N -> [V -> V]]
  BY <1>1, SocketsPastTyped
<1>4. \E f \in [0..N -> V] : f[0] = none /\ \A n \in 1..N : f[n] = G[n][f[n - 1]]
  <2>1. N \in Nat
    BY <1>1
  <2> HIDE DEF G, V, N, none
  <2> QED BY <1>2, <1>3, <2>1, Recursion, SMT
<1> DEFINE Is(f) == f = [n \in 0..Len(scr) |->
                           IF n = 0 THEN <<>> ELSE SocketsPast(scr[n], f[n - 1])]
<1>5. \E f : Is(f)
  <2>0. N \in Nat
    BY <1>1
  <2>1. PICK f \in [0..N -> V] :
               f[0] = <<>> /\ \A n \in 1..N : f[n] = G[n][f[n - 1]]
    BY <1>4, Zenon
  <2>2. \A n \in 1..N : f[n - 1] \in V
    <3>1. \A n \in 1..N : n - 1 \in 0..N
      BY <2>0
    <3> HIDE DEF V, N
    <3> QED BY <2>1, <3>1
  <2>3. \A n \in 1..N : G[n][f[n - 1]] = SocketsPast(scr[n], f[n - 1])
    BY <2>2
  <2>4. \A n \in 0..N : f[n] = IF n = 0 THEN <<>> ELSE SocketsPast(scr[n], f[n - 1])
    <3>1. \A n \in 0..N : n = 0 \/ n \in 1..N
      BY <2>0
    <3> HIDE DEF G, V, N
    <3> QED BY <2>1, <2>3, <3>1
  <2>5. Is(f)
    <3> HIDE DEF G, V
    <3> QED BY <2>1, <2>4
  <2> HIDE DEF Is
  <2> QED BY <2>5
<1>6. SocketsAfter(scr) = CHOOSE f : Is(f)
  BY DEF SocketsAfter
<1>7. Is(SocketsAfter(scr))
  <2> HIDE DEF Is
  <2> QED BY <1>5, <1>6
<1>8. 0 \in 0..Len(scr) /\ \A n \in 1..Len(scr) : n \in 0..Len(scr) /\ n # 0
  BY <1>1
<1> HIDE DEF G, V
<1> QED BY <1>7, <1>8

\* What a frame leaves unmatched.
LeftBy(frame, preds, step, left) ==
  LET taken == {p \in left : Satisfies(frame, preds[p], step)}
  IN left \ {p \in taken : \A q \in taken : p <= q}

LEMMA UnmatchedStepByStep ==
  ASSUME NEW S, NEW frames \in Seq(S), NEW step
  PROVE  /\ Unmatched(frames, step)[0] = DOMAIN Predicates(step)
         /\ \A n \in 1..Len(frames) :
              Unmatched(frames, step)[n] =
                LeftBy(frames[n], Predicates(step), step, Unmatched(frames, step)[n - 1])
<1> DEFINE preds == Predicates(step)
           N == Len(frames)
           V == SUBSET DOMAIN preds
           G == [n \in 1..N |-> [left \in V |-> LeftBy(frames[n], preds, step, left)]]
           Is(f) == f = [n \in 0..N |->
                           IF n = 0 THEN DOMAIN preds
                           ELSE LeftBy(frames[n], preds, step, f[n - 1])]
<1>1. N \in Nat
  BY LenProperties
<1>2. DOMAIN preds \in V
  OBVIOUS
<1>3. G \in [1..N -> [V -> V]]
  BY DEF LeftBy
<1>4. \E f : Is(f)
  <2>1. PICK f \in [0..N -> V] :
               f[0] = DOMAIN preds /\ \A n \in 1..N : f[n] = G[n][f[n - 1]]
    <3> DEFINE first == DOMAIN preds
    <3>1. N \in Nat /\ first \in V /\ G \in [1..N -> [V -> V]]
      BY <1>1, <1>2, <1>3
    <3> HIDE DEF G, V, N, first
    <3>2. \E f \in [0..N -> V] : f[0] = first /\ \A n \in 1..N : f[n] = G[n][f[n - 1]]
      BY <3>1, Recursion
    <3> QED BY <3>2 DEF first
  <2>2. \A n \in 1..N : f[n - 1] \in V
    <3>1. \A n \in 1..N : n - 1 \in 0..N
      BY <1>1
    <3> HIDE DEF V, N
    <3> QED BY <2>1, <3>1
  <2>3. \A n \in 1..N : G[n][f[n - 1]] = LeftBy(frames[n], preds, step, f[n - 1])
    BY <2>2
  <2>4. \A n \in 0..N : f[n] = IF n = 0 THEN DOMAIN preds
                               ELSE LeftBy(frames[n], preds, step, f[n - 1])
    <3>1. \A n \in 0..N : n = 0 \/ n \in 1..N
      BY <1>1
    <3> HIDE DEF G, V, N, preds
    <3> QED BY <2>1, <2>3, <3>1
  <2>5. Is(f)
    <3> HIDE DEF G, V
    <3> QED BY <2>1, <2>4
  <2> HIDE DEF Is
  <2> QED BY <2>5
<1>5. Unmatched(frames, step) = CHOOSE f : Is(f)
  BY DEF Unmatched, LeftBy
<1>6. Is(Unmatched(frames, step))
  <2> HIDE DEF Is
  <2> QED BY <1>4, <1>5
<1>7. 0 \in 0..N /\ \A n \in 1..N : n \in 0..N /\ n # 0
  BY <1>1
<1> HIDE DEF G, V
<1> QED BY <1>6, <1>7

-----------------------------------------------------------------------------
(* What a window takes of the frames that have arrived is what it would    *)
(* take of all the frames that are to come.                                *)
LEMMA UnmatchedOfPrefix ==
  ASSUME NEW S, NEW p \in Seq(S), NEW w \in Seq(S), NEW step
  PROVE  \A n \in 0..Len(p) : Unmatched(Cat(p, w), step)[n] = Unmatched(p, step)[n]
<1> DEFINE T == {n \in Nat : n <= Len(p) =>
                   Unmatched(Cat(p, w), step)[n] = Unmatched(p, step)[n]}
<1>1. /\ Cat(p, w) \in Seq(S) /\ Len(p) \in Nat /\ Len(Cat(p, w)) \in Nat
      /\ Len(p) <= Len(Cat(p, w))
      /\ \A n \in 1..Len(p) : n \in 1..Len(Cat(p, w)) /\ Cat(p, w)[n] = p[n]
  <2>1. /\ p \o w \in Seq(S) /\ Len(p \o w) = Len(p) + Len(w)
        /\ Len(p) \in Nat /\ Len(w) \in Nat
        /\ \A n \in 1..(Len(p) + Len(w)) :
             (p \o w)[n] = IF n <= Len(p) THEN p[n] ELSE w[n - Len(p)]
    BY ConcatProperties, LenProperties
  <2> DEFINE c == p \o w
  <2>2. Cat(p, w) = c
    BY DEF Cat
  <2>3. /\ c \in Seq(S) /\ Len(c) = Len(p) + Len(w)
        /\ \A n \in 1..(Len(p) + Len(w)) : c[n] = IF n <= Len(p) THEN p[n] ELSE w[n - Len(p)]
    BY <2>1
  <2> HIDE DEF c
  <2> QED BY <2>1, <2>2, <2>3
<1>2. 0 \in T
  BY <1>1, UnmatchedStepByStep
<1>3. ASSUME NEW n \in Nat, n \in T PROVE n + 1 \in T
  <2>1. SUFFICES ASSUME n + 1 <= Len(p)
                 PROVE  Unmatched(Cat(p, w), step)[n + 1] = Unmatched(p, step)[n + 1]
    BY <1>3
  <2>2. n + 1 \in 1..Len(p) /\ (n + 1) - 1 = n /\ n <= Len(p)
    BY <1>1, <2>1
  <2>3. Unmatched(Cat(p, w), step)[n] = Unmatched(p, step)[n]
    BY <1>3, <2>2
  <2>4. Unmatched(p, step)[n + 1] =
          LeftBy(p[n + 1], Predicates(step), step, Unmatched(p, step)[n])
    BY <2>2, UnmatchedStepByStep
  <2>5. Unmatched(Cat(p, w), step)[n + 1] =
          LeftBy(Cat(p, w)[n + 1], Predicates(step), step, Unmatched(Cat(p, w), step)[n])
    BY <1>1, <2>2, UnmatchedStepByStep
  <2> QED BY <1>1, <2>2, <2>3, <2>4, <2>5
<1>4. Nat \subseteq T
  <2> HIDE DEF T
  <2> QED BY <1>2, <1>3, SetInduction
<1> QED BY <1>1, <1>4

\* The last match is the least number of frames that leaves nothing unmatched.
LEMMA LastMatchIs ==
  ASSUME NEW S, NEW frames \in Seq(S), NEW step, NEW n \in 0..Len(frames),
         Unmatched(frames, step)[n] = {}
  PROVE  /\ LastMatch(frames, step) \in 0..n
         /\ Unmatched(frames, step)[LastMatch(frames, step)] = {}
         /\ \A m \in 0..(LastMatch(frames, step) - 1) : Unmatched(frames, step)[m] # {}
<1> DEFINE u == Unmatched(frames, step)
           T == {m \in 0..Len(frames) : u[m] = {}}
<1>1. Len(frames) \in Nat /\ u[n] = {}
  BY LenProperties
<1> HIDE DEF u
<1>2. n \in T /\ T \in SUBSET Nat
  BY <1>1
<1>3. PICK x \in T : \A y \in T : x <= y
  BY <1>2, LeastNumber
<1>4. \A m \in 0..(x - 1) : u[m] # {}
  BY <1>1, <1>3
<1>5. \E m \in 0..Len(frames) : u[m] = {} /\ \A k \in 0..(m - 1) : u[k] # {}
  BY <1>3, <1>4
<1>6. LastMatch(frames, step) =
        CHOOSE m \in 0..Len(frames) : u[m] = {} /\ \A k \in 0..(m - 1) : u[k] # {}
  BY DEF LastMatch, u
<1> DEFINE l == LastMatch(frames, step)
<1>7. l \in 0..Len(frames) /\ u[l] = {} /\ \A m \in 0..(l - 1) : u[m] # {}
  BY <1>5, <1>6
<1> HIDE DEF l
<1>8. l \in 0..n
  <2>1. ~(n \in 0..(l - 1))
    BY <1>1, <1>7
  <2> QED BY <1>1, <1>7, <2>1
<1> QED BY <1>7, <1>8 DEF u, l

LEMMA LastMatchOfPrefix ==
  ASSUME NEW S, NEW p \in Seq(S), NEW w \in Seq(S), NEW step, AllMatched(p, step)
  PROVE  LastMatch(p, step) \in 0..Len(p) /\ LastMatch(Cat(p, w), step) = LastMatch(p, step)
<1> DEFINE c == Cat(p, w)
           x == LastMatch(p, step)
           y == LastMatch(c, step)
<1>1. c \in Seq(S) /\ Len(p) \in Nat /\ Len(c) \in Nat /\ Len(p) <= Len(c)
  <2>1. c \in Seq(S) /\ Len(p) \in Nat /\ Len(w) \in Nat
    BY CatTyped, LenProperties
  <2>2. Len(c) = Len(p) + Len(w)
    BY ConcatProperties DEF Cat
  <2> HIDE DEF c
  <2> QED BY <2>1, <2>2
<1>2. Len(p) \in 0..Len(p) /\ Unmatched(p, step)[Len(p)] = {}
  BY <1>1 DEF AllMatched
<1>3. /\ x \in 0..Len(p) /\ Unmatched(p, step)[x] = {}
      /\ \A m \in 0..(x - 1) : Unmatched(p, step)[m] # {}
  BY <1>2, LastMatchIs
<1>4. \A n \in 0..Len(p) : Unmatched(c, step)[n] = Unmatched(p, step)[n]
  BY UnmatchedOfPrefix
<1> HIDE DEF c, x
<1>5. x \in 0..Len(c) /\ Unmatched(c, step)[x] = {}
  BY <1>1, <1>3, <1>4
<1>6. y \in 0..x /\ Unmatched(c, step)[y] = {}
  BY <1>1, <1>5, LastMatchIs
<1> HIDE DEF y
<1>7. y \in 0..Len(p) /\ Unmatched(p, step)[y] = {}
  <2>1. y \in 0..Len(p)
    BY <1>1, <1>3, <1>6
  <2> QED BY <1>4, <1>6, <2>1
<1>8. x = y
  <2>1. ~(y \in 0..(x - 1))
    BY <1>3, <1>7
  <2> QED BY <1>3, <1>6, <2>1
<1> QED BY <1>3, <1>8 DEF c, x, y

\* A list cut within its first part.
LEMMA CutOfConcat ==
  ASSUME NEW S, NEW p \in Seq(S), NEW w \in Seq(S), NEW n \in 0..Len(p)
  PROVE  /\ SubSeq(Cat(p, w), 1, n) = SubSeq(p, 1, n)
         /\ SubSeq(Cat(p, w), n + 1, Len(Cat(p, w))) = Cat(SubSeq(p, n + 1, Len(p)), w)
<1> DEFINE l == SubSeq(p, 1, n)
           r == SubSeq(p, n + 1, Len(p))
           c == Cat(p, w)
           l2 == SubSeq(c, 1, n)
           r2 == SubSeq(c, n + 1, Len(c))
<1>1. /\ c \in Seq(S) /\ Len(p) \in Nat /\ Len(w) \in Nat /\ n \in Nat /\ n <= Len(p)
      /\ Len(c) = Len(p) + Len(w)
  BY CatTyped, LenProperties, ConcatProperties DEF Cat
<1>2. n \in 0..Len(c)
  BY <1>1
<1>3. l2 = l
  <2>1. CASE n = 0
    BY <2>1, SubSeqEmpty
  <2>2. CASE n # 0
    <3>1. 1 \in 1..Len(p) /\ n \in 1..Len(p)
      BY <1>1, <2>2
    <3> QED BY <3>1, SubSeqOfConcat1 DEF Cat
  <2> QED BY <2>1, <2>2
<1>4. /\ l \in Seq(S) /\ r \in Seq(S) /\ Cat(l, r) = p
  BY CutInTwo
<1>5. /\ l2 \in Seq(S) /\ r2 \in Seq(S) /\ Cat(l2, r2) = c
  BY <1>1, <1>2, CutInTwo
<1> HIDE DEF l, r, l2, r2
<1>6. Cat(l, r2) = Cat(l, Cat(r, w)) /\ Cat(r, w) \in Seq(S)
  <2>1. c = Cat(Cat(l, r), w)
    BY <1>4
  <2>2. Cat(Cat(l, r), w) = Cat(l, Cat(r, w)) /\ Cat(r, w) \in Seq(S)
    BY <1>4, CatAssociative, CatTyped
  <2> HIDE DEF c
  <2> QED BY <1>3, <1>5, <2>1, <2>2
<1>7. r2 = Cat(r, w)
  <2> DEFINE t == Cat(r, w)
  <2>1. l \o r2 = l \o t /\ l \in Seq(S) /\ r2 \in Seq(S) /\ t \in Seq(S)
    BY <1>4, <1>5, <1>6 DEF Cat
  <2> HIDE DEF t
  <2>2. r2 = t
    BY <2>1, ConcatSimplifications
  <2> QED BY <2>2 DEF t
<1> QED BY <1>3, <1>7 DEF l, r, l2, r2, c

-----------------------------------------------------------------------------
(* Draining.                                                               *)
LEMMA DrainedSame ==
  ASSUME NEW S, NEW socks \in Seq(S), NEW x, NEW y, \A a \in ToSet(socks) : x[a] = y[a]
  PROVE  Drained(socks, x) = Drained(socks, y)
<1>1. \A k \in DOMAIN socks : socks[k] \in ToSet(socks)
  BY DEF ToSet
<1>2. [k \in DOMAIN socks |-> x[socks[k]]] = [k \in DOMAIN socks |-> y[socks[k]]]
  BY <1>1
<1> QED BY <1>2 DEF Drained

\* When at most one of the sockets has frames, draining takes them.
LEMMA DrainedOne ==
  ASSUME NEW lists \in Lists(Actors, Frames), NEW b \in Actors
  PROVE  \A socks \in Seq(Actors) :
           IsInjective(socks) /\ (\A a \in ToSet(socks) : a # b => lists[a] = <<>>) =>
             InTurn(lists, socks) = IF b \in ToSet(socks) THEN lists[b] ELSE <<>>
<1> DEFINE Fit(socks) == IsInjective(socks) /\ \A a \in ToSet(socks) : a # b => lists[a] = <<>>
           P == {socks \in Seq(Actors) : Fit(socks) =>
                   InTurn(lists, socks) = IF b \in ToSet(socks) THEN lists[b] ELSE <<>>}
<1>1. <<>> \in P
  <2>1. InTurn(lists, <<>>) = <<>>
    <3>1. Parts(lists, <<>>) = <<>>
      BY EmptySeq DEF Parts
    <3> QED BY <3>1, FlattenEmpty DEF InTurn
  <2>2. ToSet(<<>>) = {}
    BY EmptySeq DEF ToSet
  <2> QED BY <2>1, <2>2, EmptySeq
<1>2. ASSUME NEW s \in Seq(Actors), NEW e \in Actors, s \in P PROVE Append(s, e) \in P
  <2> DEFINE t == Append(s, e)
  <2>1. /\ t \in Seq(Actors) /\ Len(t) = Len(s) + 1 /\ Len(s) \in Nat
        /\ DOMAIN s = 1..Len(s) /\ DOMAIN t = 1..Len(t)
        /\ \A k \in 1..Len(s) : t[k] = s[k]
        /\ t[Len(s) + 1] = e
    BY AppendProperties, LenProperties
  <2>2. InTurn(lists, t) = InTurn(lists, s) \o lists[e]
    BY InTurnAppend
  <2> HIDE DEF t
  <2>3. SUFFICES ASSUME Fit(t)
                 PROVE  InTurn(lists, t) = IF b \in ToSet(t) THEN lists[b] ELSE <<>>
    BY <2>1 DEF t
  <2>4. ToSet(t) = ToSet(s) \cup {e} /\ e \notin ToSet(s)
    <3>1. \A k \in 1..Len(t) : k \in 1..Len(s) \/ k = Len(s) + 1
      BY <2>1
    <3>2. \A k \in 1..Len(s) : k \in 1..Len(t) /\ k # Len(s) + 1
      BY <2>1
    <3>3. Len(s) + 1 \in 1..Len(t)
      BY <2>1
    <3>4. \A m, n \in 1..Len(t) : t[m] = t[n] => m = n
      BY <2>1, <2>3 DEF IsInjective
    <3>5. e \notin ToSet(s)
      BY <2>1, <3>2, <3>3, <3>4 DEF ToSet
    <3> QED BY <2>1, <3>1, <3>2, <3>3, <3>5 DEF ToSet
  <2>5. Fit(s)
    <3>1. IsInjective(s)
      <4>1. \A k \in 1..Len(s) : k \in 1..Len(t)
        BY <2>1
      <4> QED BY <2>1, <2>3, <4>1 DEF IsInjective
    <3> QED BY <2>3, <2>4, <3>1
  <2>6. InTurn(lists, s) = IF b \in ToSet(s) THEN lists[b] ELSE <<>>
    BY <1>2, <2>5
  <2>7. lists[e] \in Seq(Frames) /\ lists[b] \in Seq(Frames)
    BY DEF Lists
  <2>8. CASE e = b
    <3>1. b \notin ToSet(s) /\ b \in ToSet(t)
      BY <2>4, <2>8
    <3>2. InTurn(lists, t) = <<>> \o lists[b]
      BY <2>2, <2>6, <2>8, <3>1
    <3> QED BY <2>7, <3>1, <3>2, ConcatEmptySeq
  <2>9. CASE e # b
    <3>1. lists[e] = <<>> /\ (b \in ToSet(t) <=> b \in ToSet(s))
      BY <2>3, <2>4, <2>9
    <3>2. (IF b \in ToSet(s) THEN lists[b] ELSE <<>>) \in Seq(Frames)
      BY <2>7, EmptySeq
    <3>3. InTurn(lists, t) = (IF b \in ToSet(s) THEN lists[b] ELSE <<>>) \o <<>>
      BY <2>2, <2>6, <3>1
    <3> QED BY <3>1, <3>2, <3>3, ConcatEmptySeq
  <2> QED BY <2>8, <2>9
<1>3. Seq(Actors) \subseteq P
  <2> HIDE DEF P
  <2> QED BY <1>1, <1>2, SequenceInduction
<1> QED BY <1>3

\* The first of several sockets goes first.
LEMMA InTurnFirst ==
  ASSUME NEW lists \in Lists(Actors, Frames), NEW a \in Actors
  PROVE  \A r \in Seq(Actors) :
           InTurn(lists, <<a>> \o r) = Cat(lists[a], InTurn(lists, r))
<1> DEFINE P == {r \in Seq(Actors) :
                   InTurn(lists, <<a>> \o r) = Cat(lists[a], InTurn(lists, r))}
<1>1. /\ <<>> \in Seq(Actors) /\ <<a>> \in Seq(Actors) /\ <<a>> = Append(<<>>, a)
      /\ lists[a] \in Seq(Frames)
  BY EmptySeq DEF Lists
<1>2. InTurn(lists, <<>>) = <<>>
  <2>1. Parts(lists, <<>>) = <<>>
    BY EmptySeq DEF Parts
  <2> QED BY <2>1, FlattenEmpty DEF InTurn
<1>3. <<>> \in P
  <2>1. <<a>> \o <<>> = <<a>>
    BY <1>1, ConcatEmptySeq
  <2>2. InTurn(lists, <<a>>) = InTurn(lists, <<>>) \o lists[a]
    <3> DEFINE none == <<>>
    <3>1. none \in Seq(Actors) /\ <<a>> = Append(none, a)
      BY <1>1
    <3> HIDE DEF none
    <3>2. InTurn(lists, Append(none, a)) = InTurn(lists, none) \o lists[a]
      BY <3>1, InTurnAppend
    <3> QED BY <3>1, <3>2 DEF none
  <2>3. InTurn(lists, <<a>>) = lists[a]
    BY <1>1, <1>2, <2>2, ConcatEmptySeq
  <2>4. Cat(lists[a], InTurn(lists, <<>>)) = lists[a]
    BY <1>1, <1>2, CatEmpty
  <2> QED BY <1>1, <2>1, <2>3, <2>4
<1>4. ASSUME NEW s \in Seq(Actors), NEW b \in Actors, s \in P PROVE Append(s, b) \in P
  <2>1. /\ Append(s, b) = s \o <<b>> /\ <<b>> \in Seq(Actors) /\ Append(s, b) \in Seq(Actors)
        /\ <<a>> \o s \in Seq(Actors)
        /\ Append(<<a>> \o s, b) = (<<a>> \o s) \o <<b>>
        /\ (<<a>> \o s) \o <<b>> = <<a>> \o (s \o <<b>>)
    BY <1>1, AppendProperties, AppendIsConcat, ConcatProperties, ConcatAssociative
  <2>2. <<a>> \o Append(s, b) = Append(<<a>> \o s, b)
    BY <2>1
  <2> DEFINE t == <<a>> \o s
  <2>3. InTurn(lists, Append(t, b)) = Cat(InTurn(lists, t), lists[b])
    <3>1. t \in Seq(Actors)
      BY <2>1
    <3> HIDE DEF t
    <3> QED BY <3>1, InTurnAppend DEF Cat
  <2>4. InTurn(lists, t) = Cat(lists[a], InTurn(lists, s))
    BY <1>4
  <2>5. InTurn(lists, Append(s, b)) = Cat(InTurn(lists, s), lists[b])
    BY InTurnAppend DEF Cat
  <2>6. lists[b] \in Seq(Frames) /\ InTurn(lists, s) \in Seq(Frames)
    BY InTurnTyped DEF Lists
  <2>7. Cat(Cat(lists[a], InTurn(lists, s)), lists[b]) =
          Cat(lists[a], Cat(InTurn(lists, s), lists[b]))
    BY <1>1, <2>6, CatAssociative
  <2> QED BY <2>1, <2>2, <2>3, <2>4, <2>5, <2>7
<1>5. Seq(Actors) \subseteq P
  <2> HIDE DEF P
  <2> QED BY <1>3, <1>4, SequenceInduction
<1> QED BY <1>5

LEMMA DrainedInTurn ==
  ASSUME NEW socks, NEW lists
  PROVE  Drained(socks, lists) = InTurn(lists, socks)
BY DEF Drained, InTurn, Parts

LEMMA DrainedNothing ==
  ASSUME NEW socks \in Seq(Actors), IsInjective(socks), NEW lists,
         \A a \in ToSet(socks) : lists[a] = <<>>
  PROVE  Drained(socks, lists) = <<>>
<1>1. \A a \in ToSet(socks) : a \in Actors
  BY LenProperties, ElementOfSeq DEF ToSet
<1>2. \A a \in Actors : Silent[a] = <<>>
  BY DEF Silent
<1>3. Drained(socks, lists) = Drained(socks, Silent)
  BY <1>1, <1>2, DrainedSame
<1>4. Silent \in Lists(Actors, Frames)
  BY AllEmpty DEF Lists
<1>5. CASE ToSet(socks) = {}
  <2>1. socks = <<>>
    <3>1. DOMAIN socks = 1..Len(socks) /\ Len(socks) \in Nat
      BY LenProperties
    <3>2. ~(1 \in DOMAIN socks)
      BY <1>5 DEF ToSet
    <3>3. Len(socks) = 0
      BY <3>1, <3>2
    <3> QED BY <3>3, EmptySeq
  <2>2. [k \in DOMAIN <<>> |-> lists[(<<>>)[k]]] = <<>>
    BY EmptySeq
  <2> QED BY <2>1, <2>2, FlattenEmpty DEF Drained
<1>6. CASE ToSet(socks) # {}
  <2>1. PICK b \in ToSet(socks) : TRUE
    BY <1>6
  <2>2. b \in Actors
    BY <1>1, <2>1
  <2>3. InTurn(Silent, socks) = IF b \in ToSet(socks) THEN Silent[b] ELSE <<>>
    BY <1>1, <1>2, <1>4, <2>2, DrainedOne
  <2> QED BY <1>2, <1>3, <2>2, <2>3, DrainedInTurn
<1> QED BY <1>5, <1>6

-----------------------------------------------------------------------------
(* A run without mishaps, between what happens to it and what its script   *)
(* fixes.  Coming is what each socket is still to give.                    *)
Coming == [a \in Actors |-> Cat(pending[a], wire[a])]

Empty(a) == pending[a] = <<>> /\ wire[a] = <<>>

\* The sockets, the refused actors and the variables are those of the script.
Standing ==
  /\ sockets = SocketsAfter(script)[i - 1]
  /\ failed = {script[m].actor : m \in {n \in 1..(i - 1) : script[n].reply = "refused"}}
  /\ \A m \in 1..(i - 1) : SureToSet(script, m) \subseteq DOMAIN vars
  /\ \A a \in Actors \ Open : Empty(a)

\* No frame is left from one step to the next.
Quiet == phase \notin {"window", "settle"} => \A a \in Actors : Empty(a)

\* A window waits for frames that are all its own.
Awaiting ==
  phase = "window" =>
    /\ Step.wait # None /\ ~Denied(script, i)
    /\ \A a \in Open : Coming[a] = PushedTo(script, i, a)

\* What is captured and what is to come make up what is expected.
Settling ==
  phase = "settle" =>
    /\ Step.kind \notin {"ws.connect", "ws.close"}
    /\ Cat(received, Drained(sockets, Coming)) = ExpectedCapture(script, i)
    /\ error # None => Denied(script, i)
    /\ ~Denied(script, i) =>
         (Step.kind = "http" \/ (Step.kind = "ws.command" /\ Step.wait # None) =>
            ToSet(Step.caps) \subseteq DOMAIN vars)

Recorded ==
  JustFinished =>
    /\ Last(steps).received = ExpectedCapture(script, i - 1)
    /\ Last(steps).error # None => script[i - 1].reply = "refused" \/ Denied(script, i - 1)

Calm == Standing /\ Quiet /\ Awaiting /\ Settling /\ Recorded

Undisturbed ==
  /\ mishaps \in Nat
  /\ mishaps = 0 => nulls = {}
  /\ mishaps = 0 /\ phase # "done" => Calm

-----------------------------------------------------------------------------
(* What a script expects of a step.                                        *)
LEMMA ScriptIsSound ==
  ASSUME RunTypes
  PROVE  /\ script \in Seq(StepDefs)
         /\ StepsAreExchanges(script) /\ SocketsAreOpen(script)
         /\ VariablesAreSure(script) /\ WindowsClose(script)
BY Positions, ScriptsAreSound DEF RunTypes

LEMMA SocketsGoOn ==
  ASSUME Control, Standing, i \in 1..Len(script)
  PROVE  /\ SocketsAfter(script)[i] = SocketsPast(Step, sockets)
         /\ SocketsAfter(script)[i] \in Seq(Actors) /\ IsInjective(SocketsAfter(script)[i])
         /\ Step.kind \notin {"ws.connect", "ws.close"} => SocketsAfter(script)[i] = sockets
<1>1. RunTypes /\ script \in Seq(StepDefs) /\ Step \in StepDefs /\ Step = script[i]
      /\ sockets \in Seq(Actors) /\ IsInjective(sockets)
  BY Positions, StepIsDefined DEF Control, Step, RunTypes
<1>2. SocketsAfter(script)[i] = SocketsPast(Step, sockets)
  BY <1>1, SocketsStepByStep DEF Standing
<1>3. Step.kind \notin {"ws.connect", "ws.close"} => SocketsPast(Step, sockets) = sockets
  BY DEF SocketsPast
<1> QED BY <1>1, <1>2, <1>3, SocketsPastTyped

\* Without a window a step captures all it makes the target push.
LEMMA ExpectedAll ==
  ASSUME Control, Standing, i \in 1..Len(script), ~Denied(script, i), Step.wait = None
  PROVE  ExpectedCapture(script, i) = Drained(SocketsAfter(script)[i], Pushed)
<1>1. /\ script \in Seq(StepDefs) /\ Step = script[i] /\ Actor \in Actors /\ Actor = script[i].actor
      /\ \A a \in Actors : PushedTo(script, i, a) \in Seq(Frames)
  BY Positions, StepIsDefined, PushedFrames DEF Control, Step, Actor
<1>2. Cut(script, i) = 0
  BY <1>1 DEF Cut
<1>3. \A a \in Actors : SubSeq(PushedTo(script, i, a), 1, 0) = <<>>
                        /\ SubSeq(PushedTo(script, i, a), 0 + 1, Len(PushedTo(script, i, a)))
                             = PushedTo(script, i, a)
  <2> SUFFICES ASSUME NEW a \in Actors
               PROVE  /\ SubSeq(PushedTo(script, i, a), 1, 0) = <<>>
                      /\ SubSeq(PushedTo(script, i, a), 0 + 1, Len(PushedTo(script, i, a)))
                           = PushedTo(script, i, a)
    OBVIOUS
  <2> DEFINE own == PushedTo(script, i, a)
  <2>1. own \in Seq(Frames)
    BY <1>1
  <2> HIDE DEF own
  <2>2. SubSeq(own, 1, 0) = <<>> /\ SubSeq(own, 0 + 1, Len(own)) = own
    BY <2>1, SubSeqEmpty, SubSeqFull
  <2> QED BY <2>2 DEF own
<1>4. LeftOver(script, i) = Pushed
  BY <1>1, <1>2, <1>3 DEF LeftOver, Pushed
<1>5. SocketsAfter(script)[i] \in Seq(Actors)
  BY SocketsGoOn
<1>6. Pushed \in Lists(Actors, Frames)
  BY <1>1 DEF Pushed, Lists
<1> DEFINE d == Drained(SocketsAfter(script)[i], Pushed)
<1>7. d \in Seq(Frames)
  BY <1>5, <1>6, DrainedInTurn, InTurnTyped
<1>8. ExpectedCapture(script, i) = <<>> \o d
  BY <1>1, <1>2, <1>3, <1>4 DEF ExpectedCapture
<1> HIDE DEF d
<1>9. <<>> \o d = d
  BY <1>7, ConcatEmptySeq
<1> QED BY <1>8, <1>9 DEF d

\* A step that makes the target push nothing captures nothing.
LEMMA ExpectedNothing ==
  ASSUME Control, Standing, i \in 1..Len(script),
         Denied(script, i) \/ Step.kind \in {"ws.connect", "ws.close", "wait"}
  PROVE  ExpectedCapture(script, i) = <<>>
<1>1. CASE Denied(script, i)
  BY <1>1 DEF ExpectedCapture
<1>2. CASE ~Denied(script, i)
  <2>1. Step.kind \in {"ws.connect", "ws.close", "wait"} /\ RunTypes /\ Step = script[i]
    BY <1>2 DEF Control, Step
  <2>2. Step.wait = None /\ \A a \in Actors : PushedTo(script, i, a) = <<>>
    BY <2>1, ScriptIsSound, Positions DEF StepsAreExchanges
  <2>3. ExpectedCapture(script, i) = Drained(SocketsAfter(script)[i], Pushed)
    BY <1>2, <2>2, ExpectedAll
  <2>4. SocketsAfter(script)[i] \in Seq(Actors) /\ IsInjective(SocketsAfter(script)[i])
    BY SocketsGoOn
  <2>5. \A a \in ToSet(SocketsAfter(script)[i]) : Pushed[a] = <<>>
    <3> DEFINE socks == SocketsAfter(script)[i]
    <3>1. socks \in Seq(Actors)
      BY <2>4
    <3> HIDE DEF socks
    <3>2. \A a \in ToSet(socks) : a \in Actors
      BY <3>1, LenProperties, ElementOfSeq DEF ToSet
    <3> QED BY <2>2, <3>2 DEF Pushed, socks
  <2> QED BY <2>3, <2>4, <2>5, DrainedNothing
<1> QED BY <1>1, <1>2

\* A run has what its next step uses.
LEMMA NothingMissing ==
  ASSUME Control, Standing, nulls = {}, i \in 1..Len(script), ~Denied(script, i)
  PROVE  ~MissingVar /\ Step.ctx \subseteq Usable
<1>1. VariablesAreSure(script) /\ DOMAIN script = 1..Len(script) /\ Step = script[i]
  BY ScriptIsSound, Positions DEF Control, Step
<1>2. \A v \in Step.uses \cup Step.ctx : \E m \in 1..(i - 1) : v \in SureToSet(script, m)
  BY <1>1 DEF VariablesAreSure
<1>3. \A v \in Step.uses \cup Step.ctx : v \in DOMAIN vars
  BY <1>2 DEF Standing
<1> QED BY <1>3 DEF MissingVar, Usable

\* A command, an event or a close has its socket, a refused actor apart.
LEMMA SocketIsOpen ==
  ASSUME Control, Standing, i \in 1..Len(script),
         Step.kind \in {"ws.command", "ws.event", "ws.close"}
  PROVE  /\ ~Denied(script, i) => Actor \in Open
         /\ Step.kind # "ws.close" => (Denied(script, i) <=> Actor \in failed)
<1>1. SocketsAreOpen(script) /\ DOMAIN script = 1..Len(script) /\ Step = script[i]
      /\ Actor = script[i].actor
  BY ScriptIsSound, Positions DEF Control, Step, Actor
<1>2. ~Denied(script, i) => Actor \in ToSet(SocketsAfter(script)[i - 1])
  BY <1>1 DEF SocketsAreOpen
<1>3. Step.kind # "ws.close" => (Denied(script, i) <=> Actor \in failed)
  BY <1>1 DEF Denied, Standing
<1> QED BY <1>2, <1>3 DEF Standing, Open

\* What happens as expected is no mishap.
LEMMA NoMishap ==
  ASSUME mishaps \in Nat, mishaps' = 0
  PROVE  /\ ~Mishap
         /\ \A e : AsExpected(e) => e
         /\ \A x : Patience(x) => x = {}
<1>1. ~Mishap
  BY DEF Mishap
<1> QED BY <1>1 DEF AsExpected, Patience

-----------------------------------------------------------------------------
\* A step that goes on.
LEMMA StaysCalm ==
  ASSUME Standing, UNCHANGED <<theScenario, i, sockets, failed>>,
         DOMAIN vars \subseteq DOMAIN vars', \A a \in Actors \ Open : Empty(a)',
         phase' \notin {"step", "final"}, Quiet', Awaiting', Settling'
  PROVE  Calm'
<1>1. script' = script /\ i' = i /\ sockets' = sockets /\ failed' = failed /\ Open' = Open
  BY DEF theScenario, Open
<1>2. Standing'
  BY <1>1 DEF Standing
<1>3. Recorded'
  BY DEF Recorded, JustFinished
<1> QED BY <1>2, <1>3 DEF Calm

\* A step that is over.
LEMMA EndsCalm ==
  ASSUME Control, Kept, Standing, i \in 1..Len(script), UNCHANGED theScenario,
         NEW frames \in Seq(Frames), NEW err \in Errors,
         NEW socks \in Seq(Actors), IsInjective(socks),
         NEW pend \in Lists(Actors, Frames), OwnFrames(pend), EndStep(frames, err, socks, pend),
         Cat(frames, Drained(socks, pend)) = ExpectedCapture(script, i),
         err # None => Step.reply = "refused" \/ Denied(script, i),
         socks = SocketsAfter(script)[i],
         failed' = IF Step.reply = "refused" THEN failed \cup {Actor} ELSE failed,
         SureToSet(script, i) \subseteq DOMAIN vars',
         \A a \in Actors : wire'[a] = <<>>,
         \A a \in Actors : a \notin ToSet(socks) => pend[a] = <<>>
  PROVE  Calm'
<1> DEFINE r == [received |-> Cat(frames, Drained(socks, pend)), error |-> err]
<1>1. /\ r \in Records /\ r.error = err /\ r.received = ExpectedCapture(script, i)
      /\ FrameTypes /\ RunTypes
  BY EndRecords DEF Cat, Kept, Control
<1>2. /\ steps' = Append(steps, r) /\ sockets' = socks
      /\ i' = i + 1 /\ phase' \in {"step", "final"} /\ script' = script
      /\ pending' = [a \in Actors |-> IF a \in ToSet(socks) THEN <<>> ELSE pend[a]]
      /\ DOMAIN vars \subseteq DOMAIN vars'
  BY VarsStay DEF EndStep, theScenario, Cat
<1> HIDE DEF r
<1>3. phase # "done" /\ i \in Nat /\ i >= 1
  BY <1>1, Positions DEF RunTypes
<1>4. Len(steps') = i /\ steps'[i] = r
  BY <1>1, <1>2, <1>3, StepsGrow
<1>5. i' - 1 = i /\ \A m \in 1..i : m \in 1..(i - 1) \/ m = i
  BY <1>2, <1>3
<1>6. \A a \in Actors : Empty(a)'
  BY <1>2 DEF Empty
<1>7. failed' = {script[m].actor : m \in {n \in 1..i : script[n].reply = "refused"}}
  <2>1. failed = {script[m].actor : m \in {n \in 1..(i - 1) : script[n].reply = "refused"}}
        /\ Step = script[i] /\ Actor = script[i].actor
    BY DEF Standing, Step, Actor
  <2>2. \A m \in 1..(i - 1) : m \in 1..i
    BY <1>3
  <2>3. i \in 1..i
    BY <1>3
  <2> QED BY <1>5, <2>1, <2>2, <2>3
<1>8. \A m \in 1..i : SureToSet(script, m) \subseteq DOMAIN vars'
  BY <1>2, <1>5 DEF Standing
<1>9. Standing'
  BY <1>2, <1>5, <1>6, <1>7, <1>8 DEF Standing
<1>10. Quiet' /\ Awaiting' /\ Settling'
  BY <1>2, <1>6 DEF Quiet, Awaiting, Settling
<1>11. Recorded'
  <2>1. Last(steps') = r
    BY <1>4 DEF Last
  <2>2. Step = script[i]
    BY DEF Step
  <2> QED BY <1>1, <1>2, <1>5, <2>1, <2>2 DEF Recorded
<1> QED BY <1>9, <1>10, <1>11 DEF Calm

\* A step that goes to its settle at once.
LEMMA BeginsToSettle ==
  ASSUME Control, Standing, i \in 1..Len(script),
         Step.kind \notin {"ws.connect", "ws.close"}, ~Denied(script, i) => Step.wait = None,
         UNCHANGED <<theScenario, i, sockets, failed>>,
         DOMAIN vars \subseteq DOMAIN vars', phase' = "settle", received' = <<>>,
         \A a \in Actors : pending'[a] = <<>>,
         \A a \in Actors \ Open : wire'[a] = <<>>,
         ~Denied(script, i) => \A a \in Open : wire'[a] = PushedTo(script, i, a),
         Denied(script, i) => \A a \in Open : wire'[a] = <<>>,
         error' # None => Denied(script, i),
         Step.kind = "http" => ToSet(Step.caps) \subseteq DOMAIN vars'
  PROVE  Calm'
<1>1. script' = script /\ i' = i /\ sockets' = sockets /\ Open' = Open /\ Step' = Step
      /\ script \in Seq(StepDefs) /\ sockets \in Seq(Actors) /\ IsInjective(sockets)
  BY Positions DEF theScenario, Open, Step, Control, RunTypes
<1>2. \A a \in Open : a \in Actors
  BY <1>1, LenProperties, ElementOfSeq DEF Open, ToSet
<1> DEFINE flow == Coming'
<1>3. Cat(received', Drained(sockets, flow)) = ExpectedCapture(script, i)
  <2>1. flow = [a \in Actors |-> Cat(pending'[a], wire'[a])]
    BY DEF Coming
  <2>2. CASE Denied(script, i)
    <3>1. \A a \in ToSet(sockets) : flow[a] = <<>>
      <4>1. Cat(<<>>, <<>>) = <<>>
        BY CatEmpty, EmptySeq
      <4> QED BY <1>2, <2>1, <2>2, <4>1 DEF Open
    <3> HIDE DEF flow
    <3>2. Drained(sockets, flow) = <<>> /\ ExpectedCapture(script, i) = <<>>
      BY <1>1, <2>2, <3>1, DrainedNothing, ExpectedNothing
    <3>3. Cat(<<>>, <<>>) = <<>>
      BY CatEmpty, EmptySeq
    <3> QED BY <3>2, <3>3
  <2>3. CASE ~Denied(script, i)
    <3>1. \A a \in ToSet(sockets) : flow[a] = Pushed[a]
      <4> SUFFICES ASSUME NEW a \in Open PROVE flow[a] = Pushed[a]
        BY DEF Open
      <4>1. a \in Actors /\ PushedTo(script, i, a) \in Seq(Frames)
        BY <1>1, <1>2, PushedFrames
      <4>2. flow[a] = Cat(<<>>, PushedTo(script, i, a))
        BY <2>1, <2>3, <4>1
      <4> QED BY <4>1, <4>2, CatEmpty DEF Pushed
    <3> HIDE DEF flow
    <3>2. Drained(sockets, flow) = Drained(sockets, Pushed)
      BY <1>1, <3>1, DrainedSame
    <3>3. Drained(sockets, Pushed) = ExpectedCapture(script, i)
      BY <2>3, SocketsGoOn, ExpectedAll
    <3>4. Drained(sockets, Pushed) \in Seq(Frames)
      <4>1. Pushed \in Lists(Actors, Frames)
        BY PushedNow DEF Lists, Control
      <4> QED BY <1>1, <4>1, DrainedInTurn, InTurnTyped
    <3> QED BY <3>2, <3>3, <3>4, CatEmpty
  <2> QED BY <2>2, <2>3
<1>4. Settling'
  BY <1>1, <1>3 DEF Settling
<1>5. Quiet' /\ Awaiting' /\ \A a \in Actors \ Open : Empty(a)'
  BY DEF Quiet, Awaiting, Empty
<1> QED BY <1>4, <1>5, StaysCalm

-----------------------------------------------------------------------------
(* Every step of a run without mishaps.                                    *)

\* What is pushed on sockets that have nothing is all they have.
LEMMA PushedOnly ==
  ASSUME Control, i \in 1..Len(script), Emit(Pushed), \A a \in Actors : wire[a] = <<>>
  PROVE  \A a \in Actors : wire'[a] = IF a \in Open THEN PushedTo(script, i, a) ELSE <<>>
<1> SUFFICES ASSUME NEW a \in Actors
             PROVE  wire'[a] = IF a \in Open THEN PushedTo(script, i, a) ELSE <<>>
  OBVIOUS
<1>1. wire'[a] = IF a \in Open THEN wire[a] \o Pushed[a] ELSE wire[a]
  BY DEF Emit
<1>2. PushedTo(script, i, a) \in Seq(Frames) /\ Pushed[a] = PushedTo(script, i, a)
  BY Positions, PushedFrames DEF Control, Pushed
<1>3. <<>> \o PushedTo(script, i, a) = PushedTo(script, i, a)
  BY <1>2, ConcatEmptySeq
<1> QED BY <1>1, <1>2, <1>3

LEMMA HttpCalm ==
  ASSUME Control, Calm, mishaps \in Nat, mishaps' = 0, nulls = {},
         HttpStart \/ BeginReadFails \/ EndReadFails \/ HttpTransportError \/ WaitStep
  PROVE  Calm'
<1>1. HttpStart \/ WaitStep
  BY NoMishap DEF BeginReadFails, EndReadFails, HttpTransportError
<1>2. /\ phase = "step" /\ phase \notin {"final", "done"} /\ phase \notin {"window", "settle"}
      /\ Step.kind \in {"http", "wait"}
  BY <1>1 DEF HttpStart, WaitStep, Starts
<1>3. /\ i \in 1..Len(script) /\ RunTypes /\ error = None /\ received = <<>>
      /\ Standing /\ \A a \in Actors : Empty(a)
  BY <1>2, InProgress DEF Calm, Quiet
<1>4. ~Denied(script, i) /\ Step = script[i] /\ DOMAIN script = 1..Len(script)
  BY <1>2, <1>3, Positions DEF Denied, Step
<1>5. UNCHANGED <<theScenario, i, vars, sockets, failed, pending, received, wire>>
  BY <1>1 DEF HttpStart, WaitStep
<1>6. \A a \in Actors : Empty(a)' /\ pending'[a] = <<>> /\ wire'[a] = <<>>
  BY <1>3, <1>5 DEF Empty
<1>7. CASE HttpStart
  <2>1. ~MissingVar
    BY <1>3, <1>4, NothingMissing
  <2>2. phase' = "http"
    BY <1>7, <2>1 DEF HttpStart
  <2>3. Quiet' /\ Awaiting' /\ Settling'
    BY <1>6, <2>2 DEF Quiet, Awaiting, Settling
  <2> QED BY <1>3, <1>5, <1>6, <2>2, <2>3, StaysCalm
<1>8. CASE WaitStep
  <2>1. phase' = "settle" /\ error' = None /\ Step.kind = "wait" /\ received' = <<>>
    BY <1>3, <1>8 DEF WaitStep, Starts
  <2>2. Step.wait = None /\ \A a \in Actors : PushedTo(script, i, a) = <<>>
    BY <1>3, <1>4, <2>1, ScriptIsSound DEF StepsAreExchanges
  <2>3. \A a \in Open : a \in Actors
    BY <1>3, LenProperties, ElementOfSeq DEF Open, ToSet, RunTypes
  <2> QED BY <1>3, <1>4, <1>5, <1>6, <2>1, <2>2, <2>3, BeginsToSettle
<1> QED BY <1>1, <1>7, <1>8

LEMMA AnswerCalm ==
  ASSUME Control, Calm, mishaps \in Nat, mishaps' = 0, nulls = {},
         NEW good, NEW found, NEW empty, HttpAnswer(good, found, empty, Pushed)
  PROVE  Calm'
<1>1. phase = "http" /\ phase \notin {"final", "done"} /\ phase \notin {"window", "settle"}
  BY DEF HttpAnswer
<1>2. /\ i \in 1..Len(script) /\ RunTypes /\ error = None /\ received = <<>>
      /\ Step \in StepDefs /\ Step.kind = "http"
      /\ Standing /\ \A a \in Actors : Empty(a)
  BY <1>1, InProgress DEF Calm, Quiet
<1>3. ~Denied(script, i) /\ Step = script[i] /\ DOMAIN script = 1..Len(script)
  BY <1>2, Positions DEF Denied, Step
<1>4. UNCHANGED <<theScenario, i, sockets, failed, pending, received>>
  BY DEF HttpAnswer
<1>5. \A a \in Actors : wire'[a] = IF a \in Open THEN PushedTo(script, i, a) ELSE <<>>
  BY <1>2, PushedOnly DEF HttpAnswer, Empty
<1>6. Step.wait = None /\ (Step.retry => \A a \in Actors : PushedTo(script, i, a) = <<>>)
  BY <1>2, <1>3, ScriptIsSound DEF StepsAreExchanges
<1>7. /\ ToSet(Step.caps) \subseteq found
      /\ Step.retry /\ ~good => attempts < MaxAttempts
  <2>1. Step.ctx \subseteq Usable
    BY <1>2, <1>3, NothingMissing
  <2> QED BY <2>1, NoMishap DEF HttpAnswer
<1>8. \A a \in Actors : pending'[a] = <<>>
  BY <1>2, <1>4 DEF Empty
<1>9. \A a \in Open : a \in Actors
  BY <1>2, LenProperties, ElementOfSeq DEF Open, ToSet, RunTypes
<1>10. CASE Step.retry /\ ~good
  <2>1. phase' = "http" /\ vars' = vars
    BY <1>7, <1>10 DEF HttpAnswer
  <2>2. \A a \in Actors : Empty(a)'
    BY <1>5, <1>6, <1>8, <1>10 DEF Empty
  <2>3. Quiet' /\ Awaiting' /\ Settling'
    BY <2>1, <2>2 DEF Quiet, Awaiting, Settling
  <2> QED BY <1>2, <1>4, <2>1, <2>2, <2>3, StaysCalm
<1>11. CASE ~(Step.retry /\ ~good)
  <2>1. vars' = Captured(FoundPrefix(found)) /\ phase' = "settle" /\ error' = None
    BY <1>7, <1>11 DEF HttpAnswer, SettleWith
  <2>2. Step.caps \in Seq(STRING)
    BY <1>2 DEF StepDefs
  <2>3. FoundPrefix(found) = ToSet(Step.caps)
    BY <1>7, <2>2, AllCaptured
  <2>4. DOMAIN vars \subseteq DOMAIN vars' /\ ToSet(Step.caps) \subseteq DOMAIN vars'
    BY <2>1, <2>3, VarsStay
  <2>5. received' = <<>> /\ \A a \in Actors \ Open : wire'[a] = <<>>
    BY <1>2, <1>4, <1>5
  <2> QED BY <1>2, <1>3, <1>4, <1>5, <1>6, <1>8, <1>9, <2>1, <2>4, <2>5, BeginsToSettle
<1> QED BY <1>10, <1>11

LEMMA SendCalm ==
  ASSUME Control, Kept, Calm, mishaps \in Nat, mishaps' = 0, nulls = {},
         CommandStart(Pushed) \/ EventStart(Pushed)
  PROVE  Calm'
<1>1. /\ phase = "step" /\ phase \notin {"final", "done"} /\ phase \notin {"window", "settle"}
      /\ Step.kind \in {"ws.command", "ws.event"}
      /\ CommandStart(Pushed) => Step.kind = "ws.command"
      /\ EventStart(Pushed) => Step.kind = "ws.event"
  BY DEF CommandStart, EventStart, Starts
<1>2. /\ i \in 1..Len(script) /\ RunTypes /\ error = None /\ received = <<>>
      /\ Actor \in Actors /\ Standing /\ \A a \in Actors : Empty(a)
  BY <1>1, InProgress DEF Calm, Quiet
<1>3. Step = script[i] /\ DOMAIN script = 1..Len(script) /\ \A a \in Open : a \in Actors
  BY <1>2, Positions, LenProperties, ElementOfSeq DEF Step, Open, ToSet, RunTypes
<1>4. UNCHANGED <<theScenario, i, sockets, failed, vars>>
  BY DEF CommandStart, EventStart
<1>5. Denied(script, i) <=> NoOpenSocket
  BY <1>1, <1>2, SocketIsOpen DEF NoOpenSocket
<1>6. CASE Denied(script, i)
  <2>1. /\ phase' = "settle" /\ UNCHANGED <<wire, pending, received>>
    BY <1>5, <1>6 DEF CommandStart, EventStart, SettleWith
  <2>2. received' = <<>> /\ \A a \in Actors : pending'[a] = <<>> /\ wire'[a] = <<>>
    BY <1>2, <2>1 DEF Empty
  <2> QED BY <1>1, <1>2, <1>3, <1>4, <1>6, <2>1, <2>2, BeginsToSettle
<1>7. CASE ~Denied(script, i)
  <2>1. ~NoOpenSocket /\ ~MissingVar
    BY <1>2, <1>5, <1>7, NothingMissing
  <2>2. Emit(Pushed)
    BY <2>1 DEF CommandStart, EventStart
  <2>3. \A a \in Actors : wire'[a] = IF a \in Open THEN PushedTo(script, i, a) ELSE <<>>
    BY <1>2, <2>2, PushedOnly DEF Empty
  <2>4. CASE Step.wait = None
    <3>1. CommandStart(Pushed)
      BY <1>1, <1>2, <1>3, <2>4, ScriptIsSound DEF StepsAreExchanges
    <3>2. /\ phase' = "settle" /\ error' = None
          /\ received' = pending[Actor] /\ pending' = [pending EXCEPT ![Actor] = <<>>]
      BY <2>1, <2>4, <3>1 DEF CommandStart, SettleWith
    <3>3. received' = <<>> /\ \A a \in Actors : pending'[a] = <<>>
      <4>1. \A a \in Actors : pending'[a] = IF a = Actor THEN <<>> ELSE pending[a]
        <5>1. pending \in [Actors -> Seq(Frames)]
          BY DEF Kept, FrameTypes
        <5> QED BY <3>2, <5>1
      <4> QED BY <1>2, <3>2, <4>1 DEF Empty
    <3> QED BY <1>1, <1>2, <1>3, <1>4, <1>7, <2>3, <2>4, <3>2, <3>3, BeginsToSettle
  <2>5. CASE Step.wait # None
    <3>1. phase' = "window" /\ pending' = pending
      BY <2>1, <2>5 DEF CommandStart, EventStart
    <3>2. \A a \in Actors : pending'[a] = <<>> /\ Coming'[a] = Cat(<<>>, wire'[a])
      BY <1>2, <3>1 DEF Empty, Coming
    <3>3. \A a \in Open : Coming'[a] = PushedTo(script, i, a)
      <4> SUFFICES ASSUME NEW a \in Open PROVE Coming'[a] = PushedTo(script, i, a)
        OBVIOUS
      <4>1. a \in Actors /\ PushedTo(script, i, a) \in Seq(Frames)
        BY <1>2, <1>3, Positions, PushedFrames
      <4>2. Coming'[a] = Cat(<<>>, PushedTo(script, i, a))
        BY <2>3, <3>2, <4>1
      <4> QED BY <4>1, <4>2, CatEmpty
    <3>4. script' = script /\ i' = i /\ Step' = Step /\ Open' = Open
      BY <1>4 DEF theScenario, Step, Open
    <3>5. Awaiting'
      BY <1>7, <2>5, <3>3, <3>4 DEF Awaiting
    <3>6. Quiet' /\ Settling' /\ \A a \in Actors \ Open : Empty(a)'
      BY <2>3, <3>1, <3>2 DEF Quiet, Settling, Empty
    <3> QED BY <1>2, <1>4, <3>1, <3>5, <3>6, StaysCalm
  <2> QED BY <2>4, <2>5
<1> QED BY <1>6, <1>7

\* A frame that arrives was to come.
LEMMA ArriveCalm ==
  ASSUME Control, Kept, Calm, NEW a \in Actors, Arrive(a)
  PROVE  Calm'
<1>1. /\ phase \in {"http", "connect", "window", "settle", "final"}
      /\ a \in Open /\ wire[a] # <<>>
      /\ pending' = [pending EXCEPT ![a] = Append(pending[a], Head(wire[a]))]
      /\ wire' = [wire EXCEPT ![a] = Tail(wire[a])]
      /\ UNCHANGED <<theScenario, i, phase, vars, sockets, failed, received, error>>
  BY DEF Arrive
<1>2. phase \in {"window", "settle"}
  BY <1>1 DEF Calm, Quiet, Empty
<1>3. pending \in [Actors -> Seq(Frames)] /\ wire \in [Actors -> Seq(Frames)]
  BY DEF Kept, FrameTypes
<1>4. Cat(Append(pending[a], Head(wire[a])), Tail(wire[a])) = Cat(pending[a], wire[a])
  <2> DEFINE p == pending[a]
             q == wire[a]
  <2>1. p \in Seq(Frames) /\ q \in Seq(Frames) /\ q # <<>>
    BY <1>1, <1>3
  <2> HIDE DEF p, q
  <2>2. Head(q) \in Frames /\ Tail(q) \in Seq(Frames) /\ Head(q) = q[1]
    BY <2>1, HeadTailProperties
  <2>3. q = <<Head(q)>> \o Tail(q)
    <3>1. 1 \in 1..Len(q) /\ Len(q) \in 1..Len(q)
      BY <2>1, EmptySeq, LenProperties
    <3>2. SubSeq(q, 1, Len(q)) = <<q[1]>> \o SubSeq(q, 1 + 1, Len(q))
      BY <2>1, <3>1, SubSeqRecursiveFirst
    <3> QED BY <2>1, <2>2, <3>2, SubSeqFull, TailIsSubSeq
  <2> DEFINE one == <<Head(q)>>
             rest == Tail(q)
  <2>4. one \in Seq(Frames) /\ rest \in Seq(Frames) /\ q = Cat(one, rest)
    BY <2>2, <2>3 DEF Cat
  <2>5. Append(p, Head(q)) = Cat(p, one)
    BY <2>1, <2>2, AppendIsConcat DEF Cat
  <2> HIDE DEF one, rest
  <2>6. Cat(Cat(p, one), rest) = Cat(p, q)
    BY <2>1, <2>4, CatAssociative
  <2> QED BY <2>5, <2>6 DEF p, q, rest
<1>5. Coming' = Coming
  <2>1. \A b \in Actors : Cat(pending'[b], wire'[b]) = Cat(pending[b], wire[b])
    BY <1>1, <1>3, <1>4
  <2> QED BY <2>1 DEF Coming
<1>6. script' = script /\ i' = i /\ Open' = Open /\ Step' = Step
  BY <1>1 DEF theScenario, Open, Step
<1>7. \A b \in Actors \ Open : Empty(b)'
  BY <1>1, <1>3 DEF Calm, Standing, Empty
<1>8. Quiet' /\ Awaiting' /\ Settling'
  BY <1>1, <1>2, <1>5, <1>6 DEF Calm, Quiet, Awaiting, Settling
<1> QED BY <1>1, <1>2, <1>7, <1>8, StaysCalm DEF Calm

-----------------------------------------------------------------------------
\* What a window takes is what it waited for, whatever else has arrived.
LEMMA SplicedTogether ==
  ASSUME NEW A \in Actors, NEW b \in Actors, b # A,
         NEW socks \in Seq(Actors), IsInjective(socks), b \in ToSet(socks),
         NEW r \in Seq(Actors), IsInjective(r), A \notin ToSet(r),
         NEW heads \in Lists(Actors, Frames), NEW flow \in Lists(Actors, Frames),
         \A a \in Actors : a \notin {A, b} => heads[a] = <<>> /\ flow[a] = <<>>,
         flow[A] = <<>>, b \notin ToSet(r) => heads[b] = <<>>
  PROVE  Cat(InTurn(heads, r), InTurn(flow, socks)) = Cat(heads[b], flow[b])
<1>1. \A a \in ToSet(r) : a # b => heads[a] = <<>>
  BY LenProperties, ElementOfSeq DEF ToSet
<1>2. \A a \in ToSet(socks) : a # b => flow[a] = <<>>
  BY LenProperties, ElementOfSeq DEF ToSet
<1>3. InTurn(heads, r) = heads[b]
  BY <1>1, DrainedOne
<1>4. InTurn(flow, socks) = flow[b]
  BY <1>2, DrainedOne
<1> QED BY <1>3, <1>4

LEMMA WindowTaken ==
  ASSUME Control, Kept, Calm, phase = "window", AllMatched(pending[Actor], Step),
         received' = Taken(WindowTakes, SpliceOrder), pending' = Rest(WindowTakes), wire' = wire
  PROVE  Cat(received', Drained(sockets, Coming')) = ExpectedCapture(script, i)
<1>1. /\ i \in 1..Len(script) /\ RunTypes /\ FrameTypes /\ Actor \in Actors
      /\ sockets \in Seq(Actors) /\ IsInjective(sockets)
      /\ Step.kind \in {"ws.command", "ws.event"} /\ Standing
  BY InProgress DEF Kept, Calm
<1>2. /\ Step.wait # None /\ ~Denied(script, i)
      /\ \A a \in Open : Cat(pending[a], wire[a]) = PushedTo(script, i, a) /\ a \in Actors
  <2>1. \A a \in Open : a \in Actors
    BY <1>1, LenProperties, ElementOfSeq DEF Open, ToSet
  <2> QED BY <2>1 DEF Calm, Awaiting, Coming
<1>3. Actor \in Open /\ Step = script[i] /\ Actor = script[i].actor /\ DOMAIN script = 1..Len(script)
  BY <1>1, <1>2, SocketIsOpen, Positions DEF Step, Actor
<1>4. \A a \in Actors : pending[a] \in Seq(Frames) /\ wire[a] \in Seq(Frames)
  BY <1>1 DEF FrameTypes
<1> DEFINE A == Actor
           own == PushedTo(script, i, A)
           r == RemoveFirst(Step.splice, A)
           heads == [a \in Actors |-> SubSeq(pending[a], 1, WindowTakes[a])]
           rests == [a \in Actors |-> SubSeq(pending[a], WindowTakes[a] + 1, Len(pending[a]))]
           flow == Coming'
           left == LeftOver(script, i)
<1>5. ASSUME NEW a \in Actors
      PROVE  /\ heads[a] \in Seq(Frames) /\ rests[a] \in Seq(Frames)
             /\ Cat(heads[a], rests[a]) = pending[a]
             /\ a \notin ToSet(SpliceOrder) => heads[a] = <<>>
             /\ pending[a] = <<>> => heads[a] = <<>> /\ rests[a] = <<>>
  <2> DEFINE p == pending[a]
             n == WindowTakes[a]
  <2>1. p \in Seq(Frames) /\ n \in 0..Len(p) /\ (a \notin ToSet(SpliceOrder) => n = 0)
    BY <1>1, <1>4, WindowTakesBound
  <2>2. heads[a] = SubSeq(p, 1, n) /\ rests[a] = SubSeq(p, n + 1, Len(p))
    OBVIOUS
  <2> HIDE DEF p, n, heads, rests
  <2>3. /\ heads[a] \in Seq(Frames) /\ rests[a] \in Seq(Frames)
        /\ Cat(heads[a], rests[a]) = p
    BY <2>1, <2>2, CutInTwo
  <2>4. n = 0 => heads[a] = <<>>
    BY <2>2, SubSeqEmpty
  <2>5. p = <<>> => heads[a] = <<>> /\ rests[a] = <<>>
    BY <2>3, ConcatSimplifications DEF Cat
  <2> QED BY <2>1, <2>3, <2>4, <2>5 DEF p
<1>6. \A a \in Actors : flow[a] = Cat(rests[a], wire[a]) /\ flow[a] \in Seq(Frames)
  <2>1. \A a \in Actors : flow[a] = Cat(rests[a], wire[a])
    BY DEF Coming, Rest
  <2> HIDE DEF rests, flow
  <2> QED BY <1>4, <1>5, <2>1, CatTyped
<1>7. /\ r \in Seq(Actors) /\ IsInjective(r) /\ ToSet(r) = ToSet(Step.splice) \ {A}
      /\ SpliceOrder = <<A>> \o r /\ SpliceOrder \in Seq(Actors)
      /\ ToSet(SpliceOrder) = {A} \cup ToSet(Step.splice)
  BY <1>1, StepIsDefined, RemoveOne, SpliceOrderHas DEF SpliceOrder
<1>8. heads \in Lists(Actors, Frames) /\ flow \in Lists(Actors, Frames)
  <2>1. heads \in [Actors -> Seq(Frames)]
    BY <1>5
  <2>2. flow \in [Actors -> Seq(Frames)]
    BY <1>6 DEF Coming
  <2> QED BY <2>1, <2>2 DEF Lists
<1>9. received' = Cat(heads[A], InTurn(heads, r))
  <2>1. DOMAIN SpliceOrder = 1..Len(SpliceOrder) /\ \A k \in DOMAIN SpliceOrder : SpliceOrder[k] \in Actors
    BY <1>7, LenProperties, ElementOfSeq
  <2>2. Parts(heads, SpliceOrder) =
          [k \in DOMAIN SpliceOrder |->
             SubSeq(pending[SpliceOrder[k]], 1, WindowTakes[SpliceOrder[k]])]
    BY <2>1 DEF Parts
  <2>3. received' = InTurn(heads, SpliceOrder)
    BY <2>2 DEF Taken, InTurn
  <2> HIDE DEF heads, r
  <2>4. InTurn(heads, <<A>> \o r) = Cat(heads[A], InTurn(heads, r))
    BY <1>1, <1>7, <1>8, InTurnFirst
  <2> QED BY <1>7, <2>3, <2>4
<1>10. own = Cat(pending[A], wire[A]) /\ own \in Seq(Frames)
  BY <1>1, <1>2, <1>3, <1>4, CatTyped
<1>11. /\ Cut(script, i) = WindowTakes[A] /\ WindowTakes[A] \in 0..Len(pending[A])
       /\ heads[A] = SubSeq(own, 1, Cut(script, i))
       /\ flow[A] = SubSeq(own, Cut(script, i) + 1, Len(own))
  <2>1. Cut(script, i) = LastMatch(own, Step) /\ WindowTakes[A] = LastMatch(pending[A], Step)
    BY <1>1, <1>2, <1>3 DEF Cut, WindowTakes
  <2> DEFINE p == pending[A]
             w == wire[A]
             n == LastMatch(p, Step)
  <2>2. p \in Seq(Frames) /\ w \in Seq(Frames) /\ own = Cat(p, w) /\ AllMatched(p, Step)
    BY <1>1, <1>4, <1>10
  <2>3. heads[A] = SubSeq(p, 1, n) /\ flow[A] = Cat(SubSeq(p, n + 1, Len(p)), w)
    BY <1>1, <1>6, <2>1
  <2> HIDE DEF own, p, w, n, heads, flow
  <2>4. n \in 0..Len(p) /\ LastMatch(own, Step) = n
    BY <2>2, LastMatchOfPrefix DEF n
  <2>5. /\ SubSeq(own, 1, n) = SubSeq(p, 1, n)
        /\ SubSeq(own, n + 1, Len(own)) = Cat(SubSeq(p, n + 1, Len(p)), w)
    BY <2>2, <2>4, CutOfConcat
  <2>6. WindowTakes[A] = n
    BY <2>1 DEF n, p
  <2> QED BY <2>1, <2>3, <2>4, <2>5, <2>6 DEF p
<1>12. /\ left[A] = flow[A]
       /\ \A a \in Open : a # A => left[a] = Cat(pending[a], wire[a])
  BY <1>1, <1>2, <1>3, <1>11 DEF LeftOver
<1>13. ExpectedCapture(script, i) = Cat(heads[A], Drained(sockets, left))
  <2>1. SocketsAfter(script)[i] = sockets
    BY <1>1, SocketsGoOn
  <2> QED BY <1>2, <1>3, <1>11, <2>1 DEF ExpectedCapture, Cat
<1>14. Drained(sockets, flow) = InTurn(flow, sockets) /\ InTurn(flow, sockets) \in Seq(Frames)
       /\ InTurn(heads, r) \in Seq(Frames)
  <2> HIDE DEF flow, heads, r
  <2> QED BY <1>1, <1>7, <1>8, DrainedInTurn, InTurnTyped
<1>15. Cat(InTurn(heads, r), InTurn(flow, sockets)) = Drained(sockets, left)
  <2> HIDE DEF heads, rests, flow, left, r
  <2>1. CASE Step.splice = <<>>
    <3>1. ToSet(r) = {} /\ \A a \in Actors : a # A => heads[a] = <<>>
      <4>1. ToSet(Step.splice) = {}
        BY <2>1, EmptySeq DEF ToSet
      <4> QED BY <1>5, <1>7, <4>1
    <3>2. InTurn(heads, r) = <<>>
      BY <1>7, <3>1, DrainedNothing, DrainedInTurn
    <3>3. \A a \in Open : flow[a] = left[a]
      <4> SUFFICES ASSUME NEW a \in Open, a # A PROVE flow[a] = left[a]
        BY <1>12
      <4>1. a \in Actors /\ heads[a] = <<>> /\ rests[a] \in Seq(Frames)
            /\ Cat(heads[a], rests[a]) = pending[a]
        BY <1>2, <1>5, <3>1
      <4>2. rests[a] = pending[a]
        BY <4>1, CatEmpty
      <4> QED BY <1>6, <1>12, <4>1, <4>2
    <3>4. Drained(sockets, flow) = Drained(sockets, left)
      BY <1>1, <3>3, DrainedSame DEF Open
    <3> QED BY <1>14, <3>2, <3>4, CatEmpty
  <2>2. CASE Step.splice # <<>>
    <3>1. /\ Cut(script, i) = Len(own)
          /\ \A a, b \in Open \ {A} : PushedTo(script, i, a) # <<>> /\ PushedTo(script, i, b) # <<>> => a = b
      <4>1. SocketsAfter(script)[i] = sockets /\ WindowsClose(script)
        BY <1>1, SocketsGoOn, ScriptIsSound
      <4>2. /\ Cut(script, i) = Len(PushedTo(script, i, script[i].actor))
            /\ \A a, b \in ToSet(SocketsAfter(script)[i]) \ {script[i].actor} :
                 PushedTo(script, i, a) # <<>> /\ PushedTo(script, i, b) # <<>> => a = b
        BY <1>1, <1>2, <1>3, <2>2, <4>1 DEF WindowsClose
      <4> QED BY <1>3, <4>1, <4>2 DEF Open
    <3>2. flow[A] = <<>>
      <4>1. Len(own) \in Nat
        BY <1>10, LenProperties
      <4> HIDE DEF own
      <4> QED BY <1>11, <3>1, <4>1, SubSeqEmpty
    <3>3. ASSUME NEW a \in Actors, a # A, a \in Open => PushedTo(script, i, a) = <<>>
          PROVE  heads[a] = <<>> /\ flow[a] = <<>>
      <4>1. pending[a] = <<>> /\ wire[a] = <<>>
        <5>1. CASE a \in Open
          BY <1>2, <1>4, <3>3, <5>1, ConcatSimplifications DEF Cat
        <5>2. CASE a \notin Open
          BY <1>1, <5>2 DEF Standing, Empty
        <5> QED BY <5>1, <5>2
      <4>2. heads[a] = <<>> /\ rests[a] = <<>>
        BY <1>5, <4>1
      <4>3. Cat(<<>>, <<>>) = <<>>
        BY CatEmpty, EmptySeq
      <4> QED BY <1>6, <4>1, <4>2, <4>3
    <3>4. CASE \A a \in Open \ {A} : PushedTo(script, i, a) = <<>>
      <4>1. \A a \in Actors : a # A => heads[a] = <<>> /\ flow[a] = <<>>
        BY <3>3, <3>4
      <4>2. \A a \in ToSet(r) : heads[a] = <<>>
        <5>1. \A a \in ToSet(r) : a \in Actors
          BY <1>7, LenProperties, ElementOfSeq DEF ToSet
        <5> QED BY <1>7, <4>1, <5>1
      <4>3. \A a \in ToSet(sockets) : flow[a] = <<>> /\ left[a] = <<>>
        <5> SUFFICES ASSUME NEW a \in Open PROVE flow[a] = <<>> /\ left[a] = <<>>
          BY DEF Open
        <5>1. CASE a = A
          BY <1>12, <3>2, <5>1
        <5>2. CASE a # A
          BY <1>2, <1>12, <3>4, <4>1, <5>2
        <5> QED BY <5>1, <5>2
      <4>4. InTurn(heads, r) = <<>> /\ InTurn(flow, sockets) = <<>> /\ Drained(sockets, left) = <<>>
        BY <1>1, <1>7, <4>2, <4>3, DrainedNothing, DrainedInTurn
      <4>5. Cat(<<>>, <<>>) = <<>>
        BY CatEmpty, EmptySeq
      <4> QED BY <4>4, <4>5
    <3>5. ASSUME NEW b \in Open \ {A}, PushedTo(script, i, b) # <<>>
          PROVE  Cat(InTurn(heads, r), InTurn(flow, sockets)) = Drained(sockets, left)
      <4>1. b \in Actors /\ b # A /\ b \in ToSet(sockets)
        BY <1>2, <3>5 DEF Open
      <4>2. \A a \in Actors : a \notin {A, b} => heads[a] = <<>> /\ flow[a] = <<>>
        BY <3>1, <3>3, <3>5
      <4>3. b \notin ToSet(r) => heads[b] = <<>>
        BY <1>5, <1>7, <4>1
      <4>4. A \notin ToSet(r)
        BY <1>7
      <4>5. Cat(InTurn(heads, r), InTurn(flow, sockets)) = Cat(heads[b], flow[b])
        BY <1>1, <1>7, <1>8, <3>2, <4>1, <4>2, <4>3, <4>4, SplicedTogether
      <4>6. Cat(heads[b], Cat(rests[b], wire[b])) = Cat(pending[b], wire[b])
        BY <1>4, <1>5, <4>1, CatAssociative
      <4>7. Drained(sockets, left) = Drained(sockets, [a \in Actors |-> IF a = b THEN left[b] ELSE <<>>])
        <5> DEFINE only == [a \in Actors |-> IF a = b THEN left[b] ELSE <<>>]
        <5>1. \A a \in ToSet(sockets) : left[a] = only[a]
          <6> SUFFICES ASSUME NEW a \in Open PROVE left[a] = only[a]
            BY DEF Open
          <6>1. a \in Actors
            BY <1>2
          <6>2. a = A => left[a] = <<>>
            BY <1>12, <3>2
          <6>3. a \notin {A, b} => left[a] = <<>>
            BY <1>2, <1>12, <3>1, <3>5
          <6> QED BY <4>1, <6>1, <6>2, <6>3
        <5> HIDE DEF only
        <5> QED BY <1>1, <5>1, DrainedSame DEF only
      <4>8. Drained(sockets, left) = left[b]
        <5> DEFINE only == [a \in Actors |-> IF a = b THEN left[b] ELSE <<>>]
        <5>1. left[b] \in Seq(Frames) /\ <<>> \in Seq(Frames)
          <6>1. left[b] = Cat(pending[b], wire[b])
            BY <1>12, <3>5
          <6> QED BY <1>4, <4>1, <6>1, CatTyped, EmptySeq
        <5>2. only \in Lists(Actors, Frames) /\ only[b] = left[b]
              /\ \A a \in Actors : a # b => only[a] = <<>>
          BY <4>1, <5>1 DEF Lists
        <5>3. \A a \in ToSet(sockets) : a # b => only[a] = <<>>
          BY <1>2, <5>2 DEF Open
        <5> HIDE DEF only
        <5>4. InTurn(only, sockets) = only[b]
          BY <1>1, <4>1, <5>2, <5>3, DrainedOne
        <5> QED BY <4>7, <5>2, <5>4, DrainedInTurn DEF only
      <4>9. left[b] = Cat(pending[b], wire[b]) /\ flow[b] = Cat(rests[b], wire[b])
        BY <1>6, <1>12, <3>5, <4>1
      <4> QED BY <4>5, <4>6, <4>8, <4>9
    <3> QED BY <3>4, <3>5
  <2> QED BY <2>1, <2>2
<1>16. heads[A] \in Seq(Frames)
  BY <1>1, <1>5
<1> HIDE DEF heads, flow, left, r
<1>17. Cat(Cat(heads[A], InTurn(heads, r)), InTurn(flow, sockets)) =
         Cat(heads[A], Cat(InTurn(heads, r), InTurn(flow, sockets)))
  BY <1>14, <1>16, CatAssociative
<1> QED BY <1>9, <1>13, <1>14, <1>15, <1>17 DEF flow

LEMMA WindowCalm ==
  ASSUME Control, Kept, Calm, mishaps \in Nat, mishaps' = 0,
         Timeout \/ \E found \in Findings : \E empty \in Nullings : CloseWindow(found, empty)
  PROVE  Calm'
<1>1. phase = "window" /\ phase \notin {"final", "done"}
  BY DEF Timeout, CloseWindow
<1>2. /\ i \in 1..Len(script) /\ RunTypes /\ FrameTypes /\ Actor \in Actors
      /\ Step.kind \in {"ws.command", "ws.event"} /\ Standing
      /\ Step.wait # None /\ ~Denied(script, i)
      /\ \A a \in Open : Coming[a] = PushedTo(script, i, a)
  BY <1>1, InProgress DEF Kept, Calm, Awaiting
<1>3. /\ Actor \in Open /\ Step = script[i] /\ Actor = script[i].actor
      /\ DOMAIN script = 1..Len(script) /\ WindowsClose(script)
  BY <1>2, SocketIsOpen, Positions, ScriptIsSound DEF Step, Actor
<1>4. ~Timeout
  <2>1. SUFFICES ASSUME Timeout PROVE FALSE
    OBVIOUS
  <2>2. wire[Actor] = <<>> /\ ~AllMatched(pending[Actor], Step)
    BY <2>1, NoMishap DEF Timeout
  <2>3. Coming[Actor] = pending[Actor]
    <3>1. pending[Actor] \in Seq(Frames)
      BY <1>2 DEF FrameTypes
    <3>2. Coming[Actor] = Cat(pending[Actor], <<>>)
      BY <1>2, <2>2 DEF Coming
    <3> QED BY <3>1, <3>2, CatEmpty
  <2>4. AllMatched(PushedTo(script, i, Actor), Step)
    BY <1>2, <1>3 DEF WindowsClose
  <2> QED BY <1>2, <1>3, <2>2, <2>3, <2>4
<1>5. PICK found \in Findings : \E empty \in Nullings : CloseWindow(found, empty)
  BY <1>4
<1>6. /\ AllMatched(pending[Actor], Step)
      /\ received' = Taken(WindowTakes, SpliceOrder) /\ pending' = Rest(WindowTakes)
      /\ vars' = Captured(ToSet(Step.caps) \cap found)
      /\ phase' = "settle" /\ error' = None
      /\ UNCHANGED <<theScenario, i, sockets, failed, wire>>
      /\ ToSet(Step.caps) \subseteq found
  BY <1>5, NoMishap DEF CloseWindow, SettleWith
<1>7. Cat(received', Drained(sockets, Coming')) = ExpectedCapture(script, i)
  BY <1>1, <1>6, WindowTaken
<1>8. DOMAIN vars \subseteq DOMAIN vars' /\ ToSet(Step.caps) \subseteq DOMAIN vars'
  <2>1. ToSet(Step.caps) \cap found = ToSet(Step.caps)
    BY <1>6
  <2> QED BY <1>6, <2>1, VarsStay
<1>9. \A a \in Actors \ Open : Empty(a)'
  <2> SUFFICES ASSUME NEW a \in Actors \ Open PROVE pending'[a] = <<>> /\ wire'[a] = <<>>
    BY DEF Empty
  <2>1. pending[a] = <<>> /\ wire[a] = <<>>
    BY <1>2 DEF Standing, Empty
  <2>2. pending'[a] = SubSeq(pending[a], WindowTakes[a] + 1, Len(pending[a]))
    BY <1>6 DEF Rest
  <2> DEFINE p == pending[a]
             n == WindowTakes[a]
  <2>3. p \in Seq(Frames) /\ n \in 0..Len(p)
    BY <1>2, <1>6, WindowTakesBound DEF FrameTypes
  <2> HIDE DEF p, n
  <2>4. p = <<>> => SubSeq(p, n + 1, Len(p)) = <<>>
    <3>1. /\ SubSeq(p, 1, n) \in Seq(Frames) /\ SubSeq(p, n + 1, Len(p)) \in Seq(Frames)
          /\ SubSeq(p, 1, n) \o SubSeq(p, n + 1, Len(p)) = p
      BY <2>3, CutInTwo DEF Cat
    <3> QED BY <3>1, ConcatSimplifications
  <2> QED BY <1>6, <2>1, <2>2, <2>4 DEF p, n
<1>10. script' = script /\ i' = i /\ Step' = Step /\ sockets' = sockets
  BY <1>6 DEF theScenario, Step
<1>11. Settling'
  BY <1>2, <1>6, <1>7, <1>8, <1>10 DEF Settling
<1>12. Quiet' /\ Awaiting'
  BY <1>6 DEF Quiet, Awaiting
<1> QED BY <1>2, <1>6, <1>8, <1>9, <1>11, <1>12, StaysCalm

\* A connect or a close ends its step at once and captures nothing.
LEMMA EndsAtOnce ==
  ASSUME Control, Kept, Standing, \A a \in Actors : Empty(a), i \in 1..Len(script),
         UNCHANGED theScenario, Step.kind \in {"ws.connect", "ws.close"},
         NEW err \in Errors, NEW pend \in Lists(Actors, Frames), OwnFrames(pend),
         \A a \in Actors : pend[a] = <<>>,
         EndStep(<<>>, err, SocketsPast(Step, sockets), pend),
         err # None => Step.reply = "refused",
         failed' = IF Step.reply = "refused" THEN failed \cup {Actor} ELSE failed,
         \A a \in Actors : wire'[a] = <<>>
  PROVE  Calm'
<1> DEFINE socks == SocketsPast(Step, sockets)
           none == <<>>
<1>1. socks = SocketsAfter(script)[i] /\ socks \in Seq(Actors) /\ IsInjective(socks)
  BY SocketsGoOn
<1>2. Step = script[i]
  BY DEF Step
<1>3. none \in Seq(Frames) /\ EndStep(none, err, socks, pend)
  BY EmptySeq
<1> HIDE DEF socks, none
<1>4. \A a \in ToSet(socks) : pend[a] = <<>>
  BY <1>1, LenProperties, ElementOfSeq DEF ToSet
<1>5. Drained(socks, pend) = <<>>
  BY <1>1, <1>4, DrainedNothing
<1>6. Cat(none, Drained(socks, pend)) = ExpectedCapture(script, i)
  <2>1. Cat(<<>>, <<>>) = <<>>
    BY CatEmpty, EmptySeq
  <2> QED BY <1>5, <2>1, ExpectedNothing DEF none
<1>7. SureToSet(script, i) = {}
  BY <1>2 DEF SureToSet
<1> QED BY <1>1, <1>3, <1>6, <1>7, EndsCalm

LEMMA ConnectCalm ==
  ASSUME Control, Kept, Calm, mishaps \in Nat, mishaps' = 0, nulls = {},
         ConnectStart \/ ConnectAccepted \/ ConnectRefused \/ CloseStep
  PROVE  Calm'
<1>1. /\ phase \in {"step", "connect"} /\ phase \notin {"final", "done"}
      /\ phase \notin {"window", "settle"}
  BY DEF ConnectStart, ConnectAccepted, ConnectRefused, CloseStep, Starts
<1>2. /\ i \in 1..Len(script) /\ Actor \in Actors /\ error = None /\ received = <<>>
      /\ RunTypes /\ Step \in StepDefs
      /\ phase = "connect" => Step.kind = "ws.connect"
      /\ Standing /\ \A a \in Actors : Empty(a)
  BY <1>1, InProgress DEF Calm, Quiet
<1>3. UNCHANGED theScenario
      /\ (ConnectStart \/ ConnectAccepted \/ ConnectRefused => Step.kind = "ws.connect")
      /\ (CloseStep => Step.kind = "ws.close")
  BY <1>2 DEF ConnectStart, ConnectAccepted, ConnectRefused, CloseStep, Starts
<1>4. ~Denied(script, i) /\ Step = script[i] /\ DOMAIN script = 1..Len(script)
  BY <1>2, <1>3, Positions DEF Denied, Step
<1>5. /\ pending \in [Actors -> Seq(Frames)] /\ wire \in [Actors -> Seq(Frames)]
      /\ \A a \in Actors : pending[a] = <<>> /\ wire[a] = <<>>
  BY <1>2 DEF Kept, FrameTypes, Empty
<1>6. None \in Errors /\ "refused" \in Errors
  BY DEF Errors
<1>7. ASSUME EndStep(<<>>, None, SocketsPast(Step, sockets), [pending EXCEPT ![Actor] = <<>>]),
             wire' = [wire EXCEPT ![Actor] = <<>>], failed' = failed,
             Step.reply # "refused", Step.kind \in {"ws.connect", "ws.close"}
      PROVE  Calm'
  <2> DEFINE pend == [pending EXCEPT ![Actor] = <<>>]
  <2>1. pend \in Lists(Actors, Frames) /\ OwnFrames(pend)
    BY <1>2, KeptTyped
  <2>2. \A a \in Actors : pend[a] = <<>> /\ wire'[a] = <<>>
    BY <1>5, <1>7
  <2> HIDE DEF pend
  <2>3. EndStep(<<>>, None, SocketsPast(Step, sockets), pend)
    BY <1>7 DEF pend
  <2> QED BY <1>2, <1>3, <1>6, <1>7, <2>1, <2>2, <2>3, EndsAtOnce
<1>8. CASE ConnectStart
  <2>1. ~MissingVar
    BY <1>2, <1>4, NothingMissing
  <2>2. phase' = "connect" /\ UNCHANGED <<i, vars, sockets, pending, failed, wire>>
    BY <1>8, <2>1 DEF ConnectStart
  <2>3. \A a \in Actors : Empty(a)'
    BY <1>5, <2>2 DEF Empty
  <2>4. Quiet' /\ Awaiting' /\ Settling'
    BY <2>2, <2>3 DEF Quiet, Awaiting, Settling
  <2> QED BY <1>2, <1>3, <2>2, <2>3, <2>4, StaysCalm
<1>9. CASE ConnectAccepted
  <2>1. Step.reply # "refused"
    BY <1>9, NoMishap DEF ConnectAccepted
  <2>2. WithSocket(Actor) = SocketsPast(Step, sockets)
    BY <1>3, <1>9, <2>1, Zenon DEF WithSocket, SocketsPast, Open, Actor
  <2>3. /\ EndStep(<<>>, None, WithSocket(Actor), [pending EXCEPT ![Actor] = <<>>])
        /\ wire' = [wire EXCEPT ![Actor] = <<>>] /\ failed' = failed
    BY <1>9 DEF ConnectAccepted
  <2> QED BY <1>3, <1>7, <1>9, <2>1, <2>2, <2>3
<1>10. CASE ConnectRefused
  <2>1. Step.reply = "refused"
    BY <1>10, NoMishap DEF ConnectRefused
  <2>2. sockets = SocketsPast(Step, sockets)
    BY <1>3, <1>10, <2>1 DEF SocketsPast
  <2>3. /\ EndStep(<<>>, "refused", sockets, pending) /\ failed' = failed \cup {Actor}
        /\ wire' = wire
    BY <1>10 DEF ConnectRefused
  <2>4. EndStep(<<>>, "refused", SocketsPast(Step, sockets), pending)
    BY <2>2, <2>3
  <2>5. \A a \in Actors : wire'[a] = <<>>
    BY <1>5, <2>3
  <2> QED BY <1>2, <1>3, <1>5, <1>6, <1>10, <2>1, <2>3, <2>4, <2>5, KeptTyped, EndsAtOnce
<1>11. CASE CloseStep
  <2>1. Step.reply # "refused"
    BY <1>2, <1>3, <1>4, <1>11, ScriptIsSound DEF StepsAreExchanges
  <2>2. Actor \in Open
    BY <1>2, <1>3, <1>4, <1>11, SocketIsOpen
  <2>3. RemoveFirst(sockets, Actor) = SocketsPast(Step, sockets)
    BY <1>3, <1>11 DEF SocketsPast, Actor
  <2>4. /\ EndStep(<<>>, None, RemoveFirst(sockets, Actor), [pending EXCEPT ![Actor] = <<>>])
        /\ wire' = [wire EXCEPT ![Actor] = <<>>] /\ failed' = failed
    BY <1>11, <2>2 DEF CloseStep
  <2> QED BY <1>3, <1>7, <1>11, <2>1, <2>3, <2>4
<1> QED BY <1>8, <1>9, <1>10, <1>11

LEMMA SettleCalm ==
  ASSUME Control, Kept, Calm, mishaps \in Nat, mishaps' = 0, Settle
  PROVE  Calm'
<1>1. /\ phase = "settle" /\ phase \notin {"final", "done"} /\ UNCHANGED theScenario
      /\ EndStep(received, error, sockets, pending) /\ failed' = failed /\ wire' = wire
      /\ \A a \in Open : wire[a] = <<>>
  BY NoMishap DEF Settle, InFlight
<1>2. /\ i \in 1..Len(script) /\ error \in Errors /\ RunTypes /\ Standing
      /\ sockets \in Seq(Actors) /\ IsInjective(sockets) /\ Step = script[i]
      /\ DOMAIN script = 1..Len(script)
  BY <1>1, InProgress, Positions DEF Calm, Step
<1>3. /\ Step.kind \notin {"ws.connect", "ws.close"}
      /\ Cat(received, Drained(sockets, Coming)) = ExpectedCapture(script, i)
      /\ error # None => Denied(script, i)
      /\ ~Denied(script, i) =>
           (Step.kind = "http" \/ (Step.kind = "ws.command" /\ Step.wait # None) =>
              ToSet(Step.caps) \subseteq DOMAIN vars)
  BY <1>1 DEF Calm, Settling
<1>4. \A a \in Open : a \in Actors
  BY <1>2, LenProperties, ElementOfSeq DEF Open, ToSet
<1>5. \A a \in Actors : a \notin Open => pending[a] = <<>> /\ wire[a] = <<>>
  BY <1>2 DEF Standing, Empty
<1>6. Drained(sockets, pending) = Drained(sockets, Coming)
  <2>1. \A a \in ToSet(sockets) : pending[a] = Coming[a]
    <3> SUFFICES ASSUME NEW a \in Open PROVE pending[a] = Coming[a]
      BY DEF Open
    <3>1. pending[a] \in Seq(Frames) /\ wire[a] = <<>> /\ a \in Actors
      BY <1>1, <1>4 DEF Kept, FrameTypes
    <3>2. Coming[a] = Cat(pending[a], <<>>)
      BY <3>1 DEF Coming
    <3> QED BY <3>1, <3>2, CatEmpty
  <2> QED BY <1>2, <2>1, DrainedSame
<1>7. \A a \in Actors : wire'[a] = <<>>
  BY <1>1, <1>5
<1>8. Step.reply # "refused"
  BY <1>2, <1>3, ScriptIsSound DEF StepsAreExchanges
<1>9. sockets = SocketsAfter(script)[i]
  BY <1>2, <1>3, SocketsGoOn
<1>10. SureToSet(script, i) \subseteq DOMAIN vars'
  <2> DEFINE all == received \o Drained(sockets, pending)
  <2>1. all = ExpectedCapture(script, i)
    BY <1>3, <1>6 DEF Cat
  <2>2. vars' = IF Step.kind = "ws.command"
                THEN Captured({ref.name : ref \in RefsFound(all)}) ELSE vars
    BY <1>1 DEF EndStep
  <2> HIDE DEF all
  <2>3. DOMAIN vars \subseteq DOMAIN vars'
    BY <2>2, VarsStay
  <2>4. SUFFICES ASSUME NEW v \in SureToSet(script, i) PROVE v \in DOMAIN vars'
    OBVIOUS
  <2>5. ~Denied(script, i)
    BY <2>4 DEF SureToSet
  <2>6. CASE v \in {u \in ToSet(script[i].caps) :
                      script[i].kind = "http"
                        \/ (script[i].kind = "ws.command" /\ script[i].wait # None)}
    BY <1>2, <1>3, <2>3, <2>5, <2>6
  <2>7. CASE v \in {ref.name : ref \in
                      {r \in script[i].refs :
                         /\ script[i].kind = "ws.command"
                         /\ \E k \in DOMAIN ExpectedCapture(script, i) :
                              Satisfies(ExpectedCapture(script, i)[k], r.from, script[i])}}
    <3>1. PICK ref \in Step.refs :
            /\ v = ref.name /\ Step.kind = "ws.command"
            /\ \E k \in DOMAIN all : Satisfies(all[k], ref.from, Step)
      BY <1>2, <2>1, <2>7
    <3>2. ref \in RefsFound(all)
      BY <3>1 DEF RefsFound
    <3> DEFINE names == {r.name : r \in RefsFound(all)}
    <3>3. v \in names
      BY <3>1, <3>2
    <3>4. vars' = Captured(names)
      BY <2>2, <3>1
    <3> HIDE DEF names
    <3> QED BY <3>3, <3>4, VarsStay
  <2> QED BY <2>4, <2>5, <2>6, <2>7 DEF SureToSet
<1>11. \A a \in Actors : a \notin ToSet(sockets) => pending[a] = <<>>
  BY <1>5 DEF Open
<1>12. Cat(received, Drained(sockets, pending)) = ExpectedCapture(script, i)
  BY <1>3, <1>6
<1>13. error # None => Step.reply = "refused" \/ Denied(script, i)
  BY <1>3
<1>14. failed' = IF Step.reply = "refused" THEN failed \cup {Actor} ELSE failed
  BY <1>1, <1>8
<1> QED BY <1>1, <1>2, <1>7, <1>9, <1>10, <1>11, <1>12, <1>13, <1>14, KeptTyped, EndsCalm

-----------------------------------------------------------------------------
\* Mishaps only grow in number.
LEMMA MishapsStep ==
  ASSUME mishaps \in Nat, [SuiteNext]_runnerVars
  PROVE  mishaps' \in Nat /\ (mishaps' = 0 => mishaps = 0)
<1>1. mishaps' = mishaps \/ mishaps' = mishaps + 1
  <2>1. ASSUME NEW e, AsExpected(e) PROVE mishaps' = mishaps \/ mishaps' = mishaps + 1
    BY <2>1 DEF AsExpected, Mishap
  <2>2. ASSUME NEW x, Patience(x) PROVE mishaps' = mishaps \/ mishaps' = mishaps + 1
    BY <2>2 DEF Patience, Mishap
  <2>3. ASSUME NEW a \in Actors, Arrive(a) PROVE mishaps' = mishaps
    BY <2>3 DEF Arrive
  <2>4. CASE HttpStart \/ WaitStep \/ ConnectStart \/ CloseStep
    BY <2>4 DEF HttpStart, WaitStep, ConnectStart, CloseStep
  <2>5. CASE BeginReadFails \/ EndReadFails \/ HttpTransportError
    BY <2>5 DEF BeginReadFails, EndReadFails, HttpTransportError, Mishap
  <2>6. CASE ConnectAccepted \/ ConnectRefused
    BY <2>1, <2>6 DEF ConnectAccepted, ConnectRefused
  <2>7. CASE Timeout \/ Settle \/ FinalDrain
    BY <2>2, <2>7 DEF Timeout, Settle, FinalDrain
  <2>8. ASSUME NEW good, NEW found, NEW empty, HttpAnswer(good, found, empty, Pushed) \/ CloseWindow(found, empty)
        PROVE  mishaps' = mishaps \/ mishaps' = mishaps + 1
    BY <2>1, <2>8 DEF HttpAnswer, CloseWindow
  <2>9. CASE CommandStart(Pushed) \/ EventStart(Pushed)
    BY <2>9 DEF CommandStart, EventStart
  <2>10. CASE UNCHANGED runnerVars
    BY <2>10 DEF runnerVars
  <2> QED BY <2>3, <2>4, <2>5, <2>6, <2>7, <2>8, <2>9, <2>10
          DEF SuiteNext, RunnerInternal, Target, Done
<1> QED BY <1>1

\* No step disturbs a run but a mishap.
LEMMA CalmStep ==
  ASSUME Control, Kept, Undisturbed, [SuiteNext]_runnerVars
  PROVE  Undisturbed'
<1>1. mishaps \in Nat /\ mishaps' \in Nat /\ (mishaps' = 0 => mishaps = 0)
  BY MishapsStep DEF Undisturbed
<1>0. mishaps' = 0 => nulls = {} /\ nulls' = {}
  <2>1. SUFFICES ASSUME mishaps' = 0 PROVE nulls = {} /\ nulls' = {}
    OBVIOUS
  <2>2. nulls = {}
    BY <1>1, <2>1 DEF Undisturbed
  <2>3. ~AsExpected(FALSE)
    BY <1>1, <2>1, NoMishap
  <2> QED BY <2>2, <2>3, NullsMove DEF Dropped, Same, Taking
<1>2. SUFFICES ASSUME mishaps' = 0, phase' # "done" PROVE Calm'
  BY <1>0, <1>1 DEF Undisturbed
<1>3. CASE UNCHANGED runnerVars
  <2>1. phase # "done"
    BY <1>2, <1>3 DEF runnerVars
  <2>2. Calm
    BY <1>1, <1>2, <2>1 DEF Undisturbed
  <2> QED BY <1>3, <2>2 DEF runnerVars, theScenario, Calm, Standing, Quiet, Awaiting, Settling,
            Recorded, JustFinished, Empty, Coming, Step, Actor, Open
<1>4. CASE SuiteNext
  <2>1. ~FinalDrain /\ ~Done
    BY <1>2 DEF FinalDrain, Done, runnerVars
  <2>2. phase # "done"
    BY <1>4, <2>1 DEF SuiteNext, RunnerInternal, Target, Arrive, HttpStart, BeginReadFails,
         EndReadFails, HttpTransportError, ConnectStart, ConnectAccepted, ConnectRefused,
         Timeout, CloseStep, WaitStep, Settle, HttpAnswer, CommandStart, EventStart,
         CloseWindow, Starts
  <2>3. Calm
    BY <1>1, <1>2, <2>2 DEF Undisturbed
  <2>4. ASSUME NEW a \in Actors, Arrive(a) PROVE Calm'
    BY <2>3, <2>4, ArriveCalm
  <2>5. CASE HttpStart \/ BeginReadFails \/ EndReadFails \/ HttpTransportError \/ WaitStep
    BY <1>1, <1>2, <2>3, <2>5, <1>0, HttpCalm
  <2>6. CASE ConnectStart \/ ConnectAccepted \/ ConnectRefused \/ CloseStep
    BY <1>1, <1>2, <2>3, <2>6, <1>0, ConnectCalm
  <2>7. CASE Timeout \/ \E found \in Findings : \E empty \in Nullings : CloseWindow(found, empty)
    BY <1>1, <1>2, <2>3, <2>7, WindowCalm
  <2>8. CASE Settle
    BY <1>1, <1>2, <2>3, <2>8, SettleCalm
  <2>9. ASSUME NEW good, NEW found, NEW empty, HttpAnswer(good, found, empty, Pushed) PROVE Calm'
    BY <1>1, <1>2, <2>3, <2>9, <1>0, AnswerCalm
  <2>10. CASE CommandStart(Pushed) \/ EventStart(Pushed)
    BY <1>1, <1>2, <2>3, <2>10, <1>0, SendCalm
  <2> QED BY <1>4, <2>1, <2>4, <2>5, <2>6, <2>7, <2>8, <2>9, <2>10
          DEF SuiteNext, RunnerInternal, Target
<1> QED BY <1>3, <1>4

\* A run begins undisturbed.
LEMMA CalmStarts ==
  ASSUME RunnerInit
  PROVE  Undisturbed
<1>1. /\ i = 1 /\ phase = "step" /\ sockets = <<>> /\ failed = {} /\ mishaps = 0 /\ nulls = {}
      /\ pending = Silent /\ wire = Silent /\ script \in Seq(StepDefs)
  BY SuiteAssumption DEF RunnerInit
<1>2. SocketsAfter(script)[i - 1] = <<>> /\ 1..(i - 1) = {}
  <2>1. i - 1 = 0
    BY <1>1
  <2> QED BY <1>1, <2>1, SocketsStepByStep
<1>3. \A a \in Actors : Empty(a)
  BY <1>1 DEF Empty, Silent
<1>4. Standing
  BY <1>1, <1>2, <1>3 DEF Standing
<1>5. Quiet /\ Awaiting /\ Settling /\ Recorded
  BY <1>1, <1>3 DEF Quiet, Awaiting, Settling, Recorded, JustFinished
<1> QED BY <1>1, <1>4, <1>5 DEF Calm, Undisturbed

\* What is known of every reachable state.
LEMMA AlwaysUndisturbed == SuiteSpec => []Undisturbed
<1> DEFINE I == Kept /\ Control /\ NullsHeld /\ Undisturbed
<1>1. RunnerInit => I
  BY RunStarts, CalmStarts
<1>2. I /\ [SuiteNext]_runnerVars => I'
  BY FramesStep, ControlStep, NullsStep, CalmStep DEF Control
<1> QED BY <1>1, <1>2, PTL DEF SuiteSpec

(***************************************************************************)
(* Without mishaps the capture of a step is what its script fixes, for     *)
(* every delay of the sockets and every moment a window of runner.ts       *)
(* closes: what waitUntilAll leaves of the frames of the step, the settle  *)
(* and drainTo put behind what it took, in the order of the Map.           *)
(***************************************************************************)
THEOREM CapturesAreFixed == SuiteSpec => []CaptureIsDeterministic
<1>1. Undisturbed => CaptureIsDeterministic
  BY DEF Undisturbed, Calm, Recorded, JustFinished, CaptureIsDeterministic
<1> QED BY <1>1, AlwaysUndisturbed, PTL

(***************************************************************************)
(* Without mishaps a step ends with an error only when its script says so: *)
(* a connect that is to be refused, or a step of runWsCommand or runWsEvent *)
(* of an actor whose connect was.  Nothing else of runner.ts fails a step: *)
(* no window waits in vain, no variable and no socket is missing.          *)
(***************************************************************************)
THEOREM ErrorsAreMeant == SuiteSpec => []ErrorsHaveCause
<1>1. Undisturbed => ErrorsHaveCause
  BY DEF Undisturbed, Calm, Recorded, JustFinished, ErrorsHaveCause
<1> QED BY <1>1, AlwaysUndisturbed, PTL
=============================================================================
