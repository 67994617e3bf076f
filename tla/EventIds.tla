------------------------------ MODULE EventIds ------------------------------
(***************************************************************************)
(* The per-channel monotonic event id of LiliumChat.Ids (ids.ex): a        *)
(* millisecond timestamp, a 12-bit counter and a random tail, written as   *)
(* fixed-width hex so that the order of the strings is the order of the    *)
(* (timestamp, counter) pairs.  The tail only separates ids that share     *)
(* both; it carries no order the program relies on and is left out.        *)
(***************************************************************************)
EXTENDS Integers, Sequences

CONSTANT MaxCounter      \* 0xFFF in the code

ASSUME MaxCounterAssumption == MaxCounter \in Nat /\ MaxCounter <= 4095

(***************************************************************************)
(* The writer's in-memory sequence state %{last_ms, counter}; an event id  *)
(* is identified with the sequence state it was allocated at.              *)
(***************************************************************************)
SeqState == [last_ms : Nat, counter : 0..MaxCounter]

EmptySeq == [last_ms |-> 0, counter |-> 0]

Before(a, b) ==
  \/ a.last_ms < b.last_ms
  \/ (a.last_ms = b.last_ms /\ a.counter < b.counter)

AtOrBefore(a, b) == a = b \/ Before(a, b)

\* Mutant: the counter is not rolled into the next millisecond.
NextSeqUnrolled(seq, now_ms) ==
  IF now_ms > seq.last_ms
    THEN [last_ms |-> now_ms, counter |-> 0]
    ELSE [last_ms |-> seq.last_ms, counter |-> seq.counter + 1]

(***************************************************************************)
(* monotonic_uuidv7/2: the clock when it is ahead of last_ms; otherwise    *)
(* last_ms is held and the counter moves, rolling into the next            *)
(* millisecond when it is exhausted.                                       *)
(***************************************************************************)
NextSeq(seq, now_ms) ==
  IF now_ms > seq.last_ms
    THEN [last_ms |-> now_ms, counter |-> 0]
  ELSE IF seq.counter < MaxCounter
    THEN [last_ms |-> seq.last_ms, counter |-> seq.counter + 1]
  ELSE [last_ms |-> seq.last_ms + 1, counter |-> 0]

(***************************************************************************)
(* The counter's three hex digits (the high nibble, then the low byte      *)
(* padded to two digits) and what parse_monotonic/1 reads back from them.  *)
(***************************************************************************)
CounterDigits(c) == << (c \div 256) % 16, (c % 256) \div 16, c % 16 >>

ParseCounter(d) == 256 * d[1] + (16 * d[2] + d[3])

FormatId(seq) == [ms |-> seq.last_ms, digits |-> CounterDigits(seq.counter)]

ParseMonotonic(id) == [last_ms |-> id.ms, counter |-> ParseCounter(id.digits)]

\* String order of two ids of the same width.
DigitsBefore(d, e) ==
  \/ d[1] < e[1]
  \/ (d[1] = e[1] /\ d[2] < e[2])
  \/ (d[1] = e[1] /\ d[2] = e[2] /\ d[3] < e[3])

IdBefore(a, b) ==
  \/ a.ms < b.ms
  \/ (a.ms = b.ms /\ DigitsBefore(a.digits, b.digits))
=============================================================================
