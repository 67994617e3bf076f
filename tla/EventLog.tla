------------------------------ MODULE EventLog ------------------------------
(***************************************************************************)
(* What a channel's timeline promises to everything that reads it: an      *)
(* append-only sequence of events whose ids increase, so that "every event *)
(* after this id" (gap recovery, unread counts, read state) is a suffix.   *)
(***************************************************************************)
EXTENDS EventIds

VARIABLE log

Ascending(s) == \A i, j \in 1..Len(s) : i < j => Before(s[i].id, s[j].id)

Init == Ascending(log)

Extend ==
  /\ Len(log') > Len(log)
  /\ \A i \in 1..Len(log) : log'[i] = log[i]
  /\ Ascending(log')

Spec == Init /\ [][Extend]_log
=============================================================================
