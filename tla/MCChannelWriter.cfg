CONSTANTS
  owner = owner
  member = member
  k1 = k1
  b1 = b1
  b2 = b2
  none = none
  MaxCounter = 1
  Users = {owner}
  Members = {owner}
  Owner = owner
  Keys = {k1}
  Bodies = {b1}
  None = none
  TTL = 1
  Ops = {"send", "dissolve"}
  MaxPending = 0
  MaxMs = 1
  MaxInbox = 1
SPECIFICATION FairSpec
INVARIANTS
  TypeOK
  IdsAscend
  CounterCoversLog
  OncePerKey
  OneSessionClose
  QuietAfterDissolve
PROPERTIES
  BroadcastInOrder
  ImplementsEventLog
  CallsAnswered
CHECK_DEADLOCK FALSE
