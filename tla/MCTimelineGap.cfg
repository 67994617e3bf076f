CONSTANTS
  owner = owner
  member = member
  k1 = k1
  b1 = b1
  b2 = b2
  none = none
  r1 = r1
  r2 = r2
  MaxCounter = 1
  Users = {owner}
  Members = {owner}
  Owner = owner
  Keys = {k1}
  Bodies = {b1}
  None = none
  TTL = 1
  Ops = {"send"}
  MaxPending = 0
  MaxMs = 1
  MaxInbox = 1
  Requests = {r1}
  Limit = 2
SPECIFICATION TSpec
INVARIANTS
  GapRecoveryComplete
CHECK_DEADLOCK FALSE
