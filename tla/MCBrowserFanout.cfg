SPECIFICATION FanoutSpec
CONSTANTS
  u1 = u1
  u2 = u2
  u3 = u3
  s1 = s1
  s2 = s2
  None = None
  Users = {u1, u2, u3}
  Keys = {}
  Retried = {}
  Limits = {}
  MaxInitial = 1
  MaxLog = 3
  Sessions = {s1, s2}
  UserOf <- TwoUsers
  MaxSubs = 2
  Closing = TRUE
  Invoking = TRUE
SYMMETRY Swaps
INVARIANTS
  PushedInOrder
  NothingMissed
PROPERTIES
  ShownWhereMembersAre
CHECK_DEADLOCK FALSE
