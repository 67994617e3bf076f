SPECIFICATION FanoutSpec
CONSTANTS
  u1 = u1
  u2 = u2
  u3 = u3
  s1 = s1
  s2 = s2
  None = None
  Users = {u1, u2}
  Keys = {}
  Retried = {}
  Limits = {}
  MaxInitial = 0
  MaxLog = 4
  Sessions = {s1, s2}
  UserOf <- TwoUsers
  MaxSubs = 1
  Closing = FALSE
  Invoking = FALSE
PROPERTIES
  ShownToMembers
CHECK_DEADLOCK FALSE
