SPECIFICATION Spec
CONSTANTS
  u1 = u1
  u2 = u2
  u3 = u3
  k1 = k1
  None = None
  Users = {u1, u2, u3}
  Keys = {k1}
  Retried = {"join"}
  Limits = {1}
  MaxInitial = 1
  MaxLog = 4
SYMMETRY UserSymmetry
INVARIANTS
  TypeOK
  OneOwner
  CountMatches
  RosterFromTimeline
  VersionsNumberChanges
  FrozenAfterDissolve
PROPERTIES
  NeverRunsAgain
  InviteLimit
CHECK_DEADLOCK FALSE
