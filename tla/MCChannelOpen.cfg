SPECIFICATION Spec
CONSTANTS
  r1 = r1
  r2 = r2
  r3 = r3
  ua = ua
  ub = ub
  uc = uc
  k1 = k1
  k2 = k2
  b1 = b1
  b2 = b2
  None = None
  Requests = {r1, r2, r3}
  Users = {ua, ub, uc}
  Keys = {k1}
  Bodies = {b1, b2}
SYMMETRY OpenSymmetry
INVARIANTS
  OneDmPerPair
PROPERTIES
  RecordedAnswersStay
