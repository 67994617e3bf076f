CONSTANTS
  d1 = d1
  b1 = b1
  b2 = b2
  bad = bad
  d2 = d2
  None = None
  Deliveries = {d1, d2}
  Bodies = {b1, b2, bad}
  Invalid = {bad}
  AttemptLimits = {1, 2}
  MaxInbox = 2
  Sockets = 2
  MaxResults = 2
  MaxCrashes = 1
SPECIFICATION MCSpec
INVARIANTS
  TypeOK
  EffectsOnce
  OneOutcomeEvent
PROPERTIES
  GoneBotsRowsExpire
  NobodyWaitsForever
CHECK_DEADLOCK FALSE
