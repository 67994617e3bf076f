\* The scenarios of the suite, all but the longest with one mishap.
CONSTANTS
  Scripts <- MCScripts
  Actors <- AllActors
  MaxMishaps <- MCMaxMishaps
  MaxAttempts = 2
SPECIFICATION SuiteSpec
INVARIANTS
  CapturedInOrder
  MissingVarsExplained
  ErrorsHaveCause
  CaptureIsDeterministic
PROPERTIES
  RunCompletes
