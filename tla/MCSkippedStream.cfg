\* A bot whose earlier connects were refused has a socket nobody uses.
CONSTANTS
  Scripts <- MCScripts
  Actors <- AllActors
  MaxMishaps <- MCNoMishaps
  MaxAttempts = 2
SPECIFICATION SuiteSpec
INVARIANTS
  OpenSocketIsUsed
