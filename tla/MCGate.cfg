\* Every deviation of one target from every answer, and the runs with up to
\* two troubles.
CONSTANTS
  Known <- MCKnown
  Alphabet <- MCAlphabet
  TargetLists <- MCTargetLists
  Requests <- MCRequests
  MaxTroubles = 2
  MaxPolls = 1
  IsRead <- Reads
  Ways <- DeviationsOf
  Compared <- Reported
  Overlooked <- HiddenToo
  Form <- NormalForm
  Shown <- CaptureForDiff
  Differ <- HasDiffs
SPECIFICATION GateSpec
INVARIANTS
  GateTypeOK
  GoHidesOnlyKnown
  GoMeansQuietReads
  NoGoHasCause
  LeftoversHaveCause
PROPERTIES
  GateEnds
