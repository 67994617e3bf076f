\* Two member writes that are refused: the wording of one refusal is hidden.
CONSTANTS
  Known <- MCKnown
  Alphabet <- MCAlphabet
  TargetLists <- MCTargetLists
  Requests <- MCWrites
  MaxTroubles = 0
  MaxPolls = 1
  IsRead <- Reads
  Ways <- DeviationsOf
  Compared <- Reported
  Overlooked <- HiddenToo
  Form <- NormalForm
  Shown <- CaptureForDiff
  Differ <- HasDiffs
SPECIFICATION GateSpec
INVARIANT
  GoMeansParity
