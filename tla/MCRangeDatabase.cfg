CONSTANTS
  MaxIP = 4
  MaxLen = 3
  Inputs <- MCInputs
SPECIFICATION SafeSpec
INVARIANTS
  SortedNonOverlapping
  CoveragePreserved
  ContainsCorrect
PROPERTY SearchTerminates
