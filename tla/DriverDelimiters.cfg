SPECIFICATION FairSpec
CONSTANTS
  NumWindows = 0
  SoftLimit = 3
  HardLimit = 3
  SoftDelimiters = FALSE
  DepDelimit = TRUE
  BinaryOutput = TRUE
  Delimiting = TRUE
  LineKinds <- DelimitedLines
  CohortKinds <- PlainHard
  MaxPass = 3
  MaxItems = 5
PROPERTIES
  Termination
CHECK_DEADLOCK FALSE
