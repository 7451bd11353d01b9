SPECIFICATION Spec
CONSTANTS
  NumWindows = 1
  SoftLimit = 2
  HardLimit = 3
  SoftDelimiters = TRUE
  DepDelimit = FALSE
  BinaryOutput = FALSE
  Delimiting = TRUE
  LineKinds <- LimitLines
  CohortKinds <- AllKinds
  MaxPass = 3
  MaxItems = 5
INVARIANTS
  TypeOK
  NoStaleHandle
  LinksFollowDocument
  NoLeak
  ContextSpan
  VariableOnTime
PROPERTIES
  EchoesInput
CHECK_DEADLOCK FALSE
