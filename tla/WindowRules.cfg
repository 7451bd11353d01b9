SPECIFICATION FairSpec
CONSTANTS
  Cases <- EditsAndGrowth
  BeforeBegin = FALSE
  EnclosedModulus = 16
  MaxPass = 5
  MaxEdits = 2
INVARIANTS
  VisibleInOrder
PROPERTIES
  KeepsDocument
  ParTagsOfEdge
  RunEnds
CHECK_DEADLOCK FALSE
