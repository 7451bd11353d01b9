SPECIFICATION Spec
CONSTANTS
  Cases <- Ordinary
  NumWindows = 1
  HardLimit = 4
  BlockLoops = TRUE
  BlockCrossing = FALSE
  MaxClimb = 8
  MaxRules = 2
INVARIANTS ResolvedAsWritten NoLoops ChildrenKnown RelationsMeant
