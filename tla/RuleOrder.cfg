SPECIFICATION Spec
CONSTANTS
  Grammars <- All
  Cohorts <- C3
  WindowSize = 2
  SectionMaxCount = 2
  MaxPass = 3
  HitFactor = 1
  MaxFires = 3
  MaxContexts = 1
INVARIANTS
  PassCoversRules
  SetsInOrder
  NoCohortSkipped
PROPERTIES
  RulesEnd
