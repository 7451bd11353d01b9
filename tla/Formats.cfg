SPECIFICATION Spec
CONSTANTS
  Formats <- AllFormats
  MaxItems = 5
  NumWindows = 1
  SoftLimit = 2
  HardLimit = 3
INVARIANTS InputInOrder RunOnceWhole VariablesOnTime
