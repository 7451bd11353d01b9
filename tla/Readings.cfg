SPECIFICATION Spec
CONSTANTS
  Inputs <- Small
  Wordform = "<a>"
  Unsafe = FALSE
  Magic = TRUE
  MaxReadings = 16
  MaxRules = 3
INVARIANTS HeldOnce MergesWithoutLoss
PROPERTIES  ProtectedKept
