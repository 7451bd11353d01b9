SPECIFICATION Spec
CONSTANTS
  Documents <- Ordinary
  AlwaysSpan = FALSE
  NoPassOrigin = FALSE
  MaxTries = 7
INVARIANTS MeaningKept 
