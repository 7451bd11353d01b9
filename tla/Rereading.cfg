SPECIFICATION Spec
CONSTANTS
  MappingTags = {"@x", "@y"}
  LtrChoices = {FALSE, TRUE}
  Formats = {"cg", "apertium", "jsonl", "binary", "fst"}
  Documents <- ManyDocuments
  MaxLegs = 2
INVARIANTS Reread TextKept
CHECK_DEADLOCK FALSE
