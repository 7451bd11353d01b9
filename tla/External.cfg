SPECIFICATION Spec
CONSTANTS
  Document <- Small
  DepTags = {49}
  HasDep = TRUE
  Rounds = 2
  Once = TRUE
  Capacity = 2
  Answers = {"null", "tag", "debase", "rebase", "rename", "reparent", "orphan", "wrong", "fewer", "other", "chatty"}
  MayDie = TRUE
PROPERTIES AnswerTaken Served
