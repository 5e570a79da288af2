SPECIFICATION Spec
CONSTANTS
  Questions <- TwoQuestions
  Entry = {"in_progress"}
  ToolsMayFail = FALSE
  Overlap = TRUE
  BargeIn = FALSE
  MaxInbox = 2
  MaxRecords = 4
INVARIANTS
  NeverForwards
CHECK_DEADLOCK FALSE
