SPECIFICATION TalkativeSpec
CONSTANTS
  Questions <- TwoQuestions
  Entry = {"in_progress"}
  ToolsMayFail = FALSE
  Overlap = FALSE
  BargeIn = FALSE
  MaxInbox = 1
  MaxRecords = 4
PROPERTIES
  DeadlineEndsTheCall
CHECK_DEADLOCK FALSE
