SPECIFICATION CooperativeSpec
CONSTANTS
  Questions <- TwoQuestions
  Entry = {"in_progress"}
  ToolsMayFail = TRUE
  Overlap = TRUE
  BargeIn = TRUE
  MaxInbox = 2
  MaxRecords = 4
INVARIANTS
  ScriptIsStored
  QuestionPending
  HandsOverWhenFinished
  AnswersFit
PROPERTIES
  CallEnds
CHECK_DEADLOCK FALSE
