SPECIFICATION Spec
CONSTANTS
  KeepRecent = 2
  Threshold = 4
  LlmMayFail = TRUE
  MaxMessages = 9
INVARIANTS
  ContextInOrder
  NothingForgottenWhenQuiet
PROPERTIES
  CompressionEnds
CHECK_DEADLOCK FALSE
