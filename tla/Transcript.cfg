SPECIFICATION Spec
CONSTANTS
  Callers = {c1, c2}
  Explicit = {2}
  DbMayFail = TRUE
  MaxCalls = 3
INVARIANTS
  NoGaps
  OncePerAnswer
PROPERTIES
  AppendOnly
  EveryCallAnswers
CHECK_DEADLOCK FALSE
