SPECIFICATION Spec
CONSTANTS
  MaxTurns = 2
  Entry = {"in_progress"}
  HasPrimary = FALSE
  PrimaryReplies = {}
  FallbackReplies = {70}
  DbMayFail = FALSE
  MayCrash = FALSE
  NoResult = NoResult
  NoScoreField = NoScoreField
INVARIANTS
  OverallCoversEveryTurn
CHECK_DEADLOCK FALSE
