SPECIFICATION Spec
CONSTANTS
  MaxTurns = 2
  Entry = {"in_progress", "completed"}
  HasPrimary = TRUE
  PrimaryReplies <- PrimaryAnything
  FallbackReplies <- FallbackAnything
  DbMayFail = TRUE
  MayCrash = TRUE
  NoResult = NoResult
  NoScoreField = NoScoreField
INVARIANTS
  TypeOK
  ScoredHasOverall
  OverallRestsOnTurns
  PageIsCoherent
PROPERTIES
  EveryTurnIsScored
  ScoringEnds
CHECK_DEADLOCK FALSE
