SPECIFICATION Spec
CONSTANTS
  Tabs = {t1}
  Conns = {k1, k2}
  ScheduledAt = 1
  Grace = 1
  MaxTime = 2
  MaxPresses = 1
  OthersWant = {"interrupted", "dispatched", "failed"}
  MayFail = TRUE
INVARIANTS
  NobodyTurnedAway
  LiveCallIsInProgress
  FinishedMeansScoring
  LiveMeansConnected
PROPERTIES
  PhaseMovesForward
SYMMETRY MCSymmetry
CHECK_DEADLOCK FALSE
