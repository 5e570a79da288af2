SPECIFICATION JoinSpec
CONSTANTS
  Sessions = {s1}
  Orgs = {"acme"}
  Owner <- MCOwner
  Callers = {p1, p2, rec}
  Starters = {p1, p2}
  OthersWant = {"dispatched", "in_progress", "completed", "interrupted", "failed"}
  Unknown = Unknown
  DbMayFail = TRUE
  MaxEvents = 5
SYMMETRY TwoTabs
INVARIANTS
  RaceReachesInProgress
  OkMeansArrived
CHECK_DEADLOCK FALSE
