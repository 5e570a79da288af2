SPECIFICATION Spec
CONSTANTS
  Sessions = {s1}
  Orgs = {"acme", "globex"}
  Owner <- MCOwner
  Callers = {c1, c2}
  Unknown = Unknown
  DbMayFail = TRUE
  MaxEvents = 6
INVARIANTS
  TypeOK
  AuditChain
  OwnOrgOnly
  ScoringStartsOnce
  AnswerIsNotStale
PROPERTIES
  TerminalIsFinal
  ImplementsAuthority
CHECK_DEADLOCK FALSE
