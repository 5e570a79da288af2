SPECIFICATION Spec
CONSTANTS
  Orgs = {"acme", "globex"}
  Users = {"ann"}
  Registered <- MCRegistered
  FirstJobs <- MCFirstJobs
  FirstCands <- MCFirstCands
  Clients = {c1, c2}
  j1 = j1
  d1 = d1
  JobIds = {j1, j2}
  CandIds = {d1, d2}
  SessIds = {s1, s2}
  Links = {l1, l2}
  Texts = {"title"}
  Addresses = {"mail1", "mail2"}
  Malformed = Malformed
  None = None
  Asks <- MCAsks
  Ttl = 1
  MaxTime = 1
  MaxCalls = 1
  DbMayFail = TRUE
INVARIANTS
  SessionIsOneOrgs
  InviteLeadsToCall
  AnswerMatchesEffects
  ShownToMembers
SYMMETRY MCSymmetry
CHECK_DEADLOCK FALSE
