SPECIFICATION Spec
CONSTANTS
  Servers = {"a", "b"}
  Commands = {"cli"}
  Files <- MCFiles
  Envs <- MCEnvs
  Forced = {1}
  MaxBoots = 1
  MaxCommands = 1
  MaxOpen = 1
  MayFail = TRUE
  MayKill = TRUE
INVARIANTS
  ServesSeededGraph
  DirtyHasACause
PROPERTIES
  ReplicasComeUp
  SignalledExits
CHECK_DEADLOCK FALSE
