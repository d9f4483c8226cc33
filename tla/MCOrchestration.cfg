SPECIFICATION OrchestrationFair
CONSTANTS
  p1 = p1
  p2 = p2
  save1 = save1
  NoSave = NoSave
  NoRequest = NoRequest
  Threads = {t1, t2}
  Participants = {p1, p2}
  Requests <- MCTwoPlayers
  MaxRuntimes = 1
  MaxCalls = 0
  MaxFaults = 2
  FaultKinds = {"timeout", "crash"}
INVARIANTS
  OrchestrationTypeOK
  LeftIsFinal
  NoOrphanWithoutFault
  WithinMaxRuntimes
  RoutesBacked
PROPERTIES
  ReconciledClean
  StartupCompletes
  DeadIsRetired
CHECK_DEADLOCK FALSE
