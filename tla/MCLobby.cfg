SPECIFICATION Spec
CONSTANTS
  Users = {u1, u2, u3}
  NoUser = NoUser
  MaxSessions = 1
  MaxParticipants = 3
  MaxTime = 4
  LastRequest = 2
  MaxFaults = 2
  FaultKinds = {"agent", "stream", "store", "romm", "runtime", "crash"}
  PlayerLimits = {2}
  CoreMaxPlayers = 2
  LobbyLease = 2
  SessionTtl = 3
  IdleTimeout = 1
  StartupTimeout = 1
  ConnectTimeout = 1
  Retention = 2
  SessionCapacity = 2
  RuntimeCapacity = 2
  PerUserCapacity = 1
SYMMETRY UserSymmetry
INVARIANTS
  LeaseBounded
  SeatsSound
  LeftIsGone
  ClosedIsEmpty
  RecordsDecode
  OwnerIsHost
PROPERTIES
  RecordsEvolve
  CleanupForCause
