SPECIFICATION FairSpec
CONSTANTS
  Users = {u1, u2}
  NoUser = NoUser
  MaxSessions = 1
  MaxParticipants = 3
  MaxTime = 3
  LastRequest = 2
  MaxFaults = 1
  FaultKinds = {"agent", "stream", "runtime"}
  PlayerLimits = {2}
  CoreMaxPlayers = 2
  LobbyLease = 2
  SessionTtl = 4
  IdleTimeout = 1
  StartupTimeout = 1
  ConnectTimeout = 1
  Retention = 9
  SessionCapacity = 2
  RuntimeCapacity = 2
  PerUserCapacity = 1
PROPERTIES
  ExpiredCloses
  OwnerlessCloses
  StartsEnd
