SPECIFICATION FairSpec
CONSTANTS
  Users = {u1, u2}
  NoUser = NoUser
  MaxSessions = 1
  MaxParticipants = 2
  MaxTime = 4
  LastRequest = 1
  MaxFaults = 1
  FaultKinds = {"agent"}
  PlayerLimits = {2}
  CoreMaxPlayers = 2
  LobbyLease = 2
  SessionTtl = 3
  IdleTimeout = 1
  StartupTimeout = 1
  ConnectTimeout = 1
  Retention = 9
  SessionCapacity = 2
  RuntimeCapacity = 2
  PerUserCapacity = 1
PROPERTIES
  TerminalReclaimed
