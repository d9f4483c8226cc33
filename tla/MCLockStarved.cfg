SPECIFICATION Spec
CONSTANTS
  u1 = u1
  u2 = u2
  Players <- MCPlayers
  Owner = u1
  BeatInterval = 1
  IdleTimeout = 3
  LobbyLease = 8
  SessionTtl = 960
  CleanupInterval = 1
  StartupTimeout = 12
  ConnectTimeout = 3
  MaxHold = 3
  LastClose = 0
  MaxTime = 12
PROPERTIES
  PresentIsKept
CHECK_DEADLOCK FALSE
