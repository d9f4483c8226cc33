SPECIFICATION FairSpec
CONSTANTS
  u1 = u1
  u2 = u2
  Players <- MCPlayers
  Owner = u1
  BeatInterval = 1
  IdleTimeout = 4
  LobbyLease = 4
  SessionTtl = 10
  CleanupInterval = 1
  StartupTimeout = 2
  ConnectTimeout = 1
  MaxHold = 2
  LastClose = 2
  MaxTime = 8
PROPERTIES
  PresentIsKept
  SilentIsRetired
CHECK_DEADLOCK FALSE
