SPECIFICATION FairSpec
CONSTANTS
  Requests <- MCRequests
  Profiles <- MCProfiles
  Specs <- MCSpecs
  MaxChanges = 2
  FlushInterval = 2
  StartPeriod = 1
  Retries = 2
  MaxCrashes = 1
INVARIANTS
  RunsApproved
  SoundIsAccepted
  OnlyHostPersists
  LossBounded
PROPERTIES
  LaunchSettles
  LossIsNoticed
  FailsClosed
CHECK_DEADLOCK FALSE
