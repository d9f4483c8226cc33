SPECIFICATION Spec
CONSTANTS
  p1 = p1
  p2 = p2
  save1 = save1
  NoSave = NoSave
  NoRequest = NoRequest
  Threads = {t1, t2}
  Participants = {p1, p2}
  Requests <- MCRequests
  MaxRuntimes = 2
  MaxCalls = 4
  MaxFaults = 2
  FaultKinds = {"engine", "late", "disk", "crash", "outside", "vanish"}
SYMMETRY ThreadSymmetry
INVARIANTS
  OneWriterPerSave
PROPERTIES
  RemovedIsGone
  CreatedIsServed
  FailedCreateUnwinds
  ForeignUntouched
CHECK_DEADLOCK FALSE
