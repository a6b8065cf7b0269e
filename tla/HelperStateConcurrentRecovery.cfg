CONSTANTS
  p1 = p1
  p2 = p2
  p3 = p3
  Proc = {p1, p2, p3}
  NoProc = NoProc
  NoFile = NoFile
  HostOf <- OneHost
  Recoveries = {"recover project-write"}
  SlowOwners = {}
  SerialRecovery = FALSE
  MaxEventId = 4
SPECIFICATION Spec
SYMMETRY Symmetry
INVARIANT EventIdsSequential
CHECK_DEADLOCK FALSE
