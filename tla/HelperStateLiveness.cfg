CONSTANTS
  p1 = p1
  p2 = p2
  p3 = p3
  Proc = {p1, p2}
  NoProc = NoProc
  NoFile = NoFile
  HostOf <- OneHost
  Recoveries = {"recover active-run", "recover project-write", "recover all"}
  SlowOwners = {p1, p2}
  SerialRecovery = FALSE
  MaxEventId = 3
SPECIFICATION FairSpec
INVARIANTS
  TypeOK
  LocksReturned
PROPERTY EveryCommandEnds
CHECK_DEADLOCK FALSE
