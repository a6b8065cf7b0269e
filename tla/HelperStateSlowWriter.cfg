CONSTANTS
  p1 = p1
  p2 = p2
  p3 = p3
  Proc = {p1, p2, p3}
  NoProc = NoProc
  NoFile = NoFile
  HostOf <- OneHost
  Recoveries = {"recover project-write"}
  SlowOwners = {p1}
  SerialRecovery = TRUE
  MaxEventId = 4
SPECIFICATION Spec
PROPERTY UnlockRecorded
CHECK_DEADLOCK FALSE
