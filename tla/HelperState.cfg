CONSTANTS
  p1 = p1
  p2 = p2
  p3 = p3
  Proc = {p1, p2, p3}
  NoProc = NoProc
  NoFile = NoFile
  HostOf <- TwoHosts
  Recoveries = {"recover active-run", "recover project-write"}
  SlowOwners = {}
  SerialRecovery = TRUE
  MaxEventId = 3
SPECIFICATION Spec
SYMMETRY LocalSymmetry
INVARIANTS
  OneWriter
  EventIdsSequential
  ActiveLockNested
  SuccessIsRecorded
PROPERTIES
  AppendOnlyWhenCoherent
  LedgerIsAtomic
  UnlockRecorded
\* Every process runs one command and exits.
CHECK_DEADLOCK FALSE
