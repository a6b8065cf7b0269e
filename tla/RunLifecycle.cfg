CONSTANTS
  Run = {r1, r2, r3}
  NoRun = NoRun
  HandEvent = {"run.closed", "other"}
  MaxEventId = 7
SPECIFICATION Spec
SYMMETRY Symmetry
INVARIANTS
  TypeOK
  LedgerExplainsMetadata
  LedgerIsLifecycle
  OnlyCreateSplitsTheLane
  StatusNamesActiveRun
PROPERTY FinishedIsFinal
\* An incoherent store, or one at its last event id, refuses every command.
CHECK_DEADLOCK FALSE
