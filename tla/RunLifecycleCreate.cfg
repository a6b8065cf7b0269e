CONSTANTS
  Run = {r1, r2}
  NoRun = NoRun
  HandEvent = {"run.closed"}
  MaxEventId = 7
SPECIFICATION Spec
SYMMETRY Symmetry
INVARIANT OneActiveRun
CHECK_DEADLOCK FALSE
