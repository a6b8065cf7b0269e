CONSTANTS
  verify = verify
  feedback = feedback
  NoGraph = NoGraph
  NoPlan = NoPlan
  Unreadable = Unreadable
  Phase <- MCPhase
  Default = {verify}
  Given <- MCGiven
  Graph <- MCGraph
  Request <- MCRound
  Handle <- MCRound
  Managed = TRUE
  Node = {"verify"}
  Candidates <- MCCandidates
  HandLine <- MCHandLine
  MaxEdits = 1
  MaxEventId = 5
SPECIFICATION Spec
VIEW View
INVARIANTS
  PlanFollowsLedger
PROPERTIES
  FinalPassIsBacked
CHECK_DEADLOCK FALSE
