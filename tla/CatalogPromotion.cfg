CONSTANTS
  a = a
  b = b
  Missing = Missing
  Targets = 3
  BaseName <- MCBaseName
  Text <- MCText
  Bundle <- MCBundle
  Valid <- MCValid
  HandLine <- MCHandLine
  MaxEdits = 1
  MaxProposal = 2
  MaxEventId = 6
SPECIFICATION Spec
INVARIANTS
  TypeOK
  PromotedIsNeverLost
  PromotionsBuildOnEachOther
CHECK_DEADLOCK FALSE
