CONSTANTS
  ask = ask
  build = build
  broken = broken
  NoFile = NoFile
  Blank = Blank
  Garbled = Garbled
  Body <- MCBody
  Valid <- MCValid
  Repairable <- MCRepairable
  HandLine <- MCHandLine
  MaxEdits = 1
  MaxProposal = 2
  MaxEventId = 7
SPECIFICATION Spec
SYMMETRY Symmetry
INVARIANTS
  TypeOK
  GraphFollowsLedger
  ProposalsAreRecorded
  AppliesWhatWasProposed
PROPERTIES
  AppliedOnce
  OverwriteIsBackedUp
CHECK_DEADLOCK FALSE
