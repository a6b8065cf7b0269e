CONSTANTS
  left = left
  right = right
  join = join
  Node = {left, right, join}
  DependsOn <- Joined
  NoInstance = NoInstance
  Blank = Blank
  report = report
  MaxManual = 1
  MaxRevision = 4
  MaxEventId = 5
SPECIFICATION Spec
SYMMETRY Symmetry
INVARIANTS
  TypeOK
  ExpectedRevisionWinsOnce
  HelperHistoryVerifies
  ManualTransitionsDetected
  EventIdsAreBacked
PROPERTY FollowsTaskDag
\* An incoherent store, or one at its last event id, refuses every command.
CHECK_DEADLOCK FALSE
