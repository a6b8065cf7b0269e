CONSTANTS
  intake = intake
  review = review
  backend = backend
  intake_md = intake_md
  review_md = review_md
  redteam = redteam
  bridge = bridge
  good = good
  pending = pending
  Blank = Blank
  Final = final
  Missing = Missing
  Empty = Empty
  Artifact = {intake_md, bridge}
  RunManifest = {intake_md, bridge}
  Baseline <- Pending
  Gate = {intake, backend}
  Conditional = {backend}
  NeedsManifest = {intake}
  Always <- AskedAlways
  IfRequired <- AskedIfRequired
  Content = {good, pending, Missing, Empty}
  Complete = {good}
  HandLine <- ByHand
  MaxEventId = 5
SPECIFICATION Spec
INVARIANTS
  TypeOK
  GateStateExplained
  EvidenceWasEvaluated
PROPERTY FinalPassIsSound
\* Only edits are left to a frozen store, or one at its last event id.
CHECK_DEADLOCK FALSE
