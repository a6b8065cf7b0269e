CONSTANTS
  c1 = c1
  c2 = c2
  Content = {c1, c2}
  NativeInput <- OneNative
  Produces <- OneOfEach
  Key = {k1, k2}
  None = None
  MaxEdits = 1
  HandLine <- ByHand
  MaxStatus = 3
  MaxEventId = 4
SPECIFICATION Spec
SYMMETRY Symmetry
VIEW View
INVARIANTS
  TypeOK
  CallbacksAreInOrder
  OnlyDriftMakesUnreadable
\* An incoherent store, or one at its last event id, takes no more events.
CHECK_DEADLOCK FALSE
