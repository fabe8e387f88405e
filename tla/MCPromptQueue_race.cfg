SPECIFICATION Spec
CONSTANTS
  m1 = m1
  m2 = m2
  e1 = e1
  w1 = w1
  w2 = w2
  Msgs = {}
  Events = {e1}
  Workers = {w1, w2}
  None = None
  Gone = Gone
  MaxQueue = 2
  MaxGen = 1
  MaxPos = 3
  MaxEdits = 0
  LateResends = FALSE
  SteerEvents = {}
  Faults = TRUE
  MaxCrashes = 0
  UserCancels = FALSE
  PolicyChanges = TRUE
  OutsideSends = FALSE
SYMMETRY Symmetry
INVARIANTS TypeOK HandedIsMarked SingleRow DeliveryInStep EmbeddedWasOnWire
PROPERTIES ImplementsLedger
