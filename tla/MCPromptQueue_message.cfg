SPECIFICATION Spec
CONSTANTS
  m1 = m1
  m2 = m2
  e1 = e1
  w1 = w1
  w2 = w2
  Msgs = {m1}
  Events = {}
  Workers = {w1, w2}
  None = None
  Gone = Gone
  MaxQueue = 2
  MaxGen = 1
  MaxPos = 3
  MaxEdits = 1
  LateResends = FALSE
  SteerEvents = {}
  Faults = FALSE
  MaxCrashes = 1
  UserCancels = FALSE
  PolicyChanges = FALSE
  OutsideSends = FALSE
SYMMETRY Symmetry
INVARIANTS AtMostOnce NoSilentLoss DispatchesSavedText
