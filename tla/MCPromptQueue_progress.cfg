SPECIFICATION FairSpec
CONSTANTS
  m1 = m1
  m2 = m2
  e1 = e1
  w1 = w1
  w2 = w2
  Msgs = {m1}
  Events = {e1}
  Workers = {w1}
  None = None
  Gone = Gone
  MaxQueue = 2
  MaxGen = 0
  MaxPos = 3
  MaxEdits = 0
  LateResends = FALSE
  SteerEvents = {}
  Faults = FALSE
  MaxCrashes = 1
  UserCancels = FALSE
  PolicyChanges = TRUE
  OutsideSends = FALSE
PROPERTIES ClaimsResolve FrozenThaws HeadIsServed
