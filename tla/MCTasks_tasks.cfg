SPECIFICATION Spec
CONSTANTS
  Parts = {"limit", "requeues", "deletes", "returns", "answers", "waits", "boots", "slot", "queue", "landing", "reworks", "train", "resumed", "fired", "closes"}
  None = None
  c1 = c1
  c2 = c2
  t1 = t1
  t2 = t2
  q1 = q1
  q2 = q2
  user = user
  a1 = a1
INVARIANTS RunsSound MergesSound FiresSound
PROPERTIES RunsStep MergesStep
CHECK_DEADLOCK FALSE
