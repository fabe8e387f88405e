SPECIFICATION FairSpec
CONSTANTS
  Parts = {"settles", "drains", "served", "halts", "runs"}
  None = None
  c1 = c1
  c2 = c2
  t1 = t1
  t2 = t2
  q1 = q1
  q2 = q2
  user = user
  a1 = a1
PROPERTIES RunsProgress MergesProgress
CHECK_DEADLOCK FALSE
