SPECIFICATION Spec
CONSTANTS
  Parts = {"stream", "race", "claims", "swap", "rollbacks", "adverse", "numbered", "ahead", "counts"}
  None = None
  t1 = t1
  t2 = t2
  w1 = w1
  w2 = w2
  r1 = r1
  r2 = r2
  r3 = r3
  r4 = r4
  web = web
  mcp = mcp
  srv = srv
INVARIANTS StreamSound UpdatesSound FoldersSound
PROPERTIES ClientsStep
CHECK_DEADLOCK FALSE
