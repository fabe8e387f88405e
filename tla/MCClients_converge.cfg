SPECIFICATION FairSpec
CONSTANTS
  Parts = {"catchup", "follows", "heals", "feeds", "repo", "modes", "ends"}
  None = None
  t1 = t1
  t2 = t2
  w1 = w1
  w2 = w2
  r1 = r1
  r2 = r2
  r3 = r3
  r4 = r4
  web = web
  mcp = mcp
  srv = srv
PROPERTIES ClientsConverge
CHECK_DEADLOCK FALSE
