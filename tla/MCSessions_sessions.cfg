SPECIFICATION Spec
CONSTANTS
  Parts = {"cards", "returned", "asksEnd", "shown", "rowKept", "dropped", "identity", "saved", "notes", "attached", "owed", "asked", "board"}
  None = None
  c1 = c1
  c2 = c2
  c3 = c3
  w1 = w1
  w2 = w2
  q1 = q1
  q2 = q2
  q3 = q3
  sA = sA
  sB = sB
  sC = sC
  Old = Old
  Forked = Forked
  t1 = t1
  i1 = i1
  i2 = i2
INVARIANTS CardsSound AsksSound StatusSound IdentitySound MailSound RowsHonest
PROPERTIES SessionsStep
CHECK_DEADLOCK FALSE
