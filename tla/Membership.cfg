SPECIFICATION Spec
CONSTANTS
  r1 = r1
  r2 = r2
  m1 = m1
  m2 = m2
  Requests = {r1, r2}
  Sweep = Sweep
  Mutators = {m1, m2}
  TTL = 2
  MaxTime = 4
  MaxVersion = 1
  None = None
SYMMETRY Interchangeable
INVARIANTS
  AnswersAreFresh
  AnswersNeverGoBack
CHECK_DEADLOCK FALSE
