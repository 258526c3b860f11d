SPECIFICATION Spec
CONSTANTS
  t1 = t1
  t2 = t2
  c1 = c1
  c2 = c2
  c3 = c3
  Threads = {t1, t2}
  Channels = {c1, c2, c3}
  Owner <- MCOwner
  PerThread = TRUE
INVARIANTS
  AlwaysAnswers
CHECK_DEADLOCK FALSE
