CONSTANTS
  t1 = t1
  t2 = t2
  t3 = t3
  Threads = {t1, t2}
  MaxKey = 5
  Scenarios <- Reuse
  Weak = FALSE
SPECIFICATION Spec
PROPERTIES Linearizable
CHECK_DEADLOCK FALSE
