CONSTANTS
  t1 = t1
  t2 = t2
  t3 = t3
  Threads = {t1, t2}
  MaxKey = 10
  Scenarios <- Successor
  Weak = FALSE
SPECIFICATION Spec
INVARIANT InOrder
CHECK_DEADLOCK FALSE
