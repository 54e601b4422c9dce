CONSTANTS
  t1 = t1
  t2 = t2
  t3 = t3
  Threads = {t1, t2, t3}
  MaxKey = 9
  Scenarios <- BSTRaces
  Weak = TRUE
SPECIFICATION Spec
INVARIANTS InOrder RequestsGuarded HeldNodesStay
PROPERTIES Linearizable VersionsTell
CHECK_DEADLOCK FALSE
