CONSTANTS
  t1 = t1
  t2 = t2
  t3 = t3
  Threads = {t1, t2}
  MaxKey = 9
  Scenarios <- AVLRaces
  Weak = FALSE
SPECIFICATION FairSpec
INVARIANTS TypeOK InOrder LinksAgree BalancedWhenQuiet RequestsGuarded HeldNodesStay
PROPERTIES Linearizable VersionsTell Progress
CHECK_DEADLOCK FALSE
