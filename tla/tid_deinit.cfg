CONSTANTS
  t1 = t1
  t2 = t2
  t3 = t3
  t4 = t4
  Threads = {t1, t2, t3, t4}
  KCAS_MAX_THREADS = 4
  MaxLive = 4
SPECIFICATION SpecDeinit
SYMMETRY Symmetry
INVARIANT SlotExclusive
