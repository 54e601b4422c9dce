CONSTANTS
  p = p
  q = q
  r = r
  Threads = {p, q}
  Addrs = {1, 2}
  Values = {0, 1, 2}
  MaxK = 2
  EntriesOf <- RaceEntries
  ReadsOf <- FewReads
  MAX_RETRIES = 2
  MaxDepth = 4
  Guard <- VersionOfBoth
  Disciplined = TRUE
SPECIFICATION HTMSpec
INVARIANTS TagsLive
PROPERTIES WeakAtomicity
CHECK_DEADLOCK FALSE
