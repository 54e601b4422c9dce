CONSTANTS
  p = p
  q = q
  r = r
  Threads = {p, q}
  Addrs = {1, 2}
  Values = {0, 1, 2}
  MaxK = 2
  EntriesOf <- ProgressEntries
  ReadsOf <- FewReads
  MaxDepth = 3
  Guard <- VersionOfBoth
  Disciplined = TRUE
SPECIFICATION FairSpec
INVARIANT TypeOK
PROPERTIES Progress
CHECK_DEADLOCK FALSE
