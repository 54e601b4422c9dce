CONSTANTS
  p = p
  q = q
  r = r
  Threads = {p, q, r}
  Addrs = {1, 2, 3}
  Values = {0, 1}
  MaxK = 2
  EntriesOf <- ChainEntries
  ReadsOf <- ChainReads
  MaxDepth = 4
  Guard <- TwoVersions
  Disciplined = TRUE
SPECIFICATION HSpec
INVARIANTS LockedPrefix
PROPERTIES Atomicity
CHECK_DEADLOCK FALSE
