CONSTANTS
  p = p
  q = q
  r = r
  Threads = {p, q}
  Addrs = {1, 2}
  Values = {0, 1}
  MaxK = 2
  EntriesOf <- RecurringEntries
  ReadsOf <- RecurringReads
  MaxDepth = 4
  Guard <- NoVersions
  Disciplined = FALSE
SPECIFICATION FairSpec
PROPERTIES Progress
CHECK_DEADLOCK FALSE
