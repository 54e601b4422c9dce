CONSTANTS
  p = p
  q = q
  r = r
  Threads = {p, q}
  Addrs = {1, 2}
  Values = {0, 1, 2}
  MaxK = 2
  EntriesOf <- ReuseEntries
  ReadsOf <- ReuseReads
  MaxDepth = 4
  Guard <- VersionOfBoth
  Disciplined = TRUE
SPECIFICATION HSpec
INVARIANTS SnapshotSound RdcssTagsLive LockedPrefix TagsLive
PROPERTIES SuccessIsAtomic DecisionStable Atomicity
CHECK_DEADLOCK FALSE
