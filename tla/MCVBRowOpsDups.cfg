\* An index with ISDUPS and NULLKEY; no call fails.  The order of its
\* duplicates is not kept: TLC finds EntriesOrdered violated.
CONSTANTS
  MaxRow = 4
  MaxVal <- TwoValues
  MaxDup = 2
  Parts = {1, 2}
  IsDups = {2}
  NullKey = {2}
  MaxFailed = 0
SPECIFICATION Spec
CHECK_DEADLOCK FALSE
INVARIANT EntriesOrdered
