\* A primary key, an index with duplicates and a unique one with NULLKEY,
\* which come and go; one call fails half way.
CONSTANTS
  MaxRow = 3
  MaxVal <- TwoValues
  MaxDup = 1
  Parts = {1, 2, 3}
  IsDups = {2}
  NullKey = {3}
  MaxFailed = 1
SPECIFICATION Spec
CHECK_DEADLOCK FALSE
INVARIANTS TypeOK IndexesExact UniqueRows EntriesOrdered
