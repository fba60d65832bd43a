\* Two sessions of two records each, the second without processes, and handles
\* for one and a half.
CONSTANTS
  t1 = t1
  t2 = t2
  Sessions = {t1, t2}
  MaxRecords = 2
  Snapped <- TheSnapped
  Empty = {2}
  MaxOpen = 3
  Torn = Torn
SPECIFICATION FairSpec
INVARIANTS IInv SnapshotsHaveRecords RecordsInOrder
PROPERTIES HandlesReleased AllRecorded
