CONSTANTS
  Workers = {t1, t2, t3}
  Pools = {p}
  Marker = Marker
  Null = Null
  Limits <- MCLimits
  MaxChanges = 1
  MaxStarts = 2
CHECK_DEADLOCK FALSE
SPECIFICATION UnusedSpec
SYMMETRY Symmetry
INVARIANTS UnusedExact PoolsHaveThreads EntriesAreTaken
