CONSTANTS
  t1 = t1
  t2 = t2
  None = None
  Tasks = {t1, t2}
  Cancellable = {t2}
  PoolSize = 1
  Parent <- MCParent
  Modes <- MCModes
  Results <- MCResults
  Priority <- MCPriority
SPECIFICATION FairSpec
INVARIANTS CompletedOnce RefsExact
PROPERTY CancelReturns
CHECK_DEADLOCK FALSE
