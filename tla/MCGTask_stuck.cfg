CONSTANTS
  t1 = t1
  t2 = t2
  None = None
  Tasks = {t1, t2, t3}
  Cancellable = {}
  PoolSize = 1
  Parent <- MCParent
  Modes <- MCSync
  Results <- MCValue
  Priority <- MCPriority
SPECIFICATION FairSpec
PROPERTY StartedCompletes
CHECK_DEADLOCK FALSE
