CONSTANTS
  Threads = {t1, t2, t3}
  a = a
  b = b
  c = c
  Tasks = {a, b, c}
  Dummy = Dummy
  Key <- MCKey
  MaxThreads <- MCMaxThreads
CHECK_DEADLOCK FALSE
SPECIFICATION FairSpec
INVARIANTS FreedOnce AllTasksProcessed QueuedTasksServed
PROPERTY EventuallyFreed
