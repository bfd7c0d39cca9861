CONSTANTS
  Threads = {t1, t2, t3}
  Callbacks = {c1}
  Sources = {s1}
  None = None
  MaxCancels = 2
  MaxFds = 1
CHECK_DEADLOCK FALSE
SPECIFICATION FairSpec
INVARIANTS
  OneCanceller
  DisconnectIsFinal
  CalledOnce
  FdTellsCancelled
  SourceTold
  NoDanglingSource
PROPERTY WaitsEnd
