CONSTANTS
  s1 = s1
  s2 = s2
  t1 = t1
  t2 = t2
  Threads = {t1, t2, t3}
  Sources = {}
  Loops = {l}
  None = None
  Idle = {}
  HasFd = {}
  CanRecurse = {}
  Holder <- MCHolder
  Priority <- MCPriority
  MaxTime = 0
  ReadyTimes = {}
  MaxDepth <- MCMaxDepth
  Calls <- MCCalls
  MayPend = 0
CHECK_DEADLOCK FALSE
SPECIFICATION Spec
INVARIANT WaitersServed
