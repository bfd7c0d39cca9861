CONSTANTS
  s1 = s1
  s2 = s2
  t1 = t1
  t2 = t2
  Threads = {t1, t2}
  Sources = {s1, s2}
  Loops = {l}
  None = None
  Idle = {s1}
  HasFd = {s2}
  CanRecurse = {s1}
  Holder <- MCHolder
  Priority <- MCPriority
  MaxTime = 1
  ReadyTimes = {1}
  MaxDepth <- MCMaxDepth
  Calls <- MCCalls
  MayPend = 0
SPECIFICATION Spec
INVARIANTS SingleOwner PollSeesAll RefsExact PollRecordsExact NotReentered QuitWakes
