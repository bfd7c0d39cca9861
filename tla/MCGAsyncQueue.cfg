CONSTANTS
  Threads = {t1, t2, t3}
  NoThread = NoThread
  a = a
  b = b
  Items = {a, b}
  Key <- MCKey
  EndTimes <- Deadlines
  MaxPushes = 3
  MaxRefs = 3
CHECK_DEADLOCK FALSE
SPECIFICATION FairSpec
INVARIANTS NoLostWakeup PopOrder FreedQuiescent
PROPERTY ItemsAreTaken
