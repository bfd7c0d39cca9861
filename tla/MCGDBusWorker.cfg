CONSTANTS
  m1 = m1
  m2 = m2
  f1 = f1
  c1 = c1
  c2 = c2
  NoMessage = NoMessage
  Messages = {m1, m2}
  Dropped = {m1}
  Flushers = {f1}
  Closers = {c1, c2}
  Stoppers = {c2}
  MaxFaults = 1
SPECIFICATION IOFairSpec
INVARIANTS NoLostWork FlushCovers
PROPERTIES FlushReturns CloseReturns
CHECK_DEADLOCK FALSE
