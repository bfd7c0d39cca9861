CONSTANTS
  k1 = k1
  k2 = k2
  None = None
  Calls = {k1, k2}
  Timed = {k1}
  Cancellable = {k1, k2}
  Modulus = 4
  MaxReplies = 2
  MaxDisconnects = 2
SPECIFICATION FairSpec
INVARIANTS RefsExact MapExact OneOutcome
PROPERTY CallReturns
CHECK_DEADLOCK FALSE
