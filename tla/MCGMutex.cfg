CONSTANTS
  Threads = {t1, t2, t3}
  GenSize = 4
  MaxSignals = 2
SPECIFICATION FairSpec
INVARIANTS MutualExclusion NoForgottenSleeper
PROPERTIES LockProgress ImplementsMonitor
