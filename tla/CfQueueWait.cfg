CONSTANTS
  Thread = {t1, t2, t3}
  MaxSz = 3
SPECIFICATION FairSpec
INVARIANT NoLostWakeup
PROPERTIES
  SleepersServed
  TimedPopReturns
