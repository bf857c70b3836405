CONSTANTS
  W = 26
  OsTimers = {t1, t2}
  SelfSetters = {t1}
  Delays = {1, 2, 4}
  MaxLag = 2
  MaxNested = 2
SPECIFICATION Spec
INVARIANT Punctual
PROPERTY TimersServed
CHECK_DEADLOCK FALSE
