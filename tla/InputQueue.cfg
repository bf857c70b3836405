\* Two screens, a ring of three slots (two usable), a clock with two values;
\* clients may warp the pointer between the screens.
SPECIFICATION FairSpec
CONSTANTS
  QUEUE_SIZE = 3
  Screens = {s1, s2}
  Screen0 = s1
  s1 = s1
  s2 = s2
  TimeSlack = 2
  ScreenWarps = TRUE
  MaxEvents = 4
  MaxTime = 1
CHECK_DEADLOCK FALSE
INVARIANTS HeadSlotIsLive EveryKeyAccountedFor DrainedPointerAgrees
PROPERTIES ImplementsChannel LoopReturns OnlyKeysGoBackwards
