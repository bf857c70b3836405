CONSTANTS
  MAXCLIENTS = 3
  MaxPending = 1
  Priorities = {0}
  Requests = {"grab", "ungrab", "mode", "kill", "killTemporary", "impervious", "pervious", "other"}
SPECIFICATION Spec
INVARIANTS
  CountIsRight
  MasksAreLive
  GrabAgrees
  GrabExcludes
PROPERTY ResetsWithLast
CHECK_DEADLOCK FALSE
