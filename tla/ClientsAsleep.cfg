CONSTANTS
  MAXCLIENTS = 3
  MaxPending = 2
  Priorities = {0}
  Requests = {"grab", "ungrab", "sleep"}
SPECIFICATION Spec
INVARIANTS
  NobodyForgotten
  NoHiddenInput
CHECK_DEADLOCK FALSE
