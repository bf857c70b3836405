CONSTANTS
  MAXCLIENTS = 3
  MaxPending = 2
  Priorities = {1}
  Requests = {"priority"}
SPECIFICATION FairSpec
PROPERTIES
  ResetCompletes
  EveryoneServed
CHECK_DEADLOCK FALSE
