SPECIFICATION Spec
CONSTANTS
  mouse = mouse
  keybd = keybd
  c1 = c1
  c2 = c2
  Keyboards = {}
  Pointers = {mouse}
  EvictOrder <- MouseOnly
  Clients = {c1, c2}
  Nobody = Nobody
  Depth = 3
  WinOwner <- ChildOfC1
  Keys = {1}
  Modifiers = {}
  MultipleDowns = FALSE
  Motions = {mouse}
  MaxEvents = 3
  MaxPassive = 1
INVARIANT ActiveGrabViewable OwnersAreConnected
CHECK_DEADLOCK FALSE
