SPECIFICATION Spec
CONSTANTS
  mouse = mouse
  keybd = keybd
  c1 = c1
  c2 = c2
  Keyboards = {keybd}
  Pointers = {mouse}
  EvictOrder <- CoreOrder
  Clients = {c1}
  Nobody = Nobody
  Depth = 1
  WinOwner <- Unowned
  Keys = {1}
  Modifiers = {}
  MultipleDowns = FALSE
  Motions = {}
  MaxEvents = 3
  MaxPassive = 1
INVARIANT NothingStranded KeysCatchUp EventsInOrder HeldEventIsLast ButtonHoldsGrab
PROPERTY CallsReturn
CHECK_DEADLOCK FALSE
