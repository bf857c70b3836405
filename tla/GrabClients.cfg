SPECIFICATION Spec
CONSTANTS
  mouse = mouse
  keybd = keybd
  c1 = c1
  c2 = c2
  Keyboards = {keybd}
  Pointers = {mouse}
  EvictOrder <- CoreOrder
  Clients = {c1, c2}
  Nobody = Nobody
  Depth = 1
  WinOwner <- Unowned
  Keys = {1}
  Modifiers = {}
  MultipleDowns = TRUE
  Motions = {}
  MaxEvents = 2
  MaxPassive = 1
INVARIANT FrozenIffHeld HeldByActiveGrab
PROPERTY HoldIsKept
SYMMETRY ClientSymmetry
CHECK_DEADLOCK FALSE
