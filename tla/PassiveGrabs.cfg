SPECIFICATION Spec
CONSTANTS
  Clients = {c1, c2}
  Nobody = Nobody
  Keys = {k1, k2}
  Modifiers = {m1, m2}
  AnyDetail = AnyDetail
  Modes = {free, fenced}
  Confined = {fenced}
  MaxGrabs = 2
INVARIANTS OneOwner StartedIfHeld RefusedForAReason
PROPERTIES ImplementsKeyGrabs RequestsActExactly
SYMMETRY Exchange
