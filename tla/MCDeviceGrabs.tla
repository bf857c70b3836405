---------------------------- MODULE MCDeviceGrabs ----------------------------
(***************************************************************************)
(* Instances of DeviceGrabs for TLC.  A .cfg cannot write a sequence or a  *)
(* function, so the orders and ownerships are defined here.                *)
(***************************************************************************)
EXTENDS DeviceGrabs, TLC

CONSTANTS mouse, keybd, c1, c2

\* The order of DeleteWindowFromAnyEvents: the pointer, then the keyboard.
CoreOrder == <<mouse, keybd>>
MouseOnly == <<mouse>>
KeybdOnly == <<keybd>>

\* Windows below the root belong to nobody who ever leaves, or to client c1.
Unowned == [w \in 1 .. Depth |-> Nobody]
ChildOfC1 == [w \in 1 .. Depth |-> IF w = Depth /\ w > 1 THEN c1 ELSE Nobody]

ClientSymmetry == Permutations(Clients)
==============================================================================
