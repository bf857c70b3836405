-------------------------- MODULE InputQueueProofs --------------------------
(***************************************************************************)
(* Proofs about InputQueue for every ring size, set of screens and bound.  *)
(***************************************************************************)
EXTENDS InputQueue, SequenceTheorems, TLAPS

\* A stamped key event has room for its number: the part of the inductive
\* invariant that TypeOK does not say.
KeyReserved == pc = "key" => produced < MaxEvents

\* The inductive invariant of the hand-over between SIGIO and main thread.
QueueInv == TypeOK /\ KeyReserved /\ HeadSlotIsLive

\* The cursors stay inside the ring.
LEMMA CursorsInRing ==
  ASSUME NEW i \in Slots
  PROVE  Succ(i) \in Slots /\ Pred(i) \in Slots
BY QueueSizeAssumption DEF Slots, Succ, Pred

\* The time fix-up of xf86eqEnqueue yields an event.
LEMMA FixTimeType ==
  ASSUME NEW e \in Event, lastEventTime \in 0 .. MaxTime
  PROVE  FixTime(e) \in Event
BY DEF FixTime, Event

\* Motions built from a known position and the clock are events.
LEMMA MotionType ==
  ASSUME NEW n \in Numbers, NEW t \in 0 .. MaxTime
  PROVE  Motion(n, t) \in Event
BY DEF Motion, Event

\* A torn copy is still of the type of an event.
LEMMA MixtureType ==
  ASSUME NEW a \in Event, NEW b \in Event, NEW e \in Mixtures(a, b)
  PROVE  e \in Event /\ e.kind = a.kind /\ e.time \in {a.time, b.time}
<1>1. Nowhere \in Numbers
  BY BoundAssumption DEF Nowhere, Numbers
<1> QED BY <1>1 DEF Mixtures, Event

\* What xf86eqEnqueue does to the ring, whichever of its branches it takes:
\* types are kept, and a ring that was not empty does not become empty.
LEMMA EnqueueKeepsRing ==
  ASSUME TypeOK, NEW e \in Event, NEW s \in Screens, xf86eqEnqueue(e, s)
  PROVE  /\ head' \in Slots /\ tail' \in Slots
         /\ events' \in [Slots -> [event : Event, pScreen : Screens]]
         /\ lastMotion' \in BOOLEAN
         /\ lastEventTime' \in 0 .. MaxTime
         /\ tossed' \subseteq Event /\ arrived' \in Event
         /\ overtaken' \in BOOLEAN
         /\ head # tail => head' # tail'
<1>1. /\ head \in Slots /\ tail \in Slots
      /\ events \in [Slots -> [event : Event, pScreen : Screens]]
      /\ lastMotion \in BOOLEAN /\ lastEventTime \in 0 .. MaxTime
      /\ tossed \subseteq Event /\ overtaken \in BOOLEAN
  BY DEF TypeOK
<1>2. head' = head /\ lastEventTime' = lastEventTime /\ arrived' \in Event
  BY DEF xf86eqEnqueue
<1>3. [event |-> FixTime(e), pScreen |-> s] \in [event : Event, pScreen : Screens]
  BY <1>1, FixTimeType
<1>4. Succ(tail) \in Slots /\ Pred(tail) \in Slots
  BY <1>1, CursorsInRing
<1>5. CASE MergeMotion(e, s)
  BY <1>1, <1>2, <1>3, <1>4, <1>5 DEF MergeMotion
<1>6. CASE AppendEvent(e, s)
  BY <1>1, <1>2, <1>3, <1>4, <1>6 DEF AppendEvent, IsMotion, lossVars
<1>7. CASE TossEvent(e)
  BY <1>1, <1>2, <1>7 DEF TossEvent
<1> QED
  BY <1>5, <1>6, <1>7 DEF xf86eqEnqueue

\* Moving the pointer switches to known screens.
LEMMA MoveKeepsScreens ==
  ASSUME TypeOK, NEW s \in Screens, NEW n \in Numbers, MovePointer(s, n)
  PROVE  /\ pEnqueueScreen' \in Screens /\ pDequeueScreen' \in Screens
         /\ pointer' \in Position
BY DEF MovePointer, xf86eqSwitchScreen, screenVars, TypeOK, Position

\* A warp keeps the types and never empties the ring.
LEMMA WarpKeepsRing ==
  ASSUME TypeOK, NEW s \in Screens, NEW n \in Numbers, miPointerWarpCursor(s, n)
  PROVE  /\ head' \in Slots /\ tail' \in Slots
         /\ events' \in [Slots -> [event : Event, pScreen : Screens]]
         /\ lastMotion' \in BOOLEAN
         /\ lastEventTime' \in 0 .. MaxTime
         /\ tossed' \subseteq Event /\ arrived' \in Event
         /\ overtaken' \in BOOLEAN
         /\ head # tail => head' # tail'
         /\ pEnqueueScreen' \in Screens /\ pDequeueScreen' \in Screens
         /\ pointer' \in Position
<1>1. pEnqueueScreen' \in Screens /\ pDequeueScreen' \in Screens /\ pointer' \in Position
  BY MoveKeepsScreens DEF miPointerWarpCursor
<1>2. Motion(n, now) \in Event
  BY MotionType DEF TypeOK
<1>3. xf86eqEnqueue(Motion(n, now), pEnqueueScreen')
  BY DEF miPointerWarpCursor
<1> HIDE DEF miPointerWarpCursor
<1> QED
  BY <1>1, <1>2, <1>3, EnqueueKeepsRing

\* So does a change of screen, and the sprite gets a position.
LEMMA NewScreenKeepsRing ==
  ASSUME TypeOK, NEW s \in Screens, NEW n \in Numbers, NewCurrentScreen(s, n)
  PROVE  /\ head' \in Slots /\ tail' \in Slots
         /\ events' \in [Slots -> [event : Event, pScreen : Screens]]
         /\ lastMotion' \in BOOLEAN
         /\ lastEventTime' \in 0 .. MaxTime
         /\ tossed' \subseteq Event /\ arrived' \in Event
         /\ overtaken' \in BOOLEAN
         /\ head # tail => head' # tail'
         /\ pEnqueueScreen' \in Screens /\ pDequeueScreen' \in Screens
         /\ pointer' \in Position /\ sprite' \in Position
<1>1. sprite' \in Position
  BY DEF NewCurrentScreen, Position
<1>2. CASE s = sprite.screen
  BY <1>1, <1>2 DEF NewCurrentScreen, TypeOK, ringVars, screenVars, lossVars
<1>3. CASE s # sprite.screen
  <2>1. miPointerWarpCursor(s, n)
    BY <1>3 DEF NewCurrentScreen
  <2> QED BY <1>1, <2>1, WarpKeepsRing
<1> QED BY <1>2, <1>3

\* The invariant holds at the start.
LEMMA InitQueueInv == ASSUME Init PROVE QueueInv
<1>1. 0 \in Slots /\ 0 \in 0 .. MaxTime /\ 0 \in 0 .. MaxEvents /\ 0 \in Numbers
  BY QueueSizeAssumption, BoundAssumption DEF Slots, Numbers, Nowhere
<1>2. Motion(0, 0) \in Event
  BY <1>1, MotionType
<1>3. [screen |-> Screen0, pos |-> 0] \in Position
  BY <1>1, ScreensAssumption DEF Position
<1>4. events \in [Slots -> [event : Event, pScreen : Screens]]
  BY <1>2, ScreensAssumption DEF Init
<1>5. delivered \in Seq(Numbers)
  BY DEF Init
<1>6. TypeOK
  <2> HIDE DEF Motion
  <2> QED BY <1>1, <1>2, <1>3, <1>4, <1>5, ScreensAssumption DEF Init, TypeOK
<1>7. KeyReserved /\ HeadSlotIsLive
  BY DEF Init, KeyReserved, HeadSlotIsLive, Removing
<1> QED
  BY <1>6, <1>7 DEF QueueInv

\* Every step keeps it.  The steps of SIGIO and the warps rest on
\* EnqueueKeepsRing: the enqueuer refuses to close the ring onto head.
LEMMA NextQueueInv == ASSUME QueueInv, [Next]_vars PROVE QueueInv'
<1> USE DEF QueueInv
<1>0. /\ QUEUE_SIZE \in Nat /\ MaxEvents \in Nat /\ MaxTime \in Nat
      /\ Numbers = 0 .. MaxEvents + 1
  BY QueueSizeAssumption, BoundAssumption DEF Numbers, Nowhere
<1>1. CASE SigioButton
  <2>1. /\ produced' \in 0 .. MaxEvents /\ pc' = pc
        /\ pc = "key" => produced' < MaxEvents
    BY <1>0, <1>1 DEF SigioButton, Produce, TypeOK
  <2>2. [kind |-> "button", n |-> produced', time |-> now] \in Event
    BY <1>0, <2>1 DEF Event, TypeOK
  <2>3. pEnqueueScreen \in Screens
    BY DEF TypeOK
  <2>4. xf86eqEnqueue([kind |-> "button", n |-> produced', time |-> now], pEnqueueScreen)
    BY <1>1 DEF SigioButton
  <2>5. pressed' \subseteq Numbers
    BY <1>0, <1>1, <2>1 DEF SigioButton, TypeOK
  <2>6. UNCHANGED <<screenVars, pointer, now, outputVars, pc, xe>>
    BY <1>1 DEF SigioButton
  <2> QED
    BY <2>1, <2>2, <2>3, <2>4, <2>5, <2>6, EnqueueKeepsRing
       DEF TypeOK, KeyReserved, HeadSlotIsLive, Removing, screenVars, outputVars
<1>2. CASE SigioMotion
  <2>1. /\ produced' \in 0 .. MaxEvents /\ pc' = pc
        /\ pc = "key" => produced' < MaxEvents
    BY <1>0, <1>2 DEF SigioMotion, Produce, TypeOK
  <2>2. PICK s \in Screens :
          /\ IF s = pointer.screen THEN UNCHANGED screenVars
                                   ELSE xf86eqSwitchScreen(s, FALSE)
          /\ pointer' = [screen |-> s, pos |-> produced']
          /\ xf86eqEnqueue(Motion(produced', now), pEnqueueScreen')
    BY <1>2 DEF SigioMotion
  <2>3. pEnqueueScreen' \in Screens /\ pDequeueScreen' \in Screens
    BY <2>2 DEF xf86eqSwitchScreen, screenVars, TypeOK
  <2>4. Motion(produced', now) \in Event /\ pointer' \in Position
    BY <1>0, <2>1, <2>2, MotionType DEF TypeOK, Position
  <2>5. UNCHANGED <<now, pressed, outputVars, pc, xe>>
    BY <1>2 DEF SigioMotion
  <2>6. xf86eqEnqueue(Motion(produced', now), pEnqueueScreen')
    BY <2>2
  <2> QED
    BY <2>1, <2>3, <2>4, <2>5, <2>6, EnqueueKeepsRing
       DEF TypeOK, KeyReserved, HeadSlotIsLive, Removing, outputVars
<1>3. CASE WarpPointer
  <2>1. /\ produced' \in 0 .. MaxEvents /\ pc' = pc /\ pc \in {"idle", "process"}
        /\ UNCHANGED <<now, pressed, delivered, swallowed, lastTime, backwards, outrun, xe>>
    BY <1>0, <1>3 DEF WarpPointer, Produce, TypeOK
  <2>5. warped' \in BOOLEAN
    <3>1. warped' = TRUE \/ warped' = warped
      BY <1>3, Zenon DEF WarpPointer
    <3>2. warped \in BOOLEAN
      BY DEF TypeOK
    <3> QED BY <3>1, <3>2
  <2>2. produced' \in Numbers /\ sprite.screen \in Screens
    BY <1>0, <2>1 DEF TypeOK, Position
  <2>3. CASE miPointerWarpCursor(sprite.screen, produced') /\ UNCHANGED sprite
    BY <2>1, <2>2, <2>3, <2>5, WarpKeepsRing DEF TypeOK, KeyReserved, HeadSlotIsLive, Removing
  <2>4. CASE \E s \in Screens : NewCurrentScreen(s, produced')
    <3>1. PICK s \in Screens : NewCurrentScreen(s, produced')
      BY <2>4
    <3> QED
      BY <2>1, <2>2, <2>5, <3>1, NewScreenKeepsRing DEF TypeOK, KeyReserved, HeadSlotIsLive, Removing
  <2> QED BY <1>3, <2>3, <2>4 DEF WarpPointer
<1>4. CASE KeyStamp
  BY <1>0, <1>4 DEF KeyStamp, TypeOK, KeyReserved, HeadSlotIsLive, Removing, Event,
     ringVars, screenVars, inputVars, outputVars, lossVars
<1>5. CASE KeyEnqueue
  <2>1. /\ produced' \in 0 .. MaxEvents /\ produced' \in Numbers /\ pc' = "idle"
    BY <1>0, <1>5 DEF KeyEnqueue, TypeOK, KeyReserved
  <2>2. [xe EXCEPT !.n = produced'] \in Event
    BY <2>1 DEF Event, TypeOK
  <2>3. pEnqueueScreen \in Screens
    BY DEF TypeOK
  <2>4. xf86eqEnqueue([xe EXCEPT !.n = produced'], pEnqueueScreen)
    BY <1>5 DEF KeyEnqueue
  <2>5. pressed' \subseteq Numbers
    BY <1>5, <2>1 DEF KeyEnqueue, TypeOK
  <2>6. UNCHANGED <<screenVars, pointer, now, outputVars, xe>>
    BY <1>5 DEF KeyEnqueue
  <2> QED
    BY <2>1, <2>2, <2>3, <2>4, <2>5, <2>6, EnqueueKeepsRing
       DEF TypeOK, KeyReserved, HeadSlotIsLive, Removing, screenVars, outputVars
<1>6. CASE Tick
  BY <1>0, <1>6 DEF Tick, TypeOK, KeyReserved, HeadSlotIsLive, Removing,
     ringVars, screenVars, outputVars, lossVars
<1>7. CASE LoopTest
  BY <1>7 DEF LoopTest, TypeOK, KeyReserved, HeadSlotIsLive, Removing,
     ringVars, screenVars, inputVars, outputVars, lossVars
<1>8. CASE ReadScreen
  BY <1>8 DEF ReadScreen, TypeOK, KeyReserved, HeadSlotIsLive, Removing,
     ringVars, inputVars, outputVars, lossVars
<1>9. CASE CopyEvent
  BY <1>9 DEF CopyEvent, TypeOK, KeyReserved, HeadSlotIsLive, Removing,
     ringVars, screenVars, inputVars, outputVars, lossVars
<1>15. CASE TestScreen
  BY <1>15 DEF TestScreen, TypeOK, KeyReserved, HeadSlotIsLive, Removing,
     ringVars, screenVars, inputVars, outputVars, lossVars
<1>16. CASE CopyRest
  <2>1. /\ pc \in {"y", "copying"} /\ pc' = IF pc = "y" THEN "cross" ELSE "advance"
        /\ UNCHANGED <<ringVars, screenVars, inputVars, outputVars, lossVars>>
        /\ xe' \in Mixtures(xe, events[head].event)
    BY <1>16 DEF CopyRest
  <2>2. xe \in Event /\ events[head].event \in Event
    BY DEF TypeOK
  <2>3. xe' \in Event
    BY <2>1, <2>2, MixtureType
  <2> QED BY <2>1, <2>3 DEF TypeOK, KeyReserved, HeadSlotIsLive, Removing,
     ringVars, screenVars, inputVars, outputVars, lossVars
<1>17. CASE ConstrainPointer
  <2>1. /\ produced' \in 0 .. MaxEvents /\ pc' = pc /\ pc \in {"idle", "process"}
        /\ UNCHANGED <<now, pressed, delivered, swallowed, lastTime, backwards, xe>>
    BY <1>0, <1>17 DEF ConstrainPointer, Produce, TypeOK
  <2>2. produced' \in Numbers /\ sprite.screen \in Screens
    BY <1>0, <2>1 DEF TypeOK, Position
  <2>3. PICK s \in Screens : /\ miPointerWarpSilently(s, produced')
                             /\ sprite' = [screen |-> s, pos |-> produced']
                             /\ warped' = (warped \/ s # sprite.screen)
    BY <1>17, <2>2 DEF ConstrainPointer
  <2>4. /\ UNCHANGED <<ringVars, lossVars>> /\ MovePointer(s, produced')
    BY <2>3 DEF miPointerWarpSilently
  <2>5. /\ pEnqueueScreen' \in Screens /\ pDequeueScreen' \in Screens
        /\ pointer' \in Position
    BY <2>2, <2>4, MoveKeepsScreens
  <2>6. sprite' \in Position
    BY <2>2, <2>3 DEF Position
  <2>7. warped' \in BOOLEAN
    BY <2>3 DEF TypeOK
  <2>8. outrun' \in BOOLEAN
    BY <1>17 DEF ConstrainPointer, TypeOK
  <2> QED BY <2>1, <2>4, <2>5, <2>6, <2>7, <2>8
          DEF TypeOK, KeyReserved, HeadSlotIsLive, Removing, ringVars, lossVars
<1>10. CASE AdvanceHead
  BY <1>10, CursorsInRing DEF AdvanceHead, TypeOK, KeyReserved, HeadSlotIsLive, Removing,
     screenVars, inputVars, outputVars, lossVars
<1>11. CASE CrossScreen
  <2>1. xe.n \in Numbers /\ Nowhere \in Numbers /\ pDequeueScreen \in Screens
    BY <1>0 DEF TypeOK, Event, Nowhere
  <2>2. PICK p \in Numbers : NewCurrentScreen(pDequeueScreen, p)
    BY <1>11, <2>1 DEF CrossScreen
  <2>3. swallowed' \subseteq Numbers
    BY <1>11, <2>1 DEF CrossScreen, TypeOK
  <2>4. pc' = "loop" /\ UNCHANGED <<now, produced, pressed, delivered, lastTime, backwards, warped, outrun, xe>>
    BY <1>11 DEF CrossScreen
  <2> QED
    BY <2>1, <2>2, <2>3, <2>4, NewScreenKeepsRing DEF TypeOK, KeyReserved, HeadSlotIsLive, Removing
<1>12. CASE ProcessInputProc
  <2>1. xe.n \in Numbers /\ xe.time \in 0 .. MaxTime
    BY DEF TypeOK, Event
  <2>2. delivered' \in Seq(Numbers) /\ sprite' \in Position
    <3>1. delivered \in Seq(Numbers) /\ sprite \in Position
      BY DEF TypeOK
    <3>2. CASE IsMotion(xe)
      BY <1>12, <2>1, <3>1, <3>2 DEF ProcessInputProc, Position
    <3>3. CASE ~IsMotion(xe)
      <4>1. delivered' = Append(delivered, xe.n) /\ sprite' = sprite
        BY <1>12, <3>3 DEF ProcessInputProc
      <4> QED BY <2>1, <3>1, <4>1
    <3> QED BY <3>2, <3>3
  <2>3. /\ pc' = "process" /\ lastTime' \in 0 .. MaxTime /\ backwards' \in BOOLEAN
        /\ UNCHANGED <<ringVars, screenVars, inputVars, swallowed, lossVars, warped, outrun, xe>>
    BY <1>12, <2>1 DEF ProcessInputProc, TypeOK
  <2> QED
    BY <2>2, <2>3 DEF TypeOK, KeyReserved, HeadSlotIsLive, Removing, ringVars, screenVars,
       inputVars, lossVars
<1>13. CASE ProcessDone
  BY <1>13 DEF ProcessDone, TypeOK, KeyReserved, HeadSlotIsLive, Removing,
     ringVars, screenVars, inputVars, outputVars, lossVars
<1>14. CASE UNCHANGED vars
  BY <1>14 DEF vars, TypeOK, KeyReserved, HeadSlotIsLive, Removing,
     ringVars, screenVars, inputVars, outputVars, lossVars
<1> QED
  BY <1>1, <1>2, <1>3, <1>4, <1>5, <1>6, <1>7, <1>8, <1>9, <1>10, <1>11, <1>12,
     <1>13, <1>14, <1>15, <1>16, <1>17 DEF Next, MainThread

\* xf86eqEnqueue and xf86eqProcessInputEvents keep their cursors, slots and
\* screens in range for every ring size and every interleaving.
THEOREM QueueTypeSafety == Spec => []TypeOK
<1>1. QueueInv /\ [Next]_vars => QueueInv'
  BY NextQueueInv
<1>2. Init => QueueInv
  BY InitQueueInv
<1> QED BY <1>1, <1>2, PTL DEF Spec, QueueInv

\* While the main thread removes an event without blocking SIGIO, the slot it
\* works on stays occupied, for every ring size and every interleaving.
THEOREM HeadSlotStaysLive == Spec => []HeadSlotIsLive
<1>1. QueueInv /\ [Next]_vars => QueueInv'
  BY NextQueueInv
<1>2. Init => QueueInv
  BY InitQueueInv
<1> QED BY <1>1, <1>2, PTL DEF Spec, QueueInv
-----------------------------------------------------------------------------
(* The ring as a sequence of slots, and what else is invariant.            *)

\* The occupied slots, oldest first.
Ring == [i \in 1 .. Size |-> events[SlotAt(i)]]
Slot == [event : Event, pScreen : Screens]
Key(slot) == ~IsMotion(slot.event)

\* A motion merges with a motion only; times are never raised.
RingOK ==
  /\ lastEventTime = 0
  /\ lastMotion /\ Ring # <<>> => ~Key(Ring[Len(Ring)])

\* The main thread's copy is that of the oldest slot, unless both are motions.
Copied == pc \in {"y", "cross", "copying", "advance"}
CopyOK ==
  Copied /\ (~IsMotion(xe) \/ Key(Ring[1])) => xe = Ring[1].event

\* The order of times: what is not a key comes no earlier than what is before it.
Handed == pc \in {"copying", "advance", "deliver"}
TimesOK ==
  /\ lastTime <= now /\ xe.time <= now
  /\ \A i \in 1 .. Len(Ring) : Ring[i].event.time <= now
  /\ \A i, j \in 1 .. Len(Ring) :
       i < j /\ Ring[j].event.kind # "key" => Ring[i].event.time <= Ring[j].event.time
  /\ \A j \in 1 .. Len(Ring) :
       Ring[j].event.kind # "key" =>
         /\ lastTime <= Ring[j].event.time
         /\ Handed => xe.time <= Ring[j].event.time
  /\ Handed /\ xe.kind # "key" => lastTime <= xe.time

\* Where the keys and buttons are.
RingKeys == {Ring[i].event.n : i \in {k \in 1 .. Len(Ring) : Key(Ring[k])}}
KeysOK ==
  /\ pressed \subseteq 1 .. produced
  /\ pressed = RingKeys \cup HeldKeys \cup DeliveredKeys \cup swallowed \cup Numbered(tossed)
  /\ RingKeys \cap (HeldKeys \cup DeliveredKeys \cup swallowed \cup Numbered(tossed)) = {}
  /\ HeldKeys \cap (DeliveredKeys \cup swallowed \cup Numbered(tossed)) = {}
  /\ DeliveredKeys \cap (swallowed \cup Numbered(tossed)) = {}
  /\ swallowed \cap Numbered(tossed) = {}
  /\ \A i, j \in 1 .. Len(Ring) :
       Key(Ring[i]) /\ Key(Ring[j]) /\ Ring[i].event.n = Ring[j].event.n => i = j

\* How the pointer goes through the ring, unless one of the four exceptions.
Regular == ~overtaken /\ ~warped /\ ~outrun /\ \A e \in tossed : ~IsMotion(e)
LastPos(p) == \* the newest motion on its way is to p
  /\ \A i \in 1 .. Len(Ring) :
       ~Key(Ring[i]) /\ (\A k \in i + 1 .. Len(Ring) : Key(Ring[k])) => Ring[i].event.n = p
  /\ (\A i \in 1 .. Len(Ring) : Key(Ring[i])) =>
       p = IF pc \in {"newscreen", "deliver"} /\ IsMotion(xe) THEN xe.n ELSE sprite.pos
LastScreen(s) == \* it and the keys behind it are for screen s
  /\ \A i \in 1 .. Len(Ring) :
       (\A k \in i + 1 .. Len(Ring) : Key(Ring[k])) => Ring[i].pScreen = s
  /\ (\A i \in 1 .. Len(Ring) : Key(Ring[i])) => pDequeueScreen = s
ScreensOK ==
  /\ LastScreen(pointer.screen)
  /\ \A j \in 2 .. Len(Ring) : Key(Ring[j]) => Ring[j].pScreen = Ring[j - 1].pScreen
  /\ Ring # <<>> /\ Key(Ring[1]) => Ring[1].pScreen = pDequeueScreen
  /\ pc \notin {"x", "y", "cross", "newscreen"} => sprite.screen = pDequeueScreen
  /\ Removing /\ pc # "switch" => Ring[1].pScreen = pDequeueScreen
  /\ Copied => xe = Ring[1].event
  /\ pc \in {"switch", "x"} => ~Key(Ring[1])
  /\ pc \in {"y", "cross", "newscreen"} => IsMotion(xe)
PointerOK ==
  /\ pEnqueueScreen = pointer.screen
  /\ Regular => ScreensOK /\ LastPos(pointer.pos)

\* Only keys are stamped before they are enqueued.
Stamped == pc = "key" => xe.kind = "key"

OrderInv == QueueInv /\ Stamped /\ RingOK /\ CopyOK /\ TimesOK /\ KeysOK /\ PointerOK

-----------------------------------------------------------------------------
(* What the cursors do to that sequence.                                   *)

\* The cyclic index of the i-th slot from h.
LEMMA CyclicIndex ==
  ASSUME NEW h \in Slots, NEW i \in 1 .. QUEUE_SIZE
  PROVE  /\ (h + i - 1) % QUEUE_SIZE \in Slots
         /\ (h + i - 1) % QUEUE_SIZE = IF h + i - 1 < QUEUE_SIZE THEN h + i - 1
                                       ELSE h + i - 1 - QUEUE_SIZE
<1>1. \A k \in Nat : k < QUEUE_SIZE + QUEUE_SIZE =>
        /\ k % QUEUE_SIZE \in Slots
        /\ k % QUEUE_SIZE = IF k < QUEUE_SIZE THEN k ELSE k - QUEUE_SIZE
  <2> TAKE k \in Nat
  <2>1. QUEUE_SIZE \in Nat /\ QUEUE_SIZE >= 2
    BY QueueSizeAssumption
  <2>2. k < QUEUE_SIZE => k % QUEUE_SIZE = k
    BY <2>1
  <2>3. k >= QUEUE_SIZE /\ k < QUEUE_SIZE + QUEUE_SIZE => k % QUEUE_SIZE = k - QUEUE_SIZE
    BY <2>1
  <2> QED BY <2>1, <2>2, <2>3 DEF Slots
<1>2. h + i - 1 \in Nat /\ h + i - 1 < QUEUE_SIZE + QUEUE_SIZE
  BY QueueSizeAssumption DEF Slots
<1>3. PICK k \in Nat : k = h + i - 1
  BY <1>2
<1>4. k % QUEUE_SIZE \in Slots /\ k % QUEUE_SIZE = IF k < QUEUE_SIZE THEN k ELSE k - QUEUE_SIZE
  BY <1>1, <1>2, <1>3
<1>5. (h + i - 1) % QUEUE_SIZE \in Slots
  BY <1>3, <1>4
<1>6. CASE k < QUEUE_SIZE
  <2>1. k % QUEUE_SIZE = k
    BY <1>4, <1>6
  <2> QED BY <1>3, <1>5, <1>6, <2>1
<1>7. CASE ~(k < QUEUE_SIZE)
  <2>1. k % QUEUE_SIZE = k - QUEUE_SIZE
    BY <1>4, <1>7
  <2>2. k - QUEUE_SIZE = h + i - 1 - QUEUE_SIZE
    BY <1>3, QueueSizeAssumption DEF Slots
  <2> QED BY <1>3, <1>5, <1>7, <2>1, <2>2, Zenon
<1> QED BY <1>6, <1>7

\* A sequence is a function.
LEMMA SeqIsFunction ==
  ASSUME NEW S, NEW s \in Seq(S)
  PROVE  s = [i \in 1 .. Len(s) |-> s[i]]
<1>1. s \in [1 .. Len(s) -> S]
  BY LenProperties
<1> QED BY <1>1, Zenon

\* The occupied slots are a sequence, empty if the cursors meet.
LEMMA RingType ==
  ASSUME head \in Slots, tail \in Slots, events \in [Slots -> Slot]
  PROVE  /\ Ring \in Seq(Slot) /\ Len(Ring) = Size
         /\ Size \in 0 .. QUEUE_SIZE - 1
         /\ \A i \in 1 .. Size : Ring[i] = events[SlotAt(i)]
         /\ Ring = <<>> <=> head = tail
         /\ head # tail => Size >= 1
<1>1. Size \in 0 .. QUEUE_SIZE - 1 /\ (Size = 0 <=> head = tail)
  BY QueueSizeAssumption DEF Slots, Size
<1>2. \A i \in 1 .. Size : events[SlotAt(i)] \in Slot
  BY <1>1, CyclicIndex, QueueSizeAssumption DEF SlotAt
<1>3. Ring \in Seq(Slot) /\ Len(Ring) = Size
  BY <1>1, <1>2, Z3 DEF Ring
<1>4. \A i \in 1 .. Size : Ring[i] = events[SlotAt(i)]
  BY DEF Ring
<1>5. Ring = <<>> <=> Size = 0
  BY <1>1, <1>3, EmptySeq
<1> QED BY <1>1, <1>3, <1>4, <1>5

\* An event is put into the slot at tail.
LEMMA RingAppends ==
  ASSUME head \in Slots, tail \in Slots, events \in [Slots -> Slot],
         NEW x \in Slot, Succ(tail) # head,
         head' = head, tail' = Succ(tail), events' = [events EXCEPT ![tail] = x]
  PROVE  Ring' = Append(Ring, x)
<1>1. /\ Ring \in Seq(Slot) /\ Len(Ring) = Size
      /\ \A i \in 1 .. Size : Ring[i] = events[SlotAt(i)]
  BY RingType
<1>2. /\ Size \in Nat /\ Size' = Size + 1
      /\ Size + 1 <= QUEUE_SIZE /\ QUEUE_SIZE \in Nat
  BY QueueSizeAssumption DEF Slots, Size, Succ
<1>3. ASSUME NEW i \in 1 .. Size + 1
      PROVE  events'[SlotAt(i)'] = Append(Ring, x)[i]
  <2>1. SlotAt(i)' = SlotAt(i)
    BY DEF SlotAt
  <2>2. SlotAt(i) \in Slots /\ (SlotAt(i) = tail <=> i = Size + 1)
    BY <1>2, CyclicIndex, QueueSizeAssumption DEF SlotAt, Slots, Size
  <2>3. CASE i = Size + 1
    BY <1>1, <2>1, <2>2, <2>3
  <2>4. CASE i # Size + 1
    <3>1. i \in 1 .. Size
      BY <1>2, <2>4
    <3> QED BY <1>1, <2>1, <2>2, <2>4, <3>1
  <2> QED BY <2>3, <2>4
<1>4. Ring' = [i \in 1 .. Size + 1 |-> events'[SlotAt(i)']]
  BY <1>2 DEF Ring
<1>5. Append(Ring, x) = [i \in 1 .. Size + 1 |-> Append(Ring, x)[i]]
  <2> DEFINE r == Ring
  <2>1. r \in Seq(Slot) /\ Len(r) = Size
    BY <1>1
  <2> HIDE DEF r
  <2>2. Append(r, x) \in Seq(Slot) /\ Len(Append(r, x)) = Size + 1
    BY <2>1, AppendProperties
  <2> QED BY <2>2, SeqIsFunction DEF r
<1> QED BY <1>3, <1>4, <1>5

\* An event takes the place of the newest one.
LEMMA RingReplaces ==
  ASSUME head \in Slots, tail \in Slots, events \in [Slots -> Slot],
         NEW x \in Slot, head # tail,
         head' = head, tail' = tail, events' = [events EXCEPT ![Pred(tail)] = x]
  PROVE  Ring' = [Ring EXCEPT ![Len(Ring)] = x]
<1>1. /\ Ring \in Seq(Slot) /\ Len(Ring) = Size
      /\ \A i \in 1 .. Size : Ring[i] = events[SlotAt(i)]
  BY RingType
<1>2. /\ Size \in Nat /\ Size' = Size /\ Size >= 1
      /\ Size <= QUEUE_SIZE /\ QUEUE_SIZE \in Nat
  BY QueueSizeAssumption DEF Slots, Size
<1>3. ASSUME NEW i \in 1 .. Size
      PROVE  events'[SlotAt(i)'] = IF i = Size THEN x ELSE Ring[i]
  <2>1. SlotAt(i)' = SlotAt(i)
    BY DEF SlotAt
  <2>2. SlotAt(i) \in Slots /\ (SlotAt(i) = Pred(tail) <=> i = Size)
    BY <1>2, CyclicIndex, QueueSizeAssumption DEF SlotAt, Slots, Size, Pred
  <2> QED BY <1>1, <2>1, <2>2
<1>4. Ring' = [i \in 1 .. Size |-> events'[SlotAt(i)']]
  BY <1>2 DEF Ring
<1>5. DOMAIN Ring = 1 .. Size
  BY <1>1, <1>2
<1>6. [Ring EXCEPT ![Len(Ring)] = x] = [i \in 1 .. Size |-> IF i = Size THEN x ELSE Ring[i]]
  BY <1>1, <1>2, <1>5
<1> QED BY <1>3, <1>4, <1>6

\* The oldest event is removed.
LEMMA RingAdvances ==
  ASSUME head \in Slots, tail \in Slots, events \in [Slots -> Slot],
         head # tail, head' = Succ(head), tail' = tail, events' = events
  PROVE  Ring' = Tail(Ring)
<1>1. /\ Ring \in Seq(Slot) /\ Len(Ring) = Size
      /\ \A i \in 1 .. Size : Ring[i] = events[SlotAt(i)]
  BY RingType
<1>2. /\ Size \in Nat /\ Size' = Size - 1 /\ Size >= 1
      /\ Size <= QUEUE_SIZE /\ QUEUE_SIZE \in Nat
  BY QueueSizeAssumption DEF Slots, Size, Succ
<1>3. head' \in Slots
  BY CursorsInRing
<1>4. ASSUME NEW i \in 1 .. Size - 1
      PROVE  events'[SlotAt(i)'] = Ring[i + 1]
  <2>1. i \in 1 .. QUEUE_SIZE /\ i + 1 \in 1 .. QUEUE_SIZE /\ i + 1 \in 1 .. Size
    BY <1>2
  <2>2. SlotAt(i + 1) = IF head + i < QUEUE_SIZE THEN head + i ELSE head + i - QUEUE_SIZE
    <3>1. SlotAt(i + 1) = IF head + (i + 1) - 1 < QUEUE_SIZE THEN head + (i + 1) - 1
                          ELSE head + (i + 1) - 1 - QUEUE_SIZE
      BY <2>1, CyclicIndex DEF SlotAt
    <3> QED BY <3>1, <1>2 DEF Slots
  <2>3. SlotAt(i)' = IF head' + i - 1 < QUEUE_SIZE THEN head' + i - 1
                     ELSE head' + i - 1 - QUEUE_SIZE
    BY <1>3, <2>1, CyclicIndex DEF SlotAt
  <2>4. SlotAt(i)' = SlotAt(i + 1)
    BY <1>2, <1>3, <2>1, <2>2, <2>3, QueueSizeAssumption DEF Slots, Succ
  <2> QED BY <1>1, <2>1, <2>4
<1>5. Ring' = [i \in 1 .. Size - 1 |-> events'[SlotAt(i)']]
  BY <1>2 DEF Ring
<1>6. Tail(Ring) = [i \in 1 .. Size - 1 |-> Ring[i + 1]]
  <2> DEFINE r == Ring
  <2>1. r \in Seq(Slot) /\ Len(r) = Size
    BY <1>1
  <2> HIDE DEF r
  <2>2. /\ Tail(r) \in Seq(Slot) /\ Len(Tail(r)) = Size - 1
        /\ \A i \in 1 .. Size - 1 : Tail(r)[i] = r[i + 1]
    BY <1>2, <2>1, HeadTailProperties
  <2>3. Tail(r) = [i \in 1 .. Size - 1 |-> Tail(r)[i]]
    BY <2>2, SeqIsFunction
  <2> QED BY <2>2, <2>3 DEF r
<1> QED BY <1>4, <1>5, <1>6

\* What xf86eqEnqueue has done with an event and its screen, slot x.
Merged(x) ==
  /\ ~Key(x) /\ Ring # <<>> /\ ~Key(Ring[Len(Ring)])
  /\ Ring' = [Ring EXCEPT ![Len(Ring)] = x]
  /\ tossed' = tossed
  /\ overtaken' = (overtaken \/ (Removing /\ Len(Ring) = 1))
Appended(x) ==
  /\ Len(Ring) < QUEUE_SIZE - 1
  /\ Ring' = Append(Ring, x)
  /\ UNCHANGED lossVars
Dropped(x) ==
  /\ Len(Ring) = QUEUE_SIZE - 1
  /\ Ring' = Ring
  /\ tossed' = tossed \cup {x.event} /\ overtaken' = overtaken
Enqueued(x) == Merged(x) \/ Appended(x) \/ Dropped(x)

\* The fix-up of times does nothing, because lastEventTime is never set.
LEMMA TimesAreKept ==
  ASSUME lastEventTime = 0, NEW e \in Event
  PROVE  FixTime(e) = e
<1>1. e.time \in Nat
  BY BoundAssumption DEF Event
<1> QED BY <1>1 DEF FixTime

\* These are its three outcomes.
LEMMA EnqueueRing ==
  ASSUME TypeOK, RingOK, NEW e \in Event, NEW s \in Screens, xf86eqEnqueue(e, s)
  PROVE  /\ Enqueued([event |-> e, pScreen |-> s])
         /\ arrived' = e /\ RingOK'
<1> DEFINE x == [event |-> e, pScreen |-> s]
<1>1. x \in Slot /\ x.event = e
  BY DEF Slot
<1>2. head \in Slots /\ tail \in Slots /\ events \in [Slots -> Slot]
  BY DEF TypeOK, Slot
<1>3. FixTime(e) = e
  BY TimesAreKept DEF RingOK
<1>4. arrived' = e /\ head' = head /\ lastEventTime' = lastEventTime
  BY DEF xf86eqEnqueue
<1>5. Ring \in Seq(Slot) /\ Len(Ring) = Size /\ (Ring = <<>> <=> head = tail)
  BY <1>2, RingType
<1>6. /\ head # tail => (Pred(tail) = head <=> Size = 1)
      /\ Succ(tail) = head => Size = QUEUE_SIZE - 1
      /\ Succ(tail) # head => Size < QUEUE_SIZE - 1
      /\ Size \in Nat /\ (head # tail => Size >= 1)
  BY <1>2, QueueSizeAssumption DEF Slots, Size, Succ, Pred
<1> HIDE DEF x
<1>7. CASE MergeMotion(e, s)
  <2>1. head # tail /\ IsMotion(e) /\ lastMotion
    BY <1>7 DEF MergeMotion, Merges
  <2>2. /\ tail' = tail /\ tossed' = tossed /\ lastMotion' = lastMotion
        /\ events' = [events EXCEPT ![Pred(tail)] = x]
        /\ overtaken' = (overtaken \/ (Removing /\ Pred(tail) = head))
    BY <1>3, <1>7 DEF MergeMotion, x
  <2>3. Ring' = [Ring EXCEPT ![Len(Ring)] = x]
    BY <1>1, <1>2, <1>4, <2>1, <2>2, RingReplaces
  <2>4. ~Key(Ring[Len(Ring)]) /\ Ring # <<>> /\ ~Key(x)
    BY <1>1, <1>5, <2>1 DEF RingOK, Key
  <2>5. overtaken' = (overtaken \/ (Removing /\ Len(Ring) = 1))
    <3>1. Pred(tail) = head <=> Len(Ring) = 1
      BY <1>5, <1>6, <2>1
    <3> QED BY <2>2, <3>1, Zenon
  <2>6. Merged(x)
    BY <2>2, <2>3, <2>4, <2>5 DEF Merged
  <2>7. Len(Ring') = Len(Ring) /\ Ring'[Len(Ring')] = x
    <3> HIDE DEF Ring
    <3> QED BY <1>1, <1>5, <1>6, <2>1, <2>3
  <2> QED BY <1>4, <2>4, <2>6, <2>7 DEF Enqueued, RingOK, x
<1>8. CASE AppendEvent(e, s)
  <2>1. Succ(tail) # head
    BY <1>8 DEF AppendEvent
  <2>2. /\ tail' = Succ(tail) /\ lastMotion' = IsMotion(e) /\ UNCHANGED lossVars
        /\ events' = [events EXCEPT ![tail] = x]
    BY <1>3, <1>8 DEF AppendEvent, x
  <2>3. Ring' = Append(Ring, x)
    BY <1>1, <1>2, <1>4, <2>1, <2>2, RingAppends
  <2>4. Appended(x)
    BY <1>5, <1>6, <2>1, <2>2, <2>3 DEF Appended
  <2>5. Ring'[Len(Ring')] = x
    <3> HIDE DEF Ring
    <3> QED BY <1>1, <1>5, <2>3, AppendProperties
  <2>6. lastMotion' => ~Key(x)
    BY <1>1, <2>2 DEF Key
  <2> QED BY <1>4, <2>4, <2>5, <2>6 DEF Enqueued, RingOK, x
<1>9. CASE TossEvent(e)
  <2>1. Succ(tail) = head
    BY <1>9 DEF TossEvent
  <2>2. /\ tail' = tail /\ lastMotion' = lastMotion /\ events' = events
        /\ overtaken' = overtaken /\ tossed' = tossed \cup {e}
    BY <1>9 DEF TossEvent
  <2>3. Ring' = Ring
    BY <1>4, <2>2 DEF Ring, Size, SlotAt
  <2>4. Dropped(x)
    BY <1>1, <1>5, <1>6, <2>1, <2>2, <2>3 DEF Dropped
  <2> QED BY <1>4, <2>2, <2>3, <2>4 DEF Enqueued, RingOK, x
<1> QED BY <1>7, <1>8, <1>9 DEF xf86eqEnqueue

\* Slot by slot: the old slots are where they were, but for one that is replaced.
LEMMA EnqueuedSlots ==
  ASSUME Ring \in Seq(Slot), NEW x \in Slot, Merged(x) \/ Appended(x)
  PROVE  /\ Ring' \in Seq(Slot) /\ Ring' # <<>>
         /\ Len(Ring') = IF Merged(x) THEN Len(Ring) ELSE Len(Ring) + 1
         /\ Ring'[Len(Ring')] = x
         /\ \A i \in 1 .. Len(Ring') : i # Len(Ring') => i \in 1 .. Len(Ring) /\ Ring'[i] = Ring[i]
<1> HIDE DEF Ring
<1>0. Len(Ring) \in Nat
  BY LenProperties
<1>1. CASE Merged(x)
  <2>1. Ring' = [Ring EXCEPT ![Len(Ring)] = x] /\ Ring # <<>>
    BY <1>1 DEF Merged
  <2>2. Len(Ring) \in 1 .. Len(Ring)
    BY <1>0, <2>1, EmptySeq
  <2>3. Ring' \in Seq(Slot) /\ Len(Ring') = Len(Ring)
    BY <2>1, <2>2, ExceptSeq
  <2>4. /\ Ring'[Len(Ring)] = x
        /\ \A i \in 1 .. Len(Ring) : i # Len(Ring) => Ring'[i] = Ring[i]
    BY <2>1, <2>2, ExceptSeq
  <2>5. Ring' # <<>>
    BY <2>2, <2>3, EmptySeq
  <2> QED BY <1>0, <1>1, <2>3, <2>4, <2>5
<1>2. CASE Appended(x) /\ ~Merged(x)
  <2>1. Ring' = Append(Ring, x)
    BY <1>2 DEF Appended
  <2>2. /\ Ring' \in Seq(Slot) /\ Ring' # <<>> /\ Len(Ring') = Len(Ring) + 1
        /\ Ring'[Len(Ring) + 1] = x /\ \A i \in 1 .. Len(Ring) : Ring'[i] = Ring[i]
    BY <2>1, AppendProperties
  <2> QED BY <1>0, <1>2, <2>2
<1> QED BY <1>1, <1>2

-----------------------------------------------------------------------------
(* What an enqueue leaves of the invariant.                                *)

\* The clock is read right before an enqueue, but for keys.
LEMMA EnqueueTimes ==
  ASSUME TypeOK, TimesOK, NEW x \in Slot, Enqueued(x),
         x.event.time <= now, x.event.kind # "key" => x.event.time = now,
         now' = now, lastTime' = lastTime, xe' = xe,
         Handed' => Handed
  PROVE  TimesOK'
<1>1. Ring \in Seq(Slot)
  BY RingType DEF TypeOK, Slot
<1>2. CASE Dropped(x)
  BY <1>2 DEF Dropped, TimesOK
<1>3. CASE Merged(x) \/ Appended(x)
  <2>1. /\ Ring' \in Seq(Slot) /\ Ring'[Len(Ring')] = x
        /\ \A i \in 1 .. Len(Ring') : i # Len(Ring') => i \in 1 .. Len(Ring) /\ Ring'[i] = Ring[i]
    BY <1>1, <1>3, EnqueuedSlots
  <2> HIDE DEF Ring
  <2>2. Len(Ring') \in Nat /\ now \in Nat /\ xe.time \in Nat /\ lastTime \in Nat
    BY <2>1, LenProperties DEF TypeOK, Event
  <2>3. /\ lastTime <= now /\ xe.time <= now
        /\ Handed /\ xe.kind # "key" => lastTime <= xe.time
    BY DEF TimesOK
  <2>4. \A i \in 1 .. Len(Ring') : Ring'[i].event.time <= now
    BY <2>1 DEF TimesOK
  <2>5. ASSUME NEW i \in 1 .. Len(Ring'), NEW j \in 1 .. Len(Ring'),
               i < j, Ring'[j].event.kind # "key"
        PROVE  Ring'[i].event.time <= Ring'[j].event.time
    <3>1. i # Len(Ring')
      BY <2>2, <2>5
    <3>2. CASE j = Len(Ring')
      BY <2>1, <2>4, <2>5, <3>2
    <3>3. CASE j # Len(Ring')
      BY <2>1, <2>5, <3>1, <3>3 DEF TimesOK
    <3> QED BY <3>2, <3>3
  <2>6. ASSUME NEW j \in 1 .. Len(Ring'), Ring'[j].event.kind # "key"
        PROVE  /\ lastTime <= Ring'[j].event.time
               /\ Handed => xe.time <= Ring'[j].event.time
    <3>1. CASE j = Len(Ring')
      BY <2>1, <2>3, <2>6, <3>1
    <3>2. CASE j # Len(Ring')
      BY <2>1, <2>6, <3>2 DEF TimesOK
    <3> QED BY <3>1, <3>2
  <2> QED BY <2>3, <2>4, <2>5, <2>6 DEF TimesOK
<1> QED BY <1>2, <1>3 DEF Enqueued

\* A key is appended or tossed, a motion changes nothing for the others.
LEMMA EnqueueRingKeys ==
  ASSUME Ring \in Seq(Slot), NEW x \in Slot, Enqueued(x)
  PROVE  /\ Key(x) => \/ /\ RingKeys' = RingKeys \cup {x.event.n}
                         /\ Numbered(tossed') = Numbered(tossed)
                      \/ /\ RingKeys' = RingKeys
                         /\ Numbered(tossed') = Numbered(tossed) \cup {x.event.n}
         /\ ~Key(x) => RingKeys' = RingKeys /\ Numbered(tossed') = Numbered(tossed)
<1>1. CASE Dropped(x)
  <2>1. RingKeys' = RingKeys
    BY <1>1 DEF Dropped, RingKeys
  <2>2. tossed' = tossed \cup {x.event}
    BY <1>1 DEF Dropped
  <2>3. Key(x) => Numbered(tossed') = Numbered(tossed) \cup {x.event.n}
    BY <2>2 DEF Numbered, Key
  <2>4. ~Key(x) => Numbered(tossed') = Numbered(tossed)
    BY <2>2 DEF Numbered, Key
  <2> QED BY <2>1, <2>3, <2>4
<1>2. CASE Merged(x) \/ Appended(x)
  <2>1. /\ Ring' \in Seq(Slot) /\ Ring'[Len(Ring')] = x
        /\ Len(Ring') = IF Merged(x) THEN Len(Ring) ELSE Len(Ring) + 1
        /\ \A i \in 1 .. Len(Ring') : i # Len(Ring') => i \in 1 .. Len(Ring) /\ Ring'[i] = Ring[i]
        /\ Ring' # <<>>
    BY <1>2, EnqueuedSlots
  <2>2. Numbered(tossed') = Numbered(tossed)
    BY <1>2 DEF Merged, Appended, lossVars
  <2> HIDE DEF Ring
  <2>3. Len(Ring') \in 1 .. Len(Ring') /\ Len(Ring) \in Nat
    BY <2>1, EmptySeq, LenProperties
  <2>4. RingKeys' \subseteq RingKeys \cup (IF Key(x) THEN {x.event.n} ELSE {})
    <3> SUFFICES ASSUME NEW i \in 1 .. Len(Ring'), Key(Ring'[i])
                 PROVE  Ring'[i].event.n \in RingKeys \cup (IF Key(x) THEN {x.event.n} ELSE {})
      BY DEF RingKeys, Key
    <3>1. CASE i = Len(Ring')
      BY <2>1, <3>1
    <3>2. CASE i # Len(Ring')
      <4>1. i \in 1 .. Len(Ring) /\ Ring'[i] = Ring[i]
        BY <2>1, <3>2
      <4> QED BY <4>1 DEF RingKeys
    <3> QED BY <3>1, <3>2
  <2>5. RingKeys \subseteq RingKeys'
    <3> SUFFICES ASSUME NEW i \in 1 .. Len(Ring), Key(Ring[i])
                 PROVE  Ring[i].event.n \in RingKeys'
      BY DEF RingKeys
    <3>1. i \in 1 .. Len(Ring') /\ i # Len(Ring')
      <4>1. CASE Merged(x)
        BY <2>1, <2>3, <4>1 DEF Merged
      <4>2. CASE ~Merged(x)
        BY <2>1, <2>3, <4>2
      <4> QED BY <4>1, <4>2
    <3>2. Ring'[i] = Ring[i]
      BY <2>1, <3>1
    <3> QED BY <3>1, <3>2 DEF RingKeys, Key
  <2>6. Key(x) => x.event.n \in RingKeys'
    BY <2>1, <2>3 DEF RingKeys, Key
  <2>7. Key(x) => RingKeys' = RingKeys \cup {x.event.n}
    BY <2>4, <2>5, <2>6
  <2>8. ~Key(x) => RingKeys' = RingKeys
    BY <2>4, <2>5
  <2> QED BY <2>2, <2>7, <2>8
<1> QED BY <1>1, <1>2 DEF Enqueued

\* A key that is enqueued has a new number.
LEMMA EnqueueKeys ==
  ASSUME TypeOK, KeysOK, NEW x \in Slot, Enqueued(x),
         produced' \in Nat, produced' >= produced,
         Key(x) => x.event.n = produced' /\ produced' = produced + 1,
         pressed' = IF Key(x) THEN pressed \cup {x.event.n} ELSE pressed,
         HeldKeys' \cup swallowed' = HeldKeys \cup swallowed,
         HeldKeys' \cap swallowed' = {},
         DeliveredKeys' = DeliveredKeys
  PROVE  KeysOK'
<1>1. Ring \in Seq(Slot)
  BY RingType DEF TypeOK, Slot
<1>2. produced \in Nat
  BY DEF TypeOK
<1>3. pressed' \subseteq 1 .. produced' /\ (Key(x) => x.event.n \notin pressed)
  BY <1>2 DEF KeysOK
<1>4. /\ Key(x) => \/ /\ RingKeys' = RingKeys \cup {x.event.n}
                      /\ Numbered(tossed') = Numbered(tossed)
                   \/ /\ RingKeys' = RingKeys
                      /\ Numbered(tossed') = Numbered(tossed) \cup {x.event.n}
      /\ ~Key(x) => RingKeys' = RingKeys /\ Numbered(tossed') = Numbered(tossed)
  BY <1>1, EnqueueRingKeys
<1>5. \A i, j \in 1 .. Len(Ring') :
        Key(Ring'[i]) /\ Key(Ring'[j]) /\ Ring'[i].event.n = Ring'[j].event.n => i = j
  <2>1. CASE Dropped(x)
    BY <2>1 DEF Dropped, KeysOK
  <2>2. CASE Merged(x) \/ Appended(x)
    <3>1. /\ Ring'[Len(Ring')] = x
          /\ \A i \in 1 .. Len(Ring') : i # Len(Ring') => i \in 1 .. Len(Ring) /\ Ring'[i] = Ring[i]
      BY <1>1, <2>2, EnqueuedSlots
    <3> HIDE DEF Ring
    <3>2. Key(x) => x.event.n \notin RingKeys
      BY <1>3 DEF KeysOK
    <3>3. ASSUME NEW i \in 1 .. Len(Ring'), i # Len(Ring'), Key(Ring'[i])
          PROVE  i \in 1 .. Len(Ring) /\ Ring'[i] = Ring[i] /\ Ring'[i].event.n \in RingKeys
      <4>1. i \in 1 .. Len(Ring) /\ Ring'[i] = Ring[i]
        BY <3>1, <3>3
      <4> QED BY <3>3, <4>1 DEF RingKeys
    <3> SUFFICES ASSUME NEW i \in 1 .. Len(Ring'), NEW j \in 1 .. Len(Ring'),
                        Key(Ring'[i]), Key(Ring'[j]), Ring'[i].event.n = Ring'[j].event.n
                 PROVE  i = j
      OBVIOUS
    <3>4. CASE i = Len(Ring') \/ j = Len(Ring')
      BY <3>1, <3>2, <3>3, <3>4
    <3>5. CASE i # Len(Ring') /\ j # Len(Ring')
      BY <3>3, <3>5 DEF KeysOK
    <3> QED BY <3>4, <3>5
  <2> QED BY <2>1, <2>2 DEF Enqueued
<1>6. /\ pressed = RingKeys \cup HeldKeys \cup DeliveredKeys \cup swallowed \cup Numbered(tossed)
      /\ RingKeys \cap (HeldKeys \cup DeliveredKeys \cup swallowed \cup Numbered(tossed)) = {}
      /\ HeldKeys \cap (DeliveredKeys \cup swallowed \cup Numbered(tossed)) = {}
      /\ DeliveredKeys \cap (swallowed \cup Numbered(tossed)) = {}
      /\ swallowed \cap Numbered(tossed) = {}
  BY DEF KeysOK
<1>7. pressed' = RingKeys' \cup HeldKeys' \cup DeliveredKeys' \cup swallowed' \cup Numbered(tossed')
  <2>1. CASE Key(x)
    BY <1>4, <1>6, <2>1
  <2>2. CASE ~Key(x)
    BY <1>4, <1>6, <2>2
  <2> QED BY <2>1, <2>2
<1>8. /\ RingKeys' \cap (HeldKeys' \cup DeliveredKeys' \cup swallowed' \cup Numbered(tossed')) = {}
      /\ HeldKeys' \cap (DeliveredKeys' \cup swallowed' \cup Numbered(tossed')) = {}
      /\ DeliveredKeys' \cap (swallowed' \cup Numbered(tossed')) = {}
      /\ swallowed' \cap Numbered(tossed') = {}
  <2>1. CASE Key(x)
    <3>1. /\ x.event.n \notin HeldKeys' \cup DeliveredKeys' \cup swallowed' \cup Numbered(tossed)
          /\ x.event.n \notin RingKeys
      BY <1>3, <1>6, <2>1
    <3>2. CASE RingKeys' = RingKeys \cup {x.event.n} /\ Numbered(tossed') = Numbered(tossed)
      BY <1>6, <3>1, <3>2
    <3>3. CASE RingKeys' = RingKeys /\ Numbered(tossed') = Numbered(tossed) \cup {x.event.n}
      BY <1>6, <3>1, <3>3
    <3> QED BY <1>4, <2>1, <3>2, <3>3
  <2>2. CASE ~Key(x)
    BY <1>4, <1>6, <2>2
  <2> QED BY <2>1, <2>2
<1> QED BY <1>3, <1>5, <1>7, <1>8 DEF KeysOK

\* The copy stays that of the oldest slot.
LEMMA EnqueueCopy ==
  ASSUME TypeOK, CopyOK, HeadSlotIsLive, NEW x \in Slot, Enqueued(x), xe' = xe,
         Copied' => Copied
  PROVE  CopyOK'
<1>1. Ring \in Seq(Slot) /\ (Copied => Ring # <<>>)
  BY RingType DEF TypeOK, Slot, HeadSlotIsLive, Removing, Copied
<1>2. CASE Dropped(x)
  BY <1>2 DEF Dropped, CopyOK
<1>3. CASE Merged(x) \/ Appended(x)
  <2>1. /\ Ring'[Len(Ring')] = x
        /\ Len(Ring') = IF Merged(x) THEN Len(Ring) ELSE Len(Ring) + 1
        /\ \A i \in 1 .. Len(Ring') : i # Len(Ring') => i \in 1 .. Len(Ring) /\ Ring'[i] = Ring[i]
    BY <1>1, <1>3, EnqueuedSlots
  <2> HIDE DEF Ring
  <2> SUFFICES ASSUME Copied', ~IsMotion(xe) \/ Key(Ring'[1])
               PROVE  xe = Ring'[1].event
    BY DEF CopyOK, IsMotion, Key
  <2>2. Copied /\ Ring # <<>> /\ Len(Ring) \in Nat /\ Len(Ring) >= 1
    BY <1>1, EmptySeq, LenProperties
  <2>3. CASE Merged(x) /\ Len(Ring) = 1
    BY <2>1, <2>2, <2>3 DEF Merged, CopyOK, Key
  <2>4. CASE ~(Merged(x) /\ Len(Ring) = 1)
    <3>1. Ring'[1] = Ring[1]
      <4>1. 1 \in 1 .. Len(Ring') /\ 1 # Len(Ring')
        <5>1. CASE Merged(x)
          BY <2>1, <2>2, <2>4, <5>1
        <5>2. CASE ~Merged(x)
          BY <2>1, <2>2, <5>2
        <5> QED BY <5>1, <5>2
      <4> QED BY <2>1, <4>1
    <3> QED BY <2>2, <3>1 DEF CopyOK
  <2> QED BY <2>3, <2>4
<1> QED BY <1>2, <1>3 DEF Enqueued

\* The pointer goes where the newest motion goes.  A warp by the main thread
\* between two screens would leave an irregular state.
LEMMA EnqueueScreens ==
  ASSUME TypeOK, HeadSlotIsLive, ScreensOK, LastPos(pointer.pos),
         NEW x \in Slot, Enqueued(x), overtaken' = FALSE, \A e \in tossed' : ~IsMotion(e),
         IF Key(x) THEN pointer' = pointer /\ x.pScreen = pointer.screen
         ELSE pointer' = [screen |-> x.pScreen, pos |-> x.event.n],
         pDequeueScreen' = pDequeueScreen, xe' = xe,
         \/ pc' = pc /\ sprite' = sprite
         \/ pc = "key" /\ pc' = "idle" /\ sprite' = sprite
         \/ pc = "newscreen" /\ pc' = "loop" /\ ~Key(x) /\ sprite'.screen = pDequeueScreen
  PROVE  ScreensOK' /\ LastPos(pointer.pos)'
<1>1. Ring \in Seq(Slot) /\ (Removing => Ring # <<>>)
  BY RingType DEF TypeOK, Slot, HeadSlotIsLive
<1>0. (Removing' => Removing /\ pc' = pc) /\ (Copied' => Copied) /\ (Copied => Removing)
  BY DEF Removing, Copied
<1> HIDE DEF Ring
<1>2. Len(Ring) \in Nat /\ (Ring # <<>> => Len(Ring) >= 1)
  BY <1>1, LenProperties, EmptySeq
<1>3. CASE Dropped(x)
  <2>1. Key(x) /\ Ring' = Ring
    BY <1>3 DEF Dropped, Key
  <2>2. sprite' = sprite /\ pointer' = pointer /\ (pc' = pc \/ (pc = "key" /\ pc' = "idle"))
    BY <2>1
  <2>3. ScreensOK'
    BY <1>0, <2>1, <2>2 DEF ScreensOK, LastScreen, Key, IsMotion
  <2>4. LastPos(pointer.pos)'
    BY <2>1, <2>2 DEF LastPos, Key, IsMotion
  <2> QED BY <2>3, <2>4
<1>4. CASE Merged(x) \/ Appended(x)
  <2>1. /\ Ring' \in Seq(Slot) /\ Ring' # <<>> /\ Ring'[Len(Ring')] = x
        /\ Len(Ring') = IF Merged(x) THEN Len(Ring) ELSE Len(Ring) + 1
        /\ \A i \in 1 .. Len(Ring') : i # Len(Ring') => i \in 1 .. Len(Ring) /\ Ring'[i] = Ring[i]
    BY <1>1, <1>4, EnqueuedSlots
  <2>2. Len(Ring') \in Nat /\ Len(Ring') >= 1
    BY <2>1, LenProperties, EmptySeq
  <2>3. Merged(x) => ~Key(x) /\ Ring # <<>>
    BY DEF Merged
  <2>4. pointer'.screen = x.pScreen
    BY DEF Key
  <2>5. Key(x) /\ Ring # <<>> => Ring[Len(Ring)].pScreen = x.pScreen
    <3> SUFFICES ASSUME Key(x), Ring # <<>> PROVE Ring[Len(Ring)].pScreen = x.pScreen
      OBVIOUS
    <3>1. Len(Ring) \in 1 .. Len(Ring) /\ \A k \in Len(Ring) + 1 .. Len(Ring) : Key(Ring[k])
      BY <1>2
    <3>2. Ring[Len(Ring)].pScreen = pointer.screen
      BY <3>1 DEF ScreensOK, LastScreen
    <3> QED BY <3>2
  <2>6. ASSUME NEW j \in 2 .. Len(Ring'), Key(Ring'[j])
        PROVE  Ring'[j].pScreen = Ring'[j - 1].pScreen
    <3>1. j - 1 \in 1 .. Len(Ring') /\ j - 1 # Len(Ring') /\ j \in 1 .. Len(Ring')
      BY <2>2
    <3>2. Ring'[j - 1] = Ring[j - 1]
      BY <2>1, <3>1
    <3>3. CASE j = Len(Ring')
      <4>1. Key(x)
        BY <2>1, <2>6, <3>3
      <4>2. ~Merged(x) /\ Len(Ring) = j - 1 /\ Ring # <<>>
        BY <1>2, <2>1, <2>3, <3>1, <3>3, <4>1, EmptySeq
      <4> QED BY <2>1, <2>5, <3>2, <3>3, <4>1, <4>2
    <3>4. CASE j # Len(Ring')
      <4>1. Ring'[j] = Ring[j] /\ j \in 2 .. Len(Ring)
        BY <1>2, <2>1, <2>2, <3>1, <3>4
      <4>2. Key(Ring[j])
        BY <2>6, <4>1 DEF Key
      <4> QED BY <3>2, <4>1, <4>2 DEF ScreensOK
    <3> QED BY <3>3, <3>4
  <2>7. Removing => Ring'[1] = Ring[1]
    <3> SUFFICES ASSUME Removing PROVE Ring'[1] = Ring[1]
      OBVIOUS
    <3>1. Ring # <<>> /\ Removing
      BY <1>1
    <3>2. ~(Merged(x) /\ Len(Ring) = 1)
      BY <3>1 DEF Merged
    <3>3. Len(Ring') # 1 /\ 1 \in 1 .. Len(Ring')
      BY <1>2, <2>1, <2>2, <3>1, <3>2
    <3> QED BY <2>1, <3>3
  <2>8. Key(Ring'[1]) => Ring'[1].pScreen = pDequeueScreen
    <3>1. CASE Len(Ring') = 1 /\ Key(x)
      <4>1. Ring = <<>> /\ \A i \in 1 .. Len(Ring) : Key(Ring[i])
        BY <1>1, <1>2, <2>1, <2>3, <3>1, EmptySeq
      <4> QED BY <2>1, <3>1, <4>1 DEF ScreensOK, LastScreen
    <3>2. CASE Len(Ring') = 1 /\ ~Key(x)
      BY <2>1, <3>2
    <3>3. CASE Len(Ring') # 1
      <4>0. Len(Ring') # 1 /\ 1 \in 1 .. Len(Ring')
        BY <2>2, <3>3
      <4>1. Ring'[1] = Ring[1] /\ 1 \in 1 .. Len(Ring)
        BY <2>1, <4>0
      <4>2. Ring # <<>>
        BY <1>2, <4>1, EmptySeq
      <4> QED BY <4>1, <4>2 DEF ScreensOK
    <3> QED BY <3>1, <3>2, <3>3
  <2>9. ScreensOK'
    <3>1. pc' \notin {"x", "y", "cross", "newscreen"} => sprite'.screen = pDequeueScreen'
      BY DEF ScreensOK
    <3>2. Removing' /\ pc' # "switch" => Ring'[1].pScreen = pDequeueScreen'
      BY <1>0, <2>7 DEF ScreensOK
    <3>3. Copied' => xe' = Ring'[1].event
      BY <1>0, <2>7 DEF ScreensOK
    <3>4. pc' \in {"switch", "x"} => ~Key(Ring'[1])
      BY <2>7 DEF ScreensOK, Removing
    <3>5. pc' \in {"y", "cross", "newscreen"} => IsMotion(xe')
      BY DEF ScreensOK
    <3>6. LastScreen(pointer.screen)'
      <4>1. Ring'[Len(Ring')].pScreen = pointer'.screen
        BY <2>1, <2>4
      <4>2. ASSUME NEW i \in 1 .. Len(Ring'), i # Len(Ring'),
                   \A k \in i + 1 .. Len(Ring') : Key(Ring'[k])
            PROVE  Ring'[i].pScreen = pointer'.screen
        <5>1. Len(Ring') \in i + 1 .. Len(Ring')
          BY <2>2, <4>2
        <5>2. Key(x)
          BY <2>1, <4>2, <5>1
        <5>3. Len(Ring') = Len(Ring) + 1 /\ pointer' = pointer
          BY <2>1, <2>3, <5>2
        <5>4. ASSUME NEW k \in i + 1 .. Len(Ring) PROVE Key(Ring[k])
          <6>1. k \in i + 1 .. Len(Ring') /\ k \in 1 .. Len(Ring') /\ k # Len(Ring')
            BY <1>2, <5>3
          <6>2. Key(Ring'[k]) /\ Ring'[k] = Ring[k]
            BY <2>1, <4>2, <6>1
          <6> QED BY <6>2
        <5>5. i \in 1 .. Len(Ring) /\ Ring'[i] = Ring[i]
          BY <2>1, <4>2
        <5>6. Ring[i].pScreen = pointer.screen
          BY <5>4, <5>5 DEF ScreensOK, LastScreen
        <5> QED BY <5>3, <5>5, <5>6
      <4>3. ASSUME \A i \in 1 .. Len(Ring') : Key(Ring'[i])
            PROVE  pDequeueScreen' = pointer'.screen
        <5>1. Key(x)
          BY <2>1, <2>2, <4>3
        <5>2. Len(Ring') = Len(Ring) + 1 /\ pointer' = pointer
          BY <2>1, <2>3, <5>1
        <5>3. ASSUME NEW k \in 1 .. Len(Ring) PROVE Key(Ring[k])
          <6>1. k \in 1 .. Len(Ring') /\ k # Len(Ring')
            BY <1>2, <5>2
          <6>2. Key(Ring'[k]) /\ Ring'[k] = Ring[k]
            BY <2>1, <4>3, <6>1
          <6> QED BY <6>2
        <5> QED BY <5>2, <5>3 DEF ScreensOK, LastScreen
      <4> QED BY <4>1, <4>2, <4>3 DEF LastScreen, Key, IsMotion
    <3> QED BY <2>1, <2>4, <2>6, <2>8, <3>1, <3>2, <3>3, <3>4, <3>5, <3>6
            DEF ScreensOK, Key, IsMotion
  <2>10. LastPos(pointer.pos)'
    <3>1. CASE ~Key(x)
      <4>1. pointer'.pos = x.event.n
        BY <3>1
      <4>2. ASSUME NEW i \in 1 .. Len(Ring'), \A k \in i + 1 .. Len(Ring') : Key(Ring'[k])
            PROVE  Ring'[i].event.n = pointer'.pos
        BY <2>1, <2>2, <3>1, <4>1, <4>2
      <4>3. ~\A i \in 1 .. Len(Ring') : Key(Ring'[i])
        BY <2>1, <2>2, <3>1
      <4> QED BY <4>2, <4>3 DEF LastPos, Key, IsMotion
    <3>2. CASE Key(x)
      <4>1. Len(Ring') = Len(Ring) + 1 /\ pointer' = pointer
        BY <2>1, <2>3, <3>2
      <4>2. \A i \in 1 .. Len(Ring) : Ring'[i] = Ring[i]
        BY <1>2, <2>1, <4>1
      <4>3. ASSUME NEW i \in 1 .. Len(Ring'), ~Key(Ring'[i]), \A k \in i + 1 .. Len(Ring') : Key(Ring'[k])
            PROVE  Ring'[i].event.n = pointer.pos
        <5>1. i \in 1 .. Len(Ring)
          BY <1>2, <2>1, <3>2, <4>1, <4>3
        <5>2. \A k \in i + 1 .. Len(Ring) : Key(Ring[k])
          BY <1>2, <4>1, <4>2, <4>3
        <5>3. ~Key(Ring[i])
          BY <4>2, <4>3, <5>1
        <5> QED BY <4>2, <5>1, <5>2, <5>3 DEF LastPos
      <4>4. (\A i \in 1 .. Len(Ring') : Key(Ring'[i])) => \A i \in 1 .. Len(Ring) : Key(Ring[i])
        BY <1>2, <4>1, <4>2
      <4>5. pc' = pc \/ (pc = "key" /\ pc' = "idle")
        BY <3>2
      <4>6. sprite' = sprite
        BY <3>2
      <4> QED BY <4>1, <4>3, <4>4, <4>5, <4>6 DEF LastPos, Key, IsMotion
    <3> QED BY <3>1, <3>2
  <2> QED BY <2>9, <2>10
<1> QED BY <1>3, <1>4 DEF Enqueued

\* Together, for each caller of xf86eqEnqueue.
LEMMA EnqueueStep ==
  ASSUME OrderInv, NEW e \in Event, NEW s \in Screens, xf86eqEnqueue(e, s),
         e.time <= now, e.kind # "key" => e.time = now,
         now' = now, lastTime' = lastTime, xe' = xe, delivered' = delivered,
         \/ pc' = pc
         \/ pc = "key" /\ pc' = "idle"
         \/ pc = "newscreen" /\ pc' = "loop",
         produced' \in Nat, produced' >= produced,
         ~IsMotion(e) => e.n = produced' /\ produced' = produced + 1,
         pressed' = IF IsMotion(e) THEN pressed ELSE pressed \cup {e.n},
         HeldKeys' \cup swallowed' = HeldKeys \cup swallowed, HeldKeys' \cap swallowed' = {}
  PROVE  /\ Enqueued([event |-> e, pScreen |-> s])
         /\ Stamped' /\ RingOK' /\ CopyOK' /\ TimesOK' /\ KeysOK'
<1> DEFINE x == [event |-> e, pScreen |-> s]
<1>1. x \in Slot /\ x.event = e /\ (Key(x) <=> ~IsMotion(e))
  BY DEF Slot, Key
<1>2. Enqueued(x) /\ RingOK'
  BY EnqueueRing DEF OrderInv, QueueInv
<1> HIDE DEF x
<1>3. TypeOK /\ TimesOK /\ KeysOK /\ CopyOK /\ HeadSlotIsLive /\ Stamped
  BY DEF OrderInv, QueueInv
<1>9. (Handed' => Handed) /\ (Copied' => Copied)
  BY DEF Handed, Copied
<1>4. TimesOK'
  BY <1>1, <1>2, <1>3, <1>9, EnqueueTimes
<1>5. CopyOK'
  BY <1>1, <1>2, <1>3, <1>9, EnqueueCopy
<1>6. DeliveredKeys' = DeliveredKeys
  BY DEF DeliveredKeys
<1>7. KeysOK'
  BY <1>1, <1>2, <1>3, <1>6, EnqueueKeys
<1>8. Stamped'
  BY <1>3 DEF Stamped
<1> QED BY <1>2, <1>4, <1>5, <1>7, <1>8 DEF x

\* An enqueue leaves the order of screens as it is, unless it makes it irregular.
LEMMA EnqueuePointer ==
  ASSUME TypeOK, HeadSlotIsLive, PointerOK, overtaken' \in BOOLEAN,
         NEW x \in Slot, Enqueued(x), pEnqueueScreen' = pointer'.screen,
         IF Key(x) THEN pointer' = pointer /\ x.pScreen = pointer.screen
         ELSE pointer' = [screen |-> x.pScreen, pos |-> x.event.n],
         xe' = xe, warped' = warped, outrun' = outrun,
         Regular /\ ScreensOK =>
           /\ pDequeueScreen' = pDequeueScreen
           /\ \/ pc' = pc /\ sprite' = sprite
              \/ pc = "key" /\ pc' = "idle" /\ sprite' = sprite
              \/ pc = "newscreen" /\ pc' = "loop" /\ ~Key(x) /\ sprite'.screen = pDequeueScreen
  PROVE  PointerOK'
<1> SUFFICES ASSUME Regular' PROVE ScreensOK' /\ LastPos(pointer.pos)'
  BY DEF PointerOK
<1>1. overtaken' = FALSE /\ (\A e \in tossed' : ~IsMotion(e)) /\ ~warped /\ ~outrun
  BY DEF Regular, IsMotion
<1>2. ~overtaken /\ \A e \in tossed : ~IsMotion(e)
  <2>1. CASE Merged(x)
    BY <1>1, <2>1 DEF Merged
  <2>2. CASE Appended(x)
    BY <1>1, <2>2 DEF Appended, lossVars
  <2>3. CASE Dropped(x)
    BY <1>1, <2>3 DEF Dropped
  <2> QED BY <2>1, <2>2, <2>3 DEF Enqueued
<1>3. Regular
  BY <1>1, <1>2 DEF Regular
<1>4. ScreensOK /\ LastPos(pointer.pos)
  BY <1>3 DEF PointerOK
<1> QED BY <1>1, <1>3, <1>4, EnqueueScreens

-----------------------------------------------------------------------------
(* One lemma per action.                                                   *)

\* The rest of the inductive invariant.
Order == Stamped /\ RingOK /\ CopyOK /\ TimesOK /\ KeysOK /\ PointerOK

\* SIGIO, a button.
LEMMA SigioButtonOrder == ASSUME OrderInv, QueueInv', SigioButton PROVE Order'
<1> DEFINE e == [kind |-> "button", n |-> produced', time |-> now]
           x == [event |-> e, pScreen |-> pEnqueueScreen]
<1>1. /\ TypeOK /\ TypeOK' /\ HeadSlotIsLive /\ PointerOK
  BY DEF OrderInv, QueueInv
<1>2. /\ produced' = produced + 1 /\ pressed' = pressed \cup {produced'}
      /\ xf86eqEnqueue(e, pEnqueueScreen)
      /\ UNCHANGED <<screenVars, pointer, now, outputVars, pc, xe>>
  BY DEF SigioButton, Produce
<1>3. /\ produced \in Nat /\ produced' \in 0 .. MaxEvents /\ now \in 0 .. MaxTime /\ now \in Nat
      /\ MaxEvents \in Nat /\ pEnqueueScreen \in Screens
  BY <1>1, BoundAssumption DEF TypeOK
<1>4. e \in Event /\ ~IsMotion(e)
  BY <1>3 DEF Event, Numbers, Nowhere, IsMotion
<1>5. e.time = now /\ e.n = produced' /\ e.kind = "button"
  OBVIOUS
<1> HIDE DEF e
<1>6. HeldKeys' = HeldKeys /\ HeldKeys \cap swallowed = {} /\ swallowed' = swallowed
  BY <1>2 DEF HeldKeys, outputVars, OrderInv, KeysOK
<1>7. Enqueued(x) /\ Stamped' /\ RingOK' /\ CopyOK' /\ TimesOK' /\ KeysOK'
  BY <1>2, <1>3, <1>4, <1>5, <1>6, EnqueueStep DEF outputVars
<1>8. x \in Slot /\ Key(x) /\ x.pScreen = pEnqueueScreen
  BY <1>3, <1>4 DEF Slot, Key
<1> HIDE DEF x
<1>9. pEnqueueScreen = pointer.screen
  BY <1>1 DEF PointerOK
<1>10. overtaken' \in BOOLEAN
  BY <1>1 DEF TypeOK
<1>11. PointerOK'
  BY <1>1, <1>2, <1>7, <1>8, <1>9, <1>10, EnqueuePointer DEF outputVars, screenVars
<1> QED BY <1>7, <1>11 DEF Order

\* SIGIO, a motion that may leave its screen.
LEMMA SigioMotionOrder == ASSUME OrderInv, QueueInv', SigioMotion PROVE Order'
<1>1. /\ TypeOK /\ TypeOK' /\ HeadSlotIsLive /\ PointerOK
  BY DEF OrderInv, QueueInv
<1>2. PICK s \in Screens :
        /\ IF s = pointer.screen THEN UNCHANGED screenVars ELSE xf86eqSwitchScreen(s, FALSE)
        /\ pointer' = [screen |-> s, pos |-> produced']
        /\ xf86eqEnqueue(Motion(produced', now), pEnqueueScreen')
  BY DEF SigioMotion
<1>3. pEnqueueScreen' = s /\ pDequeueScreen' = pDequeueScreen
  BY <1>1, <1>2 DEF xf86eqSwitchScreen, screenVars, PointerOK
<1> DEFINE e == Motion(produced', now)
           x == [event |-> e, pScreen |-> s]
<1>4. /\ produced' = produced + 1
      /\ UNCHANGED <<now, pressed, outputVars, pc, xe>>
  BY DEF SigioMotion, Produce
<1>5. /\ produced \in Nat /\ produced' \in 0 .. MaxEvents /\ now \in 0 .. MaxTime /\ now \in Nat
      /\ MaxEvents \in Nat
  BY <1>1, BoundAssumption DEF TypeOK
<1>6. e \in Event /\ IsMotion(e)
  BY <1>5 DEF Event, Numbers, Nowhere, IsMotion, Motion
<1>7. e.time = now /\ e.n = produced' /\ e.kind = "motion"
  BY DEF Motion
<1>8. xf86eqEnqueue(e, s)
  BY <1>2, <1>3
<1> HIDE DEF e
<1>9. HeldKeys' = HeldKeys /\ HeldKeys \cap swallowed = {} /\ swallowed' = swallowed
  BY <1>4 DEF HeldKeys, outputVars, OrderInv, KeysOK
<1>10. Enqueued(x) /\ Stamped' /\ RingOK' /\ CopyOK' /\ TimesOK' /\ KeysOK'
  BY <1>4, <1>5, <1>6, <1>7, <1>8, <1>9, EnqueueStep DEF outputVars
<1>11. x \in Slot /\ ~Key(x) /\ x.pScreen = s /\ x.event = e
  BY <1>6 DEF Slot, Key
<1> HIDE DEF x
<1>12. overtaken' \in BOOLEAN
  BY <1>1 DEF TypeOK
<1>13. pointer' = [screen |-> x.pScreen, pos |-> x.event.n] /\ pEnqueueScreen' = pointer'.screen
  BY <1>2, <1>3, <1>7, <1>11
<1>14. PointerOK'
  BY <1>1, <1>3, <1>4, <1>10, <1>11, <1>12, <1>13, EnqueuePointer DEF outputVars
<1> QED BY <1>10, <1>14 DEF Order

\* The main thread enqueues the key it has stamped.
LEMMA KeyEnqueueOrder == ASSUME OrderInv, QueueInv', KeyEnqueue PROVE Order'
<1> DEFINE e == [xe EXCEPT !.n = produced']
           x == [event |-> e, pScreen |-> pEnqueueScreen]
<1>1. /\ TypeOK /\ TypeOK' /\ HeadSlotIsLive /\ PointerOK /\ Stamped /\ TimesOK
  BY DEF OrderInv, QueueInv
<1>2. /\ produced' = produced + 1 /\ pressed' = pressed \cup {produced'}
      /\ xf86eqEnqueue(e, pEnqueueScreen) /\ pc = "key" /\ pc' = "idle"
      /\ UNCHANGED <<screenVars, pointer, now, outputVars, xe>>
  BY DEF KeyEnqueue
<1>3. /\ produced \in Nat /\ produced' \in 0 .. MaxEvents
      /\ MaxEvents \in Nat /\ pEnqueueScreen \in Screens /\ xe \in Event
  BY <1>1, BoundAssumption DEF TypeOK
<1>4. e \in Event /\ e.time = xe.time /\ e.n = produced' /\ e.kind = "key"
  BY <1>1, <1>2, <1>3 DEF Event, Numbers, Nowhere, Stamped
<1> HIDE DEF e
<1>5. ~IsMotion(e) /\ xe.time <= now
  BY <1>1, <1>4 DEF IsMotion, TimesOK
<1>6. HeldKeys' = HeldKeys /\ HeldKeys \cap swallowed = {} /\ swallowed' = swallowed
  BY <1>2 DEF HeldKeys, outputVars, OrderInv, KeysOK
<1>7. Enqueued(x) /\ Stamped' /\ RingOK' /\ CopyOK' /\ TimesOK' /\ KeysOK'
  BY <1>2, <1>3, <1>4, <1>5, <1>6, EnqueueStep DEF outputVars
<1>8. x \in Slot /\ Key(x) /\ x.pScreen = pEnqueueScreen
  BY <1>3, <1>4, <1>5 DEF Slot, Key
<1> HIDE DEF x
<1>9. pEnqueueScreen = pointer.screen
  BY <1>1 DEF PointerOK
<1>10. overtaken' \in BOOLEAN
  BY <1>1 DEF TypeOK
<1>11. PointerOK'
  BY <1>1, <1>2, <1>7, <1>8, <1>9, <1>10, EnqueuePointer DEF outputVars, screenVars
<1> QED BY <1>7, <1>11 DEF Order

\* The main thread warps the device, at a client's or its own wish.
LEMMA WarpOrder ==
  ASSUME OrderInv, overtaken' \in BOOLEAN, NEW s \in Screens, NEW n \in Numbers,
         miPointerWarpCursor(s, n),
         now' = now, lastTime' = lastTime, xe' = xe, delivered' = delivered, pressed' = pressed,
         pc' = pc \/ (pc = "newscreen" /\ pc' = "loop"),
         produced' \in Nat, produced' >= produced,
         HeldKeys' \cup swallowed' = HeldKeys \cup swallowed, HeldKeys' \cap swallowed' = {},
         warped' \in BOOLEAN, outrun' = outrun,
         Regular /\ ScreensOK /\ ~warped' =>
           /\ s = pDequeueScreen /\ ~warped
           /\ \/ pc' = pc /\ sprite' = sprite
              \/ pc = "newscreen" /\ pc' = "loop" /\ sprite'.screen = s,
         warped => warped'
  PROVE  Order'
<1>1. /\ TypeOK /\ HeadSlotIsLive /\ PointerOK
  BY DEF OrderInv, QueueInv
<1>2. /\ pointer' = [screen |-> s, pos |-> n]
      /\ xf86eqEnqueue(Motion(n, now), pEnqueueScreen')
      /\ pEnqueueScreen' = s
      /\ pDequeueScreen' = IF s = pointer.screen THEN pDequeueScreen ELSE s
  BY <1>1 DEF miPointerWarpCursor, MovePointer, xf86eqSwitchScreen, screenVars, PointerOK
<1> DEFINE e == Motion(n, now)
           x == [event |-> e, pScreen |-> s]
<1>3. now \in 0 .. MaxTime /\ now \in Nat
  BY <1>1, BoundAssumption DEF TypeOK
<1>4. e \in Event /\ IsMotion(e) /\ e.time = now /\ e.n = n /\ e.kind = "motion"
  BY <1>3, MotionType DEF IsMotion, Motion
<1>5. xf86eqEnqueue(e, s)
  BY <1>2
<1> HIDE DEF e
<1>6. Enqueued(x) /\ Stamped' /\ RingOK' /\ CopyOK' /\ TimesOK' /\ KeysOK'
  BY <1>3, <1>4, <1>5, EnqueueStep
<1>7. x \in Slot /\ ~Key(x) /\ x.pScreen = s /\ x.event = e
  BY <1>4 DEF Slot, Key
<1> HIDE DEF x
<1>8. pointer' = [screen |-> x.pScreen, pos |-> x.event.n] /\ pEnqueueScreen' = pointer'.screen
  BY <1>2, <1>4, <1>7
<1>9. PointerOK'
  <2>1. CASE warped'
    BY <1>8, <2>1 DEF PointerOK, Regular
  <2>2. CASE ~warped' /\ warped' = warped
    BY <1>1, <1>2, <1>6, <1>7, <1>8, <2>2, EnqueuePointer
  <2>3. CASE ~warped' /\ warped' # warped
    <3>1. ~warped
      BY <2>3
    <3> QED BY <1>1, <2>3, <3>1 DEF TypeOK
  <2> QED BY <2>1, <2>2, <2>3
<1> QED BY <1>6, <1>9 DEF Order

LEMMA WarpPointerOrder == ASSUME OrderInv, QueueInv', WarpPointer PROVE Order'
<1>1. TypeOK /\ TypeOK'
  BY DEF OrderInv, QueueInv
<1>2. /\ pc \in {"idle", "process"} /\ produced' = produced + 1
      /\ UNCHANGED <<now, pressed, delivered, swallowed, lastTime, backwards, outrun, pc, xe>>
  BY DEF WarpPointer, Produce
<1>3. /\ produced \in Nat /\ produced' \in Nat /\ produced' \in Numbers
      /\ overtaken' \in BOOLEAN /\ warped' \in BOOLEAN /\ sprite.screen \in Screens
  BY <1>1, BoundAssumption DEF TypeOK, Numbers, Nowhere, Position
<1>4. HeldKeys' = HeldKeys /\ HeldKeys \cap swallowed = {}
  BY <1>2 DEF HeldKeys, OrderInv, KeysOK
<1>5. CASE miPointerWarpCursor(sprite.screen, produced') /\ UNCHANGED <<sprite, warped>>
  <2>1. Regular /\ ScreensOK => sprite.screen = pDequeueScreen /\ ~warped
    BY <1>2 DEF ScreensOK, Regular
  <2> QED BY <1>2, <1>3, <1>4, <1>5, <2>1, WarpOrder
<1>6. CASE (\E s \in Screens \ {sprite.screen} : NewCurrentScreen(s, produced')) /\ warped' = TRUE
  <2>1. PICK s \in Screens : s # sprite.screen /\ NewCurrentScreen(s, produced')
    BY <1>6
  <2>2. miPointerWarpCursor(s, produced')
    BY <2>1 DEF NewCurrentScreen
  <2> QED BY <1>2, <1>3, <1>4, <1>6, <2>2, WarpOrder
<1> QED BY <1>5, <1>6 DEF WarpPointer

\* The slot at head is the first of the ring.
LEMMA HeadIsFirst ==
  ASSUME TypeOK, head # tail
  PROVE  /\ Ring \in Seq(Slot) /\ Ring # <<>> /\ Len(Ring) \in Nat /\ Len(Ring) >= 1
         /\ Ring[1] = events[head] /\ Ring[1] \in Slot
<1>1. head \in Slots /\ tail \in Slots /\ events \in [Slots -> Slot]
  BY DEF TypeOK, Slot
<1>2. /\ Ring \in Seq(Slot) /\ Ring # <<>> /\ Len(Ring) = Size /\ Size \in Nat /\ Size >= 1
      /\ \A i \in 1 .. Size : Ring[i] = events[SlotAt(i)]
  BY <1>1, RingType
<1>3. SlotAt(1) = head
  <2>1. head + 1 - 1 = head /\ head < QUEUE_SIZE /\ 1 \in 1 .. QUEUE_SIZE
    BY <1>1, QueueSizeAssumption DEF Slots
  <2> QED BY <1>1, <2>1, CyclicIndex DEF SlotAt
<1>4. Ring[1] = events[head]
  BY <1>2, <1>3
<1> QED BY <1>1, <1>2, <1>4

\* Times are natural numbers.
LEMMA RingTimes ==
  ASSUME Ring \in Seq(Slot)
  PROVE  \A i \in 1 .. Len(Ring) : Ring[i].event.time \in Nat
<1> HIDE DEF Ring
<1> TAKE i \in 1 .. Len(Ring)
<1>1. Ring[i] \in Slot
  BY ElementOfSeq
<1>2. Ring[i].event.time \in 0 .. MaxTime
  BY <1>1 DEF Slot, Event
<1> QED BY <1>2, BoundAssumption

\* Steps that leave the ring, the screens and the keys alone.
LEMMA QuietOrder ==
  ASSUME OrderInv, Ring' = Ring,
         UNCHANGED <<lastMotion, lastEventTime, screenVars, pointer, pressed, produced,
                     outputVars, lossVars>>,
         now' \in Nat, now' >= now,
         \/ pc' = pc /\ xe' = xe
         \/ /\ pc \in {"idle", "loop", "process"} /\ pc' \in {"idle", "loop", "read"}
            /\ xe' = xe
         \/ pc = "idle" /\ pc' = "key" /\ xe'.kind = "key" /\ xe'.time <= now'
  PROVE  Order'
<1>1. TypeOK /\ Stamped /\ RingOK /\ CopyOK /\ TimesOK /\ KeysOK /\ PointerOK
  BY DEF OrderInv, QueueInv
<1>2. Ring \in Seq(Slot)
  BY <1>1, RingType DEF TypeOK, Slot
<1> HIDE DEF Ring
<1>3. Stamped'
  BY <1>1 DEF Stamped
<1>4. RingOK'
  BY <1>1 DEF RingOK, Key
<1>5. CopyOK'
  BY <1>1 DEF CopyOK, Copied, Key
<1>6. TimesOK'
  <2>1. now \in Nat /\ lastTime \in Nat /\ xe.time \in Nat
    BY <1>1, BoundAssumption DEF TypeOK, Event
  <2>2. \A i \in 1 .. Len(Ring) : Ring[i].event.time \in Nat
    BY <1>2, RingTimes
  <2>3. lastTime' <= now' /\ xe'.time <= now' /\ \A i \in 1 .. Len(Ring) : Ring[i].event.time <= now'
    BY <1>1, <2>1, <2>2 DEF TimesOK, outputVars
  <2>4. Handed' => Handed /\ xe' = xe
    BY DEF Handed
  <2> QED BY <1>1, <2>3, <2>4 DEF TimesOK, outputVars
<1>7. KeysOK'
  <2>1. HeldKeys' = HeldKeys
    BY DEF HeldKeys
  <2>2. /\ DeliveredKeys' = DeliveredKeys /\ Numbered(tossed') = Numbered(tossed)
        /\ RingKeys' = RingKeys /\ swallowed' = swallowed
    BY DEF DeliveredKeys, RingKeys, Key, outputVars, lossVars
  <2> QED BY <1>1, <2>1, <2>2 DEF KeysOK, Key
<1>8. PointerOK'
  <2>1. pEnqueueScreen' = pointer'.screen
    BY <1>1 DEF PointerOK, screenVars
  <2> SUFFICES ASSUME Regular' PROVE ScreensOK' /\ LastPos(pointer.pos)'
    BY <2>1 DEF PointerOK
  <2>2. Regular
    BY DEF Regular, lossVars, outputVars
  <2>3. ScreensOK'
    BY <1>1, <2>2 DEF PointerOK, ScreensOK, LastScreen, Removing, Copied, Key, IsMotion,
       screenVars, outputVars
  <2>4. LastPos(pointer.pos)'
    BY <1>1, <2>2 DEF PointerOK, LastPos, Key, IsMotion, screenVars, outputVars
  <2> QED BY <2>3, <2>4
<1> QED BY <1>3, <1>4, <1>5, <1>6, <1>7, <1>8 DEF Order

\* The screen of the oldest slot is compared with the current one ...
LEMMA TestScreenOrder == ASSUME OrderInv, TestScreen PROVE Order'
<1>1. TypeOK /\ Stamped /\ RingOK /\ CopyOK /\ TimesOK /\ KeysOK /\ PointerOK /\ HeadSlotIsLive
  BY DEF OrderInv, QueueInv
<1>2. /\ pc = "read"
      /\ pc' = IF events[head].pScreen # pDequeueScreen THEN "switch" ELSE "copy"
      /\ UNCHANGED <<ringVars, screenVars, inputVars, outputVars, lossVars, xe>>
  BY DEF TestScreen
<1>3. /\ Ring \in Seq(Slot) /\ Ring # <<>> /\ Len(Ring) \in Nat /\ Len(Ring) >= 1
      /\ Ring[1] = events[head]
  BY <1>1, <1>2, HeadIsFirst DEF HeadSlotIsLive
<1>4. Ring' = Ring
  BY <1>2 DEF Ring, Size, SlotAt, ringVars
<1> HIDE DEF Ring
<1>5. Stamped' /\ RingOK' /\ CopyOK' /\ TimesOK'
  <2>1. pc' \in {"switch", "copy"}
    BY <1>2
  <2> QED BY <1>1, <1>2, <1>4, <2>1
      DEF Stamped, RingOK, CopyOK, Copied, TimesOK, Handed, Key, ringVars, inputVars, outputVars
<1>6. KeysOK'
  <2>1. HeldKeys' = HeldKeys
    BY <1>2 DEF HeldKeys
  <2>2. /\ DeliveredKeys' = DeliveredKeys /\ Numbered(tossed') = Numbered(tossed)
        /\ RingKeys' = RingKeys /\ swallowed' = swallowed
    BY <1>2, <1>4 DEF DeliveredKeys, RingKeys, Key, outputVars, lossVars
  <2> QED BY <1>1, <1>2, <1>4, <2>1, <2>2 DEF KeysOK, Key, inputVars
<1>7. PointerOK'
  <2>1. pEnqueueScreen' = pointer'.screen
    BY <1>1, <1>2 DEF PointerOK, inputVars, screenVars
  <2> SUFFICES ASSUME Regular' PROVE ScreensOK' /\ LastPos(pointer.pos)'
    BY <2>1 DEF PointerOK
  <2>2. Regular
    BY <1>2 DEF Regular, lossVars, outputVars
  <2>3. ScreensOK /\ LastPos(pointer.pos)
    BY <1>1, <2>2 DEF PointerOK
  <2>4. pc' = "switch" => ~Key(Ring[1])
    BY <1>2, <1>3, <2>3 DEF ScreensOK
  <2>5. pc' # "switch" => Ring[1].pScreen = pDequeueScreen
    BY <1>2, <1>3
  <2>6. ScreensOK'
    BY <1>2, <1>3, <1>4, <2>3, <2>4, <2>5
       DEF ScreensOK, LastScreen, Removing, Copied, Key, IsMotion, inputVars, outputVars, screenVars
  <2>7. LastPos(pointer.pos)'
    BY <1>2, <1>4, <2>3 DEF LastPos, Key, IsMotion, inputVars, outputVars
  <2> QED BY <2>6, <2>7
<1> QED BY <1>5, <1>6, <1>7 DEF Order

\* ... and read again to become the current one ...
LEMMA ReadScreenOrder == ASSUME OrderInv, ReadScreen PROVE Order'
<1>1. TypeOK /\ Stamped /\ RingOK /\ CopyOK /\ TimesOK /\ KeysOK /\ PointerOK /\ HeadSlotIsLive
  BY DEF OrderInv, QueueInv
<1>2. /\ pc = "switch" /\ pDequeueScreen' = events[head].pScreen /\ pc' = "x"
      /\ UNCHANGED <<ringVars, pEnqueueScreen, inputVars, outputVars, lossVars, xe>>
  BY DEF ReadScreen
<1>3. /\ Ring \in Seq(Slot) /\ Ring # <<>> /\ Len(Ring) \in Nat /\ Len(Ring) >= 1
      /\ Ring[1] = events[head]
  BY <1>1, <1>2, HeadIsFirst DEF HeadSlotIsLive, Removing
<1>4. Ring' = Ring
  BY <1>2 DEF Ring, Size, SlotAt, ringVars
<1> HIDE DEF Ring
<1>5. Stamped' /\ RingOK' /\ CopyOK' /\ TimesOK'
  BY <1>1, <1>2, <1>4
     DEF Stamped, RingOK, CopyOK, Copied, TimesOK, Handed, Key, ringVars, inputVars, outputVars
<1>6. KeysOK'
  <2>1. HeldKeys' = HeldKeys
    BY <1>2 DEF HeldKeys
  <2>2. /\ DeliveredKeys' = DeliveredKeys /\ Numbered(tossed') = Numbered(tossed)
        /\ RingKeys' = RingKeys /\ swallowed' = swallowed
    BY <1>2, <1>4 DEF DeliveredKeys, RingKeys, Key, outputVars, lossVars
  <2> QED BY <1>1, <1>2, <1>4, <2>1, <2>2 DEF KeysOK, Key, inputVars
<1>7. PointerOK'
  <2>1. pEnqueueScreen' = pointer'.screen
    BY <1>1, <1>2 DEF PointerOK, inputVars
  <2> SUFFICES ASSUME Regular' PROVE ScreensOK' /\ LastPos(pointer.pos)'
    BY <2>1 DEF PointerOK
  <2>2. Regular
    BY <1>2 DEF Regular, lossVars, outputVars
  <2>3. ScreensOK /\ LastPos(pointer.pos)
    BY <1>1, <2>2 DEF PointerOK
  <2>4. ~Key(Ring[1]) /\ 1 \in 1 .. Len(Ring) /\ Ring' # <<>>
    BY <1>2, <1>3, <1>4, <2>3 DEF ScreensOK
  <2>5. ScreensOK'
    BY <1>2, <1>3, <1>4, <2>3, <2>4
       DEF ScreensOK, LastScreen, Removing, Copied, Key, IsMotion, inputVars, outputVars
  <2>6. LastPos(pointer.pos)'
    BY <1>2, <1>4, <2>3 DEF LastPos, Key, IsMotion, inputVars, outputVars
  <2> QED BY <2>5, <2>6
<1> QED BY <1>5, <1>6, <1>7 DEF Order

\* ... the first part of the event is copied ...
LEMMA CopyEventOrder == ASSUME OrderInv, CopyEvent PROVE Order'
<1>1. TypeOK /\ Stamped /\ RingOK /\ CopyOK /\ TimesOK /\ KeysOK /\ PointerOK /\ HeadSlotIsLive
  BY DEF OrderInv, QueueInv
<1>2. /\ pc \in {"x", "copy"} /\ xe' = events[head].event
      /\ pc' = IF pc = "x" THEN "y" ELSE "copying"
      /\ UNCHANGED <<ringVars, screenVars, inputVars, outputVars, lossVars>>
  BY DEF CopyEvent
<1>3. /\ Ring \in Seq(Slot) /\ Ring # <<>> /\ Len(Ring) \in Nat /\ Len(Ring) >= 1
      /\ Ring[1] = events[head]
  BY <1>1, <1>2, HeadIsFirst DEF HeadSlotIsLive, Removing
<1>4. Ring' = Ring /\ xe' = Ring[1].event
  <2>1. Ring' = Ring
    BY <1>2 DEF Ring, Size, SlotAt, ringVars
  <2> QED BY <1>2, <1>3, <2>1
<1> HIDE DEF Ring
<1>5. Stamped' /\ RingOK' /\ CopyOK'
  <2>1. pc' # "key"
    BY <1>2
  <2> QED BY <1>1, <1>2, <1>3, <1>4, <2>1
      DEF Stamped, RingOK, CopyOK, Key, ringVars
<1>6. TimesOK'
  <2>1. \A i \in 1 .. Len(Ring) : Ring[i].event.time \in Nat
    BY <1>3, RingTimes
  <2>2. 1 \in 1 .. Len(Ring) /\ xe'.time = Ring[1].event.time /\ xe'.time <= now
    BY <1>1, <1>3, <1>4 DEF TimesOK
  <2>3. ASSUME NEW j \in 1 .. Len(Ring), Ring[j].event.kind # "key"
        PROVE  lastTime <= Ring[j].event.time /\ xe'.time <= Ring[j].event.time
    <3>1. CASE j = 1
      BY <1>1, <2>1, <2>2, <2>3, <3>1 DEF TimesOK
    <3>2. CASE j # 1
      <4>1. 1 < j
        BY <1>3, <3>2
      <4> QED BY <1>1, <2>2, <2>3, <4>1 DEF TimesOK
    <3> QED BY <3>1, <3>2
  <2>4. xe'.kind # "key" => lastTime <= xe'.time
    BY <1>4, <2>2, <2>3
  <2> QED BY <1>1, <1>2, <1>4, <2>2, <2>3, <2>4 DEF TimesOK, inputVars, outputVars
<1>7. KeysOK'
  <2>1. HeldKeys' = HeldKeys
    BY <1>2 DEF HeldKeys
  <2>2. /\ DeliveredKeys' = DeliveredKeys /\ Numbered(tossed') = Numbered(tossed)
        /\ RingKeys' = RingKeys /\ swallowed' = swallowed
    BY <1>2, <1>4 DEF DeliveredKeys, RingKeys, Key, outputVars, lossVars
  <2> QED BY <1>1, <1>2, <1>4, <2>1, <2>2 DEF KeysOK, Key, inputVars
<1>8. PointerOK'
  <2>1. pEnqueueScreen' = pointer'.screen
    BY <1>1, <1>2 DEF PointerOK, inputVars, screenVars
  <2> SUFFICES ASSUME Regular' PROVE ScreensOK' /\ LastPos(pointer.pos)'
    BY <2>1 DEF PointerOK
  <2>2. Regular
    BY <1>2 DEF Regular, lossVars, outputVars
  <2>3. ScreensOK /\ LastPos(pointer.pos)
    BY <1>1, <2>2 DEF PointerOK
  <2>4. pc' = "y" => IsMotion(xe')
    BY <1>2, <1>4, <2>3 DEF ScreensOK, Key
  <2>5. ScreensOK'
    BY <1>2, <1>3, <1>4, <2>3, <2>4
       DEF ScreensOK, LastScreen, Removing, Copied, Key, IsMotion, inputVars, outputVars, screenVars
  <2>6. LastPos(pointer.pos)'
    BY <1>2, <1>4, <2>3 DEF LastPos, Key, IsMotion, inputVars, outputVars
  <2> QED BY <2>5, <2>6
<1> QED BY <1>5, <1>6, <1>7, <1>8 DEF Order

\* A copy of an event that did not change is that event.
LEMMA UntornCopy ==
  ASSUME NEW a \in Event, NEW e \in Mixtures(a, a)
  PROVE  e = a
BY DEF Mixtures, Event

\* ... then the rest, torn only if a motion was written over a motion ...
LEMMA CopyRestOrder == ASSUME OrderInv, CopyRest PROVE Order'
<1>1. TypeOK /\ Stamped /\ RingOK /\ CopyOK /\ TimesOK /\ KeysOK /\ PointerOK /\ HeadSlotIsLive
  BY DEF OrderInv, QueueInv
<1>2. /\ pc \in {"y", "copying"} /\ xe' \in Mixtures(xe, events[head].event)
      /\ pc' = IF pc = "y" THEN "cross" ELSE "advance"
      /\ UNCHANGED <<ringVars, screenVars, inputVars, outputVars, lossVars>>
  BY DEF CopyRest
<1>3. /\ Ring \in Seq(Slot) /\ Ring # <<>> /\ Len(Ring) \in Nat /\ Len(Ring) >= 1
      /\ Ring[1] = events[head] /\ Ring[1] \in Slot
  BY <1>1, <1>2, HeadIsFirst DEF HeadSlotIsLive, Removing
<1>4. Ring' = Ring
  BY <1>2 DEF Ring, Size, SlotAt, ringVars
<1> HIDE DEF Ring
<1>5. /\ xe \in Event /\ Ring[1].event \in Event
      /\ xe' \in Event /\ xe'.kind = xe.kind /\ xe'.time \in {xe.time, Ring[1].event.time}
  <2>1. xe \in Event /\ Ring[1].event \in Event
    BY <1>1, <1>3 DEF TypeOK, Slot
  <2> QED BY <1>2, <1>3, <2>1, MixtureType
<1>6. xe = Ring[1].event => xe' = Ring[1].event
  BY <1>2, <1>3, <1>5, UntornCopy
<1>7. Stamped' /\ RingOK' /\ CopyOK'
  <2>1. pc' # "key" /\ Copied /\ (IsMotion(xe') <=> IsMotion(xe))
    BY <1>2, <1>5 DEF Copied, IsMotion
  <2>2. CopyOK'
    BY <1>1, <1>4, <1>6, <2>1 DEF CopyOK
  <2> QED BY <1>1, <1>2, <1>4, <2>1, <2>2 DEF Stamped, RingOK, Key, ringVars
<1>8. TimesOK'
  <2>1. /\ \A i \in 1 .. Len(Ring) : Ring[i].event.time \in Nat
        /\ xe.time \in Nat /\ lastTime \in Nat /\ 1 \in 1 .. Len(Ring)
    BY <1>1, <1>3, RingTimes, BoundAssumption DEF TypeOK, Event
  <2>2. xe'.time <= now
    BY <1>1, <1>5, <2>1 DEF TimesOK
  <2>3. CASE pc = "y"
    BY <1>1, <1>2, <1>4, <2>2, <2>3 DEF TimesOK, Handed, inputVars, outputVars
  <2>4. CASE pc = "copying"
    <3>1. Handed /\ Handed'
      BY <1>2, <2>4 DEF Handed
    <3>2. ASSUME NEW j \in 1 .. Len(Ring), Ring[j].event.kind # "key"
          PROVE  xe'.time <= Ring[j].event.time
      <4>1. xe.time <= Ring[j].event.time
        BY <1>1, <3>1, <3>2 DEF TimesOK
      <4>2. Ring[1].event.time <= Ring[j].event.time
        <5>1. CASE j = 1
          BY <2>1, <5>1
        <5>2. CASE j # 1
          <6>1. 1 < j
            BY <1>3, <5>2
          <6> QED BY <1>1, <2>1, <3>2, <6>1 DEF TimesOK
        <5> QED BY <5>1, <5>2
      <4> QED BY <1>5, <4>1, <4>2
    <3>3. xe'.kind # "key" => lastTime <= xe'.time
      <4> SUFFICES ASSUME xe.kind # "key" PROVE lastTime <= xe'.time
        BY <1>5
      <4>1. lastTime <= xe.time
        BY <1>1, <3>1 DEF TimesOK
      <4>2. CASE Ring[1].event.kind # "key"
        BY <1>1, <1>5, <2>1, <4>1, <4>2 DEF TimesOK
      <4>3. CASE Ring[1].event.kind = "key"
        <5>1. xe = Ring[1].event
          BY <1>1, <1>2, <4>3 DEF CopyOK, Copied, Key, IsMotion
        <5> QED BY <4>3, <5>1
      <4> QED BY <4>2, <4>3
    <3> QED BY <1>1, <1>2, <1>4, <2>2, <3>1, <3>2, <3>3 DEF TimesOK, inputVars, outputVars
  <2> QED BY <1>2, <2>3, <2>4
<1>9. KeysOK'
  <2>1. HeldKeys' = HeldKeys
    BY <1>2 DEF HeldKeys
  <2>2. /\ DeliveredKeys' = DeliveredKeys /\ Numbered(tossed') = Numbered(tossed)
        /\ RingKeys' = RingKeys /\ swallowed' = swallowed
    BY <1>2, <1>4 DEF DeliveredKeys, RingKeys, Key, outputVars, lossVars
  <2> QED BY <1>1, <1>2, <1>4, <2>1, <2>2 DEF KeysOK, Key, inputVars
<1>10. PointerOK'
  <2>1. pEnqueueScreen' = pointer'.screen
    BY <1>1, <1>2 DEF PointerOK, inputVars, screenVars
  <2> SUFFICES ASSUME Regular' PROVE ScreensOK' /\ LastPos(pointer.pos)'
    BY <2>1 DEF PointerOK
  <2>2. Regular
    BY <1>2 DEF Regular, lossVars, outputVars
  <2>3. ScreensOK /\ LastPos(pointer.pos)
    BY <1>1, <2>2 DEF PointerOK
  <2>4. xe = Ring[1].event /\ xe' = xe
    BY <1>2, <1>6, <2>3 DEF ScreensOK, Copied
  <2>5. ScreensOK'
    BY <1>2, <1>3, <1>4, <2>3, <2>4
       DEF ScreensOK, LastScreen, Removing, Copied, Key, IsMotion, inputVars, outputVars, screenVars
  <2>6. LastPos(pointer.pos)'
    BY <1>2, <1>4, <2>3 DEF LastPos, Key, IsMotion, inputVars, outputVars
  <2> QED BY <2>5, <2>6
<1> QED BY <1>7, <1>8, <1>9, <1>10 DEF Order

\* ... and given up.
LEMMA AdvanceHeadOrder == ASSUME OrderInv, AdvanceHead PROVE Order'
<1>1. TypeOK /\ Stamped /\ RingOK /\ CopyOK /\ TimesOK /\ KeysOK /\ PointerOK /\ HeadSlotIsLive
  BY DEF OrderInv, QueueInv
<1>2. /\ pc \in {"cross", "advance"} /\ head' = Succ(head)
      /\ pc' = IF pc = "cross" THEN "newscreen" ELSE "deliver"
      /\ UNCHANGED <<tail, events, lastMotion, lastEventTime, arrived, screenVars,
                     inputVars, outputVars, lossVars, xe>>
  BY DEF AdvanceHead
<1>3. /\ Ring \in Seq(Slot) /\ Ring # <<>> /\ Len(Ring) \in Nat /\ Len(Ring) >= 1
      /\ head # tail
  BY <1>1, <1>2, HeadIsFirst DEF HeadSlotIsLive, Removing
<1>4. Ring' = Tail(Ring)
  BY <1>1, <1>2, <1>3, RingAdvances DEF TypeOK, Slot
<1> HIDE DEF Ring
<1>5. /\ Len(Ring') = Len(Ring) - 1 /\ Ring' \in Seq(Slot)
      /\ \A i \in 1 .. Len(Ring') : Ring'[i] = Ring[i + 1] /\ i + 1 \in 1 .. Len(Ring)
      /\ \A i \in 1 .. Len(Ring) : i # 1 => i - 1 \in 1 .. Len(Ring') /\ Ring'[i - 1] = Ring[i]
      /\ Ring' = <<>> <=> Len(Ring) = 1
  <2>1. /\ Len(Ring') = Len(Ring) - 1 /\ Ring' \in Seq(Slot)
        /\ \A i \in 1 .. Len(Ring') : Ring'[i] = Ring[i + 1]
    BY <1>3, <1>4, HeadTailProperties
  <2>2. Ring' = <<>> <=> Len(Ring) = 1
    BY <1>3, <2>1, EmptySeq
  <2>3. \A i \in 1 .. Len(Ring') : i + 1 \in 1 .. Len(Ring)
    BY <1>3, <2>1
  <2>4. ASSUME NEW i \in 1 .. Len(Ring), i # 1
        PROVE  i - 1 \in 1 .. Len(Ring') /\ Ring'[i - 1] = Ring[i]
    <3>1. i - 1 \in 1 .. Len(Ring') /\ (i - 1) + 1 = i
      BY <1>3, <2>1, <2>4
    <3> QED BY <2>1, <3>1
  <2> QED BY <2>1, <2>2, <2>3, <2>4
<1>6. Ring' # <<>> => Ring'[Len(Ring')] = Ring[Len(Ring)] /\ Len(Ring') >= 1
  <2>1. Ring' # <<>> => Len(Ring) \in 1 .. Len(Ring) /\ Len(Ring) # 1 /\ Len(Ring) - 1 >= 1
    BY <1>3, <1>5
  <2> QED BY <1>5, <2>1
<1>7. Stamped' /\ RingOK' /\ CopyOK'
  <2>1. pc' \in {"newscreen", "deliver"}
    BY <1>2
  <2> QED BY <1>1, <1>2, <1>3, <1>6, <2>1 DEF Stamped, RingOK, CopyOK, Copied, Key
<1>8. TimesOK'
  <2>1. \A i \in 1 .. Len(Ring') : Ring'[i].event.time <= now
    BY <1>1, <1>5 DEF TimesOK
  <2>2. ASSUME NEW i \in 1 .. Len(Ring'), NEW j \in 1 .. Len(Ring'),
               i < j, Ring'[j].event.kind # "key"
        PROVE  Ring'[i].event.time <= Ring'[j].event.time
    <3>1. /\ Ring'[i] = Ring[i + 1] /\ i + 1 \in 1 .. Len(Ring)
          /\ Ring'[j] = Ring[j + 1] /\ j + 1 \in 1 .. Len(Ring) /\ i + 1 < j + 1
      BY <1>5, <2>2
    <3> QED BY <1>1, <2>2, <3>1 DEF TimesOK
  <2>3. ASSUME NEW j \in 1 .. Len(Ring'), Ring'[j].event.kind # "key"
        PROVE  /\ lastTime <= Ring'[j].event.time
               /\ pc' = "deliver" => xe.time <= Ring'[j].event.time
    BY <1>1, <1>2, <1>5, <2>3 DEF TimesOK, Handed
  <2>4. pc' = "deliver" /\ xe.kind # "key" => lastTime <= xe.time
    BY <1>1, <1>2 DEF TimesOK, Handed
  <2>5. (Handed' => pc' = "deliver") /\ lastTime <= now /\ xe.time <= now
    BY <1>1, <1>2 DEF TimesOK, Handed
  <2> QED BY <1>2, <2>1, <2>2, <2>3, <2>4, <2>5 DEF TimesOK, inputVars, outputVars
<1>9. KeysOK'
  <2>1. HeldKeys = {} /\ HeldKeys' = IF IsMotion(xe) THEN {} ELSE {xe.n}
    BY <1>2 DEF HeldKeys, Numbered
  <2>2. HeldKeys' = IF Key(Ring[1]) THEN {Ring[1].event.n} ELSE {}
    BY <1>1, <1>2, <2>1 DEF CopyOK, Copied, Key
  <2>3. 1 \in 1 .. Len(Ring)
    BY <1>3
  <2>4. \A i \in 1 .. Len(Ring) :
          Key(Ring[i]) /\ Key(Ring[1]) /\ Ring[i].event.n = Ring[1].event.n => i = 1
    BY <1>1, <2>3 DEF KeysOK
  <2>5. RingKeys = RingKeys' \cup HeldKeys'
    <3>1. RingKeys' \subseteq RingKeys
      BY <1>5 DEF RingKeys, Key
    <3>2. HeldKeys' \subseteq RingKeys
      BY <2>2, <2>3 DEF RingKeys
    <3>3. ASSUME NEW i \in 1 .. Len(Ring), Key(Ring[i])
          PROVE  Ring[i].event.n \in RingKeys' \cup HeldKeys'
      <4>1. CASE i = 1
        BY <2>2, <3>3, <4>1
      <4>2. CASE i # 1
        BY <1>5, <3>3, <4>2 DEF RingKeys, Key
      <4> QED BY <4>1, <4>2
    <3>4. RingKeys \subseteq RingKeys' \cup HeldKeys'
      BY <3>3 DEF RingKeys
    <3> QED BY <3>1, <3>2, <3>4
  <2>6. RingKeys' \cap HeldKeys' = {}
    <3> SUFFICES ASSUME NEW i \in 1 .. Len(Ring'), Key(Ring'[i]), Ring'[i].event.n \in HeldKeys'
                 PROVE  FALSE
      BY DEF RingKeys, Key
    <3>1. Ring'[i] = Ring[i + 1] /\ i + 1 \in 1 .. Len(Ring) /\ i + 1 # 1
      BY <1>5
    <3> QED BY <2>2, <2>4, <3>1
  <2>7. \A i, j \in 1 .. Len(Ring') :
          Key(Ring'[i]) /\ Key(Ring'[j]) /\ Ring'[i].event.n = Ring'[j].event.n => i = j
    <3> SUFFICES ASSUME NEW i \in 1 .. Len(Ring'), NEW j \in 1 .. Len(Ring'),
                        Key(Ring'[i]), Key(Ring'[j]), Ring'[i].event.n = Ring'[j].event.n
                 PROVE  i = j
      OBVIOUS
    <3>1. i + 1 = j + 1
      BY <1>1, <1>5 DEF KeysOK
    <3> QED BY <3>1
  <2>8. /\ DeliveredKeys' = DeliveredKeys /\ Numbered(tossed') = Numbered(tossed)
        /\ swallowed' = swallowed /\ pressed' = pressed /\ produced' = produced
    BY <1>2 DEF DeliveredKeys, outputVars, lossVars, inputVars
  <2>9. /\ pressed = RingKeys \cup HeldKeys \cup DeliveredKeys \cup swallowed \cup Numbered(tossed)
        /\ RingKeys \cap (HeldKeys \cup DeliveredKeys \cup swallowed \cup Numbered(tossed)) = {}
        /\ DeliveredKeys \cap (swallowed \cup Numbered(tossed)) = {}
        /\ swallowed \cap Numbered(tossed) = {} /\ pressed \subseteq 1 .. produced
    BY <1>1 DEF KeysOK
  <2>10. /\ pressed' = RingKeys' \cup HeldKeys' \cup DeliveredKeys' \cup swallowed' \cup Numbered(tossed')
         /\ RingKeys' \cap (HeldKeys' \cup DeliveredKeys' \cup swallowed' \cup Numbered(tossed')) = {}
         /\ HeldKeys' \cap (DeliveredKeys' \cup swallowed' \cup Numbered(tossed')) = {}
    BY <2>1, <2>5, <2>6, <2>8, <2>9
  <2> QED BY <2>7, <2>8, <2>9, <2>10 DEF KeysOK
<1>10. PointerOK'
  <2>1. pEnqueueScreen' = pointer'.screen
    BY <1>1, <1>2 DEF PointerOK, inputVars, screenVars
  <2> SUFFICES ASSUME Regular' PROVE ScreensOK' /\ LastPos(pointer.pos)'
    BY <2>1 DEF PointerOK
  <2>2. Regular
    BY <1>2 DEF Regular, lossVars, outputVars
  <2>3. ScreensOK /\ LastPos(pointer.pos)
    BY <1>1, <2>2 DEF PointerOK
  <2>4. /\ Ring[1].pScreen = pDequeueScreen /\ xe = Ring[1].event
        /\ pc = "cross" => IsMotion(xe)
    BY <1>2, <1>3, <2>3 DEF ScreensOK, Removing, Copied
  <2>5. /\ pc' \in {"newscreen", "deliver"} /\ xe' = xe /\ pointer' = pointer
        /\ pDequeueScreen' = pDequeueScreen /\ sprite' = sprite
    BY <1>2 DEF inputVars, outputVars, screenVars
  <2>6. ScreensOK'
    <3>1. LastScreen(pointer.screen)'
      <4>1. ASSUME NEW i \in 1 .. Len(Ring'), \A k \in i + 1 .. Len(Ring') : Key(Ring'[k])
            PROVE  Ring'[i].pScreen = pointer.screen
        <5>1. Ring'[i] = Ring[i + 1] /\ i + 1 \in 1 .. Len(Ring)
          BY <1>5
        <5>2. ASSUME NEW k \in (i + 1) + 1 .. Len(Ring) PROVE Key(Ring[k])
          <6>1. k - 1 \in i + 1 .. Len(Ring') /\ k \in 1 .. Len(Ring) /\ k # 1
            BY <1>3, <1>5
          <6>2. Key(Ring'[k - 1]) /\ Ring'[k - 1] = Ring[k]
            BY <1>5, <4>1, <6>1
          <6> QED BY <6>2 DEF Key
        <5> QED BY <2>3, <5>1, <5>2 DEF ScreensOK, LastScreen
      <4>2. ASSUME \A i \in 1 .. Len(Ring') : Key(Ring'[i])
            PROVE  pDequeueScreen = pointer.screen
        <5>1. \A k \in 1 .. Len(Ring) : k # 1 => Key(Ring[k])
          BY <1>5, <4>2 DEF Key
        <5>2. 1 \in 1 .. Len(Ring) /\ \A k \in 1 + 1 .. Len(Ring) : Key(Ring[k])
          BY <1>3, <5>1
        <5>3. Ring[1].pScreen = pointer.screen
          BY <2>3, <5>2 DEF ScreensOK, LastScreen
        <5> QED BY <2>4, <5>3
      <4> QED BY <2>5, <4>1, <4>2 DEF LastScreen, Key, IsMotion
    <3>2. ASSUME NEW j \in 2 .. Len(Ring'), Key(Ring'[j])
          PROVE  Ring'[j].pScreen = Ring'[j - 1].pScreen
      <4>1. /\ j \in 1 .. Len(Ring') /\ j - 1 \in 1 .. Len(Ring') /\ (j - 1) + 1 = j
            /\ j + 1 \in 2 .. Len(Ring) /\ (j + 1) - 1 = j
        BY <1>3, <1>5
      <4>2. Ring'[j] = Ring[j + 1] /\ Ring'[j - 1] = Ring[j]
        BY <1>5, <4>1
      <4>3. Key(Ring[j + 1])
        BY <3>2, <4>2 DEF Key
      <4> QED BY <2>3, <4>1, <4>2, <4>3 DEF ScreensOK
    <3>3. Ring' # <<>> /\ Key(Ring'[1]) => Ring'[1].pScreen = pDequeueScreen
      <4> SUFFICES ASSUME Ring' # <<>>, Key(Ring'[1]) PROVE Ring'[1].pScreen = pDequeueScreen
        OBVIOUS
      <4>1. Len(Ring) >= 2 /\ 1 \in 1 .. Len(Ring') /\ 2 \in 2 .. Len(Ring) /\ 2 - 1 = 1 /\ 1 + 1 = 2
        BY <1>3, <1>5, <1>6
      <4>2. Ring'[1] = Ring[2]
        BY <1>5, <4>1
      <4>3. Key(Ring[2])
        BY <4>2 DEF Key
      <4> QED BY <2>3, <2>4, <4>1, <4>2, <4>3 DEF ScreensOK
    <3>4. pc' # "newscreen" => sprite.screen = pDequeueScreen
      BY <1>2, <2>3 DEF ScreensOK
    <3>5. pc' = "newscreen" => IsMotion(xe)
      BY <1>2, <2>4
    <3>6. ~Removing' /\ ~Copied' /\ pc' \notin {"switch", "x", "y", "cross"}
      BY <2>5 DEF Removing, Copied
    <3> QED BY <1>6, <2>5, <3>1, <3>2, <3>3, <3>4, <3>5, <3>6 DEF ScreensOK, Key, IsMotion
  <2>7. LastPos(pointer.pos)'
    <3>1. ASSUME NEW i \in 1 .. Len(Ring'), ~Key(Ring'[i]), \A k \in i + 1 .. Len(Ring') : Key(Ring'[k])
          PROVE  Ring'[i].event.n = pointer.pos
      <4>1. Ring'[i] = Ring[i + 1] /\ i + 1 \in 1 .. Len(Ring)
        BY <1>5
      <4>2. ASSUME NEW k \in (i + 1) + 1 .. Len(Ring) PROVE Key(Ring[k])
        <5>1. k - 1 \in i + 1 .. Len(Ring') /\ k \in 1 .. Len(Ring) /\ k # 1
          BY <1>3, <1>5
        <5>2. Key(Ring'[k - 1]) /\ Ring'[k - 1] = Ring[k]
          BY <1>5, <3>1, <5>1
        <5> QED BY <5>2 DEF Key
      <4>3. ~Key(Ring[i + 1])
        BY <3>1, <4>1 DEF Key
      <4> QED BY <2>3, <4>1, <4>2, <4>3 DEF LastPos
    <3>2. ASSUME \A i \in 1 .. Len(Ring') : Key(Ring'[i])
          PROVE  pointer.pos = IF IsMotion(xe) THEN xe.n ELSE sprite.pos
      <4>1. \A k \in 1 .. Len(Ring) : k # 1 => Key(Ring[k])
        BY <1>5, <3>2 DEF Key
      <4>2. CASE Key(Ring[1])
        <5>1. \A i \in 1 .. Len(Ring) : Key(Ring[i])
          BY <4>1, <4>2
        <5>2. ~IsMotion(xe) /\ pc \notin {"newscreen", "deliver"}
          BY <1>2, <2>4, <4>2 DEF Key
        <5> QED BY <2>3, <5>1, <5>2 DEF LastPos
      <4>3. CASE ~Key(Ring[1])
        <5>1. 1 \in 1 .. Len(Ring) /\ \A k \in 1 + 1 .. Len(Ring) : Key(Ring[k])
          BY <1>3, <4>1
        <5>2. Ring[1].event.n = pointer.pos
          BY <2>3, <4>3, <5>1 DEF LastPos
        <5> QED BY <2>4, <4>3, <5>2 DEF Key
      <4> QED BY <4>2, <4>3
    <3> QED BY <2>5, <3>1, <3>2 DEF LastPos, Key, IsMotion
  <2> QED BY <2>6, <2>7
<1> QED BY <1>7, <1>8, <1>9, <1>10 DEF Order

\* An event that was of another screen is used up.
LEMMA CrossScreenOrder == ASSUME OrderInv, QueueInv', CrossScreen PROVE Order'
<1>1. /\ TypeOK /\ TypeOK' /\ Stamped /\ RingOK /\ CopyOK /\ TimesOK /\ KeysOK /\ PointerOK
  BY DEF OrderInv, QueueInv
<1> DEFINE n == IF IsMotion(xe) THEN xe.n ELSE Nowhere
           s == pDequeueScreen
<1>2. /\ pc = "newscreen" /\ pc' = "loop"
      /\ NewCurrentScreen(s, n)
      /\ swallowed' = IF IsMotion(xe) THEN swallowed ELSE swallowed \cup {xe.n}
      /\ UNCHANGED <<now, produced, pressed, delivered, lastTime, backwards, warped,
                     outrun, xe>>
  BY DEF CrossScreen
<1>3. /\ s \in Screens /\ n \in Numbers /\ produced \in Nat /\ xe \in Event /\ now \in Nat
      /\ overtaken' \in BOOLEAN /\ warped' \in BOOLEAN
  <2>1. xe \in Event /\ xe.n \in Numbers /\ Nowhere \in Numbers
    BY <1>1, BoundAssumption DEF TypeOK, Event, Numbers, Nowhere
  <2>2. n \in Numbers
    BY <2>1
  <2> HIDE DEF n
  <2>3. s \in Screens /\ produced \in Nat /\ now \in Nat
    BY <1>1, BoundAssumption DEF TypeOK
  <2>4. overtaken' \in BOOLEAN /\ warped' \in BOOLEAN
    BY <1>1 DEF TypeOK
  <2> QED BY <2>1, <2>2, <2>3, <2>4
<1>4. HeldKeys = (IF IsMotion(xe) THEN {} ELSE {xe.n}) /\ HeldKeys' = {}
  BY <1>2 DEF HeldKeys, Numbered
<1>5. HeldKeys' \cup swallowed' = HeldKeys \cup swallowed /\ HeldKeys' \cap swallowed' = {}
  BY <1>2, <1>4
<1> HIDE DEF n
<1>6. sprite' = [screen |-> s, pos |-> n]
  BY <1>2 DEF NewCurrentScreen
<1>7. CASE s # sprite.screen
  <2>1. miPointerWarpCursor(s, n)
    BY <1>2, <1>7 DEF NewCurrentScreen
  <2>2. sprite'.screen = s
    BY <1>6
  <2>3. Regular /\ ScreensOK /\ ~warped' => s = pDequeueScreen /\ ~warped
    BY DEF Regular
  <2> QED BY <1>2, <1>3, <1>5, <2>1, <2>2, <2>3, WarpOrder DEF OrderInv
<1>8. CASE s = sprite.screen
  <2>1. UNCHANGED <<ringVars, screenVars, pointer, lossVars>>
    BY <1>2, <1>8 DEF NewCurrentScreen
  <2>2. Ring' = Ring
    BY <2>1 DEF Ring, Size, SlotAt, ringVars
  <2> HIDE DEF Ring
  <2>3. Stamped' /\ RingOK' /\ CopyOK' /\ TimesOK'
    BY <1>1, <1>2, <2>1, <2>2
       DEF Stamped, RingOK, CopyOK, Copied, TimesOK, Handed, Key, ringVars
  <2>4. KeysOK'
    <3>1. /\ DeliveredKeys' = DeliveredKeys /\ Numbered(tossed') = Numbered(tossed)
          /\ RingKeys' = RingKeys
      BY <1>2, <2>1, <2>2 DEF DeliveredKeys, RingKeys, Key, lossVars
    <3>2. /\ pressed = RingKeys \cup HeldKeys \cup DeliveredKeys \cup swallowed \cup Numbered(tossed)
          /\ RingKeys \cap (HeldKeys \cup DeliveredKeys \cup swallowed \cup Numbered(tossed)) = {}
          /\ HeldKeys \cap (DeliveredKeys \cup swallowed \cup Numbered(tossed)) = {}
          /\ DeliveredKeys \cap (swallowed \cup Numbered(tossed)) = {}
          /\ swallowed \cap Numbered(tossed) = {} /\ pressed \subseteq 1 .. produced
      BY <1>1 DEF KeysOK
    <3>3. swallowed' = swallowed \cup HeldKeys
      BY <1>2, <1>4
    <3>4. \A i, j \in 1 .. Len(Ring') :
            Key(Ring'[i]) /\ Key(Ring'[j]) /\ Ring'[i].event.n = Ring'[j].event.n => i = j
      BY <1>1, <2>2 DEF KeysOK
    <3> QED BY <1>2, <1>4, <3>1, <3>2, <3>3, <3>4 DEF KeysOK
  <2>5. PointerOK'
    <3>1. pEnqueueScreen' = pointer'.screen
      BY <1>1, <2>1 DEF PointerOK, screenVars
    <3> SUFFICES ASSUME Regular' PROVE ScreensOK' /\ LastPos(pointer.pos)'
      BY <3>1 DEF PointerOK
    <3>2. Regular
      BY <1>2, <2>1 DEF Regular, lossVars
    <3>3. ScreensOK /\ LastPos(pointer.pos)
      BY <1>1, <3>2 DEF PointerOK
    <3>4. IsMotion(xe) /\ n = xe.n
      BY <1>2, <3>3 DEF ScreensOK, n
    <3>5. ScreensOK'
      BY <1>2, <1>6, <1>8, <2>1, <2>2, <3>3
         DEF ScreensOK, LastScreen, Removing, Copied, Key, IsMotion, screenVars
    <3>6. LastPos(pointer.pos)'
      BY <1>2, <1>6, <2>1, <2>2, <3>3, <3>4 DEF LastPos, Key, IsMotion
    <3> QED BY <3>5, <3>6
  <2> QED BY <2>3, <2>4, <2>5 DEF Order
<1> QED BY <1>7, <1>8

\* An event is given to its device.
LEMMA ProcessOrder == ASSUME OrderInv, ProcessInputProc PROVE Order'
<1>1. /\ TypeOK /\ Stamped /\ RingOK /\ CopyOK /\ TimesOK /\ KeysOK /\ PointerOK
  BY DEF OrderInv, QueueInv
<1>2. /\ pc = "deliver" /\ pc' = "process" /\ lastTime' = xe.time
      /\ UNCHANGED <<ringVars, screenVars, inputVars, swallowed, lossVars, warped, outrun, xe>>
      /\ IsMotion(xe) => sprite' = [sprite EXCEPT !.pos = xe.n] /\ delivered' = delivered
      /\ ~IsMotion(xe) => delivered' = Append(delivered, xe.n) /\ sprite' = sprite
  BY DEF ProcessInputProc
<1>3. Ring' = Ring
  BY <1>2 DEF Ring, Size, SlotAt, ringVars
<1> HIDE DEF Ring
<1>4. Stamped' /\ RingOK' /\ CopyOK'
  BY <1>1, <1>2, <1>3 DEF Stamped, RingOK, CopyOK, Copied, Key, ringVars
<1>5. TimesOK'
  BY <1>1, <1>2, <1>3 DEF TimesOK, Handed, inputVars
<1>6. KeysOK'
  <2>1. HeldKeys = (IF IsMotion(xe) THEN {} ELSE {xe.n}) /\ HeldKeys' = {}
    BY <1>2 DEF HeldKeys, Numbered
  <2>2. DeliveredKeys' = DeliveredKeys \cup HeldKeys
    <3>1. CASE IsMotion(xe)
      BY <1>2, <2>1, <3>1 DEF DeliveredKeys
    <3>2. CASE ~IsMotion(xe)
      <4>1. delivered \in Seq(Numbers) /\ xe.n \in Numbers /\ delivered' = Append(delivered, xe.n)
        BY <1>1, <1>2, <3>2 DEF TypeOK, Event
      <4>2. /\ Len(delivered) \in Nat /\ DOMAIN delivered = 1 .. Len(delivered)
            /\ DOMAIN delivered' = 1 .. Len(delivered) + 1
            /\ \A i \in 1 .. Len(delivered) : delivered'[i] = delivered[i]
            /\ delivered'[Len(delivered) + 1] = xe.n
        BY <4>1, AppendProperties, LenProperties
      <4>3. DeliveredKeys' \subseteq DeliveredKeys \cup {xe.n}
        BY <4>2 DEF DeliveredKeys
      <4>4. DeliveredKeys \subseteq DeliveredKeys'
        BY <4>2 DEF DeliveredKeys
      <4>5. xe.n \in DeliveredKeys'
        BY <4>2 DEF DeliveredKeys
      <4> QED BY <2>1, <3>2, <4>3, <4>4, <4>5
    <3> QED BY <3>1, <3>2
  <2>3. /\ Numbered(tossed') = Numbered(tossed) /\ RingKeys' = RingKeys
        /\ swallowed' = swallowed /\ pressed' = pressed /\ produced' = produced
    BY <1>2, <1>3 DEF RingKeys, Key, lossVars, inputVars
  <2>4. /\ pressed = RingKeys \cup HeldKeys \cup DeliveredKeys \cup swallowed \cup Numbered(tossed)
        /\ RingKeys \cap (HeldKeys \cup DeliveredKeys \cup swallowed \cup Numbered(tossed)) = {}
        /\ HeldKeys \cap (DeliveredKeys \cup swallowed \cup Numbered(tossed)) = {}
        /\ DeliveredKeys \cap (swallowed \cup Numbered(tossed)) = {}
        /\ swallowed \cap Numbered(tossed) = {} /\ pressed \subseteq 1 .. produced
    BY <1>1 DEF KeysOK
  <2>5. \A i, j \in 1 .. Len(Ring') :
          Key(Ring'[i]) /\ Key(Ring'[j]) /\ Ring'[i].event.n = Ring'[j].event.n => i = j
    BY <1>1, <1>3 DEF KeysOK
  <2> QED BY <2>1, <2>2, <2>3, <2>4, <2>5 DEF KeysOK
<1>7. PointerOK'
  <2>1. pEnqueueScreen' = pointer'.screen /\ pointer' = pointer /\ pDequeueScreen' = pDequeueScreen
    BY <1>1, <1>2 DEF PointerOK, screenVars, inputVars
  <2> SUFFICES ASSUME Regular' PROVE ScreensOK' /\ LastPos(pointer.pos)'
    BY <2>1 DEF PointerOK
  <2>2. Regular
    BY <1>2 DEF Regular, lossVars
  <2>3. ScreensOK /\ LastPos(pointer.pos)
    BY <1>1, <2>2 DEF PointerOK
  <2>4. sprite'.screen = sprite.screen /\ sprite'.pos = IF IsMotion(xe) THEN xe.n ELSE sprite.pos
    <3>1. sprite \in Position
      BY <1>1 DEF TypeOK
    <3>2. CASE IsMotion(xe)
      BY <1>2, <3>1, <3>2 DEF Position
    <3>3. CASE ~IsMotion(xe)
      BY <1>2, <3>3
    <3> QED BY <3>2, <3>3
  <2>5. ScreensOK'
    BY <1>2, <1>3, <2>1, <2>3, <2>4 DEF ScreensOK, LastScreen, Removing, Copied, Key, IsMotion
  <2>6. LastPos(pointer.pos)'
    BY <1>2, <1>3, <2>1, <2>3, <2>4 DEF LastPos, Key, IsMotion
  <2> QED BY <2>5, <2>6
<1> QED BY <1>4, <1>5, <1>6, <1>7 DEF Order

\* DIX moves sprite and device together, without an event.
LEMMA ConstrainOrder == ASSUME OrderInv, ConstrainPointer PROVE Order'
<1>1. /\ TypeOK /\ Stamped /\ RingOK /\ CopyOK /\ TimesOK /\ KeysOK /\ PointerOK
  BY DEF OrderInv, QueueInv
<1>2. /\ pc \in {"idle", "process"} /\ pc' = pc /\ produced' = produced + 1
      /\ outrun' = (outrun \/ \E i \in 1 .. Size : IsMotion(Queued[i]))
      /\ UNCHANGED <<now, pressed, delivered, swallowed, lastTime, backwards, xe>>
  BY DEF ConstrainPointer, Produce
<1>3. PICK s \in Screens : /\ miPointerWarpSilently(s, produced')
                           /\ sprite' = [screen |-> s, pos |-> produced']
                           /\ warped' = (warped \/ s # sprite.screen)
  <2>1. sprite.screen \in Screens
    BY <1>1 DEF TypeOK, Position
  <2> QED BY <2>1 DEF ConstrainPointer
<1>4. /\ UNCHANGED <<ringVars, lossVars>> /\ MovePointer(s, produced')
  BY <1>3 DEF miPointerWarpSilently
<1>5. Ring' = Ring
  BY <1>4 DEF Ring, Size, SlotAt, ringVars
<1>6. /\ Ring \in Seq(Slot) /\ Len(Ring) = Size
      /\ \A i \in 1 .. Size : Queued[i] = Ring[i].event
  BY <1>1, RingType DEF TypeOK, Slot, Queued
<1> HIDE DEF Ring
<1>7. Stamped' /\ RingOK' /\ CopyOK' /\ TimesOK'
  BY <1>1, <1>2, <1>4, <1>5
     DEF Stamped, RingOK, CopyOK, Copied, TimesOK, Handed, Key, ringVars
<1>8. KeysOK'
  <2>1. HeldKeys' = HeldKeys
    BY <1>2 DEF HeldKeys
  <2>2. /\ DeliveredKeys' = DeliveredKeys /\ Numbered(tossed') = Numbered(tossed)
        /\ RingKeys' = RingKeys /\ swallowed' = swallowed
    BY <1>2, <1>4, <1>5 DEF DeliveredKeys, RingKeys, Key, lossVars
  <2>3. pressed' \subseteq 1 .. produced'
    <3>1. produced \in Nat /\ pressed \subseteq 1 .. produced
      BY <1>1, BoundAssumption DEF TypeOK, KeysOK
    <3> QED BY <1>2, <3>1
  <2> QED BY <1>1, <1>2, <1>5, <2>1, <2>2, <2>3 DEF KeysOK, Key
<1>9. PointerOK'
  <2>1. /\ pEnqueueScreen' = s /\ (s = pointer.screen => pDequeueScreen' = pDequeueScreen)
        /\ pointer' = [screen |-> s, pos |-> produced']
    BY <1>1, <1>4 DEF PointerOK, MovePointer, xf86eqSwitchScreen, screenVars
  <2> SUFFICES ASSUME Regular' PROVE ScreensOK' /\ LastPos(pointer.pos)'
    BY <2>1 DEF PointerOK
  <2>2. Regular /\ s = sprite.screen /\ \A i \in 1 .. Size : ~IsMotion(Queued[i])
    BY <1>2, <1>3, <1>4 DEF Regular, lossVars
  <2>3. ScreensOK /\ LastPos(pointer.pos)
    BY <1>1, <2>2 DEF PointerOK
  <2>4. \A i \in 1 .. Len(Ring) : Key(Ring[i])
    BY <1>6, <2>2 DEF Key
  <2>5. pDequeueScreen = sprite.screen /\ pDequeueScreen = pointer.screen
    BY <1>2, <2>3, <2>4 DEF ScreensOK, LastScreen
  <2>6. pDequeueScreen' = pDequeueScreen /\ pointer'.screen = pointer.screen
    BY <2>1, <2>2, <2>5
  <2>7. ScreensOK'
    BY <1>2, <1>3, <1>5, <2>2, <2>3, <2>5, <2>6
       DEF ScreensOK, LastScreen, Removing, Copied, Key, IsMotion
  <2>8. LastPos(pointer.pos)'
    BY <1>2, <1>3, <1>5, <2>1, <2>4 DEF LastPos, Key, IsMotion
  <2> QED BY <2>7, <2>8
<1> QED BY <1>7, <1>8, <1>9 DEF Order

-----------------------------------------------------------------------------
(* The theorems.                                                           *)

LEMMA InitOrderInv == ASSUME Init PROVE OrderInv
<1>1. QueueInv
  BY InitQueueInv
<1>2. Ring = <<>>
  BY <1>1, RingType DEF Init, QueueInv, TypeOK, Slot
<1> HIDE DEF Ring
<1>3. Len(Ring) = 0
  BY <1>2, EmptySeq
<1>4. Stamped /\ RingOK /\ CopyOK
  BY <1>2 DEF Init, Stamped, RingOK, CopyOK, Copied
<1>5. TimesOK
  BY <1>3 DEF Init, TimesOK, Handed, Motion
<1>6. KeysOK
  <2>1. RingKeys = {} /\ HeldKeys = {} /\ DeliveredKeys = {} /\ Numbered(tossed) = {}
    BY <1>3 DEF Init, RingKeys, HeldKeys, DeliveredKeys, Numbered
  <2> QED BY <1>3, <2>1 DEF Init, KeysOK
<1>7. PointerOK
  BY <1>2, <1>3 DEF Init, PointerOK, ScreensOK, LastScreen, LastPos, Removing, Copied, Motion, IsMotion, Regular
<1> QED BY <1>1, <1>4, <1>5, <1>6, <1>7 DEF OrderInv

LEMMA NextOrderInv == ASSUME OrderInv, [Next]_vars PROVE OrderInv'
<1>1. QueueInv'
  BY NextQueueInv DEF OrderInv
<1>2. /\ TypeOK /\ now \in Nat
  BY BoundAssumption DEF OrderInv, QueueInv, TypeOK
<1>3. Order'
  <2>1. CASE SigioButton
    BY <1>1, <2>1, SigioButtonOrder
  <2>2. CASE SigioMotion
    BY <1>1, <2>2, SigioMotionOrder
  <2>3. CASE WarpPointer
    BY <1>1, <2>3, WarpPointerOrder
  <2>4. CASE KeyStamp
    <3>1. /\ pc = "idle" /\ pc' = "key" /\ xe' = [kind |-> "key", n |-> 0, time |-> now]
          /\ UNCHANGED <<ringVars, screenVars, inputVars, outputVars, lossVars>>
      BY <2>4 DEF KeyStamp
    <3>2. Ring' = Ring
      BY <3>1 DEF Ring, Size, SlotAt, ringVars
    <3>3. xe'.kind = "key" /\ xe'.time <= now' /\ now' = now
      BY <1>2, <3>1 DEF inputVars
    <3> HIDE DEF Ring
    <3> QED BY <1>2, <3>1, <3>2, <3>3, QuietOrder DEF ringVars, inputVars
  <2>5. CASE KeyEnqueue
    BY <1>1, <2>5, KeyEnqueueOrder
  <2>6. CASE Tick
    <3>1. now' = now + 1 /\ UNCHANGED <<ringVars, screenVars, pointer, produced, pressed,
                       outputVars, lossVars, pc, xe>>
      BY <2>6 DEF Tick
    <3>2. Ring' = Ring
      BY <3>1 DEF Ring, Size, SlotAt, ringVars
    <3> HIDE DEF Ring
    <3>3. now' \in Nat /\ now' >= now
      BY <1>2, <3>1
    <3> QED BY <3>1, <3>2, <3>3, QuietOrder DEF ringVars
  <2>7. CASE LoopTest \/ ProcessDone
    <3>1. /\ pc \in {"idle", "loop", "process"} /\ pc' \in {"idle", "loop", "read"}
          /\ UNCHANGED <<ringVars, screenVars, inputVars, outputVars, lossVars, xe>>
      BY <2>7 DEF LoopTest, ProcessDone
    <3>2. Ring' = Ring
      BY <3>1 DEF Ring, Size, SlotAt, ringVars
    <3> HIDE DEF Ring
    <3> QED BY <1>2, <3>1, <3>2, QuietOrder DEF ringVars, inputVars
  <2>8. CASE ReadScreen
    BY <2>8, ReadScreenOrder
  <2>9. CASE CopyEvent
    BY <2>9, CopyEventOrder
  <2>10. CASE AdvanceHead
    BY <2>10, AdvanceHeadOrder
  <2>11. CASE CrossScreen
    BY <1>1, <2>11, CrossScreenOrder
  <2>12. CASE ProcessInputProc
    BY <2>12, ProcessOrder
  <2>13. CASE UNCHANGED vars
    <3>1. UNCHANGED <<ringVars, screenVars, inputVars, outputVars, lossVars, pc, xe>>
      BY <2>13 DEF vars
    <3>2. Ring' = Ring
      BY <3>1 DEF Ring, Size, SlotAt, ringVars
    <3> HIDE DEF Ring
    <3> QED BY <1>2, <3>1, <3>2, QuietOrder DEF ringVars, inputVars
  <2>14. CASE TestScreen
    BY <2>14, TestScreenOrder
  <2>15. CASE CopyRest
    BY <2>15, CopyRestOrder
  <2>16. CASE ConstrainPointer
    BY <2>16, ConstrainOrder
  <2> QED BY <2>1, <2>2, <2>3, <2>4, <2>5, <2>6, <2>7, <2>8, <2>9, <2>10, <2>11, <2>12,
             <2>13, <2>14, <2>15, <2>16 DEF Next, MainThread
<1> QED BY <1>1, <1>3 DEF Order, OrderInv

LEMMA OrderInvHolds == Spec => []OrderInv
<1>1. Init => OrderInv
  BY InitOrderInv
<1>2. OrderInv /\ [Next]_vars => OrderInv'
  BY NextOrderInv
<1> QED BY <1>1, <1>2, PTL DEF Spec

\* The events in the ring, without their screens.
LEMMA QueuedIsRing ==
  ASSUME TypeOK
  PROVE  /\ Queued = [i \in 1 .. Len(Ring) |-> Ring[i].event]
         /\ Len(Ring) = Size /\ Ring \in Seq(Slot)
<1>1. /\ Ring \in Seq(Slot) /\ Len(Ring) = Size
      /\ \A i \in 1 .. Size : Ring[i] = events[SlotAt(i)]
  BY RingType DEF TypeOK, Slot
<1> HIDE DEF Ring
<1>2. Queued = [i \in 1 .. Len(Ring) |-> Ring[i].event]
  BY <1>1 DEF Queued
<1> QED BY <1>1, <1>2

\* Each key and button is in exactly one place, although SIGIO enqueues while
\* the main thread removes, for every size of the ring and number of events.
THEOREM KeysAreAccountedFor == Spec => []EveryKeyAccountedFor
<1>1. OrderInv => EveryKeyAccountedFor
  <2> SUFFICES ASSUME OrderInv PROVE EveryKeyAccountedFor
    OBVIOUS
  <2>1. TypeOK /\ KeysOK
    BY DEF OrderInv, QueueInv
  <2>2. QueuedKeys = RingKeys
    <3>1. Queued = [i \in 1 .. Len(Ring) |-> Ring[i].event] /\ Len(Ring) = Size
      BY <2>1, QueuedIsRing
    <3> HIDE DEF Ring
    <3>2. QueuedKeys = {e.n : e \in {f \in {Ring[i].event : i \in 1 .. Len(Ring)} : ~IsMotion(f)}}
      BY <3>1 DEF QueuedKeys, Numbered
    <3> QED BY <3>2 DEF RingKeys, Key
  <2> DEFINE places == <<QueuedKeys, HeldKeys, DeliveredKeys, swallowed, Numbered(tossed)>>
  <2>3. /\ 1 .. 5 = {1, 2, 3, 4, 5}
        /\ places[1] = QueuedKeys /\ places[2] = HeldKeys /\ places[3] = DeliveredKeys
        /\ places[4] = swallowed /\ places[5] = Numbered(tossed)
    OBVIOUS
  <2>4. /\ pressed = RingKeys \cup HeldKeys \cup DeliveredKeys \cup swallowed \cup Numbered(tossed)
        /\ RingKeys \cap (HeldKeys \cup DeliveredKeys \cup swallowed \cup Numbered(tossed)) = {}
        /\ HeldKeys \cap (DeliveredKeys \cup swallowed \cup Numbered(tossed)) = {}
        /\ DeliveredKeys \cap (swallowed \cup Numbered(tossed)) = {}
        /\ swallowed \cap Numbered(tossed) = {}
    BY <2>1 DEF KeysOK
  <2> HIDE DEF places
  <2>5. UNION {places[i] : i \in 1 .. 5} =
          QueuedKeys \cup HeldKeys \cup DeliveredKeys \cup swallowed \cup Numbered(tossed)
    BY <2>3
  <2>6. \A i, j \in 1 .. 5 : i # j => places[i] \cap places[j] = {}
    <3>1. \A i, j \in {1, 2, 3, 4, 5} : i # j => places[i] \cap places[j] = {}
      BY <2>2, <2>3, <2>4
    <3> QED BY <2>3, <3>1
  <2> QED BY <2>2, <2>4, <2>5, <2>6 DEF EveryKeyAccountedFor, places
<1> QED BY <1>1, OrderInvHolds, PTL

\* Once the ring is empty DIX and device agree on where the pointer is, but
\* for a motion tossed or overtaken, for warps between screens and for the
\* motions that a move without an event has outrun.
THEOREM PointerAgreesWhenDrained == Spec => []DrainedPointerAgrees
<1>1. OrderInv => DrainedPointerAgrees
  <2> SUFFICES ASSUME OrderInv, Drained, ~overtaken, ~warped, ~outrun
               PROVE  sprite = pointer /\ pDequeueScreen = pointer.screen
    BY DEF DrainedPointerAgrees
  <2>1. TypeOK /\ PointerOK
    BY DEF OrderInv, QueueInv
  <2>2. Ring = <<>>
    BY <2>1, RingType DEF Drained, TypeOK, Slot
  <2> HIDE DEF Ring
  <2>3. Len(Ring) = 0 /\ pc = "idle" /\ Regular
    BY <2>2, EmptySeq DEF Drained, Regular
  <2>4. ScreensOK /\ LastPos(pointer.pos)
    BY <2>1, <2>3 DEF PointerOK
  <2>5. sprite.pos = pointer.pos
    BY <2>3, <2>4 DEF LastPos
  <2>6. pDequeueScreen = pointer.screen /\ sprite.screen = pDequeueScreen
    BY <2>2, <2>3, <2>4 DEF ScreensOK, LastScreen
  <2> QED BY <2>1, <2>5, <2>6 DEF TypeOK, Position
<1> QED BY <1>1, OrderInvHolds, PTL

\* Nothing but a key, stamped before SIGIO was blocked, is delivered with an
\* earlier time than the event before it.
THEOREM TimesGoForward == Spec => OnlyKeysGoBackwards
<1>1. OrderInv /\ [Next]_vars => [~backwards /\ backwards' => xe.kind = "key"]_vars
  <2> SUFFICES ASSUME OrderInv, [Next]_vars, ~backwards, backwards' PROVE xe.kind = "key"
    OBVIOUS
  <2>1. CASE ProcessInputProc
    <3>1. xe.time < lastTime /\ pc = "deliver"
      BY <2>1 DEF ProcessInputProc
    <3>2. xe.time \in Nat /\ lastTime \in Nat
      BY BoundAssumption DEF OrderInv, QueueInv, TypeOK, Event
    <3> QED BY <3>1, <3>2 DEF OrderInv, TimesOK, Handed
  <2>2. CASE ~ProcessInputProc
    <3>1. backwards' = backwards
      BY <2>2 DEF Next, MainThread, SigioButton, SigioMotion, WarpPointer, ConstrainPointer,
         KeyStamp, KeyEnqueue, Tick, LoopTest, TestScreen, ReadScreen, CopyEvent, CopyRest,
         AdvanceHead, CrossScreen, ProcessDone, vars, outputVars
    <3> QED BY <3>1
  <2> QED BY <2>1, <2>2
<1> QED BY <1>1, OrderInvHolds, PTL DEF Spec, OnlyKeysGoBackwards

-----------------------------------------------------------------------------
(* The refinement.                                                         *)

\* The item the channel's consumer has read.
Cur == IF Copied THEN xe ELSE NoItem

LEMMA NoItemIsNoEvent == NoItem \notin Event
<1> SUFFICES ASSUME NoItem \in Event PROVE FALSE
  OBVIOUS
<1>1. NoItem.kind \in {"motion", "button", "key"}
  BY DEF Event
<1>2. NoItem.kind = "none"
  BY DEF NoItem
<1> QED BY <1>1, <1>2

\* The same after a step.
LEMMA QueuedNext == (TypeOK => Queued = [i \in 1 .. Len(Ring) |-> Ring[i].event])'
<1>1. TypeOK => Queued = [i \in 1 .. Len(Ring) |-> Ring[i].event]
  BY QueuedIsRing
<1> QED BY <1>1, PTL

\* An enqueue is a step of the channel.
LEMMA EnqueueIsChannelStep ==
  ASSUME TypeOK, TypeOK', NEW x \in Slot, Enqueued(x), arrived' = x.event, Cur' = Cur
  PROVE  Channel!Next
<1> DEFINE e == x.event
           q == Queued
<1>1. e \in Event
  BY DEF Slot
<1>2. /\ q = [i \in 1 .. Len(Ring) |-> Ring[i].event]
      /\ Ring \in Seq(Slot)
  BY QueuedIsRing
<1>3. q' = [i \in 1 .. Len(Ring') |-> Ring'[i].event]
  BY QueuedNext
<1> HIDE DEF Ring, e, q
<1>4. Len(Ring) \in Nat /\ \A i \in 1 .. Len(Ring) : Ring[i].event \in Event
  <2>1. Len(Ring) \in Nat
    BY <1>2, LenProperties
  <2>2. \A i \in 1 .. Len(Ring) : Ring[i] \in Slot
    BY <1>2, ElementOfSeq
  <2> QED BY <2>1, <2>2 DEF Slot
<1>5. q \in Seq(Event) /\ Len(q) = Len(Ring)
  BY <1>2, <1>4
<1>6. CASE Merged(x)
  <2>1. /\ IsMotion(e) /\ Ring # <<>> /\ IsMotion(Ring[Len(Ring)].event)
        /\ tossed' = tossed /\ arrived' = e
    BY <1>6 DEF Merged, Key, e
  <2>2. Len(Ring) >= 1 /\ q # <<>> /\ IsMotion(q[Len(q)])
    BY <1>2, <1>4, <1>5, <2>1, EmptySeq
  <2>3. q' = [q EXCEPT ![Len(q)] = e]
    <3>1. /\ Len(Ring') = Len(Ring) /\ Ring'[Len(Ring)] = x
          /\ \A i \in 1 .. Len(Ring) : i # Len(Ring) => Ring'[i] = Ring[i]
      BY <1>2, <1>6, EnqueuedSlots
    <3>2. q' = [i \in 1 .. Len(Ring) |-> IF i = Len(Ring) THEN e ELSE Ring[i].event]
      BY <1>3, <3>1 DEF e
    <3> QED BY <1>2, <1>5, <3>2
  <2>4. Channel!Supersede(e)
    BY <2>1, <2>2, <2>3 DEF Channel!Supersede, Cur, Copied, q
  <2> QED BY <1>1, <2>4 DEF Channel!Next
<1>7. CASE Appended(x) /\ ~Merged(x)
  <2>1. Len(Ring) < QUEUE_SIZE - 1 /\ tossed' = tossed /\ arrived' = e
    BY <1>7 DEF Appended, lossVars, e
  <2>2. q' = Append(q, e)
    <3>1. /\ Len(Ring') = Len(Ring) + 1 /\ Ring'[Len(Ring) + 1] = x
          /\ \A i \in 1 .. Len(Ring) : Ring'[i] = Ring[i]
      <4>1. /\ Len(Ring') = Len(Ring) + 1 /\ Ring'[Len(Ring')] = x
            /\ \A i \in 1 .. Len(Ring') : i # Len(Ring') => i \in 1 .. Len(Ring) /\ Ring'[i] = Ring[i]
        BY <1>2, <1>7, EnqueuedSlots
      <4> QED BY <1>4, <4>1
    <3>2. q' = [i \in 1 .. Len(Ring) + 1 |-> IF i = Len(Ring) + 1 THEN e ELSE q[i]]
      BY <1>2, <1>3, <1>4, <3>1 DEF e
    <3>3. Append(q, e) = [i \in 1 .. Len(q) + 1 |-> Append(q, e)[i]]
      <4>1. Append(q, e) \in Seq(Event) /\ Len(Append(q, e)) = Len(q) + 1
        BY <1>1, <1>5, AppendProperties
      <4> QED BY <4>1, SeqIsFunction
    <3>4. \A i \in 1 .. Len(q) + 1 : Append(q, e)[i] = IF i = Len(q) + 1 THEN e ELSE q[i]
      BY <1>1, <1>4, <1>5, AppendProperties
    <3> QED BY <1>5, <3>2, <3>3, <3>4
  <2>3. Channel!Put(e)
    BY <1>5, <2>1, <2>2 DEF Channel!Put, Cur, Copied, q
  <2> QED BY <1>1, <2>3 DEF Channel!Next
<1>8. CASE Dropped(x)
  <2>1. Len(Ring) = QUEUE_SIZE - 1 /\ tossed' = tossed \cup {e} /\ arrived' = e /\ Ring' = Ring
    BY <1>8 DEF Dropped, e
  <2>2. q' = q
    BY <1>2, <1>3, <2>1
  <2>3. Channel!Miss(e)
    BY <1>5, <2>1, <2>2 DEF Channel!Miss, Cur, Copied, q
  <2> QED BY <1>1, <2>3 DEF Channel!Next
<1> QED BY <1>6, <1>7, <1>8 DEF Enqueued

\* The same, from a call of xf86eqEnqueue.
LEMMA EnqueueIsStep ==
  ASSUME OrderInv, OrderInv', NEW e \in Event, NEW s \in Screens, xf86eqEnqueue(e, s),
         (~Copied /\ ~Copied') \/ (pc' = pc /\ xe' = xe)
  PROVE  Channel!Next
<1> DEFINE x == [event |-> e, pScreen |-> s]
<1>1. x \in Slot /\ x.event = e
  BY DEF Slot
<1>2. TypeOK /\ TypeOK' /\ RingOK
  BY DEF OrderInv, QueueInv
<1>3. Enqueued(x) /\ arrived' = e
  BY <1>2, EnqueueRing
<1> HIDE DEF x
<1>4. Cur' = Cur
  BY DEF Cur, Copied
<1> QED BY <1>1, <1>2, <1>3, <1>4, EnqueueIsChannelStep

\* So is a warp.
LEMMA WarpIsStep ==
  ASSUME OrderInv, OrderInv', NEW s \in Screens, NEW n \in Numbers, miPointerWarpCursor(s, n),
         ~Copied, ~Copied'
  PROVE  Channel!Next
<1>1. Motion(n, now) \in Event /\ pEnqueueScreen' \in Screens
  BY MotionType DEF OrderInv, QueueInv, TypeOK
<1>2. xf86eqEnqueue(Motion(n, now), pEnqueueScreen')
  BY DEF miPointerWarpCursor
<1> QED BY <1>1, <1>2, EnqueueIsStep

\* A step that leaves the ring and the copy alone is a stutter.
LEMMA SameChannel ==
  ASSUME UNCHANGED <<ringVars, lossVars>>, Cur' = Cur
  PROVE  UNCHANGED Channel!vars
<1>1. Queued' = Queued
  BY DEF Queued, Size, SlotAt, ringVars
<1>2. arrived' = arrived /\ tossed' = tossed
  BY DEF ringVars, lossVars
<1> QED BY <1>1, <1>2 DEF Channel!vars, Cur, Copied

LEMMA ChannelStep ==
  ASSUME OrderInv, OrderInv', [Next]_vars
  PROVE  Channel!Next \/ UNCHANGED Channel!vars
<1>1. TypeOK /\ TypeOK' /\ HeadSlotIsLive
  BY DEF OrderInv, QueueInv
<1>2. /\ now \in 0 .. MaxTime /\ MaxEvents \in Nat /\ MaxTime \in Nat
      /\ produced' \in 0 .. MaxEvents /\ produced' \in Numbers
      /\ pEnqueueScreen \in Screens /\ pEnqueueScreen' \in Screens /\ xe \in Event
  BY <1>1, BoundAssumption DEF TypeOK, Numbers, Nowhere
<1>3. CASE SigioButton
  <2>1. [kind |-> "button", n |-> produced', time |-> now] \in Event
    BY <1>2 DEF Event
  <2>2. /\ xf86eqEnqueue([kind |-> "button", n |-> produced', time |-> now], pEnqueueScreen)
        /\ pc' = pc /\ xe' = xe
    BY <1>3 DEF SigioButton
  <2> QED BY <1>2, <2>1, <2>2, EnqueueIsStep
<1>4. CASE SigioMotion
  <2>1. xf86eqEnqueue(Motion(produced', now), pEnqueueScreen') /\ pc' = pc /\ xe' = xe
    BY <1>4 DEF SigioMotion
  <2>2. Motion(produced', now) \in Event
    BY <1>2, MotionType
  <2> QED BY <1>2, <2>1, <2>2, EnqueueIsStep
<1>5. CASE WarpPointer
  <2>1. pc \in {"idle", "process"} /\ pc' = pc
    BY <1>5 DEF WarpPointer
  <2>2. PICK s \in Screens : miPointerWarpCursor(s, produced')
    <3>1. CASE miPointerWarpCursor(sprite.screen, produced')
      BY <1>1, <3>1 DEF TypeOK, Position
    <3>2. CASE \E s \in Screens \ {sprite.screen} : NewCurrentScreen(s, produced')
      BY <3>2 DEF NewCurrentScreen
    <3> QED BY <1>5, <3>1, <3>2 DEF WarpPointer
  <2>3. ~Copied /\ ~Copied'
    BY <2>1 DEF Copied
  <2> QED BY <1>2, <2>2, <2>3, WarpIsStep
<1>6. CASE KeyEnqueue
  <2>1. /\ xf86eqEnqueue([xe EXCEPT !.n = produced'], pEnqueueScreen) /\ pc = "key" /\ pc' = "idle"
    BY <1>6 DEF KeyEnqueue
  <2>2. [xe EXCEPT !.n = produced'] \in Event
    BY <1>2 DEF Event
  <2>3. ~Copied /\ ~Copied'
    BY <2>1 DEF Copied
  <2> QED BY <1>2, <2>1, <2>2, <2>3, EnqueueIsStep
<1>7. CASE CrossScreen
  <2>1. ~Copied /\ ~Copied'
    BY <1>7 DEF CrossScreen, Copied
  <2>2. PICK n \in Numbers : NewCurrentScreen(pDequeueScreen, n)
    <3>1. xe.n \in Numbers /\ Nowhere \in Numbers
      BY <1>2 DEF Event, Numbers, Nowhere
    <3> QED BY <1>7, <3>1 DEF CrossScreen
  <2>3. CASE pDequeueScreen = sprite.screen
    <3>1. UNCHANGED <<ringVars, lossVars>>
      BY <2>2, <2>3 DEF NewCurrentScreen
    <3>2. Cur' = Cur
      BY <2>1 DEF Cur
    <3> QED BY <3>1, <3>2, SameChannel
  <2>4. CASE pDequeueScreen # sprite.screen
    <3>1. miPointerWarpCursor(pDequeueScreen, n) /\ pDequeueScreen \in Screens
      BY <1>1, <2>2, <2>4 DEF NewCurrentScreen, TypeOK
    <3> QED BY <2>1, <3>1, WarpIsStep
  <2> QED BY <2>3, <2>4
<1>8. CASE CopyEvent
  <2>1. /\ pc \in {"x", "copy"} /\ pc' \in {"y", "copying"} /\ xe' = events[head].event
        /\ UNCHANGED <<ringVars, screenVars, inputVars, outputVars, lossVars>>
    BY <1>8 DEF CopyEvent
  <2>2. /\ Ring # <<>> /\ Len(Ring) \in Nat /\ Len(Ring) >= 1 /\ Ring[1] = events[head]
    BY <1>1, <2>1, HeadIsFirst DEF HeadSlotIsLive, Removing
  <2>3. Queued = [i \in 1 .. Len(Ring) |-> Ring[i].event]
    BY <1>1, QueuedIsRing
  <2>4. Queued # <<>> /\ Head(Queued) = xe'
    <3> HIDE DEF Ring, Queued
    <3>1. Queued[1] = xe' /\ 1 \in DOMAIN Queued
      BY <2>1, <2>2, <2>3
    <3>2. Head(Queued) = Queued[1]
      BY <2>2, <2>3
    <3> QED BY <3>1, <3>2
  <2>5. Cur = NoItem /\ Cur' = xe'
    BY <2>1 DEF Cur, Copied
  <2>6. UNCHANGED <<arrived, Queued, tossed>>
    BY <2>1 DEF ringVars, lossVars, Queued, Size, SlotAt
  <2>7. Channel!Read
    BY <2>4, <2>5, <2>6 DEF Channel!Read, Cur, Copied
  <2> QED BY <2>7 DEF Channel!Next
<1>9. CASE AdvanceHead
  <2>1. /\ pc \in {"cross", "advance"} /\ pc' \in {"newscreen", "deliver"} /\ head' = Succ(head)
        /\ UNCHANGED <<tail, events, arrived, tossed>>
    BY <1>9 DEF AdvanceHead, lossVars
  <2>2. /\ Ring \in Seq(Slot) /\ Ring # <<>> /\ Len(Ring) \in Nat /\ Len(Ring) >= 1 /\ head # tail
    BY <1>1, <2>1, HeadIsFirst DEF HeadSlotIsLive, Removing
  <2>3. Ring' = Tail(Ring)
    BY <1>1, <2>1, <2>2, RingAdvances DEF TypeOK, Slot
  <2>4. Queued = [i \in 1 .. Len(Ring) |-> Ring[i].event]
    BY <1>1, QueuedIsRing
  <2>5. Queued' = [i \in 1 .. Len(Ring') |-> Ring'[i].event]
    BY <1>1, QueuedNext
  <2>6. Queued' = Tail(Queued)
    <3> DEFINE q == Queued
    <3> HIDE DEF Ring, q
    <3>1. Len(Ring') = Len(Ring) - 1 /\ \A i \in 1 .. Len(Ring) - 1 : Ring'[i] = Ring[i + 1]
      BY <2>2, <2>3, HeadTailProperties
    <3>2. q \in Seq(Event) /\ Len(q) = Len(Ring) /\ q # <<>>
      <4>1. \A i \in 1 .. Len(Ring) : Ring[i] \in Slot
        BY <2>2, ElementOfSeq
      <4>2. \A i \in 1 .. Len(Ring) : Ring[i].event \in Event
        BY <4>1 DEF Slot
      <4>3. q \in Seq(Event) /\ Len(q) = Len(Ring)
        BY <2>2, <2>4, <4>2 DEF q
      <4> QED BY <2>2, <4>3, EmptySeq
    <3>3. /\ Tail(q) \in Seq(Event) /\ Len(Tail(q)) = Len(Ring) - 1
          /\ \A i \in 1 .. Len(Ring) - 1 : Tail(q)[i] = q[i + 1]
      BY <3>2, HeadTailProperties
    <3>4. Tail(q) = [i \in 1 .. Len(Ring) - 1 |-> Tail(q)[i]]
      BY <3>3, SeqIsFunction
    <3>5. \A i \in 1 .. Len(Ring) - 1 : q[i + 1] = Ring'[i].event
      BY <2>2, <2>4, <3>1 DEF q
    <3>6. q' = [i \in 1 .. Len(Ring) - 1 |-> Tail(q)[i]]
      BY <2>5, <3>1, <3>3, <3>5 DEF q
    <3> QED BY <3>4, <3>6 DEF q
  <2>7. Cur = xe /\ Cur' = NoItem /\ xe # NoItem
    BY <1>2, <2>1, NoItemIsNoEvent DEF Cur, Copied
  <2>8. Channel!Remove
    BY <2>1, <2>6, <2>7 DEF Channel!Remove, Cur, Copied
  <2> QED BY <2>8 DEF Channel!Next
<1>10. CASE KeyStamp
  <2>1. UNCHANGED <<ringVars, lossVars>> /\ pc = "idle" /\ pc' = "key"
    BY <1>10 DEF KeyStamp
  <2>2. Cur' = Cur
    BY <2>1 DEF Cur, Copied
  <2> QED BY <2>1, <2>2, SameChannel
<1>11. CASE Tick \/ ConstrainPointer \/ UNCHANGED vars
  <2>1. UNCHANGED <<ringVars, lossVars>> /\ pc' = pc /\ xe' = xe
    BY <1>11 DEF Tick, ConstrainPointer, miPointerWarpSilently, vars
  <2>2. Cur' = Cur
    BY <2>1 DEF Cur, Copied
  <2> QED BY <2>1, <2>2, SameChannel
<1>12. CASE LoopTest \/ TestScreen \/ ReadScreen \/ ProcessInputProc \/ ProcessDone
  <2>1. UNCHANGED <<ringVars, lossVars>>
    BY <1>12 DEF LoopTest, TestScreen, ReadScreen, ProcessInputProc, ProcessDone
  <2>2. ~Copied /\ ~Copied'
    BY <1>12 DEF LoopTest, TestScreen, ReadScreen, ProcessInputProc, ProcessDone, Copied
  <2>3. Cur' = Cur
    BY <2>2 DEF Cur
  <2> QED BY <2>1, <2>3, SameChannel
<1>13. CASE CopyRest
  <2>1. /\ Copied /\ Copied' /\ xe' \in Mixtures(xe, events[head].event)
        /\ UNCHANGED <<ringVars, screenVars, inputVars, outputVars, lossVars>>
    BY <1>13 DEF CopyRest, Copied
  <2>2. /\ Ring # <<>> /\ Len(Ring) \in Nat /\ Len(Ring) >= 1 /\ Ring[1] = events[head]
        /\ Ring[1] \in Slot
    BY <1>1, <2>1, HeadIsFirst DEF HeadSlotIsLive, Removing, Copied
  <2>3. Queued = [i \in 1 .. Len(Ring) |-> Ring[i].event]
    BY <1>1, QueuedIsRing
  <2>4. Queued # <<>> /\ Head(Queued) = Ring[1].event
    <3> HIDE DEF Ring, Queued
    <3>1. Queued[1] = Ring[1].event /\ 1 \in DOMAIN Queued
      BY <2>2, <2>3
    <3>2. Head(Queued) = Queued[1]
      BY <2>2, <2>3
    <3> QED BY <3>1, <3>2
  <2>5. Cur = xe /\ Cur' = xe' /\ xe # NoItem /\ UNCHANGED <<arrived, Queued, tossed>>
    <3>1. UNCHANGED <<arrived, Queued, tossed>>
      BY <2>1 DEF ringVars, lossVars, Queued, Size, SlotAt
    <3> QED BY <1>2, <2>1, <3>1, NoItemIsNoEvent DEF Cur
  <2>6. Ring[1].event \in Event /\ CopyOK
    BY <2>2 DEF Slot, OrderInv
  <2> HIDE DEF Ring
  <2>7. CASE xe # Ring[1].event
    <3>1. IsMotion(xe) /\ IsMotion(Ring[1].event)
      BY <2>1, <2>6, <2>7 DEF CopyOK, Key
    <3>2. Channel!Tear
      BY <2>1, <2>2, <2>4, <2>5, <2>7, <3>1 DEF Channel!Tear, Cur, Copied
    <3> QED BY <3>2 DEF Channel!Next
  <2>8. CASE xe = Ring[1].event
    <3>2. xe' = xe
      BY <1>2, <2>1, <2>2, <2>8, UntornCopy
    <3>3. Cur' = Cur
      BY <2>5, <3>2
    <3> QED BY <2>1, <3>3, SameChannel
  <2> QED BY <2>7, <2>8
<1> QED BY <1>3, <1>4, <1>5, <1>6, <1>7, <1>8, <1>9, <1>10, <1>11, <1>12, <1>13 DEF Next, MainThread

\* The ring with its unlocked cursors is a bounded channel, first in first out:
\* what the main thread takes is what was enqueued, unless it is a motion that
\* was superseded while it was being copied.
THEOREM RingImplementsChannel == Spec => ImplementsChannel
<1>1. Init => Channel!Init
  <2> SUFFICES ASSUME Init PROVE Channel!Init
    OBVIOUS
  <2>1. OrderInv
    BY InitOrderInv
  <2>2. Size = 0
    BY DEF Init, Size
  <2>3. Queued = <<>>
    BY <2>2 DEF Queued
  <2>4. arrived \in Event /\ tossed = {} /\ pc = "idle"
    BY <2>1 DEF OrderInv, QueueInv, TypeOK, Init
  <2> QED BY <2>3, <2>4 DEF Channel!Init
<1>2. OrderInv /\ OrderInv' /\ [Next]_vars => [Channel!Next]_(Channel!vars)
  BY ChannelStep
<1> QED BY <1>1, <1>2, OrderInvHolds, PTL DEF Spec, ImplementsChannel, Channel!Spec

=============================================================================
