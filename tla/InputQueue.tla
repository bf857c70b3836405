----------------------------- MODULE InputQueue -----------------------------
(***************************************************************************)
(* The hardware event queue of the XFree86 DDX: xf86eqEnqueue and          *)
(* xf86eqProcessInputEvents (hw/xfree86/common/xf86Xinput.c; mi/mieq.c is  *)
(* the same algorithm) between the device readers, mi/mipointer.c and DIX. *)
(* The pointer device is read in the SIGIO handler, which runs to          *)
(* completion between any two steps of the main thread; the keyboard and   *)
(* cursor warps run in the main thread with SIGIO blocked around the       *)
(* enqueue only.  The main thread removes an event in several steps (test  *)
(* the screen, read it, copy the event in two parts, advance head, deliver) *)
(* and does not block SIGIO between them.                                  *)
(*                                                                         *)
(* An event is a kind, a time, and a number: the place of a key or button  *)
(* among the events produced, or the position a motion reports.  The       *)
(* compiler is taken to keep the copy before the store to head, and to be  *)
(* free in the order in which it copies the parts of an event.             *)
(*                                                                         *)
(* A definition marked "mutant" is a deliberately wrong variant of the one *)
(* that follows it; no specification uses it.  PROJECT.json names the      *)
(* property that tells the two apart.                                      *)
(***************************************************************************)
EXTENDS Naturals, Sequences, FiniteSets

CONSTANTS QUEUE_SIZE,   \* slots of the ring (256 in the code)
          Screens,      \* screenInfo.screens
          Screen0,      \* screens[0]
          TimeSlack,    \* 10000 ms in the code
          ScreenWarps,  \* do clients warp the pointer to other screens?
          MaxEvents,    \* bound on the events and warps produced
          MaxTime       \* bound on the millisecond clock

ASSUME QueueSizeAssumption == QUEUE_SIZE \in Nat /\ QUEUE_SIZE >= 2
ASSUME ScreensAssumption == Screen0 \in Screens
ASSUME BoundAssumption == /\ ScreenWarps \in BOOLEAN
                          /\ TimeSlack \in Nat
                          /\ MaxEvents \in Nat
                          /\ MaxTime \in Nat

Slots == 0 .. QUEUE_SIZE - 1
Nowhere == MaxEvents + 1    \* coordinates no device reported (uninitialized or torn)
Numbers == 0 .. Nowhere
Event == [kind : {"motion", "button", "key"}, n : Numbers, time : 0 .. MaxTime]
Motion(n, t) == [kind |-> "motion", n |-> n, time |-> t]
Position == [screen : Screens, pos : Numbers]

VARIABLES
  head, tail,       \* xf86EventQueue.head, .tail
  events,           \* xf86EventQueue.events
  lastMotion,       \* the newest queued event is a motion
  lastEventTime,    \* xf86EventQueue.lastEventTime
  pEnqueueScreen,   \* screen stored with new events
  pDequeueScreen,   \* screen events are dispatched to
  pc,               \* where the main thread is
  xe,               \* the main thread's copy of an event (xe, or x and y)
  pointer,          \* miPointer: where the device moved the cursor
  sprite,           \* sprite.hotPhys: where DIX believes the pointer is
  now,              \* GetTimeInMillis()
  produced,         \* number of events and warps so far
  arrived,          \* the last event given to xf86eqEnqueue
  pressed,          \* the keys and buttons among them
  delivered,        \* keys and buttons given to processInputProc, in order
  swallowed,        \* keys and buttons consumed as a change of screen
  tossed,           \* events dropped because the ring was full
  overtaken,        \* a motion was written to the slot being removed
  lastTime,         \* time of the last event delivered
  backwards,        \* an event was delivered with an earlier time than that
  warped,           \* the main thread has warped the pointer to another screen
  outrun            \* it has moved the pointer without an event, past queued motions

ringVars == <<head, tail, events, lastMotion, lastEventTime, arrived>>
screenVars == <<pEnqueueScreen, pDequeueScreen>>
inputVars == <<pointer, now, produced, pressed>>
outputVars == <<sprite, delivered, swallowed, lastTime, backwards, warped,
                outrun>>
lossVars == <<tossed, overtaken>>
vars == <<ringVars, screenVars, inputVars, outputVars, lossVars, pc, xe>>

Init ==
  /\ head = 0 /\ tail = 0
  /\ events = [s \in Slots |-> [event |-> Motion(0, 0), pScreen |-> Screen0]]
  /\ lastMotion = FALSE
  /\ lastEventTime = 0
  /\ pEnqueueScreen = Screen0 /\ pDequeueScreen = Screen0
  /\ pc = "idle"
  /\ xe = Motion(0, 0) /\ arrived = Motion(0, 0)
  /\ pointer = [screen |-> Screen0, pos |-> 0]
  /\ sprite = [screen |-> Screen0, pos |-> 0]
  /\ now = 0 /\ lastTime = 0
  /\ produced = 0
  /\ pressed = {} /\ delivered = <<>> /\ swallowed = {} /\ tossed = {}
  /\ overtaken = FALSE /\ backwards = FALSE /\ warped = FALSE /\ outrun = FALSE

-----------------------------------------------------------------------------
(* The producer.                                                           *)

Succ(i) == IF i = QUEUE_SIZE - 1 THEN 0 ELSE i + 1
Pred(i) == IF i = 0 THEN QUEUE_SIZE - 1 ELSE i - 1

IsMotion(e) == e.kind = "motion"

\* The events in the ring, oldest first.
Size == IF tail >= head THEN tail - head ELSE tail + QUEUE_SIZE - head
SlotAt(i) == (head + i - 1) % QUEUE_SIZE
Queued == [i \in 1 .. Size |-> events[SlotAt(i)].event]

\* (mutants: one of the conditions is dropped)
MergesIntoAnything(e) == IsMotion(e) /\ tail # head
MergesIntoEmpty(e) == IsMotion(e) /\ lastMotion

\* A motion that follows a motion still in the ring takes its slot.
Merges(e) == IsMotion(e) /\ lastMotion /\ tail # head

\* A time up to TimeSlack earlier than lastEventTime is raised to it.
FixTime(e) == IF e.time < lastEventTime /\ lastEventTime - e.time < TimeSlack
              THEN [e EXCEPT !.time = lastEventTime]
              ELSE e

\* The main thread is between its first look at the head slot and ++head.
Removing == pc \in {"switch", "x", "y", "cross", "copy", "copying", "advance"}

MergeMotion(e, screen) ==
  /\ Merges(e)
  /\ events' = [events EXCEPT ![Pred(tail)] =
                  [event |-> FixTime(e), pScreen |-> screen]]
  /\ overtaken' = (overtaken \/ (Removing /\ Pred(tail) = head))
  /\ UNCHANGED <<tail, lastMotion, tossed>>

\* (mutant: the ring is not tested for being full)
AppendEventUnchecked(e, screen) ==
  /\ ~Merges(e)
  /\ tail' = Succ(tail)
  /\ lastMotion' = IsMotion(e)
  /\ events' = [events EXCEPT ![tail] =
                  [event |-> FixTime(e), pScreen |-> screen]]
  /\ UNCHANGED lossVars

AppendEvent(e, screen) ==
  /\ ~Merges(e)
  /\ Succ(tail) # head
  /\ tail' = Succ(tail)
  /\ lastMotion' = IsMotion(e)
  /\ events' = [events EXCEPT ![tail] =
                  [event |-> FixTime(e), pScreen |-> screen]]
  /\ UNCHANGED lossVars

TossEvent(e) ==
  /\ ~Merges(e)
  /\ Succ(tail) = head
  /\ tossed' = tossed \cup {e}
  /\ UNCHANGED <<tail, lastMotion, events, overtaken>>

xf86eqEnqueue(e, screen) ==
  /\ MergeMotion(e, screen) \/ AppendEvent(e, screen) \/ TossEvent(e)
  /\ arrived' = e
  /\ UNCHANGED <<head, lastEventTime>>

\* (mutant: a switch by the device leaves the enqueue screen alone)
SwitchScreenOnlyDIX(s, fromDIX) ==
  /\ pEnqueueScreen' = IF fromDIX THEN s ELSE pEnqueueScreen
  /\ pDequeueScreen' = IF fromDIX THEN s ELSE pDequeueScreen

xf86eqSwitchScreen(s, fromDIX) ==
  /\ pEnqueueScreen' = s
  /\ pDequeueScreen' = IF fromDIX THEN s ELSE pDequeueScreen

\* The bound on events; a stamped key event has its number reserved.
Produce == /\ produced + (IF pc = "key" THEN 1 ELSE 0) < MaxEvents
           /\ produced' = produced + 1

\* SIGIO: the mouse reports a button (xf86PostButtonEvent).
SigioButton ==
  /\ Produce
  /\ pressed' = pressed \cup {produced'}
  /\ xf86eqEnqueue([kind |-> "button", n |-> produced', time |-> now],
                   pEnqueueScreen)
  /\ UNCHANGED <<screenVars, pointer, now, outputVars, pc, xe>>

\* SIGIO: the mouse moves, possibly off its screen onto another one
\* (miPointerAbsoluteCursor, NewEventScreen(pScreen, FALSE), miPointerMove).
SigioMotion ==
  /\ Produce
  /\ \E s \in Screens :
       /\ IF s = pointer.screen THEN UNCHANGED screenVars
                                ELSE xf86eqSwitchScreen(s, FALSE)
       /\ pointer' = [screen |-> s, pos |-> produced']
       /\ xf86eqEnqueue(Motion(produced', now), pEnqueueScreen')
  /\ UNCHANGED <<now, pressed, outputVars, pc, xe>>

\* xf86WarpCursor: with SIGIO blocked the cursor is put at a position,
MovePointer(s, pos) ==
  /\ IF s = pointer.screen THEN UNCHANGED screenVars
                           ELSE xf86eqSwitchScreen(s, TRUE)
  /\ pointer' = [screen |-> s, pos |-> pos]

\* ... with GenerateEvent by a motion event that DIX will see,
miPointerWarpCursor(s, pos) ==
  /\ MovePointer(s, pos)
  /\ xf86eqEnqueue(Motion(pos, now), pEnqueueScreen')

\* ... without it silently: DIX has placed its sprite already, or is about to.
miPointerWarpSilently(s, pos) ==
  /\ MovePointer(s, pos)
  /\ UNCHANGED <<ringVars, lossVars>>

\* DIX: the sprite enters screen s at pos.  A new screen confines the cursor
\* to its root window, and CheckPhysLimits warps the device there.
NewCurrentScreen(s, pos) ==
  /\ sprite' = [screen |-> s, pos |-> pos]
  /\ IF s = sprite.screen
     THEN UNCHANGED <<ringVars, screenVars, pointer, lossVars>>
     ELSE miPointerWarpCursor(s, pos)

\* A client warps the pointer (ProcWarpPointer), or DIX moves it inside its
\* limits (CheckPhysLimits with generateEvents), perhaps on another screen.
WarpPointer ==
  /\ pc \in {"idle", "process"}
  /\ Produce
  /\ \/ /\ miPointerWarpCursor(sprite.screen, produced')
        /\ UNCHANGED <<sprite, warped>>
     \/ /\ ScreenWarps
        /\ \E s \in Screens \ {sprite.screen} : NewCurrentScreen(s, produced')
        /\ warped' = TRUE
  /\ UNCHANGED <<now, pressed, delivered, swallowed, lastTime, backwards, outrun, pc, xe>>

\* The motion just delivered is outside the limits of the cursor (CheckMotion),
\* or they have changed, with a cursor, a grab or its end (CheckPhysLimits
\* without generateEvents, which hands DIX a SyntheticMotion).  Sprite and
\* device move together; motions still queued are not taken back.
ConstrainPointer ==
  /\ pc \in {"idle", "process"}
  /\ Produce
  /\ \E s \in IF ScreenWarps THEN Screens ELSE {sprite.screen} :
       /\ miPointerWarpSilently(s, produced')
       /\ sprite' = [screen |-> s, pos |-> produced']
       /\ warped' = (warped \/ s # sprite.screen)
  /\ outrun' = (outrun \/ \E i \in 1 .. Size : IsMotion(Queued[i]))
  /\ UNCHANGED <<now, pressed, delivered, swallowed, lastTime, backwards, pc, xe>>

\* xf86Wakeup calls kbdEvents: xf86PostKbdEvent reads the clock first ...
KeyStamp ==
  /\ pc = "idle"
  /\ produced < MaxEvents
  /\ xe' = [kind |-> "key", n |-> 0, time |-> now]
  /\ pc' = "key"
  /\ UNCHANGED <<ringVars, screenVars, inputVars, outputVars, lossVars>>

\* ... and then enqueues the event with SIGIO blocked (EqEnqueue).
KeyEnqueue ==
  /\ pc = "key"
  /\ pc' = "idle"
  /\ produced' = produced + 1
  /\ pressed' = pressed \cup {produced'}
  /\ xf86eqEnqueue([xe EXCEPT !.n = produced'], pEnqueueScreen)
  /\ UNCHANGED <<screenVars, pointer, now, outputVars, xe>>

Tick == /\ now < MaxTime
        /\ now' = now + 1
        /\ UNCHANGED <<ringVars, screenVars, pointer, produced, pressed,
                       outputVars, lossVars, pc, xe>>

-----------------------------------------------------------------------------
(* The consumer.  Dispatch compares *icheck[0] with *icheck[1] and calls   *)
(* ProcessInputEvents, which runs the loop of xf86eqProcessInputEvents.    *)

LoopTest ==
  /\ pc = "idle" => head # tail
  /\ pc \in {"idle", "loop"}
  /\ pc' = IF head # tail THEN "read" ELSE "idle"
  /\ UNCHANGED <<ringVars, screenVars, inputVars, outputVars, lossVars, xe>>

\* if (e->pScreen != pDequeueScreen) ...
TestScreen ==
  /\ pc = "read"
  /\ pc' = IF events[head].pScreen # pDequeueScreen THEN "switch" ELSE "copy"
  /\ UNCHANGED <<ringVars, screenVars, inputVars, outputVars, lossVars, xe>>

\* ... pDequeueScreen = e->pScreen, which may be read again.
ReadScreen ==
  /\ pc = "switch"
  /\ pDequeueScreen' = events[head].pScreen
  /\ pc' = "x"
  /\ UNCHANGED <<ringVars, pEnqueueScreen, inputVars, outputVars, lossVars, xe>>

\* x = rootX, or the first words of xe.event = e->event; ...
CopyEvent ==
  /\ pc \in {"x", "copy"}
  /\ xe' = events[head].event
  /\ pc' = IF pc = "x" THEN "y" ELSE "copying"
  /\ UNCHANGED <<ringVars, screenVars, inputVars, outputVars, lossVars>>

\* What a copy can be of a slot that held a at first and b at last.
Mixtures(a, b) == [kind : {a.kind}, time : {a.time, b.time},
                   n : IF a.n = b.n THEN {a.n} ELSE {a.n, b.n, Nowhere}]

\* ... y = rootY, or the other words.
CopyRest ==
  /\ pc \in {"y", "copying"}
  /\ xe' \in Mixtures(xe, events[head].event)
  /\ pc' = IF pc = "y" THEN "cross" ELSE "advance"
  /\ UNCHANGED <<ringVars, screenVars, inputVars, outputVars, lossVars>>

\* (mutant: the wrap skips slot 0)
AdvanceHeadSkipsZero ==
  /\ pc \in {"cross", "advance"}
  /\ head' = IF head = QUEUE_SIZE - 1 THEN 1 ELSE head + 1
  /\ pc' = IF pc = "cross" THEN "newscreen" ELSE "deliver"
  /\ UNCHANGED <<tail, events, lastMotion, lastEventTime, arrived, screenVars,
                 inputVars, outputVars, lossVars, xe>>

\* (mutant: a motion is left in the ring for later motions to merge into)
AdvanceHeadKeepsMotion ==
  /\ pc \in {"cross", "advance"}
  /\ head' = IF lastMotion /\ Size = 1 THEN head ELSE Succ(head)
  /\ pc' = IF pc = "cross" THEN "newscreen" ELSE "deliver"
  /\ UNCHANGED <<tail, events, lastMotion, lastEventTime, arrived, screenVars,
                 inputVars, outputVars, lossVars, xe>>

\* if (head == QUEUE_SIZE - 1) head = 0; else ++head;
AdvanceHead ==
  /\ pc \in {"cross", "advance"}
  /\ head' = Succ(head)
  /\ pc' = IF pc = "cross" THEN "newscreen" ELSE "deliver"
  /\ UNCHANGED <<tail, events, lastMotion, lastEventTime, arrived, screenVars,
                 inputVars, outputVars, lossVars, xe>>

\* NewCurrentScreen(pDequeueScreen, x, y); the event itself goes no further.
\* Only motions carry coordinates.
CrossScreen ==
  /\ pc = "newscreen"
  /\ NewCurrentScreen(pDequeueScreen, IF IsMotion(xe) THEN xe.n ELSE Nowhere)
  /\ swallowed' = IF IsMotion(xe) THEN swallowed ELSE swallowed \cup {xe.n}
  /\ pc' = "loop"
  /\ UNCHANGED <<now, produced, pressed, delivered, lastTime, backwards, warped,
                 outrun, xe>>

\* (*processInputProc)(&xe.event, ...)
ProcessInputProc ==
  /\ pc = "deliver"
  /\ IF IsMotion(xe)
     THEN sprite' = [sprite EXCEPT !.pos = xe.n] /\ UNCHANGED delivered
     ELSE delivered' = Append(delivered, xe.n) /\ UNCHANGED sprite
  /\ lastTime' = xe.time
  /\ backwards' = (backwards \/ xe.time < lastTime)
  /\ pc' = "process"
  /\ UNCHANGED <<ringVars, screenVars, inputVars, swallowed, lossVars, warped,
                 outrun, xe>>

ProcessDone ==
  /\ pc = "process"
  /\ pc' = "loop"
  /\ UNCHANGED <<ringVars, screenVars, inputVars, outputVars, lossVars, xe>>

MainThread == \/ LoopTest \/ TestScreen \/ ReadScreen \/ CopyEvent \/ CopyRest \/ AdvanceHead
              \/ CrossScreen \/ ProcessInputProc \/ ProcessDone \/ KeyEnqueue

Next == \/ SigioButton \/ SigioMotion \/ WarpPointer \/ ConstrainPointer
        \/ KeyStamp \/ Tick \/ MainThread

Spec == Init /\ [][Next]_vars

\* The main thread is never blocked for good between two of its own steps.
FairSpec == Spec /\ WF_vars(MainThread)

-----------------------------------------------------------------------------
(* The ring implements the channel; the slot's screen is not part of it.   *)

NoItem == [kind |-> "none"]

Channel == INSTANCE EventChannel WITH
             Item <- Event, None <- NoItem, Capacity <- QUEUE_SIZE - 1,
             IsMotion <- IsMotion, Mixtures <- Mixtures,
             q <- Queued,
             cur <- IF pc \in {"y", "cross", "copying", "advance"} THEN xe ELSE NoItem,
             last <- arrived, missed <- tossed

-----------------------------------------------------------------------------
(* Properties.                                                             *)

\* Every variable stays in its type.
TypeOK ==
  /\ head \in Slots /\ tail \in Slots
  /\ events \in [Slots -> [event : Event, pScreen : Screens]]
  /\ lastMotion \in BOOLEAN
  /\ lastEventTime \in 0 .. MaxTime
  /\ pEnqueueScreen \in Screens /\ pDequeueScreen \in Screens
  /\ pc \in {"idle", "key", "loop", "read", "switch", "x", "y", "cross", "newscreen",
             "copy", "copying", "advance", "deliver", "process"}
  /\ xe \in Event /\ arrived \in Event
  /\ pointer \in Position /\ sprite \in Position
  /\ now \in 0 .. MaxTime /\ lastTime \in 0 .. MaxTime
  /\ produced \in 0 .. MaxEvents
  /\ pressed \subseteq Numbers
  /\ delivered \in Seq(Numbers)
  /\ swallowed \subseteq Numbers
  /\ tossed \subseteq Event
  /\ overtaken \in BOOLEAN /\ backwards \in BOOLEAN
  /\ warped \in BOOLEAN /\ outrun \in BOOLEAN

\* From its first look at the head slot to the moment it advances head, the
\* main thread works on a slot that holds an event: no SIGIO can make the
\* ring look empty under it, although the enqueuer moves tail without a lock.
HeadSlotIsLive == pc = "read" \/ Removing => head # tail

Numbered(S) == {e.n : e \in {x \in S : ~IsMotion(x)}}
QueuedKeys == Numbered({Queued[i] : i \in 1 .. Size})
HeldKeys == IF pc \in {"newscreen", "deliver"} THEN Numbered({xe}) ELSE {}
DeliveredKeys == {delivered[i] : i \in DOMAIN delivered}

\* Each key or button event is in exactly one place: in the ring, in the
\* hands of the main thread, given to its device's processInputProc, used up
\* as a screen change, or tossed by a full ring.  None is duplicated by the
\* unlocked hand-over and none disappears without a trace.
EveryKeyAccountedFor ==
  LET places == <<QueuedKeys, HeldKeys, DeliveredKeys, swallowed, Numbered(tossed)>>
  IN /\ pressed = UNION {places[i] : i \in 1 .. 5}
     /\ \A i, j \in 1 .. 5 : i # j => places[i] \cap places[j] = {}

\* When the queue is drained, DIX has the pointer where the device has it and
\* events go to that screen: compressed motions, the warps DIX makes on a
\* screen change and the silent ones that keep the pointer inside its limits
\* do not leave the three apart.  The exceptions are that a motion was tossed,
\* or written to the slot being removed, that the pointer was warped between
\* screens, and that it was moved silently with motions queued: those are
\* delivered afterwards and take the sprite to where the device is no more.
Drained == pc = "idle" /\ head = tail /\ \A e \in tossed : ~IsMotion(e)
DrainedPointerAgrees ==
  Drained /\ ~overtaken /\ ~warped /\ ~outrun
    => sprite = pointer /\ pDequeueScreen = pointer.screen

\* The ring with its unlocked, two-sided cursors is a bounded FIFO channel, in
\* which only a motion that is superseded while it is copied can come out torn.
ImplementsChannel == Channel!Spec

\* Once the devices are quiet, xf86eqProcessInputEvents returns: the motions
\* that DIX itself enqueues while it follows the pointer from screen to
\* screen do not keep the loop going for ever.
LoopReturns == (pc = "loop") ~> (pc = "idle")

\* Only key events can be delivered with a time earlier than the event before
\* them: everything else is stamped and enqueued without an interruption, and
\* neither compression nor the wrap of the ring reorders times.
OnlyKeysGoBackwards ==
  [][~backwards /\ backwards' => xe.kind = "key"]_vars
=============================================================================
