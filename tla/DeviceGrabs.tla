----------------------------- MODULE DeviceGrabs -----------------------------
(***************************************************************************)
(* Active and passive grabs of input devices, the freezing of devices by   *)
(* synchronous grabs, and the queue of events that wait for a thaw:        *)
(* dix/events.c, with what dix/window.c, dix/dispatch.c and dix/resource.c *)
(* do to grabs when a window is unmapped or destroyed or a client goes.    *)
(*                                                                         *)
(* The server has one thread, but these operations nest: thawing a device  *)
(* plays queued events, playing an event can start or end a grab, and all  *)
(* of it can happen in the middle of unmapping a tree of windows or of     *)
(* closing down a client.  "work" is the stack of what the thread has yet  *)
(* to do, the innermost call first; requests and device events are only    *)
(* read when it is empty.                                                  *)
(*                                                                         *)
(* Windows are one chain under the pointer: window 1 is the root, window w *)
(* the child of w-1; the focus is PointerRoot, so keyboards use the sprite *)
(* trace as well.  Requests with a bad time stamp change nothing and are   *)
(* left out, and so are confine-to windows, cursors and modifiers.  Buttons *)
(* are numbered 1 to 5, those that butc->state has a bit for.              *)
(* A definition marked "mutant" is a deliberately wrong variant of the one *)
(* that follows it; no specification uses it.                              *)
(***************************************************************************)
EXTENDS Naturals, Sequences, FiniteSets

CONSTANTS
  Keyboards, Pointers,  \* the input devices
  EvictOrder,           \* all of them, as DeleteWindowFromAnyEvents goes through them
  Clients, Nobody,      \* clients, and the owner of no grab
  Depth,                \* number of windows
  WinOwner,             \* WinOwner[w]: the client that created window w
  Keys,                 \* key codes or button numbers of a device
  Modifiers,            \* keys with a modifierMap entry
  MultipleDowns,        \* does the DDX repeat keys by multiple downs?
  Motions,              \* the core pointer if it reports motion, or none
  MaxEvents,            \* bound on device events
  MaxPassive            \* bound on passive grabs established

Devices == Keyboards \cup Pointers
Windows == 1 .. Depth
NoDev == "none"

ASSUME DeviceAssumption ==
  /\ Keyboards \cap Pointers = {}
  /\ NoDev \notin Devices
  /\ IsFiniteSet(Keys) /\ 0 \notin Keys /\ Modifiers \subseteq Keys
  /\ EvictOrder \in Seq(Devices)
  /\ \A d \in Devices : \E i \in 1 .. Len(EvictOrder) : EvictOrder[i] = d
ASSUME ClientAssumption ==
  /\ Nobody \notin Clients
  /\ Depth \in Nat \ {0}
  /\ WinOwner \in [Windows -> Clients \cup {Nobody}]
  /\ WinOwner[1] = Nobody
ASSUME BoundAssumption ==
  /\ MultipleDowns \in BOOLEAN /\ Motions \subseteq Pointers
  /\ MaxEvents \in Nat /\ MaxPassive \in Nat

\* A grab: the client that owns it and its window.  (mouse->activeGrab)
Grab == [client : Clients, win : Windows]
NoGrab == [client |-> Nobody, win |-> 0]

\* A passive grab on a window: its owner and the modes of the grab it starts.
Modes == {"Sync", "Async"}
Passive == [client : Clients, own : Modes, oth : Modes]
NoPassive == [client |-> Nobody, own |-> "Async", oth |-> "Async"]

Event == [dev : Devices, type : {"press", "release", "motion"},
          key : Keys \cup {0}, n : 1 .. MaxEvents]
NoEvent == [dev |-> NoDev, type |-> "motion", key |-> 0, n |-> 0]

\* GrabRec sync states, inputstr.h.  ">= FROZEN" is membership in FROZEN.
FROZEN == {"FROZEN_NO_EVENT", "FROZEN_WITH_EVENT"}
SyncStates == {"NOT_GRABBED", "THAWED", "FREEZE_NEXT_EVENT",
               "FREEZE_BOTH_NEXT_EVENT"} \cup FROZEN

\* What the thread still has to do.
Ops == {"play", "replay", "hold", "repeat", "unrealize", "evict", "retrace",
        "crush", "drop", "release", "gone", "free"}
Call == [op : Ops, dev : Devices \cup {NoDev}, win : 0 .. Depth, last : 0 .. Depth,
         client : Clients \cup {Nobody}, ev : Event \cup {NoEvent}]
Item(op, d, w, v, c, ev) ==
  [op |-> op, dev |-> d, win |-> w, last |-> v, client |-> c, ev |-> ev]
Do(op) == Item(op, NoDev, 0, 0, Nobody, NoEvent)
DoEvent(op, w, ev) == Item(op, ev.dev, w, 0, Nobody, ev)
DoWindow(op, d, w, v) == Item(op, d, w, v, Nobody, NoEvent)
DoClient(op, c) == Item(op, NoDev, 0, 0, c, NoEvent)

VARIABLES
  grab,           \* dev->grab
  fromPassive,    \* dev->fromPassiveGrab, also of implicit grabs
  state,          \* dev->sync.state
  other,          \* dev->sync.other: the device whose grab freezes this one
  frozen,         \* dev->sync.frozen
  held,           \* dev->sync.event
  activatingKey,  \* dev->activatingKey (keyboards)
  down,           \* keys or buttons DIX has seen go down
  pending,        \* syncEvents.pending, oldest first
  playing,        \* syncEvents.playingEvents
  passive,        \* wPassiveGrabs, newest matching grab per device
  realized,       \* windows 1..realized are realized
  alive,          \* windows 1..alive exist
  trace,          \* spriteTraceGood: spriteTrace is windows 1..trace
  status,         \* what became of each client
  work,           \* the calls in progress, innermost first
  phys,           \* keys or buttons physically down
  events,         \* number of device events so far
  grabs,          \* number of passive grabs so far
  done,           \* number of the last event processed, per device
  grabKey         \* the key whose press started a keyboard's passive grab

syncVars == <<grab, fromPassive, state, other, frozen>>
eventVars == <<held, activatingKey, down, done, grabKey>>
windowVars == <<realized, alive, trace>>
inputVars == <<phys, events>>
clientVars == <<status, passive, grabs>>
vars == <<syncVars, eventVars, pending, playing, windowVars, inputVars,
          clientVars, work>>

Init ==
  /\ grab = [d \in Devices |-> NoGrab]
  /\ fromPassive = [d \in Devices |-> FALSE]
  /\ state = [d \in Devices |-> "NOT_GRABBED"]
  /\ other = [d \in Devices |-> NoDev]
  /\ frozen = [d \in Devices |-> FALSE]
  /\ held = [d \in Devices |-> NoEvent]
  /\ activatingKey \in [Devices -> Keys \cup {0}]    \* uninitialized
  /\ \A d \in Pointers : activatingKey[d] = 0        \* not used
  /\ grabKey = [d \in Devices |-> 0]
  /\ down = [d \in Devices |-> {}]
  /\ phys = [d \in Devices |-> {}]
  /\ done = [d \in Devices |-> 0]
  /\ pending = <<>> /\ work = <<>>
  /\ playing = FALSE
  /\ passive = [d \in Devices |-> [w \in Windows |-> NoPassive]]
  /\ alive = Depth /\ realized \in Windows /\ trace = realized
  /\ status = [c \in Clients |-> "up"]
  /\ events = 0 /\ grabs = 0

Idle == work = <<>>

-----------------------------------------------------------------------------
(* Freezing and thawing.  These operators are conjoined to actions that    *)
(* have already fixed grab', state', other' and pending'.                  *)

\* Device e is frozen on account of a grab of client c on another device.
\* sync.other points to that device's activeGrab, whatever it holds now.
HeldBy(g, e, c) == other[e] # NoDev /\ g[other[e]].client = c

\* ComputeFreezes, with "replay" the items to do for syncEvents.replayDev and
\* "rest" what the thread does when it returns.
ComputeFreezes(replay, rest) ==
  /\ frozen' = [d \in Devices |-> other'[d] # NoDev \/ state'[d] \in FROZEN]
  /\ IF playing \/ (replay = <<>> /\ pending' = <<>>)
     THEN playing' = playing /\ work' = rest
     ELSE playing' = TRUE /\ work' = replay \o <<Do("play")>> \o rest

\* CheckGrabForSyncs
CheckGrabForSyncs(d, thisMode, otherMode, rest) ==
  /\ state' = [state EXCEPT ![d] = IF thisMode = "Sync" THEN "FROZEN_NO_EVENT"
                                                        ELSE "THAWED"]
  /\ other' = [e \in Devices |->
       IF e # d /\ otherMode = "Sync" THEN d
       ELSE IF (e = d => thisMode = "Async") /\ HeldBy(grab', e, grab'[d].client)
       THEN NoDev ELSE other[e]]
  /\ ComputeFreezes(<<>>, rest)

\* ActivatePointerGrab, ActivateKeyboardGrab
ActivateGrab(d, g, auto, thisMode, otherMode, rest) ==
  /\ grab' = [grab EXCEPT ![d] = g]
  /\ fromPassive' = [fromPassive EXCEPT ![d] = auto]
  /\ CheckGrabForSyncs(d, thisMode, otherMode, rest)

\* (mutant: freezes by the ended grab are not lifted)
DeactivateGrabLeavesOthers(otr, d, replay, rest) ==
  /\ grab' = [grab EXCEPT ![d] = NoGrab]
  /\ fromPassive' = [fromPassive EXCEPT ![d] = FALSE]
  /\ state' = [state EXCEPT ![d] = "NOT_GRABBED"]
  /\ other' = otr
  /\ ComputeFreezes(replay, rest)

\* DeactivatePointerGrab, DeactivateKeyboardGrab
DeactivateGrabOn(otr, d, replay, rest) ==
  /\ grab' = [grab EXCEPT ![d] = NoGrab]
  /\ fromPassive' = [fromPassive EXCEPT ![d] = FALSE]
  /\ state' = [state EXCEPT ![d] = "NOT_GRABBED"]
  /\ other' = [e \in Devices |-> IF otr[e] = d THEN NoDev ELSE otr[e]]
  /\ ComputeFreezes(replay, rest)

DeactivateGrab(d, replay, rest) == DeactivateGrabOn(other, d, replay, rest)

-----------------------------------------------------------------------------
(* Processing an event that is not held back.  "rest" is what the thread   *)
(* does afterwards.                                                        *)

\* CheckDeviceGrabs: the windows of the trace from first on whose passive
\* grab the event activates.  A button only does so as the first one down.
Matching(ev, first, tr) ==
  {w \in first .. tr :
     /\ ev.type = "press"
     /\ ev.dev \in Pointers => Cardinality(down'[ev.dev]) = 1
     /\ passive[ev.dev][w] # NoPassive}

\* CheckPassiveGrabsOnWindow on the first of them.  Activation may play
\* events; the rest of the procedure is the item "hold".
ActivatePassive(ev, S, rest) ==
  \E w \in S :
    /\ \A v \in S : w <= v
    /\ LET p == passive[ev.dev][w]
       IN ActivateGrab(ev.dev, [client |-> p.client, win |-> w], TRUE,
                       p.own, p.oth, <<DoEvent("hold", w, ev)>> \o rest)
    /\ grabKey' = [grabKey EXCEPT ![ev.dev] = IF ev.dev \in Keyboards THEN ev.key ELSE @]

\* DeliverGrabbedEvent: a delivered event freezes devices when the client has
\* asked for that.  The owner of a keyboard grab gets every event unless it is
\* gone; whether it gets a pointer event depends on event masks as well.
CanReach(ev) == status[grab[ev.dev].client] = "up"
CanMiss(ev) == ev.dev \in Pointers \/ ~CanReach(ev)

\* (mutant: FreezeThaw is called for the device of the event only)
FreezeForOne(ev) ==
  LET d == ev.dev
      both == state[d] = "FREEZE_BOTH_NEXT_EVENT"
      along == {e \in Devices \ {d} : both /\ state[e] = "FREEZE_BOTH_NEXT_EVENT"
                                      /\ grab[e].client = grab[d].client}
      tied == IF both THEN Devices \ ({d} \cup along) ELSE {}
  IN /\ state' = [e \in Devices |-> IF e = d THEN "FROZEN_WITH_EVENT"
                                    ELSE IF e \in along THEN "FROZEN_NO_EVENT"
                                    ELSE state[e]]
     /\ other' = [e \in Devices |-> IF e \in tied THEN d ELSE other[e]]
     /\ frozen' = [frozen EXCEPT ![d] = TRUE]
     /\ held' = [held EXCEPT ![d] = ev]
     /\ UNCHANGED <<grab, fromPassive>>

FreezeFor(ev) ==
  LET d == ev.dev
      both == state[d] = "FREEZE_BOTH_NEXT_EVENT"
      along == {e \in Devices \ {d} : both /\ state[e] = "FREEZE_BOTH_NEXT_EVENT"
                                      /\ grab[e].client = grab[d].client}
      tied == IF both THEN Devices \ ({d} \cup along) ELSE {}
  IN /\ state' = [e \in Devices |-> IF e = d THEN "FROZEN_WITH_EVENT"
                                    ELSE IF e \in along THEN "FROZEN_NO_EVENT"
                                    ELSE state[e]]
     /\ other' = [e \in Devices |-> IF e \in tied THEN d ELSE other[e]]
     /\ frozen' = [e \in Devices |-> e = d \/ both \/ frozen[e]]
     /\ held' = [held EXCEPT ![d] = ev]
     /\ UNCHANGED <<grab, fromPassive>>

DeliverGrabbedEvent(ev, rest) ==
  LET asked == /\ ev.type # "motion"
               /\ state[ev.dev] \in {"FREEZE_NEXT_EVENT", "FREEZE_BOTH_NEXT_EVENT"}
  IN /\ \/ asked /\ CanReach(ev) /\ FreezeFor(ev)
        \/ (asked => CanMiss(ev)) /\ UNCHANGED <<syncVars, held>>
     /\ work' = rest
     /\ UNCHANGED playing

\* DeliverEventsToWindow: a button press that is delivered with no grab gives
\* its receiver an asynchronous one.  Who selected it, and on which window, is
\* anyone's choice.
ImplicitGrab(ev, rest) ==
  /\ ev.type = "press" /\ ev.dev \in Pointers
  /\ \E c \in Clients, w \in 1 .. trace' :
       /\ status[c] = "up"
       /\ ActivateGrab(ev.dev, [client |-> c, win |-> w], TRUE, "Async", "Async", rest)

DeliverUngrabbed(ev, rest) ==
  \/ ImplicitGrab(ev, rest)
  \/ work' = rest /\ UNCHANGED <<syncVars, playing>>

\* The event goes to the owner of the grab, or to whoever selected it.
Deliver(ev, rest) ==
  IF grab[ev.dev] # NoGrab THEN DeliverGrabbedEvent(ev, rest)
  ELSE DeliverUngrabbed(ev, rest) /\ UNCHANGED held

\* A press starts a passive grab if the device is free and one matches.  (The
\* code sets activatingKey when "hold" has returned: until then no event of this
\* device is processed.)
StartOrDeliver(ev, rest) ==
  LET S == Matching(ev, 1, trace)
  IN IF grab[ev.dev] = NoGrab /\ S # {}
     THEN /\ ActivatePassive(ev, S, rest)
          /\ activatingKey' = [activatingKey EXCEPT ![ev.dev] =
                                 IF ev.dev \in Keyboards THEN ev.key ELSE @]
          /\ UNCHANGED held
     ELSE Deliver(ev, rest) /\ UNCHANGED <<activatingKey, grabKey>>

\* A release ends the passive grab it belongs to: it is delivered without
\* freezing anything and then the grab is deactivated.
EndOrDeliver(ev, ends, rest) ==
  /\ IF ends THEN DeactivateGrab(ev.dev, <<>>, rest) /\ UNCHANGED held
             ELSE Deliver(ev, rest)
  /\ UNCHANGED <<activatingKey, grabKey>>

\* (mutant: the key stays down when its release ends a grab)
KeyReleaseEndsOnly(ev, rest) ==
  LET d == ev.dev
      ends == fromPassive[d] /\ ev.key = activatingKey[d] IN
  IF ev.key \notin down[d]
  THEN work' = rest /\ UNCHANGED <<syncVars, playing, held, down, activatingKey, grabKey>>
  ELSE /\ down' = [down EXCEPT ![d] = IF ends THEN @ ELSE @ \ {ev.key}]
       /\ EndOrDeliver(ev, ends, rest)

\* CoreProcessKeyboardEvent.  A press of a key that is down is a repeat: its
\* release half is processed here, the press goes to processInputProc again.
KeyRelease(ev, rest) ==
  LET d == ev.dev IN
  IF ev.key \notin down[d]
  THEN work' = rest /\ UNCHANGED <<syncVars, playing, held, down, activatingKey, grabKey>>
  ELSE /\ down' = [down EXCEPT ![d] = @ \ {ev.key}]
       /\ EndOrDeliver(ev, fromPassive[d] /\ ev.key = activatingKey[d], rest)

KeyPress(ev, rest) ==
  LET d == ev.dev
  IN IF ev.key \notin down[d]
     THEN down' = [down EXCEPT ![d] = @ \cup {ev.key}] /\ StartOrDeliver(ev, rest)
     ELSE IF ev.key \in Modifiers
     THEN work' = rest /\ UNCHANGED <<syncVars, playing, held, down, activatingKey, grabKey>>
     ELSE KeyRelease([ev EXCEPT !.type = "release"], <<DoEvent("repeat", 0, ev)>> \o rest)

\* CoreProcessPointerEvent
ButtonPress(ev, rest) ==
  /\ down' = [down EXCEPT ![ev.dev] = @ \cup {ev.key}]
  /\ StartOrDeliver(ev, rest)

\* (mutant: buttons are counted before this one is released)
ButtonReleaseLate(ev, rest) ==
  LET d == ev.dev IN
  /\ down' = [down EXCEPT ![d] = @ \ {ev.key}]
  /\ EndOrDeliver(ev, fromPassive[d] /\ down[d] = {}, rest)

ButtonRelease(ev, rest) ==
  LET d == ev.dev IN
  /\ down' = [down EXCEPT ![d] = @ \ {ev.key}]
  /\ EndOrDeliver(ev, fromPassive[d] /\ down'[d] = {}, rest)

\* realInputProc
ProcessEvent(ev, rest) ==
  /\ done' = [done EXCEPT ![ev.dev] = ev.n]
  /\ trace' = IF ev.type = "motion" THEN realized ELSE trace   \* CheckMotion
  /\ \/ ev.dev \in Keyboards /\ ev.type = "press" /\ KeyPress(ev, rest)
     \/ ev.dev \in Keyboards /\ ev.type = "release" /\ KeyRelease(ev, rest)
     \/ ev.dev \in Pointers /\ ev.type = "press" /\ ButtonPress(ev, rest)
     \/ ev.dev \in Pointers /\ ev.type = "release" /\ ButtonRelease(ev, rest)
     \/ /\ ev.type = "motion"
        /\ Deliver(ev, rest)
        /\ UNCHANGED <<down, activatingKey, grabKey>>
  /\ UNCHANGED <<realized, alive>>

\* (mutant: new events go to the head of the queue)
EnqueueFirst(ev) == pending' = <<ev>> \o pending

\* enqueueInputProc: a motion replaces one at the tail of the queue, unless it
\* is on another screen or pendtail points to the place of an event just played.
EnqueueEvent(ev) ==
  LET n == Len(pending) IN
  \/ pending' = Append(pending, ev)
  \/ /\ ev.type = "motion" /\ n > 0 /\ pending[n].type = "motion"
     /\ pending' = [pending EXCEPT ![n] = ev]

-----------------------------------------------------------------------------
(* Device events, read when no request is being executed.                  *)

DeviceEvent(d, type, k) ==
  LET ev == [dev |-> d, type |-> type, key |-> k, n |-> events + 1] IN
  /\ Idle /\ events < MaxEvents
  /\ \/ type = "press" /\ k \notin phys[d]
     \/ type = "press" /\ k \in phys[d] /\ d \in Keyboards /\ MultipleDowns
     \/ type = "release" /\ k \in phys[d]
     \/ type = "motion" /\ d \in Motions
  /\ k = 0 <=> type = "motion"
  /\ events' = events + 1
  /\ phys' = [phys EXCEPT ![d] = IF type = "press" THEN @ \cup {k} ELSE @ \ {k}]
  /\ IF frozen[d]
     THEN EnqueueEvent(ev) /\ UNCHANGED <<syncVars, eventVars, windowVars, playing, work>>
     ELSE UNCHANGED pending /\ ProcessEvent(ev, <<>>)
  /\ UNCHANGED clientVars

-----------------------------------------------------------------------------
(* The steps of the calls in progress.  "Then" pops the innermost one.     *)

Now(op) == work # <<>> /\ Head(work).op = op
Then == Tail(work)
NothingElse == UNCHANGED <<inputVars, clientVars>>
SyncOnly == UNCHANGED <<eventVars, pending, windowVars>> /\ NothingElse

\* (mutant: a held event at the head holds back the whole queue)
PlayableAtHead == {i \in 1 .. Len(pending) : i = 1 /\ ~frozen[pending[i].dev]}

\* PlayReleasedEvents: the first event of a device that is not frozen, from
\* the head of the queue again after each; none, and playing is over.
Playable == {i \in 1 .. Len(pending) : ~frozen[pending[i].dev]}

\* (mutant: an event that is played stays in the queue)
PlayKeepsEvent ==
  /\ Now("play")
  /\ \E i \in Playable :
       /\ \A j \in Playable : i <= j
       /\ UNCHANGED pending
       /\ ProcessEvent(pending[i], work)
  /\ NothingElse

Play ==
  /\ Now("play")
  /\ \E i \in Playable :
       /\ \A j \in Playable : i <= j
       /\ pending' = SubSeq(pending, 1, i - 1) \o SubSeq(pending, i + 1, Len(pending))
       /\ ProcessEvent(pending[i], work)
  /\ NothingElse

PlayEnds ==
  /\ Now("play") /\ Playable = {}
  /\ playing' = FALSE /\ work' = Then
  /\ UNCHANGED syncVars /\ SyncOnly

\* ComputeFreezes on replayDev: the held event looks for a passive grab below
\* the window whose grab it was replayed from, and is delivered otherwise.
Replay ==
  LET r == Head(work) IN
  /\ Now("replay")
  /\ trace' = realized                                      \* XYToWindow
  /\ UNCHANGED <<pending, held, activatingKey, down, done, realized, alive>>
  /\ LET S == IF r.win <= trace' THEN Matching(r.ev, r.win + 1, trace') ELSE {}
     IN IF S # {} THEN ActivatePassive(r.ev, S, Then)
        ELSE DeliverUngrabbed(r.ev, Then) /\ UNCHANGED grabKey
  /\ NothingElse

\* (mutant: the event is not copied to sync.event)
HoldForgets ==
  LET h == Head(work) IN
  /\ Now("hold")
  /\ state' = [state EXCEPT ![h.dev] = IF @ = "FROZEN_NO_EVENT" THEN "FROZEN_WITH_EVENT" ELSE @]
  /\ work' = Then
  /\ UNCHANGED <<grab, fromPassive, other, frozen, playing, held, activatingKey, down,
                 done, grabKey, pending, windowVars>>
  /\ NothingElse

\* The rest of CheckPassiveGrabsOnWindow: a synchronous grab holds its event.
Hold ==
  LET h == Head(work) IN
  /\ Now("hold")
  /\ IF state[h.dev] = "FROZEN_NO_EVENT"
     THEN /\ state' = [state EXCEPT ![h.dev] = "FROZEN_WITH_EVENT"]
          /\ held' = [held EXCEPT ![h.dev] = h.ev]
     ELSE UNCHANGED <<state, held>>
  /\ work' = Then
  /\ UNCHANGED <<grab, fromPassive, other, frozen, playing, activatingKey, down,
                 done, grabKey, pending, windowVars>>
  /\ NothingElse

\* The press half of a repeat, passed to processInputProc.
Repeat ==
  LET r == Head(work) IN
  /\ Now("repeat")
  /\ IF frozen[r.dev]
     THEN /\ EnqueueEvent(r.ev) /\ work' = Then
          /\ UNCHANGED <<syncVars, eventVars, windowVars, playing>>
     ELSE UNCHANGED pending /\ ProcessEvent(r.ev, Then)
  /\ NothingElse

\* DeleteWindowFromAnyEvents and ...ExtEvents, one device at a time.
Evict ==
  LET r == Head(work) IN
  /\ Now("evict")
  /\ UNCHANGED pending
  /\ IF grab[r.dev].win = r.win THEN DeactivateGrab(r.dev, <<>>, Then)
     ELSE work' = Then /\ UNCHANGED <<syncVars, playing>>
  /\ SyncOnly

EvictFrom(w) == [i \in 1 .. Len(EvictOrder) |->
                   DoWindow("evict", EvictOrder[i], w, 0)]

\* ... and its passive grabs are freed and the window with them.
Drop ==
  LET w == Head(work).win IN
  /\ Now("drop")
  /\ passive' = [d \in Devices |-> [passive[d] EXCEPT ![w] = NoPassive]]
  /\ alive' = w - 1 /\ work' = Then
  /\ UNCHANGED <<syncVars, eventVars, pending, playing, realized, trace,
                 inputVars, status, grabs>>

\* WindowsRestructured
Retrace ==
  /\ Now("retrace")
  /\ trace' = realized /\ work' = Then
  /\ UNCHANGED <<syncVars, eventVars, pending, playing, realized, alive>>
  /\ NothingElse

\* UnmapWindow, whose UnrealizeTree goes from the window down, and
\* DeleteWindow, whose CrushTree frees from the lowest window up.
UnmapCalls(w) ==
  IF realized < w THEN <<>>
  ELSE <<DoWindow("unrealize", NoDev, w, realized)>>
DeleteCalls(w) == UnmapCalls(w) \o <<DoWindow("crush", NoDev, w, 0)>>
Unmapped(w) == IF realized < w THEN realized ELSE w - 1

\* (mutant: the grabs of the windows below are not looked at)
UnrealizeTop ==
  LET r == Head(work) IN
  /\ Now("unrealize")
  /\ work' = EvictFrom(r.win) \o <<Do("retrace")>> \o Then
  /\ UNCHANGED <<syncVars, playing>> /\ SyncOnly

Unrealize ==
  LET r == Head(work) IN
  /\ Now("unrealize")
  /\ work' = EvictFrom(r.win)
             \o <<IF r.win = r.last THEN Do("retrace")
               ELSE DoWindow("unrealize", NoDev, r.win + 1, r.last)>>
             \o Then
  /\ UNCHANGED <<syncVars, playing>> /\ SyncOnly

Crush ==
  /\ Now("crush")
  /\ work' = IF alive < Head(work).win THEN Then
             ELSE EvictFrom(alive) \o <<DoWindow("drop", NoDev, alive, 0)>> \o work
  /\ UNCHANGED <<syncVars, playing>> /\ SyncOnly

\* (mutant: devices are gone through once)
ReleaseOnce ==
  LET c == Head(work).client IN
  /\ Now("release")
  /\ UNCHANGED pending
  /\ \/ \E d \in Devices : grab[d].client = c /\ DeactivateGrab(d, <<>>, Then)
     \/ /\ \A d \in Devices : grab[d].client # c
        /\ work' = Then /\ UNCHANGED <<syncVars, playing>>
  /\ SyncOnly

\* ReleaseActiveGrabs: until a pass over the devices finds no grab of c.
Release ==
  LET c == Head(work).client IN
  /\ Now("release")
  /\ UNCHANGED pending
  /\ \/ \E d \in Devices : grab[d].client = c /\ DeactivateGrab(d, <<>>, work)
     \/ /\ \A d \in Devices : grab[d].client # c
        /\ work' = Then /\ UNCHANGED <<syncVars, playing>>
  /\ SyncOnly

\* CloseDownClient marks the client; one that retains its resources loses its
\* passive grabs at once (FreeClientNeverRetainResources), the others go on to
\* FreeClientResources.
Gone ==
  LET c == Head(work).client IN
  /\ Now("gone")
  /\ \/ /\ status' = [status EXCEPT ![c] = "gone"]
        /\ work' = <<DoClient("free", c)>> \o Then
        /\ UNCHANGED passive
     \/ /\ status' = [status EXCEPT ![c] = "retained"]
        /\ passive' = [d \in Devices |-> [w \in Windows |->
             IF passive[d][w].client = c THEN NoPassive ELSE passive[d][w]]]
        /\ work' = Then
  /\ UNCHANGED <<syncVars, eventVars, pending, playing, windowVars, inputVars, grabs>>

\* FreeClientResources: passive grabs and windows, in the order of a hash table.
Free ==
  LET c == Head(work).client
      mine == {p \in Devices \X Windows : passive[p[1]][p[2]].client = c}
      owned == {w \in 1 .. alive : WinOwner[w] = c}
  IN /\ Now("free")
     /\ \/ \E p \in mine :
             /\ passive' = [passive EXCEPT ![p[1]][p[2]] = NoPassive]
             /\ UNCHANGED <<work, realized>>
        \/ \E w \in owned :
             /\ work' = DeleteCalls(w) \o work
             /\ realized' = Unmapped(w)
             /\ UNCHANGED passive
        \/ mine = {} /\ owned = {} /\ work' = Then /\ UNCHANGED <<passive, realized>>
     /\ UNCHANGED <<syncVars, eventVars, pending, playing, alive, trace,
                    inputVars, status, grabs>>

Step == \/ Play \/ PlayEnds \/ Replay \/ Hold \/ Repeat
        \/ Unrealize \/ Evict \/ Retrace \/ Crush \/ Drop
        \/ Release \/ Gone \/ Free

-----------------------------------------------------------------------------
(* Requests.  A request of a client that is connected is executed when the *)
(* calls of the previous one have returned; one that only returns an error *)
(* or a status changes nothing.                                            *)

Request(c) == Idle /\ status[c] = "up"

\* ProcGrabPointer, GrabDevice
Refused(d, c) == \/ grab[d].client \notin {Nobody, c}              \* AlreadyGrabbed
                 \/ frozen[d] /\ other[d] # NoDev /\ ~HeldBy(grab, d, c)  \* GrabFrozen

GrabDevice(c, d, w, thisMode, otherMode) ==
  /\ Request(c) /\ ~Refused(d, c)
  /\ w <= realized                                               \* GrabNotViewable
  /\ UNCHANGED pending
  /\ ActivateGrab(d, [client |-> c, win |-> w], FALSE, thisMode, otherMode, <<>>)
  /\ SyncOnly

\* ProcUngrabPointer, ProcUngrabKeyboard
Ungrab(c, d) ==
  /\ Request(c) /\ grab[d].client = c
  /\ UNCHANGED pending
  /\ DeactivateGrab(d, <<>>, <<>>)
  /\ SyncOnly

\* AllowSome
Mine(c) == {e \in Devices : grab[e].client = c}
\* (mutant: whoever froze the device)
SyncedWithAny(c, d) == other[d] \notin {d, NoDev}
Synced(c, d) == other[d] # d /\ other[d] \in Mine(c)
OthersFrozen(c, d) ==
  \A e \in Devices \ {d} :
    IF e \in Mine(c) THEN state[e] \in FROZEN ELSE HeldBy(grab, e, c)

MayAllow(c, d) ==
  /\ Request(c)
  /\ (d \in Mine(c) /\ state[d] \in FROZEN) \/ Synced(c, d)

AllowThis(c, d) ==                                              \* THAWED
  /\ state' = IF d \in Mine(c) THEN [state EXCEPT ![d] = "THAWED"] ELSE state
  /\ other' = IF Synced(c, d) THEN [other EXCEPT ![d] = NoDev] ELSE other

AllowNext(c, d) ==                                              \* FREEZE_NEXT_EVENT
  /\ d \in Mine(c)
  /\ state' = [state EXCEPT ![d] = "FREEZE_NEXT_EVENT"]
  /\ other' = IF Synced(c, d) THEN [other EXCEPT ![d] = NoDev] ELSE other

\* THAWED_BOTH and FREEZE_BOTH_NEXT_EVENT (all devices), THAW_OTHERS
AllowMany(c, d, S, newState) ==
  /\ OthersFrozen(c, d)
  /\ state' = [e \in Devices |-> IF e \in S \cap Mine(c) THEN newState ELSE state[e]]
  /\ other' = [e \in Devices |-> IF e \in S /\ HeldBy(grab, e, c) THEN NoDev ELSE other[e]]

AllowEvents(c, d) ==
  /\ MayAllow(c, d)
  /\ \/ AllowThis(c, d) \/ AllowNext(c, d)
     \/ AllowMany(c, d, Devices, "THAWED")
     \/ AllowMany(c, d, Devices, "FREEZE_BOTH_NEXT_EVENT")
     \/ AllowMany(c, d, Devices \ {d}, "THAWED")
  /\ UNCHANGED <<grab, fromPassive, pending>>
  /\ ComputeFreezes(<<>>, <<>>)
  /\ SyncOnly

\* AllowSome(NOT_GRABBED): the grab ends and the event it held is replayed.
AllowReplay(c, d) ==
  /\ MayAllow(c, d)
  /\ d \in Mine(c) /\ state[d] = "FROZEN_WITH_EVENT"
  /\ UNCHANGED pending
  /\ DeactivateGrabOn(IF Synced(c, d) THEN [other EXCEPT ![d] = NoDev] ELSE other, d,
       <<DoEvent("replay", grab[d].win, held[d])>>, <<>>)
  /\ SyncOnly

\* ProcGrabKey, ProcGrabButton; BadAccess if another client has the grab.
GrabKey(c, d, w, thisMode, otherMode) ==
  LET p == [client |-> c, own |-> thisMode, oth |-> otherMode] IN
  /\ Request(c) /\ grabs < MaxPassive /\ w <= alive
  /\ passive[d][w].client \in {Nobody, c} /\ passive[d][w] # p
  /\ passive' = [passive EXCEPT ![d][w] = p]
  /\ grabs' = grabs + 1
  /\ UNCHANGED <<syncVars, eventVars, pending, playing, windowVars, inputVars, status, work>>

\* ProcUngrabKey, ProcUngrabButton
UngrabKey(c, d, w) ==
  /\ Request(c) /\ passive[d][w].client = c
  /\ passive' = [passive EXCEPT ![d][w] = NoPassive]
  /\ UNCHANGED <<syncVars, eventVars, pending, playing, windowVars, inputVars, status, grabs, work>>

\* MapWindow realizes the window and the mapped windows below it.
MapWindow(c) ==
  /\ Request(c)
  /\ realized' \in (realized + 1) .. alive
  /\ trace' = realized'
  /\ UNCHANGED <<syncVars, eventVars, pending, playing, alive, work>> /\ NothingElse

UnmapWindow(c, w) ==
  /\ Request(c) /\ 1 < w /\ w <= realized
  /\ realized' = Unmapped(w) /\ work' = UnmapCalls(w)
  /\ UNCHANGED <<syncVars, eventVars, pending, playing, alive, trace>> /\ NothingElse

DestroyWindow(c, w) ==
  /\ Request(c) /\ 1 < w /\ w <= alive
  /\ realized' = Unmapped(w) /\ work' = DeleteCalls(w)
  /\ UNCHANGED <<syncVars, eventVars, pending, playing, alive, trace>> /\ NothingElse

\* CloseDownClient, and its second call for a client that was retained.
CloseDownClient(c) ==
  /\ Request(c)
  /\ work' = <<DoClient("release", c), DoClient("gone", c)>>
  /\ UNCHANGED <<syncVars, playing>> /\ SyncOnly

CloseDownRetained(c) ==
  /\ Idle /\ status[c] = "retained"
  /\ status' = [status EXCEPT ![c] = "gone"]
  /\ work' = <<DoClient("free", c)>>
  /\ UNCHANGED <<syncVars, eventVars, pending, playing, windowVars, inputVars, passive, grabs>>

ClientStep(c) ==
  \/ \E d \in Devices :
       \/ Ungrab(c, d) \/ AllowEvents(c, d) \/ AllowReplay(c, d)
       \/ \E w \in Windows :
            \/ UngrabKey(c, d, w)
            \/ \E m, o \in Modes : GrabDevice(c, d, w, m, o) \/ GrabKey(c, d, w, m, o)
  \/ MapWindow(c) \/ \E w \in Windows : UnmapWindow(c, w) \/ DestroyWindow(c, w)
  \/ CloseDownClient(c) \/ CloseDownRetained(c)

Next ==
  \/ \E d \in Devices, k \in Keys \cup {0}, type \in {"press", "release", "motion"} :
       DeviceEvent(d, type, k)
  \/ Step
  \/ \E c \in Clients : ClientStep(c)

\* The thread finishes the call it is in; devices and clients may do nothing.
Spec == Init /\ [][Next]_vars /\ WF_vars(Step)

-----------------------------------------------------------------------------
TypeOK ==
  /\ grab \in [Devices -> Grab \cup {NoGrab}]
  /\ fromPassive \in [Devices -> BOOLEAN]
  /\ state \in [Devices -> SyncStates]
  /\ other \in [Devices -> Devices \cup {NoDev}]
  /\ frozen \in [Devices -> BOOLEAN]
  /\ held \in [Devices -> Event \cup {NoEvent}]
  /\ activatingKey \in [Devices -> Keys \cup {0}]
  /\ grabKey \in [Devices -> Keys \cup {0}]
  /\ down \in [Devices -> SUBSET Keys]
  /\ done \in [Devices -> 0 .. MaxEvents]
  /\ pending \in Seq(Event)
  /\ playing \in BOOLEAN
  /\ passive \in [Devices -> [Windows -> Passive \cup {NoPassive}]]
  /\ realized \in Windows /\ alive \in Windows /\ trace \in Windows
  /\ status \in [Clients -> {"up", "retained", "gone"}]
  /\ phys \in [Devices -> SUBSET Keys]
  /\ events \in 0 .. MaxEvents /\ grabs \in 0 .. MaxPassive
  /\ work \in Seq(Call)

\* processInputProc, which FreezeThaw sets, agrees at every moment with the
\* freezes that CheckGrabForSyncs, AllowSome and DeliverGrabbedEvent asked for:
\* an event is queued exactly when a grab holds its device.
FrozenIffHeld ==
  \A d \in Devices : frozen[d] <=> other[d] # NoDev \/ state[d] \in FROZEN

\* sync.other points into another device's grab, and that grab is active: when
\* the last grab ends, no device can be left frozen for good.
HeldByActiveGrab ==
  \A d \in Devices :
    /\ other[d] # NoDev => other[d] # d /\ grab[other[d]] # NoGrab
    /\ state[d] = "NOT_GRABBED" <=> grab[d] = NoGrab
    /\ fromPassive[d] => grab[d] # NoGrab

\* No event is stranded: outside PlayReleasedEvents every queued event belongs
\* to a device that is still frozen.
NothingStranded ==
  ~playing => \A i \in 1 .. Len(pending) : frozen[pending[i].dev]

\* The server's idea of a device catches up with the device: the queued presses
\* and releases of a key, played on top of DIX's state, give its real position.
OfKey(d, k) == {i \in 1 .. Len(pending) : pending[i].dev = d /\ pending[i].key = k}
KeysCatchUp ==
  Idle => \A d \in Devices, k \in Keys :
    k \in phys[d] <=>
      IF OfKey(d, k) = {} THEN k \in down[d]
      ELSE \E i \in OfKey(d, k) : (\A j \in OfKey(d, k) : j <= i)
                                  /\ pending[i].type = "press"

\* Events of one device are processed in the order in which they happened,
\* however often their device was frozen on the way.
EventsInOrder ==
  \A i \in 1 .. Len(pending) :
    /\ pending[i].n > done[pending[i].dev]
    /\ \A j \in 1 .. (i - 1) : pending[j].dev = pending[i].dev => pending[j].n < pending[i].n

\* The event a frozen grab holds, the one that would be replayed, is the last
\* one its device delivered.
HeldEventIsLast ==
  \A d \in Devices : state[d] = "FROZEN_WITH_EVENT" => held[d].n = done[d] /\ held[d].dev = d

\* A freeze is lifted only by its own client, with AllowEvents or another grab,
\* or by the end of the grab it was asked for with: no other client can thaw a
\* device that a client still keeps frozen.
HoldIsKept ==
  [][\A d \in Devices, c \in Clients :
       HeldBy(grab, d, c) /\ ~HeldBy(grab, d, c)' /\ grab'[other[d]].client = c =>
         \/ grab'[d].client = c
         \/ \E x \in Devices : AllowEvents(c, x) \/ AllowReplay(c, x)
         \/ \E x \in Devices, w \in Windows, m, o \in Modes : GrabDevice(c, x, w, m, o)]_vars

\* ReleaseActiveGrabs: once CloseDownClient has returned, the client owns no
\* active grab.  The XXX there names the exception: while FreeClientResources
\* destroys the client's windows, which plays queued events, its passive grabs
\* that are not freed yet can still start.
OwnersAreConnected ==
  Idle => \A d \in Devices : grab[d] # NoGrab =>
    \/ status[grab[d].client] = "up"
    \/ /\ status[grab[d].client] = "gone" /\ fromPassive[d]
       /\ \E w \in Windows : WinOwner[w] = grab[d].client

\* A grab that a button press started, passive or not, ends when all buttons
\* are released, never later.
ButtonHoldsGrab ==
  \A d \in Pointers : fromPassive[d] => down[d] # {}

\* When a request has been executed, no device a client grabbed with GrabPointer
\* or GrabKeyboard is left grabbed on a window that is not viewable.  (A passive
\* grab can be, see README.)
ActiveGrabViewable ==
  Idle => \A d \in Devices : ~fromPassive[d] => grab[d].win <= realized

\* Every request, however deep its calls nest, is executed to the end.
CallsReturn == ~Idle ~> Idle

=============================================================================
