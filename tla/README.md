# Specifications of the XFree86 4.3.0 server

XFree86 is a single-threaded X server, its client library, and the programs around them. The logic that is hard to
test is in the server: a signal handler shares data with the main thread, events wait in queues while clients decide
what is to become of them, requests of many clients change the same lists, and most procedures can call each other
again before they return. Two places have true protocols between processes as well: the stream of requests, and XDMCP. This directory holds TLA+ modules for parts of that logic, the TLC configurations that check
them on small instances, and proofs, checked by TLAPS, that the most important properties hold for every instance.

All paths are relative to the repository; `X/` stands for `src/programs/Xserver/`.

- [1 The system](#1-the-system): the inventory
- [2 The plan](#2-the-plan): what is written and what comes next
- [3 The hardware event queue](#3-the-hardware-event-queue): `InputQueue`, `EventChannel`
- [4 Device grabs and synchronous events](#4-device-grabs-and-synchronous-events): `DeviceGrabs`
- [5 Passive grabs](#5-passive-grabs): `PassiveGrabs`, `KeyGrabs`
- [6 Clients and server grabs](#6-clients-and-server-grabs): `ServerClients`
- [7 Request input](#7-request-input): `RequestInput`, `RequestStream`
- [8 Timers](#8-timers): `Timers`
- [9 XDMCP](#9-xdmcp): `Xdmcp`
- [10 Disagreements between code and documents](#10-disagreements-between-code-and-documents)
- [11 Not modelled](#11-not-modelled)
- [12 How to run the checks](#12-how-to-run-the-checks)

## 1 The system

One loop, `Dispatch` (`X/dix/dispatch.c:326`), drives the server: it empties the hardware event queue, waits for
input (`WaitForSomething`), and executes requests of the clients that have some. Everything else is called from there,
except the SIGIO handler of the devices, which runs between any two instructions of it.

     mouse --SIGIO--> xf86Post*Event --> miPointer --> ring --> ProcessInputEvents --> DIX processInputProc
     keyboard --(main thread)-----------------------> /             |                      |
                                                             NewCurrentScreen         frozen? queue of
     clients --requests--> Dispatch --> Proc*() --> grabs, windows, resources         synchronous events
                                                       |                                   |
                                                       +--- deactivate, replay, play ------+--> clients

| component | state | operations | what is hard | what makes it correct |
|---|---|---|---|---|
| hardware event queue (`X/hw/xfree86/common/xf86Xinput.c`, `X/mi/mieq.c`, `X/mi/mipointer.c`) | ring, head, tail, lastMotion, enqueue and dequeue screen, pointer, sprite | enqueue, process, switch screen, warp | SIGIO between any two steps; full ring; motion compression; three copies of the pointer's screen | no key or button lost, repeated or reordered; DIX follows the pointer; the loop ends |
| device grabs (`X/dix/events.c`) | per device: grab, sync state, `other`, frozen flag, held event; queue of pending events | grab, ungrab, AllowEvents, process, play, replay | calls nest to any depth; each event can start, end, freeze; windows and clients go in between | events neither lost, stranded nor reordered; freezes belong to grabs; grabs end when they must |
| passive grabs (`X/dix/grabs.c`) | per window a list of records with masks of exceptions | grab, ungrab, match, close down | any-key and any-modifier grabs from which single combinations were ungrabbed | no combination has two owners; a press starts what its owner asked for |
| clients and server grabs (`X/dix/dispatch.c`, `X/os/connection.c`, `X/os/WaitFor.c`, `X/dix/dixutils.c`) | `clients[]`, `nClients`, close-down modes; fd masks, two records of the server grab, waiters, sleepers; the round of `Dispatch` | connect, set up, schedule, grab the server, sleep, close down, retain, kill, server reset | a client retained and closed down again; descriptors given out again; a grab in the middle of a round; reset while clients connect | the server resets when, and only when, the last client has gone; nobody is forgotten, or starves but for a higher priority; a grab excludes |
| request input (`X/os/io.c`) | input buffers, `FreeInputs`, `AvailableInput`, `ClientsWithInput` | read, reset a request, insert one, free | partial requests, buffers lent between clients, two encodings | every request executed once, whole, in order |
| timers (`X/os/WaitFor.c`) | sorted list of timers with 32-bit expiry | set, force, cancel, free, run | a callback sets or frees timers; wrap after 49.7 days | a timer is called when it is due, once, unless cancelled |
| XDMCP (`X/os/xdmcp.c`, `src/programs/xdm`) | the display's state, session id, retransmissions; xdm's protoDisplay, display, session processes | query, request, manage, keep alive, answer, start, reap | lost, repeated, late datagrams; a manager that fails; a server that resets | no session that xdm offers or has is dropped for an old answer, unless a late REQUEST was given a new id; a dead manager is noticed |
| resources (`X/dix/resource.c`) | per client a hash table, fake IDs | add, free, look up, change, free all | delete functions call back into the table; rehash while it is walked | each resource freed once; none found after that |
| server time (`X/dix/events.c:956`) | `currentTime` in months and milliseconds | NoticeTime, client times, grab times | wrap; devices stamped out of order | time never goes backwards; requests are ordered by it |
| VT switching and SIGIO (`X/hw/xfree86/common/xf86Events.c`, `X/hw/xfree86/os-support/shared/sigio.c`) | VT state, enabled devices and screens, blocked flag | switch away, back, handlers | failure of one step; input during the switch | devices and screens are on or off together |
| fonts and xfs, SYNC, XKB, selections, colormaps, windows' geometry | - | - | suspended clients and closures; slow keys; private cells | see the notes in `PROJECT.json` |
| Xlib, ICE/SM/xsm | sequence numbers, reply queues; session phases | - | asynchronous replies | replies meet their requests; a save-yourself round ends |
| rendering, drivers, toolkits, vendored code | pixels, hardware | - | - | not protocols: left to tests |

How they interact: the ring calls DIX (`processInputProc`, `NewCurrentScreen`) and DIX calls back (`miPointerWarpCursor`
enqueues in the ring that is being drained). `processInputProc` of a device *is* the freeze: it points to `EnqueueEvent` or to the
real procedure. DIX's grabs call windows (is it viewable?), and windows (`UnmapWindow`, `CrushTree`) call
`DeleteWindowFromAnyEvents`, which ends grabs, which plays events. `CloseDownClient` does all of it through the
resource table. The list of passive grabs is part of a window and is searched for each press.
`WaitForSomething` runs timers, accepts connections, lets XDMCP read its datagrams and tells `Dispatch` who has input; `ReadRequestFromClient` and
the procs tell it, through `ClientsWithInput` and the other masks, whom to look at again. An XDMCP session that ends resets the server, a server
that has reset asks XDMCP for a new session.

`PROJECT.json` lists every component with what is left out of it, and under `hazards` the lines where this code can go
wrong in ways a test hardly reaches, each with the properties that watch it.

## 2 The plan

Written, in this order:

1. `InputQueue` - the only place with true concurrency; `EventChannel` is the abstract FIFO it implements; `InputQueueProofs`.
2. `DeviceGrabs` - the core of the input model and the most intricate protocol of DIX; `MCDeviceGrabs` has the
   sequences and functions a `.cfg` cannot write; `DeviceGrabsProofs`.
3. `PassiveGrabs` - the list that `DeviceGrabs` abstracts to one entry per window; `KeyGrabs` is the abstract ownership
   of combinations it implements; `MCPassiveGrabs` adds symmetry; `PassiveGrabsProofs`.
4. `ServerClients` - connections, the client table, input masks, server grabs and the reset: one module, because every one of its properties
   relates the tables of `dix` to those of `os`; `ServerClientsProofs`, `ServerGrabProofs`.
5. `RequestInput` - how requests get from the sockets to `Dispatch`; `RequestStream` is the abstract stream it implements; `MCRequestInput` adds symmetry; `RequestInputProofs`.
6. `Xdmcp` - a protocol with an unreliable network and crashes; `XdmcpProofs`.
7. `Timers` - modular time and re-entrant callbacks; `TimersProofs`.

Next, most important first:

8. `Resources`: the table of one client while `FreeClientResources` runs delete functions that free and add others.
   Abstract specification: a set of live resources, each of them freed once.
9. `ServerTime`: `NoticeTime`, months and milliseconds, client and grab times.
10. `VTSwitch`, `SessionManager`, `XlibReplies`.

Composition: `DeviceGrabs` has its own interface to windows and clients (its `Unrealize`, `Crush`, `Gone` are translated
from `window.c` and `dispatch.c`) because nesting is what its properties are about. `ServerClients` takes requests as whole and `RequestInput`
takes clients as scheduled in any order: each is the other's environment, and the interface is `ClientsWithInput`, which is in both. `Resources` will
share the order in which resources are freed with `DeviceGrabs`' `Free`.

Theorems: every safety and action property that a passing run checks, and every refinement, is stated by a theorem of the module's `Proofs` module,
in some cases under a hypothesis that section 10 shows to be needed. What is only
model-checked are the six liveness properties (`LoopReturns`, `CallsReturn`, `ResetCompletes`, `EveryoneServed`, `FailureIsNoticed`, `TimersServed`): they rest on fairness
and on a measure that decreases, which the provers cannot combine. Still worth proving: what the modules after these will promise.

## 3 The hardware event queue

**Code.** `xf86eqEnqueue`, `xf86eqProcessInputEvents`, `xf86eqSwitchScreen`; `mieq.c` is the same algorithm without
time correction. Producers are the SIGIO handler (mouse: `xf86PostButtonEvent`, `miPointerAbsoluteCursor`/`miPointerMove`) and, with SIGIO blocked
around the enqueue, the main thread (keyboard, cursor warps).

**Model.** `InputQueue` has one action per *step* of the main thread between which a signal can arrive:

| action | code |
|---|---|
| `SigioButton`, `SigioMotion` | a whole run of the signal handler: `xf86eqEnqueue` and, for a motion that leaves its screen, `xf86eqSwitchScreen(s, FALSE)` |
| `KeyStamp`, `KeyEnqueue` | `xf86PostKbdEvent` reads the clock, then `EqEnqueue` blocks SIGIO and enqueues |
| `WarpPointer` | `ProcWarpPointer`, or `CheckPhysLimits` with `generateEvents`: `miPointerWarpCursor` with `GenerateEvent` enqueues a motion |
| `ConstrainPointer` | `CheckMotion`'s clipping, or `CheckPhysLimits` without `generateEvents` (a cursor, a grab or its end): the other half of `miPointerWarpCursor` moves the device silently (`miPointerWarpSilently`), DIX moves its sprite itself |
| `LoopTest`, `TestScreen`, `ReadScreen` | the loop's condition, `e->pScreen != pDequeueScreen`, and the second reading of `e->pScreen` |
| `CopyEvent`, `CopyRest`, `AdvanceHead` | `xe.event = e->event` (or `x`, `y`) in two pieces, and `++head` |
| `CrossScreen`, `ProcessInputProc`, `ProcessDone` | an event of another screen is used up by `NewCurrentScreen`, which warps; others go to the device |
| `Tick` | the clock (external) |

`xf86eqEnqueue` is a disjunction of its three outcomes: `MergeMotion`, `AppendEvent`, `TossEvent`. The variables from
`produced` on (`arrived`, `pressed`, `delivered`, `swallowed`, `tossed`, `overtaken`, `backwards`, `warped`, `outrun`, `lastTime`) are
history: no guard depends on them but the bound `MaxEvents`.
An event carries a number in place of its data: for a key or button its place among all events, for a motion the
position it reports. If a key is swallowed by a screen change its coordinates are whatever the structure holds: the value `Nowhere`.
The copy is not atomic: SIGIO may write another motion to the slot between its two pieces, and what the main thread has then is any of `Mixtures`, the
old or the new time with the old or the new position, or with `x` of one and `y` of the other (`Nowhere`). Two pieces are enough: what is read in more is a mixture, too,
of at most as many motions as SIGIO writes in between, and `CopyRest` mixes the first reading with the last.
It is taken for granted that the compiler does not move the copy of an event behind the store to `head`.

**`queue`** (two screens, a ring of 3 slots, 4 events, a clock with two values, SIGIO everywhere). Three slots are the
smallest ring that can be empty, hold one event and be full, with a wrap between any two; four events fill it, lose one and
still compress (813,367 states, depth 56). Two clock values tell "earlier" from "not earlier"; `TimeSlack` is larger than the clock as in the code it is larger than
any delay. It shows:

- `HeadSlotIsLive` - although SIGIO moves `tail` without a lock, the slot the consumer works on stays occupied.
- `EveryKeyAccountedFor` - every key or button is in exactly one place: ring, main thread, delivered, swallowed, tossed.
- `DrainedPointerAgrees` - when the ring is empty, `sprite`, device and dispatch screen agree, although the pointer is moved with and without events by three
  parties, unless a motion was tossed, or written to the slot being removed (`overtaken`), or the pointer was warped between screens (`warped`), or moved silently
  while motions were queued (`outrun`). The four exceptions are real, see section 10.
- `OnlyKeysGoBackwards` - only a key, stamped before SIGIO was blocked, can be delivered with a time earlier than its predecessor's.
- `ImplementsChannel` - the ring, seen as the sequence between the cursors, with the copy in progress as `cur`, is the FIFO channel of
  `EventChannel`: put, supersede, miss, read, tear, remove. So no event overtakes another, keys and buttons come out whole, and only a motion that another one
  replaces while it is being copied can come out torn.
- `LoopReturns` - `xf86eqProcessInputEvents` returns, although its screen changes enqueue motions.

Fairness: `WF_vars(MainThread)`. The main thread is preempted by SIGIO only, which returns; a burst of events is bounded by
`MaxEvents`. Without that bound the loop does not have to end while the mouse moves, and the code does not claim it.

**Proved** (`InputQueueProofs`, any ring of two or more slots, any screens, any bounds): everything but `LoopReturns`. `QueueTypeSafety` and
`HeadSlotStaysLive` come first, from `QueueInv`: `TypeOK`, `HeadSlotIsLive` and `KeyReserved` (a stamped key has a
number left in the bound). `HeadSlotIsLive` needs the type invariant because `Succ(tail) # head` only says that the ring does not become empty
if `tail` is in it. The other four, `KeysAreAccountedFor`, `PointerAgreesWhenDrained`, `TimesGoForward` and the refinement `RingImplementsChannel`, are about the ring as a
sequence of slots, `Ring`: three lemmas say that the cursors append to it, replace its last element and remove its first, whatever `head` is modulo the size
(`RingAppends`, `RingReplaces`, `RingAdvances`), and nothing after them mentions a cursor. The inductive invariant `OrderInv` adds

- `RingOK`, `CopyOK`: `lastMotion` tells the truth about the newest slot; the main thread's copy, from its first piece on (`Copied`), is that of the oldest slot, unless both are
  motions. So a key is never torn (`UntornCopy`: what is read twice from one event is that event), nor another one removed than the one delivered;
- `TimesOK`: what is not a key is not earlier than anything before it in the ring, in the main thread or delivered. Keys may be, so order among neighbours would not be inductive;
- `KeysOK`: the five places of a key are disjoint and two slots never have the same one;
- `PointerOK`: unless something irregular has happened (`Regular` is the absence of the four exceptions), a key is queued for the screen of the slot before it, the newest slot
  for the device's screen (`LastScreen`), and the newest motion on its way, in the ring or in hand, is to where the device is (`LastPos`). That is why a key never changes the screen.

`LoopReturns` is liveness and stays with TLC. Deadlock is not checked: with the bound used up and the ring empty, nothing is left to do.

**Left out:** events of extension devices (queued in two parts), DGA's events, the motion history buffer, and RandR's `SetCursorPosition`
(`X/randr/randr.c`), which moves the device silently and does not tell DIX.

## 4 Device grabs and synchronous events

**Code.** `X/dix/events.c` from `EnqueueEvent` (981) to `ProcUngrabButton`, and its callers in `window.c`, `dispatch.c`, `resource.c`,
`X/Xi/exevents.c`.

**Model.** The thread is single but its calls nest: *thaw* calls *play*, which processes an event, which can *start or end a
grab*, which computes freezes anew; and all of it in the middle of *unmap*, *destroy* or *close down*. `work` is the stack of
continuations, the innermost first, and each `Step` executes its head up to the next nested call. Requests and device events are
taken when it is empty (`Idle`).

| in `work` | action | code |
|---|---|---|
| `play` | `Play`, `PlayEnds` | one round of `PlayReleasedEvents`; the end of `ComputeFreezes` |
| `replay`, `hold`, `repeat` | `Replay`, `Hold`, `Repeat` | `syncEvents.replayDev`; what follows the activation in `CheckPassiveGrabsOnWindow`; the press half of a repeat |
| `unrealize`, `evict`, `retrace`, `crush`, `drop` | the same | `UnrealizeTree`, `DeleteWindowFromAnyEvents`, `WindowsRestructured`, `CrushTree`, freeing the window |
| `release`, `gone`, `free` | the same | `ReleaseActiveGrabs`, the rest of `CloseDownClient`, `FreeClientResources` |

| variable | code |
|---|---|
| `grab`, `fromPassive`, `activatingKey` | `dev->grab`, `fromPassiveGrab`, `activatingKey` (uninitialized at first: any value) |
| `state`, `other`, `frozen`, `held` | `dev->sync.state`, `.other`, `.frozen`, `.event`; `frozen` is `processInputProc` |
| `pending`, `playing` | `syncEvents.pending`, `.playingEvents` |
| `passive` | `wPassiveGrabs`, one entry per device and window (section 5 has the list) |
| `realized`, `alive`, `trace` | windows form one chain under the pointer; three numbers say how far they are realized, exist, and are in `spriteTrace` |
| `down`, `phys`, `done`, `grabKey` | keys DIX believes down; history: keys really down, last event processed, the key that started a grab |

`sync.other` points to a device's `activeGrab` structure, whatever it holds by then, so it is a device here. "The client gets the
event" is a choice where event masks decide, and certain for keyboard grabs of a client that is connected. A button press that is
delivered with no grab may give any connected client an asynchronous one (`ImplicitGrab`, `DeliverEventsToWindow`). Focus is PointerRoot.
Whether a motion merges with the one at the tail of the queue is a choice too: it depends on screens, and on `pendtail`, which
points behind the queue once its last event has been played.
Left out: times and bad-time replies (they change nothing), confine-to windows, cursors, owner-events masks, ChangeActivePointerGrab,
other foci, save sets, failing allocations.

| run | instance | question |
|---|---|---|
| `grab_clients` | mouse and keyboard, 2 clients, root window, key repeat, 2 events, 1 passive grab | `FrozenIffHeld`, `HeldByActiveGrab`, `HoldIsKept`: can clients thaw each other? |
| `grab_queue` | mouse and keyboard, 1 client, 3 events, 1 passive grab | `NothingStranded`, `KeysCatchUp`, `EventsInOrder`, `HeldEventIsLast`, `ButtonHoldsGrab`, `CallsReturn`: what becomes of queued events? |
| `grab_windows` | mouse with motion, 2 clients, chain of 3 windows, the lowest owned by one of them, 3 events, 1 passive grab | `ActiveGrabViewable`, `OwnersAreConnected`: windows, and clients with windows, go while grabs and queued events refer to them |

Why these bounds are enough: two devices are needed for one to freeze the other, and what a third could add is in section 10; two clients for one
to interfere; three events for press, release and one behind them in the queue while the first is replayed; three windows so that
one can be destroyed between the root and another. Larger instances were run once: mouse and keyboard on two windows with motion
and two events (5.8 million states), two clients and two events on three windows (6.1 million): no further result.
`OwnersAreConnected` names its exception: a grab that a passive grab of the leaving client started while its windows were being freed. The run reaches it (without
the exception TLC finds the trace of section 10 after 19 steps), and shows that it is the only one: neither a client without windows, nor one that retains its
resources, nor a grab the client asked for itself is left behind. `KeysCatchUp` and `EventsInOrder` hold without key repeat
by multiple downs (`MultipleDowns = FALSE`); with it they go wrong in the code, see section 10. `HoldIsKept` and `HeldByActiveGrab` are checked with two devices, where one
`sync.other` never has to name two grabs, so they say nothing of the third device's case in section 10; `ButtonHoldsGrab` is about buttons, not about `activatingKey`.
No property says that a frozen device has nothing processed: the input devices' events do go through `processInputProc`, but AccessX does not. Its timers
(`X/xkb/xkbAccessX.c:373`, `421`) hand a key's release or press to `CoreProcessKeyboardEvent` (`xkbActions.c:1383`) on a keyboard that is frozen, too. AccessX is not part of this model.

Fairness: `WF_vars(Step)`. A single thread finishes the call it is in. Clients and devices need not do anything, therefore the
system may stop anywhere outside a call, and deadlock is not checked. `CallsReturn` is then about the code: each `play` removes an
event or ends, whatever it starts.

**Proved** (`DeviceGrabsProofs`, any devices, clients, keys, windows; hypotheses where named): every property of the runs but `CallsReturn`.

1. `TypeCorrect`, `FreezesAgree` (`FrozenIffHeld`), `FreezesHaveGrabs` (`HeldByActiveGrab`), `NoneStranded` (`NothingStranded`), from the invariant `GrabInv`: `Typed` (`TypeOK`, with the shape of each continuation: an `evict` names a device, a `crush` a
   window, a `release` a client), `HeldGood` (a device in state `FROZEN_WITH_EVENT` has a real event in `held`, which is why a replay can be put in
   `work`), and the three invariants. They support each other: `NothingStranded` is only preserved because thawing goes through `ComputeFreezes`, which
   starts to play whenever the queue is not empty, and that is the statement of `FrozenIffHeld` after each of the seven places that write `state` or `other`.
2. `HeldIsLast` (`HeldEventIsLast`) and `ButtonsHoldGrabs` (`ButtonHoldsGrab`), from `HeldInv`. Between the activation of a passive grab and its `hold`
   other events are played, so the invariant is about the stack: of the `hold` calls of one device the innermost has the last event the device
   processed, if its grab still freezes it (`HoldsOn`); a `replay` is only ever on top, its device is not grabbed, and its event is the last one (`ReplayDated`), with its
   button still down.
3. `OwnersStayConnected` (`OwnersAreConnected`), from `OwnerInv`, without hypotheses. `Closing` is the shape of the stack while a client goes: `release` and `gone` at the
   bottom, then, with no grab of the client left, `gone` alone, then `free` (`Freeing`). Between requests every passive grab belongs to a client that is up;
   during `free` the client's own remain (`PassiveUp`), and whatever starts one of them runs on top of `free`, where only the deletion of one of its windows puts a call: so the client owned a
   window and the grab is a passive one (`LeftBehind`). That closing down is never nested in another call is what excludes all other leftovers.
4. `ActiveGrabsViewable` (`ActiveGrabViewable`), from `ViewInv`: whenever a grab that was asked for is on a window that is no longer viewable, a call in progress is
   going to look at it (`Doomed`: an `evict` of this device and window, or an `unrealize` that passes the window). It rests on the assumption that `EvictOrder` names all devices.
5. `EventsStayInOrder` (`EventsInOrder`) and `KeysDoCatchUp` (`KeysCatchUp`), from `OrderInv`: for each key the events in the queue alternate
   between press and release, the first is the opposite of what DIX knows and the last is where the key is (`Alternates`); events are numbered; the queue is only being
   played while a `play` is in `work`. **Hypothesis** `~MultipleDowns`, without which both are false (section 10). The lemmas on `Alternates` (an event removed from the
   middle of the queue, appended, replaced) need no induction: each says what neighbours there are before and after.
6. `HoldsAreKept` (`HoldIsKept`), from `GrabInv` and `HeldInv`. **Hypothesis** `CoreDevicesOnly`: at most two devices, see section 10 for three.

There is one lemma per operator that several actions share (`ActivateGrab`, `DeactivateGrabOn`, `DeliverGrabbedEvent`, ...), one per action, and a theorem for `Next`.
What an event does to grabs, whichever of the procedures it goes through, is said once (`Effect`, `Moves`, `Halves`), and what a step does to the
stack as well (`PlainCalls`, `SimpleCalls`, `Pushes`). **Model-checked only:** the liveness property `CallsReturn`.

## 5 Passive grabs

**Code.** `X/dix/grabs.c`. A window has one list for all devices and event types, but `GrabMatchesSecond` never relates records of
two devices, so the model is one device on one window.

**Model.** `grabs` is a set of records and the field `pos` is the order of the list, newest highest. A detail (key or modifiers) is
exact, or `AnyDetail` with the set of details whose bit in the 256-bit mask was `cleared`; `{}` stands for the NULL mask. Each
request is one action, `GrabKey`, `UngrabKey` and `CloseDownClient`. `DeletePassiveGrabFromList` collects deletions, updates and
additions while it goes through the list and applies them at the end, or backs out if memory is short; the model has the three sets
`Deleted`, `Update`, `Half`, which are what is applied. Records that meet the request fall in four classes, as in the code: freed if
included in it; any/any records are split by a single combination; others lose modifiers or a key.
`Matches` and `Started` are the search of `CheckPassiveGrabsOnWindow` for a press: the first record that matches and can confine the pointer, if
`SecurityCheckDeviceAccess` allows it. Which `confineTo` windows are realized and not empty (`shown`), and what security says (`allowed`), are not this
model's state: the two operators take them as parameters, and the property is about all their values. A grab with a `confineTo` window is a mode in `Confined`;
that the window is named by the mode makes grabs of one client with the same mode share it.

`KeyGrabs` is the promise of the protocol: `owner` maps each combination to a client or nobody; requests get all of the combinations
they name or none; a release gives back those that are named and one's own. It knows no records.

**`passive_grabs`** (2 clients, 2 keys, 2 modifier states, 2 records before the last split; symmetric in all of them; two modes, one of them confined; 5,439 states): with two
keys and modifiers, single combinations, rows, columns and the whole are four different kinds of request, and a second record already
makes splits of two records meet. Three records were run once (24,326 states), with the same result.

- `OneOwner` - no sequence of requests makes two clients hold one combination.
- `StartedIfHeld` - a press starts a grab exactly if security allows it and a record that stands for the combination can confine the pointer, whatever is
  realized; and what starts is a grab of the combination's owner. So the masks, used by `GrabMatchesSecond` with a record for an exact press, stand for
  exactly the combinations left. A held combination whose `confineTo` window is not realized starts nothing.
- `RefusedForAReason` - `BadAccess` needs a combination in common, or an emptied record of another client (section 10).
- `ImplementsKeyGrabs` - the list refines `KeyGrabs`.
- `RequestsActExactly` - each request is the *same* step of `KeyGrabs`, not just any one of them.

**Proved** (`PassiveGrabsProofs`, any sets of clients, keys, modifiers, any number of records): all of these and `TypeOK`, among them
the refinement, `ListImplementsKeyGrabs`. The inductive invariant `GrabsInv` is the typing of the records with `OneOwner`. The proof starts
from one detail (when does a mask include another, which details are left after `DeleteDetail`), lifts that to the products that records stand
for (`Covers`), and shows that a request replaces each record by records for what it covered less what was named. `OneOwner` then
follows because nothing that is covered afterwards was not covered before, or was refused. That an ungrab leaves other grabs alone is false, section 10.

## 6 Clients and server grabs

**Code.** `X/dix/dispatch.c` (`Dispatch`, `CloseDownClient`, `ProcGrabServer`, `KillAllClients`, ...), `X/os/connection.c` (masks, accepting, server
grabs, `CheckConnections`), `X/os/WaitFor.c` (who is ready), `X/dix/dixutils.c` (`ClientSleep`, `ClientWakeup`).

**Model.** The handlers call one another, so each C procedure is an operator from the state to the state it leaves, and the state is one record, `srv`; an
action applies the procedures in the order of the code. Descriptors are given out by the kernel, the lowest free one first, and masks are sets of them.

| action | code |
|---|---|
| `Connect`, `Send`, `Close` | peers (external) |
| `WriteFails`, `Hangup` | `FlushClient` that fails: the descriptor is closed, the client is not yet; SIGHUP |
| `KillStragglers`, `Straggler`, `EstablishNewConnections` | the two halves of `EstablishNewConnections`, and one step of its loop |
| `ClientWakeup`, `CheckConnections`, `Serve` | the work queue; `select()` reports EBADF; `WaitForSomething` returns the ready clients |
| `NextClient`, `EndRound`, `EndTurn`, `NoRequest` | the loops of `Dispatch`; `turn` is `new`, `begun` (a request has been read) or `over` (`isItTimeToYield`) |
| `Setup`, `Ordinary`, `ProcGrabServer`, `ProcUngrabServer`, `ProcChangeCloseDownMode`, `ProcKillClient`, `KillTemporary`, `GrabControl`, `ProcSyncSetPriority`, `ClientSleep` | a request: read, executed, and the client closed down if its descriptor has failed |
| `EndDispatch`, `KillAllClients`, `NextGeneration` | the reset, one client of its loop a step |

Both schedulers are in it: `dumb` is chosen at the start. With the smart one a round has one client, any one, because its priorities change with time. The priorities of the SYNC extension (`ProcSyncSetPriority`) come before either:
`WaitForSomething` returns only the ready clients of the highest one (`HighestPriority`), and a change of a priority ends the turn and the round.
The descriptors are in one word of the mask; section 10 says what the code does with more.

| run | instance | properties |
|---|---|---|
| `clients` | 2 clients, 1 request each outstanding: server grabs, XTestGrabControl, KillClient, close-down modes, and requests that do none of this (5.8 million states) | `CountIsRight`, `MasksAreLive`, `GrabAgrees`, `GrabExcludes`, `ResetsWithLast` |
| `clients_asleep` | 2 clients, 2 requests each: server grabs and sleep (1.0 million states) | `NobodyForgotten`, `NoHiddenInput` |
| `clients_live` | 2 clients, 2 requests each, priorities 0 and 1, under fairness (169,133 states) | `ResetCompletes`, `EveryoneServed` |

Two clients are enough for one to grab, kill, shut out or inherit the slot and the descriptor of another; a third slot is the server's own. Hidden
input needs two requests in a buffer, and a client that is taken out of the masks and put back while another has the server. `NobodyForgotten` and
`NoHiddenInput` are about clients that neither sleep nor wait (a waiter that is lost is in section 10) and do not become pervious again: with those they are false (section 10). Both were also run once with
impervious clients (16.1 million states), with the same result.

Fairness: the server never stops while there is something to do (`WF` of its steps), and a turn ends when its slice is used up, whatever the client
sends (`WF(EndTurn)`). `SF` of `Serve`, `EndDispatch` and `CheckConnections`: `WaitForSomething` goes on to `select()` after each accept, so that calls cannot keep it from what
`select()` reports, nor from seeing `dispatchException`. `EveryoneServed` is claimed without the smart scheduler only: with it the scheduler's own priorities decide.
It is not that nobody starves: the comment at `X/os/WaitFor.c:469` says that an aggressive client of high priority can take over the server, and the model lets it.
The property says that this is the only way. A client that is listened to and has sent something gets its turn unless a client of a higher priority
is ready again and again (`Outranked`), or priorities go on being changed: each change gives up the round, so two clients that change them for ever keep a third
from its turn. The run's requests are priority changes and set-ups; clients fail and close, SIGHUP resets the server, but nobody is killed or retained on request, so
that `ResetCompletes` is checked over clients that leave in other ways only. `ClientsLive.cfg` with kills and retained clients is beyond the time a check should take.

**Left out:** LBX, what an alarm or an await of the SYNC extension sets off, authentication, the order within a round (any order is
allowed), output but for the write that fails.

**Proved** (`ServerClientsProofs`, any table size, any number of outstanding requests, any set of requests, XTestGrabControl included): `CountAgrees`, `MasksStayLive` and
`GrabsAgree`, that is `CountIsRight`, `MasksAreLive` and `GrabAgrees` in every reachable state. The inductive invariant `Inv` is `Tables` and `Loops`. `Tables` is about any
state, also one in the middle of a step: a client is connected exactly if it is `Initial` or `Running`, `nextFree` is the least free slot, there is nobody from `currentMax` on (`Table`),
the translation is inverse to the clients' descriptors and no mask leaves it (`Masks`), the grab has a connected owner (`Grab`). `CloseDownClient` breaks `Table` and mends it again, so `TableBut`
says how it is in between. Each procedure has a lemma that it keeps the tables; `Loops` says what else the steps rely on: who is served is connected, and `KillAllClients` has
emptied the slots it has passed, without which `nClients = 0` in the next generation would be wrong.

`ResetsWithTheLast` is the action property `ResetsWithLast`. `Ends` is what closing somebody down owes it, from the count being right before (`nClients = 0` after the decrement
means it was the only one); a step may close down two (KillClient, then a requester whose reply failed), and that is in order because the requester runs in between (`EndsTwice`).
`ResetInv` adds to `Inv` that the reset is pending in `KillAllClients`, and that a connection being set up has nothing in its buffer: otherwise its first request could be executed with
its descriptor failed, and the step that counts it would close it down and reset a server that had no clients before.

`ServerGrabProofs` goes on from there: `GrabsExclude` is `GrabExcludes` for every instance; `NobodyIsForgotten` and `NoInputIsHidden` are `NobodyForgotten` and
`NoHiddenInput` for every instance in which no client becomes pervious (`"pervious" \notin Requests`); clients may become impervious. That restriction is needed: section 10 says
what `MakeClientGrabPervious` does to both. The inductive invariant `HeedInv` adds three parts to `Inv`. `Shut`: during a grab the live masks have its owner and
impervious clients only, whatever was attended, ignored or closed since. `Simple`: unless somebody may become pervious, whoever neither sleeps nor waits is in the mask
that will be read (`Remembered`). `RoundHeard`: unless a kickout is pending, everybody still to be served in this round is heard, as is the client being served. `NobodyShutOut`
is what each procedure owes the round under way: who was heard before is heard after, or is gone.

`MindInv` adds what `NoHiddenInput` needs. `Noticed`: whoever has a whole request in its buffer is in the mask of clients with input, live or saved, or sleeps or waits
and is in `IgnoredClientsWithInput`, which is what `AttendClient` goes by. `InputListened`: clients with input are among those listened to, live and saved
alike, because `IgnoreClient` and `ResetCurrentRequest` decide by one mask what they do to the other. `RoundListened`: who is still to be served in this round is listened to, or
a kickout ends the round first. `NobodyDropped` and `KeptInput` are what a procedure owes everybody it is not about.

**Model-checked only:** `ResetCompletes`, `EveryoneServed`.

## 7 Request input

**Code.** `X/os/io.c`: `ReadRequestFromClient`, `ResetCurrentRequest`, `InsertFakeRequest`, `FreeOsBuffers`; `ProcInitialConnection` and `CloseDownConnection` as far
as they touch the input.

**Model.** Requests are made of words (`CARD32`), `read()` cuts the stream at any byte. A buffer holds whole words and `part` bytes of one more, and `taken` is how many bytes of
the first word in a client's socket have been read. A word is what the code may take it for (the value of its length field) and what it is (word `k` of
request `req`), so that a request cut at the wrong place is seen; should the bytes in a buffer not be those that were taken from the socket, the words put together from them are
`Astray`. The tests of the code that count bytes (`!gotnow` at 328 and 485, the room at 369) look at `part`; those it makes against a number of words
(`gotnow < sizeof(xReq)`, `gotnow < needed`) do not need to, since `part` is less than a word. `in` holds the buffers, `FreeInputs` and `AvailableInput`; what lies before `bufptr` is never
read again and is left out, as is what was in a buffer that is freed.

`ReadRequestFromClient(c)` is the whole procedure, for any connected client, whether or not `select()` named it: `Dispatch` calls it again while a client's turn lasts.
A whole request may be there already. Otherwise `read()` returns what makes `n` words whole and leaves `p` bytes of the next (`ReadMore`), or finds nothing for the time
being (`EAGAIN`, lines 375-394: the room made for the request stays), or the end of the connection, or an error (395: the client is closed down). `ProcInitialConnection`,
`Execute`, `Reset`, `Kill` are what a proc does with the current request; `Connect`, `Send`, `Close` are the peers.

`RequestStream` is the promise to `Dispatch`: requests come whole, once and in order; a reset one comes again. It knows no buffers.

**`request_input`** (2 clients, words of 3 bytes, buffers of 2 words that grow to 3 and have a water mark of 2, requests of 1 and 3 words in both encodings, 2 requests a
connection; 475 thousand states): one request fits with another behind it, one makes the buffer grow, and a cut at every byte of a header, a
length word or a body occurs, with a read that finds nothing or fails after it. Three bytes to a word are enough for a word that is cut twice; `CARD32`'s fourth adds states only, and the theorems are about any number. Two clients are enough to lend a buffer and to take it back.

- `BufferBounds` - the buffer always has room for what it is said to hold, though it grows, shrinks and is lent (this is the type invariant too).
- `NoHiddenRequest` - a whole request in a buffer is in `ClientsWithInput`; `select()` would not report it.
- `OneOwner` - no buffer has two users, what is lent is empty, without so much as a byte of the next header.
- `ImplementsStream` - the refinement.

The procs do not reset requests in the extended encoding there (`ResetBig = FALSE`). **`request_reset`** allows it, and ends in a counterexample: section 10.

**Proved** (`RequestInputProofs`, any finite number of clients, any sizes of words and buffers and lengths of requests): `BufferBoundsHold`, `NoHiddenRequestHolds`,
`OneOwnerHolds` and the refinement, `Implements`, all under the hypothesis `~ResetBig`, which is needed: `request_reset` is the counterexample without it. The inductive
invariant `Inv` says of the buffers in themselves that each fits, has one user, and is empty when it is lent or free (`BuffersOK`, in `Types`), and of each connection (`InOrder`):

- `Numbered`: the outstanding requests have different numbers, and are in the extended encoding only if the client may use it;
- `Stored`: what the buffer holds after the last request, followed by what is in the socket, is the encodings of the requests that were not executed, one
  behind the other (`Encodes`, with the offsets at which they start), but for the length in a set-up's first word, which the server makes up;
- the client is in `ClientsWithInput` exactly if that part of the buffer starts with a whole request (`Whole`);
- `Served`: what the proc under way was given is `Contents` of the first of them.

`InStep`, the third part, says that the bytes of a cut word in a client's buffer are those that were taken from its socket: it is what goes wrong when a buffer is lent with such bytes in it
(line 485 made in whole words, the mutant `ReturnRequestLendsPart`), and without it the next word read would be `Astray`.

`NoHiddenRequest` is then immediate, and the refinement follows because the state of `RequestStream` is what `Stored` relates the buffers to. `Encodes` is stated with
offsets and not by concatenation since a function of all requests would need induction. The longest part of the proof is `ReadRequestFromClient`, cut into `TakeBuffer` (a pigeonhole
argument, `BufferLeft`, says that there is a buffer to take), growing and reading, and `ReturnRequest`. **Left out:** byte order, output buffers, `PeekNextRequest` and `SkipRequests` (LBX), failing allocations, requests of length zero.

## 8 Timers

**Code.** `X/os/WaitFor.c:191-201`, `402-407` and `527-657`: the list, `TimerSet`, `TimerForce`, `TimerCancel`, `TimerFree`, `TimerInit`, and the two loops over due timers.

**Model.** `clock` and `expires` count modulo `W`, which stands for 2^32. `Signed` is the cast of a difference to `int`. A callback is a frame on `stack`, from the call until it
returns; while it runs time may pass and it may set or cancel one timer, and that `TimerSet` may call the next callback at once. `Loop` is a round
of the loop, with the `now` read before it. `RequestSets`, `RequestCancels`, `TimerForce`, `TimerInit` happen between visits to `WaitForSomething`. `TimerForceOld` and `TimerAbsolute` have no users. `disordered` is history: a
timer that `TimerSet` called at once and that asks to be called again is put into the list by the *delay* it returned.

`SelfSetters` are the timers that may be set while their own callbacks run. AccessX has one: `AccessXRepeatKeyExpire` (`X/xkb/xkbAccessX.c:361-376`) releases the key it repeats; the release
may end a grab (`X/dix/events.c:2779-2790`) and so play a queued press (`:1085`) into `AccessXFilterPressEvent`, which sets the same timer (`xkbAccessX.c:632`). The timer is then linked while it is being called. When `DoTimer`
called it that does no harm, for the `TimerSet` after the callback unlinks the timer first. When `TimerSet` called it, at the wrap, the timer is linked a second time (`WaitFor.c:583-588`
unlinks nothing) and the list closes upon itself: `ring`. The model does not follow a list that has no end (section 10).

**`timers`** (2 timers, delays 1, 2 and 4, `W` = 26, a server that is up to 2 ticks late, callbacks nested twice, one of the timers a self-setter; 55,757 states): the delays leave room below half the
range, as the ones in the code do, and the clock starts anywhere, so that each set meets the wrap. Run once: 3 timers with `W` = 28 and delays 1 and 2 (249,996 states), and for `Punctual` and its
inductive invariant 3 timers, of which two set themselves, nested three deep (639,165 states) and 3 with `W` = 38 and delays 2, 7 (1,572,047 states), with the same result.

- `Punctual` - if the server gets to the head of the list in time then no timer is late: the order is kept by signed differences across the wrap. After
  a `disordered` insertion a timer may be late by one delay more, or by what the calls around the insertion took (less than `MaxNested` ticks).
- `TimersServed` - the loop ends whatever callbacks set, their own timers included, and each due timer is called if the server gets to its list again and again; or the list has become a ring.

Fairness: callbacks return and the loop goes on (`WF(Serve)`), time passes (`SF(Tick)`, for `MaxLag` bounds it now and then). That the list is visited is a *condition* of
`TimersServed`, not fairness: with requests always pending `WaitForSomething` does not look at timers at all (section 10).

**Proved** (`TimersProofs`, any timers, self-setters, delays, widths and depths): `ListIsProper` (the linked list never holds a timer twice, which is what makes unlinking it
once enough, and without self-setters it never becomes a ring) and `CalledOnceAtATime` (a timer that is not a self-setter is not called while its callback runs, and is not in the list while it is being called: `CallsApart`). The inductive invariant
`Inv` adds to their conjunction that only the last callback has not acted yet and that until then *no* called timer is linked. `TimersArePunctual` is `Punctual`, for self-setters too, by `TimeInv`, two invariants of which each needs the other:

- `InOrder`: each timer in the list waits for a delay at most, and is at most `MaxLag` late (a delay more once something is misplaced); and of two timers the earlier in the list
  is not the later to expire, again up to a delay once something is misplaced. Signed differences are not transitive, so this is stated for every pair and not for neighbours.
- `InTime`: for each call on `stack` there is a number `left` of ticks the clock can still go on before the call returns, which grows outwards; and a timer that `TimerSet`
  called at once, because its time had wrapped to a small number, is past by so little that with these ticks it is still less than `MaxNested` late when it is put back (unless it has been linked meanwhile).

The list lemmas (`UnlinkInOrder`, `InsertInOrder`, `SetInOrder`, `MisplacedInOrder`) are about any order; the arithmetic modulo `W` is in lemmas of its own, which assume
`DelaysAssumption`: `d + MaxLag + ...` below half the range makes the signed difference tell past from future, and `2 * d + MaxLag` below half the range is needed where a misplaced timer is compared
with a delay (with `W` = 34, `MaxLag` = 0 and delays 1 and 9 TLC shows an order that is lost for good). The code's delays are milliseconds to hours, against a half range
of 24.8 days; the exception is in section 10. **Model-checked only:** `TimersServed`.

## 9 XDMCP

**Code.** The display, `X/os/xdmcp.c`; the manager, `src/programs/xdm/xdmcp.c`, `protodpy.c`, `dm.c`, `server.c`, `auth.c`.

**Model.** One display and one manager. Datagrams in flight are two sets; `Lose` loses one, `Read` may leave it for another time, and a late one is any. An
action per datagram and state (`recv_willing_msg` ... `recv_alive_msg`, `query_respond`, `request_respond`, `manage`, `send_alive`), the
timer (`TimedOut`, with `timeout` and its limits), the connection of the session (`XdmcpOpenDisplay`, `XdmcpCloseDisplay`, `HangUp`), the reset. In xdm `proto` is the
`protoDisplay`, `active` the `struct display`, and a session process is `kid`: forked by `StartDisplay`, it opens the display whenever it gets to
it (`Connect`, `GiveUp`), ends (`Exit`) and is reaped (`WaitForChild`). `Crash` is a failure of the manager's host: nothing is closed, everything is forgotten.

**`xdmcp`** (2 session ids, 2 keys, 3 datagrams in flight, 2 of them in one direction, 1 copy, 1 crash, limits of 2 retransmissions; 2.71 million states): two ids are needed for an answer to an
earlier session to arrive in a later one, two answers for one to overtake another, and two questions for a REQUEST to come after a MANAGE.

- `NothingLiveIsDropped` - a late or repeated REFUSE or FAILED never makes the display drop a session id that xdm still has on offer, or the server exit for a session that is
  on offer or has its process. A refusal does make it drop a session that xdm has started if a later session id has been given out since: a late REQUEST made a new `protoDisplay`, and a MANAGE that is repeated
  is refused for it (section 10). The property says that this is the only way; without the exception TLC finds that way after 10 states.
- `FailureIsNoticed` - a session whose manager's host has failed ends, though the connection stays open for ever.

Fairness: `WF(TimedOut)`, the server is idle now and then so that `select()` times out (while there are clients, each wake-up of `select()` pushes the timer of a session out, `X/os/xdmcp.c:709-710`), and `WF(XdmcpReset)`. Nothing is assumed of xdm or of the network.

**Proved** (`XdmcpProofs`, any number of ids, keys, copies, crashes): `TypeCorrect`, and `AnswersDropNothing`, that is `NothingLiveIsDropped` for every instance. The inductive invariant says
that every id in the network has been handed out (`IdsKnown`), which session ids xdm and its processes can be about (`SessionKnown`, `OfferedOrManaged`), and, the heart of it, that an id for which a
FAILED is in flight is neither on offer nor managed, nor will be again, and one for which a REFUSE is in flight is not on offer, nor managed unless a later id has been handed out (`RefusedForGood`).
The last rests on the id on offer being the last one handed out. **Model-checked only:** `FailureIsNoticed`.

**Left out:** choosers, broadcast and indirect queries, several displays, `-once`, authentication of the manager, xdm's allocation failures and configuration, the login.

## 10 Disagreements between code and documents

One run ends in a counterexample:

- `request_reset` - `X/os/io.c:641` writes `req_len` back as the length word of a request in the extended encoding, but one has been taken off it (line 506). The request is
  read again one word short, and the stream is cut at the wrong place.

Seen while modelling, and not kept as runs. Input queue:

- `X/hw/xfree86/common/xf86Xinput.c:636` wants `xf86eqEnqueue` to be reentrant with `ProcessInputEvents`. A motion that
  arrives after the copy of the last queued motion and before `++head` merges into the slot that is being removed, and is lost. One that arrives in the middle of the
  copy (lines 756-757, 765) is delivered torn: the position of one motion with the time of the other, or `x` of one and `y` of the other.
- `X/mi/mipointer.c:246-260`: a silent warp (`CheckMotion`'s clipping, a confining grab, a cursor with another hot spot) leaves the motions in the ring alone. They are delivered after it, and
  take the sprite to where the pointer was before; the device stays where it was warped to. This is why `DrainedPointerAgrees` excludes `outrun`.
- `X/dix/events.c:2294`: a client that warps the pointer to the screen the mouse has just entered (the motion is still queued) leaves dispatch
  screen and sprite's screen apart. This is why `DrainedPointerAgrees` excludes `warped`.
- `xf86Xinput.c:752`: if the ring was full when a motion to another screen arrived, the next event, a key or button even, is used up as the change
  of screen, with coordinates nobody set (`swallowed`).
- `xf86Xinput.c:710`: the correction of times compares with `lastEventTime`, which is only set in `xf86eqInit`; key times can therefore
  go backwards (`OnlyKeysGoBackwards`).

Grabs:

- A client that is being closed down ends up with an active grab: one of its windows is freed before one of its
  passive grabs, another client's grab on that window is ended, and a queued press starts the passive grab. The `XXX` at
  `X/dix/events.c:1511` sees the danger. If the passive grab is synchronous, its device is frozen by a client that is gone, and only another grab
  of that client's resources could thaw it. `OwnersAreConnected` allows this, and nothing else.
- The release half of a queued repeat freezes its keyboard, and the press half, sent to `processInputProc`, is queued behind the real release: the key stays down.
- A passive grab started by a *replayed* press has the `activatingKey` of an earlier one and does not end with its key.
- `window.c:3033`: a queued press played in the middle of `UnrealizeTree` still sees the old sprite trace and can start a passive grab on the
  window that is being unmapped (`ActiveGrabViewable` is about other grabs for this reason).
- `events.c:1224`: with three devices, a synchronous grab of a second client overwrites `sync.other` of a device the first client froze;
  when it ends, the device thaws. `HoldIsKept` is checked with two.
- Ungrabbing one combination of an old any/any grab puts the second half of it in front of a newer grab that had overridden it.
- `grabs.c:323`: an any-key grab from which every key was ungrabbed, one by one, still causes `BadAccess` (`RefusedForAReason` allows it).

Clients:

- `dispatch.c:395`: without the smart scheduler a client that is killed in the middle of a round and retains its resources is still in `clientReady`, and its `osPrivate` is NULL. The model
  ends there in the phase `crashed`.
- A client impervious to grabs that sleeps, or waits for the server, during another's grab is listened to again by `ListenToAllClients`, before its time.
- `MakeClientGrabPervious` during a grab, of a client attended during it, takes it out of the live masks and puts it in no saved one: it is never heard again.
  It can also leave requests unread: it puts the client's bit for buffered input in the saved mask, so the end of the grab makes it one of those with input, but not one listened
  to. If it grows impervious again and another grab cuts its turn off, `ResetCurrentRequest` notes the input in `IgnoredClientsWithInput` and takes it out of the saved mask
  (`connection.c:1222`), and when that grab ends its whole requests stay in the buffer until it sends more. TLC finds this with three requests outstanding.
- `X/os/WaitFor.c:436`: the comment at 469-476 promises that only the clients of the highest priority are returned, but `highest_priority` starts at 0 again for each
  word of the descriptor mask: clients of a later word with any priority above 0 displace those of an earlier one with a higher priority, those with 0 are added to them.
- Of two waiters `UngrabServer` wakes one; if that one dies before it grabs, the other is not woken (`dispatch.c:1189`).

Timers:

- A delay of half the range or more, 24.8 days, is over at once (`WaitFor.c:201`). `X/Xext/security.c:205-222` adds up such delays on purpose, for
  authorizations that are to be kept longer (`src/doc/specs/Xext/security.tex:174-179` counts the time-out in seconds, with no other limit than its 32 bits).
- `WaitFor.c:576` compares times without their sign: a timer that is set shortly before the wrap is called at once, and if it asks to be called again after r it is put where time r belongs. Others can then
  be late by one delay or by the calls around it (`Punctual` allows it).
- If the timer so called is set by its own callback, as AccessX's repeat timer can be (section 8), and the callback returns r, it is linked twice: `timer->next` ends up pointing back, timers behind it are lost
  and the next walk of the list need not end. `ring` marks it (reached in `timers` from a clock just below the wrap); `Punctual` and `TimersServed` say nothing of the list after that.
- `WaitFor.c:166-190`, `391-400`: while some client has input buffered timers are not looked at, so a busy client delays them as long as it likes.

XDMCP:

- Each REQUEST, a repeated one too, makes a new authorization key (`xdm/xdmcp.c:804`), but the display keeps that of the first ACCEPT it takes: the session's `XOpenDisplay` is refused, xdm
  sends FAILED, and the server exits. By `src/doc/specs/XDMCP/xdmcp.ms:785-792` the ACCEPT tells which authorization the manager will use.
- A MANAGE that is repeated while the session is starting is refused if a late REQUEST has made a new `protoDisplay` (`xdm/xdmcp.c:943`); `xdmcp.ms:945-950` wants it ignored.
- UNWILLING and DECLINE end the server in every state (`X/os/xdmcp.c:791`, `1194`), also when they come late.
- An ALIVE that answers an older KEEPALIVE, from before the session ran, ends a session that lives.
- `XdmcpOpenDisplay` takes the first connection it sees for the session's, whoever it is.

## 11 Not modelled

- *Resource table, server time, VT switching*: next in the plan.
- *Xlib's replies, session management, fonts and font servers, SYNC's alarms, AccessX, the DRI's lock*: protocols worth a module each, after those.
- *Atoms, properties, colormaps, other extensions*: sequential tables; a test reaches what a model would.
- *Windows' geometry, rendering*: region arithmetic and pixels, out of TLC's reach.
- *Drivers, loader, toolkits, clients, vendored and generated code*: most of the repository by size, and not protocols.

Within what is modelled, each section above says what is left out. Out of reach of the proofs are liveness under fairness and induction over data, so those parts stay with TLC.

## 12 How to run the checks

    tlc -config InputQueue.cfg InputQueue.tla
    tlc -config GrabClients.cfg MCDeviceGrabs.tla         # GrabQueue, GrabWindows alike
    tlc -config PassiveGrabs.cfg MCPassiveGrabs.tla
    tlc -config Clients.cfg ServerClients.tla             # ClientsAsleep, ClientsLive alike
    tlc -config RequestInput.cfg MCRequestInput.tla       # RequestReset alike: ends in a counterexample
    tlc -config Timers.cfg Timers.tla
    tlc -config Xdmcp.cfg Xdmcp.tla
    tlapm InputQueueProofs.tla                            # the other *Proofs modules alike

`PROJECT.json` names for each run its properties, for each property a wrong variant of a definition (marked "mutant" in the modules) under
which TLC finds it violated, and for each definition the lines of the source it translates.

The type invariants of `InputQueue`, `DeviceGrabs`, `PassiveGrabs`, `Timers` and `Xdmcp` are proved and are therefore in no run; none of
the theorems rests on an unproved lemma. The assumptions on constants are stated by name in the modules: a ring of two slots or more,
`Nobody` no client, pointers and keyboards disjoint, 0 no key or button (key codes start at 8, buttons at 1), every device in `EvictOrder`, the root window owned by no client, finitely many clients and
`None` neither client, buffer nor request, words of one byte or more, delays that leave room below half the range of the clock, and natural numbers for the bounds.
