------------------------- MODULE DeviceGrabsProofs -------------------------
(***************************************************************************)
(* Proofs about DeviceGrabs, for every set of devices and clients, every   *)
(* depth of the window chain and every bound.                              *)
(*                                                                         *)
(* Every action ends in one of a few operators (ComputeFreezes,            *)
(* ActivateGrab, DeactivateGrabOn, Deliver), so there is a lemma for what  *)
(* each of them establishes, one for ProcessEvent, and the proof for an    *)
(* action cites them.                                                      *)
(***************************************************************************)
EXTENDS DeviceGrabs, TLAPS, SequenceTheorems, FiniteSetTheorems

\* Only presses and releases name a key.
GoodEvent == {e \in Event : e.type # "motion" => e.key \in Keys}

\* The arguments of the calls in progress.
GoodCall ==
  {r \in Call :
     /\ r.op \in {"replay", "hold", "repeat"} => r.ev \in GoodEvent
     /\ r.op \in {"hold", "repeat"} => r.dev = r.ev.dev
     /\ r.op = "evict" => r.dev \in Devices
     /\ r.op \in {"crush", "drop"} => r.win \in 2 .. Depth
     /\ r.op = "unrealize" => r.win \in 1 .. r.last
     /\ r.op \in {"release", "gone", "free"} => r.client \in Clients}

SyncTyped ==
  /\ grab \in [Devices -> Grab \cup {NoGrab}]
  /\ fromPassive \in [Devices -> BOOLEAN]
  /\ state \in [Devices -> SyncStates]
  /\ other \in [Devices -> Devices \cup {NoDev}]
  /\ frozen \in [Devices -> BOOLEAN]
  /\ playing \in BOOLEAN

KeysTyped ==
  /\ held \in [Devices -> Event \cup {NoEvent}]
  /\ activatingKey \in [Devices -> Keys \cup {0}]
  /\ grabKey \in [Devices -> Keys \cup {0}]
  /\ down \in [Devices -> SUBSET Keys]

WindowTyped == realized \in Windows /\ alive \in Windows /\ trace \in Windows

RequestTyped ==
  /\ passive \in [Devices -> [Windows -> Passive \cup {NoPassive}]]
  /\ status \in [Clients -> {"up", "retained", "gone"}]
  /\ phys \in [Devices -> SUBSET Keys]
  /\ events \in 0 .. MaxEvents /\ grabs \in 0 .. MaxPassive

DoneTyped == done \in [Devices -> 0 .. MaxEvents]
CallsGood == work \in Seq(GoodCall)
QueueGood == pending \in Seq(GoodEvent)

\* A device frozen with an event has one to replay.
HeldGood == \A d \in Devices : state[d] = "FROZEN_WITH_EVENT" => held[d] \in GoodEvent

Typed == /\ SyncTyped /\ KeysTyped /\ DoneTyped /\ WindowTyped /\ RequestTyped
         /\ CallsGood /\ QueueGood

\* The inductive invariant.
GrabInv == /\ Typed /\ HeldGood
           /\ FrozenIffHeld /\ HeldByActiveGrab /\ NothingStranded

\* How a step leaves the queue: it is empty or being played, or the step has
\* thawed nothing.
StrandsNothing ==
  \/ playing' = TRUE
  \/ pending' = <<>>
  \/ playing' = playing /\ \A e \in Devices : frozen[e] => frozen'[e]

\* What holds after every step that changes grabs or freezes.
SyncKept == SyncTyped' /\ FrozenIffHeld' /\ HeldByActiveGrab' /\ CallsGood' /\ StrandsNothing

\* No device has come to hold an event.
HoldsNoNew ==
  \A e \in Devices : state'[e] = "FROZEN_WITH_EVENT" => state[e] = "FROZEN_WITH_EVENT"

-----------------------------------------------------------------------------
(* Calls.                                                                  *)

\* A call is well typed if its arguments are.
LEMMA ItemType ==
  ASSUME NEW op \in Ops, NEW d \in Devices \cup {NoDev}, NEW w \in 0 .. Depth,
         NEW v \in 0 .. Depth, NEW c \in Clients \cup {Nobody},
         NEW ev \in Event \cup {NoEvent}
  PROVE  Item(op, d, w, v, c, ev) \in Call
BY DEF Item, Call

\* The two calls without arguments are well formed.
LEMMA PlayGood == Do("play") \in GoodCall /\ Do("retrace") \in GoodCall
<1>1. Do("play") \in Call /\ Do("retrace") \in Call
  BY ItemType, ClientAssumption DEF Do, Ops
<1> QED
  BY <1>1 DEF Do, Item, GoodCall

\* The fields of an event.
LEMMA EventFields ==
  ASSUME NEW ev \in GoodEvent
  PROVE  /\ ev \in Event /\ ev.dev \in Devices /\ ev.n \in 1 .. MaxEvents
         /\ ev.type \in {"press", "release", "motion"}
         /\ ev.key \in Keys \cup {0}
         /\ ev.type # "motion" => ev.key \in Keys
BY DEF GoodEvent, Event

\* So is a call with an event,
LEMMA EventCallGood ==
  ASSUME NEW op \in {"replay", "hold", "repeat"}, NEW w \in 0 .. Depth,
         NEW ev \in GoodEvent
  PROVE  DoEvent(op, w, ev) \in GoodCall
<1>1. DoEvent(op, w, ev) \in Call
  BY ItemType, EventFields, ClientAssumption DEF DoEvent, Ops
<1> QED
  BY <1>1 DEF DoEvent, Item, GoodCall

\* the list of calls that check a window's grabs,
LEMMA EvictGood ==
  ASSUME NEW d \in Devices, NEW w \in Windows
  PROVE  DoWindow("evict", d, w, 0) \in GoodCall
<1>1. DoWindow("evict", d, w, 0) \in Call
  BY ItemType, ClientAssumption DEF DoWindow, Ops, Windows
<1> QED
  BY <1>1 DEF DoWindow, Item, GoodCall

\* a call that unmaps or frees windows,
LEMMA WindowCallGood ==
  ASSUME NEW op \in {"crush", "drop"}, NEW w \in 2 .. Depth
  PROVE  DoWindow(op, NoDev, w, 0) \in GoodCall
<1>1. DoWindow(op, NoDev, w, 0) \in Call
  BY ItemType, ClientAssumption DEF DoWindow, Ops
<1> QED
  BY <1>1 DEF DoWindow, Item, GoodCall

\* and one that closes down a client.
LEMMA ClientCallGood ==
  ASSUME NEW op \in {"release", "gone", "free"}, NEW c \in Clients
  PROVE  DoClient(op, c) \in GoodCall
<1>1. DoClient(op, c) \in Call
  BY ItemType, ClientAssumption DEF DoClient, Ops
<1> QED
  BY <1>1 DEF DoClient, Item, GoodCall

\* UnmapWindow and DeleteWindow put well-formed calls on the stack.
LEMMA UnrealizeGood ==
  ASSUME NEW w \in Windows, NEW v \in Windows, w <= v
  PROVE  DoWindow("unrealize", NoDev, w, v) \in GoodCall
<1>1. DoWindow("unrealize", NoDev, w, v) \in Call
  BY ItemType, ClientAssumption DEF DoWindow, Ops, Windows
<1>2. w \in 1 .. v
  BY ClientAssumption DEF Windows
<1> QED
  BY <1>1, <1>2 DEF DoWindow, Item, GoodCall

\* Pushing a call on a stack of good calls, and popping one.
LEMMA PushGood ==
  ASSUME NEW r \in GoodCall, NEW rest \in Seq(GoodCall)
  PROVE  <<r>> \o rest \in Seq(GoodCall)
OBVIOUS

\* What is left when a call returns is well formed, and so is the call.
LEMMA PopGood ==
  ASSUME CallsGood, work # <<>>
  PROVE  Head(work) \in GoodCall /\ Tail(work) \in Seq(GoodCall)
BY DEF CallsGood

\* The calls of DeleteWindowFromAnyEvents.
LEMMA EvictFromGood ==
  ASSUME NEW w \in Windows
  PROVE  EvictFrom(w) \in Seq(GoodCall)
<1>1. Len(EvictOrder) \in Nat /\ \A i \in 1 .. Len(EvictOrder) : EvictOrder[i] \in Devices
  BY DeviceAssumption, ElementOfSeq, LenProperties
<1>2. \A i \in 1 .. Len(EvictOrder) :
        DoWindow("evict", EvictOrder[i], w, 0) \in GoodCall
  BY <1>1, EvictGood
<1> QED
  BY <1>1, <1>2, SeqDef DEF EvictFrom

-----------------------------------------------------------------------------
(* Grabs and freezes.                                                      *)

\* ComputeFreezes makes the frozen flags agree with sync.state and sync.other,
\* and starts playing whenever a queue is left.
LEMMA ComputeFreezesKeeps ==
  ASSUME SyncTyped, state' \in [Devices -> SyncStates],
         other' \in [Devices -> Devices \cup {NoDev}],
         NEW replay \in Seq(GoodCall), NEW rest \in Seq(GoodCall),
         ComputeFreezes(replay, rest)
  PROVE  /\ frozen' \in [Devices -> BOOLEAN] /\ playing' \in BOOLEAN
         /\ FrozenIffHeld' /\ CallsGood'
         /\ playing' = TRUE \/ pending' = <<>>
<1>1. frozen' = [d \in Devices |-> other'[d] # NoDev \/ state'[d] \in FROZEN]
  BY DEF ComputeFreezes
<1>2. frozen' \in [Devices -> BOOLEAN] /\ FrozenIffHeld'
  BY <1>1 DEF FrozenIffHeld
<1>3. CASE playing \/ (replay = <<>> /\ pending' = <<>>)
  <2>1. playing' = playing /\ work' = rest
    BY <1>3 DEF ComputeFreezes
  <2> QED
    BY <1>2, <1>3, <2>1 DEF SyncTyped, CallsGood
<1>4. CASE ~(playing \/ (replay = <<>> /\ pending' = <<>>))
  <2>1. playing' = TRUE /\ work' = replay \o <<Do("play")>> \o rest
    BY <1>4 DEF ComputeFreezes
  <2>2. work' \in Seq(GoodCall)
    BY <2>1, PlayGood, ConcatProperties
  <2> QED
    BY <1>2, <2>1, <2>2 DEF CallsGood
<1> QED
  BY <1>3, <1>4

\* ActivatePointerGrab and ActivateKeyboardGrab.
LEMMA ActivateGrabKeeps ==
  ASSUME SyncTyped, HeldByActiveGrab,
         NEW d \in Devices, NEW g \in Grab, NEW auto \in BOOLEAN,
         NEW m \in Modes, NEW o \in Modes, NEW rest \in Seq(GoodCall),
         ActivateGrab(d, g, auto, m, o, rest)
  PROVE  SyncKept /\ HoldsNoNew
<1>1. /\ grab' = [grab EXCEPT ![d] = g]
      /\ fromPassive' = [fromPassive EXCEPT ![d] = auto]
      /\ state' = [state EXCEPT ![d] = IF m = "Sync" THEN "FROZEN_NO_EVENT" ELSE "THAWED"]
      /\ other' = [e \in Devices |->
           IF e # d /\ o = "Sync" THEN d
           ELSE IF (e = d => m = "Async") /\ HeldBy(grab', e, grab'[d].client)
           THEN NoDev ELSE other[e]]
      /\ ComputeFreezes(<<>>, rest)
  BY DEF ActivateGrab, CheckGrabForSyncs
<1>2. g # NoGrab
  BY ClientAssumption DEF Grab, NoGrab
<1>3. /\ grab' \in [Devices -> Grab \cup {NoGrab}]
      /\ fromPassive' \in [Devices -> BOOLEAN]
      /\ state' \in [Devices -> SyncStates]
      /\ other' \in [Devices -> Devices \cup {NoDev}]
  <2>1. grab' \in [Devices -> Grab \cup {NoGrab}] /\ fromPassive' \in [Devices -> BOOLEAN]
    BY <1>1 DEF SyncTyped
  <2>2. state' \in [Devices -> SyncStates]
    BY <1>1 DEF SyncTyped, SyncStates, FROZEN
  <2>3. \A e \in Devices : other'[e] \in Devices \cup {NoDev}
    BY <1>1 DEF SyncTyped
  <2> QED
    BY <1>1, <2>1, <2>2, <2>3
<1>4. HeldByActiveGrab'
  <2>1. \A e \in Devices : other'[e] \in {other[e], NoDev} \/ (e # d /\ other'[e] = d)
    BY <1>1
  <2>2. \A e \in Devices : other'[e] # NoDev => other'[e] # e /\ grab'[other'[e]] # NoGrab
    <3>1. grab'[d] = g /\ \A x \in Devices : x # d => grab'[x] = grab[x]
      BY <1>1 DEF SyncTyped
    <3>2. \A e \in Devices : other[e] # NoDev =>
            other[e] \in Devices /\ other[e] # e /\ grab[other[e]] # NoGrab
      BY DEF HeldByActiveGrab, SyncTyped
    <3> QED
      BY <1>2, <2>1, <3>1, <3>2
  <2>3. \A e \in Devices : state'[e] = "NOT_GRABBED" <=> grab'[e] = NoGrab
    BY <1>1, <1>2 DEF HeldByActiveGrab, SyncTyped
  <2>4. \A e \in Devices : fromPassive'[e] => grab'[e] # NoGrab
    BY <1>1, <1>2 DEF HeldByActiveGrab, SyncTyped
  <2> QED
    BY <2>2, <2>3, <2>4 DEF HeldByActiveGrab
<1>5. HoldsNoNew
  BY <1>1 DEF HoldsNoNew, SyncTyped
<1>6. <<>> \in Seq(GoodCall)
  OBVIOUS
<1> QED
  BY <1>1, <1>3, <1>4, <1>5, <1>6, ComputeFreezesKeeps
     DEF SyncKept, SyncTyped, StrandsNothing

\* DeactivatePointerGrab and DeactivateKeyboardGrab, and AllowSome's replay.
LEMMA DeactivateGrabKeeps ==
  ASSUME SyncTyped, HeldByActiveGrab,
         NEW d \in Devices, NEW otr \in [Devices -> Devices \cup {NoDev}],
         \A e \in Devices : otr[e] \in {other[e], NoDev},
         NEW replay \in Seq(GoodCall), NEW rest \in Seq(GoodCall),
         DeactivateGrabOn(otr, d, replay, rest)
  PROVE  SyncKept /\ HoldsNoNew
<1>1. /\ grab' = [grab EXCEPT ![d] = NoGrab]
      /\ fromPassive' = [fromPassive EXCEPT ![d] = FALSE]
      /\ state' = [state EXCEPT ![d] = "NOT_GRABBED"]
      /\ other' = [e \in Devices |-> IF otr[e] = d THEN NoDev ELSE otr[e]]
      /\ ComputeFreezes(replay, rest)
  BY DEF DeactivateGrabOn
<1>2. /\ grab' \in [Devices -> Grab \cup {NoGrab}]
      /\ fromPassive' \in [Devices -> BOOLEAN]
      /\ state' \in [Devices -> SyncStates]
      /\ other' \in [Devices -> Devices \cup {NoDev}]
  BY <1>1 DEF SyncTyped, SyncStates
<1>3. HeldByActiveGrab'
  <2>1. \A e \in Devices : other'[e] # NoDev => other'[e] = other[e] /\ other[e] # d
    BY <1>1
  <2>2. \A e \in Devices : other'[e] # NoDev => other'[e] # e /\ grab'[other'[e]] # NoGrab
    BY <1>1, <2>1 DEF HeldByActiveGrab, SyncTyped
  <2>3. \A e \in Devices : state'[e] = "NOT_GRABBED" <=> grab'[e] = NoGrab
    BY <1>1 DEF HeldByActiveGrab, SyncTyped
  <2>4. \A e \in Devices : fromPassive'[e] => grab'[e] # NoGrab
    BY <1>1 DEF HeldByActiveGrab, SyncTyped
  <2> QED
    BY <2>2, <2>3, <2>4 DEF HeldByActiveGrab
<1>4. HoldsNoNew
  BY <1>1 DEF HoldsNoNew, SyncTyped
<1> QED
  BY <1>1, <1>2, <1>3, <1>4, ComputeFreezesKeeps
     DEF SyncKept, SyncTyped, StrandsNothing

\* DeactivatePointerGrab and DeactivateKeyboardGrab keep freezes and grabs in agreement.
LEMMA DeactivateKeeps ==
  ASSUME SyncTyped, HeldByActiveGrab, NEW d \in Devices,
         NEW rest \in Seq(GoodCall), DeactivateGrab(d, <<>>, rest)
  PROVE  SyncKept /\ HoldsNoNew
<1>1. other \in [Devices -> Devices \cup {NoDev}] /\ <<>> \in Seq(GoodCall)
  BY DEF SyncTyped
<1>2. DeactivateGrabOn(other, d, <<>>, rest)
  BY DEF DeactivateGrab
<1> QED
  BY <1>1, <1>2, DeactivateGrabKeeps

\* FreezeThaw in DeliverGrabbedEvent: devices are frozen, none is thawed.
LEMMA FreezeForKeeps ==
  ASSUME SyncTyped, HeldByActiveGrab, FrozenIffHeld, HeldGood,
         held \in [Devices -> Event \cup {NoEvent}],
         NEW ev \in GoodEvent, grab[ev.dev] # NoGrab, FreezeFor(ev),
         playing' = playing, CallsGood'
  PROVE  SyncKept /\ HeldGood' /\ held' \in [Devices -> Event \cup {NoEvent}]
<1> DEFINE d == ev.dev
           both == state[d] = "FREEZE_BOTH_NEXT_EVENT"
           along == {e \in Devices \ {d} : both /\ state[e] = "FREEZE_BOTH_NEXT_EVENT"
                                           /\ grab[e].client = grab[d].client}
           tied == IF both THEN Devices \ ({d} \cup along) ELSE {}
<1>1. d \in Devices /\ ev \in Event
  BY EventFields
<1>2. /\ state' = [e \in Devices |-> IF e = d THEN "FROZEN_WITH_EVENT"
                                    ELSE IF e \in along THEN "FROZEN_NO_EVENT"
                                    ELSE state[e]]
      /\ other' = [e \in Devices |-> IF e \in tied THEN d ELSE other[e]]
      /\ frozen' = [e \in Devices |-> e = d \/ both \/ frozen[e]]
      /\ held' = [held EXCEPT ![d] = ev]
      /\ grab' = grab /\ fromPassive' = fromPassive
  BY DEF FreezeFor
<1>3. SyncTyped'
  BY <1>1, <1>2 DEF SyncTyped, SyncStates, FROZEN
<1>4. FrozenIffHeld'
  <2> SUFFICES ASSUME NEW e \in Devices
               PROVE  frozen'[e] <=> other'[e] # NoDev \/ state'[e] \in FROZEN
    BY DEF FrozenIffHeld
  <2>1. CASE e = d
    BY <1>2, <2>1 DEF FROZEN
  <2>2. CASE e # d /\ e \in along
    BY <1>2, <2>2 DEF FROZEN
  <2>3. CASE e # d /\ e \in tied
    BY <1>1, <1>2, <2>3, DeviceAssumption
  <2>4. CASE e # d /\ e \notin along /\ e \notin tied
    <3>1. ~both
      BY <2>4
    <3> QED
      BY <1>2, <2>4, <3>1 DEF FrozenIffHeld, SyncTyped
  <2> QED
    BY <2>1, <2>2, <2>3, <2>4
<1>5. HeldByActiveGrab'
  <2> SUFFICES ASSUME NEW e \in Devices
               PROVE  /\ other'[e] # NoDev => other'[e] # e /\ grab[other'[e]] # NoGrab
                      /\ state'[e] = "NOT_GRABBED" <=> grab[e] = NoGrab
                      /\ fromPassive[e] => grab[e] # NoGrab
    BY <1>2 DEF HeldByActiveGrab
  <2>1. state'[e] = "NOT_GRABBED" <=> grab[e] = NoGrab
    <3>1. CASE e = d
      BY <1>2, <3>1
    <3>2. CASE e # d /\ e \in along
      BY <1>2, <3>2 DEF HeldByActiveGrab
    <3>3. CASE e # d /\ e \notin along
      BY <1>2, <3>3 DEF HeldByActiveGrab
    <3> QED
      BY <3>1, <3>2, <3>3
  <2>2. other'[e] # NoDev => other'[e] # e /\ grab[other'[e]] # NoGrab
    BY <1>2 DEF HeldByActiveGrab
  <2> QED
    BY <2>1, <2>2 DEF HeldByActiveGrab
<1>6. HeldGood' /\ held' \in [Devices -> Event \cup {NoEvent}]
  <2>1. held' \in [Devices -> Event \cup {NoEvent}] /\ held'[d] = ev
    BY <1>1, <1>2
  <2>2. \A e \in Devices : e # d => held'[e] = held[e]
    BY <1>2
  <2>3. \A e \in Devices : e # d /\ state'[e] = "FROZEN_WITH_EVENT"
                             => state[e] = "FROZEN_WITH_EVENT"
    BY <1>2
  <2> QED
    BY <2>1, <2>2, <2>3 DEF HeldGood
<1>7. StrandsNothing
  BY <1>2 DEF StrandsNothing
<1> QED
  BY <1>2, <1>3, <1>4, <1>5, <1>6, <1>7 DEF SyncKept

-----------------------------------------------------------------------------
(* Processing an event.                                                    *)

SyncInv == SyncTyped /\ FrozenIffHeld /\ HeldByActiveGrab

\* Nothing about grabs and freezes changes.
LEMMA SyncUnchanged ==
  ASSUME SyncInv, UNCHANGED <<syncVars, playing>>, CallsGood'
  PROVE  SyncKept /\ HoldsNoNew
<1>1. /\ grab' = grab /\ fromPassive' = fromPassive /\ state' = state
      /\ other' = other /\ frozen' = frozen /\ playing' = playing
  BY DEF syncVars
<1>2. SyncTyped' /\ StrandsNothing /\ HoldsNoNew
  BY <1>1 DEF SyncInv, SyncTyped, StrandsNothing, HoldsNoNew
<1>3. FrozenIffHeld' /\ HeldByActiveGrab'
  BY <1>1 DEF SyncInv, FrozenIffHeld, HeldByActiveGrab
<1> QED
  BY <1>1, <1>2, <1>3 DEF SyncKept

\* A device that does not come to hold an event keeps the one it has.
LEMMA HeldUnchanged ==
  ASSUME HeldGood, HoldsNoNew, held' = held
  PROVE  HeldGood'
BY DEF HeldGood, HoldsNoNew

\* A button press that is delivered may start a grab.
LEMMA DeliverUngrabbedKeeps ==
  ASSUME SyncInv, NEW ev \in GoodEvent, NEW rest \in Seq(GoodCall), trace' \in Windows,
         DeliverUngrabbed(ev, rest)
  PROVE  SyncKept /\ HoldsNoNew
<1>1. CASE ImplicitGrab(ev, rest)
  <2>1. PICK c \in Clients, w \in 1 .. trace' :
          ActivateGrab(ev.dev, [client |-> c, win |-> w], TRUE, "Async", "Async", rest)
    BY <1>1 DEF ImplicitGrab
  <2>2. [client |-> c, win |-> w] \in Grab
    BY ClientAssumption DEF Grab, Windows
  <2>3. "Async" \in Modes /\ TRUE \in BOOLEAN /\ ev.dev \in Devices
    BY EventFields DEF Modes
  <2> QED
    BY <2>1, <2>2, <2>3, ActivateGrabKeeps DEF SyncInv
<1>2. CASE work' = rest /\ UNCHANGED <<syncVars, playing>>
  <2>1. CallsGood'
    BY <1>2 DEF CallsGood
  <2> QED
    BY <1>2, <2>1, SyncUnchanged
<1> QED
  BY <1>1, <1>2 DEF DeliverUngrabbed

\* An event that is delivered leaves grabs and freezes in agreement.
LEMMA DeliverKeeps ==
  ASSUME SyncInv, HeldGood, held \in [Devices -> Event \cup {NoEvent}],
         NEW ev \in GoodEvent, NEW rest \in Seq(GoodCall), trace' \in Windows,
         Deliver(ev, rest)
  PROVE  SyncKept /\ HeldGood' /\ held' \in [Devices -> Event \cup {NoEvent}]
<1>1. CASE grab[ev.dev] # NoGrab
  <2>1. DeliverGrabbedEvent(ev, rest)
    BY <1>1 DEF Deliver
  <2>2. work' = rest /\ playing' = playing /\ CallsGood'
    BY <2>1 DEF DeliverGrabbedEvent, CallsGood
  <2>3. CASE FreezeFor(ev)
    BY <1>1, <2>2, <2>3, FreezeForKeeps DEF SyncInv
  <2>4. CASE UNCHANGED <<syncVars, held>>
    <3>1. held' = held /\ UNCHANGED <<syncVars, playing>>
      BY <2>2, <2>4
    <3> QED
      BY <2>2, <3>1, SyncUnchanged, HeldUnchanged
  <2> QED
    BY <2>1, <2>3, <2>4 DEF DeliverGrabbedEvent
<1>2. CASE grab[ev.dev] = NoGrab
  <2>1. DeliverUngrabbed(ev, rest) /\ held' = held
    BY <1>2 DEF Deliver
  <2>2. SyncKept /\ HoldsNoNew
    BY <2>1, DeliverUngrabbedKeeps
  <2> QED
    BY <2>1, <2>2, HeldUnchanged
<1> QED
  BY <1>1, <1>2

\* CheckPassiveGrabsOnWindow: a passive grab of the device becomes active.
LEMMA ActivatePassiveKeeps ==
  ASSUME SyncInv, RequestTyped, grabKey \in [Devices -> Keys \cup {0}],
         NEW ev \in GoodEvent, NEW S \in SUBSET Windows,
         \A w \in S : passive[ev.dev][w] # NoPassive,
         NEW rest \in Seq(GoodCall), ActivatePassive(ev, S, rest)
  PROVE  /\ SyncKept /\ HoldsNoNew
         /\ grabKey' \in [Devices -> Keys \cup {0}]
<1>1. ev.dev \in Devices /\ ev.key \in Keys \cup {0}
  BY EventFields
<1>2. PICK w \in S :
        /\ ActivateGrab(ev.dev, [client |-> passive[ev.dev][w].client, win |-> w], TRUE,
                        passive[ev.dev][w].own, passive[ev.dev][w].oth,
                        <<DoEvent("hold", w, ev)>> \o rest)
        /\ grabKey' = [grabKey EXCEPT ![ev.dev] = IF ev.dev \in Keyboards THEN ev.key ELSE @]
  BY DEF ActivatePassive
<1>3. w \in Windows /\ passive[ev.dev][w] \in Passive
  BY <1>1 DEF RequestTyped
<1>4. /\ [client |-> passive[ev.dev][w].client, win |-> w] \in Grab
      /\ passive[ev.dev][w].own \in Modes /\ passive[ev.dev][w].oth \in Modes
  BY <1>3 DEF Passive, Grab
<1>5. <<DoEvent("hold", w, ev)>> \o rest \in Seq(GoodCall)
  <2>1. w \in 0 .. Depth
    BY <1>3, ClientAssumption DEF Windows
  <2> QED
    BY <2>1, EventCallGood, PushGood
<1>6. grabKey' \in [Devices -> Keys \cup {0}]
  BY <1>1, <1>2
<1> QED
  BY <1>1, <1>2, <1>4, <1>5, <1>6, ActivateGrabKeeps DEF SyncInv

\* The windows an event is matched on.
LEMMA MatchingWindows ==
  ASSUME NEW ev \in GoodEvent, NEW first \in Nat \ {0}, NEW tr \in Windows
  PROVE  /\ Matching(ev, first, tr) \in SUBSET Windows
         /\ \A w \in Matching(ev, first, tr) : passive[ev.dev][w] # NoPassive
BY ClientAssumption DEF Matching, Windows

\* A press starts a passive grab of its own device, or is delivered.
LEMMA StartOrDeliverKeeps ==
  ASSUME SyncInv, HeldGood, KeysTyped, RequestTyped, WindowTyped,
         NEW ev \in GoodEvent, NEW rest \in Seq(GoodCall), trace' \in Windows,
         StartOrDeliver(ev, rest)
  PROVE  /\ SyncKept /\ HeldGood' /\ held' \in [Devices -> Event \cup {NoEvent}]
         /\ activatingKey' \in [Devices -> Keys \cup {0}]
         /\ grabKey' \in [Devices -> Keys \cup {0}]
<1> DEFINE S == Matching(ev, 1, trace)
<1>1. S \in SUBSET Windows /\ \A w \in S : passive[ev.dev][w] # NoPassive
  <2>1. 1 \in Nat \ {0} /\ trace \in Windows
    BY DEF WindowTyped
  <2> QED
    BY <2>1, MatchingWindows
<1>2. CASE grab[ev.dev] = NoGrab /\ S # {}
  <2>1. /\ ActivatePassive(ev, S, rest) /\ held' = held
        /\ activatingKey' = [activatingKey EXCEPT ![ev.dev] =
                               IF ev.dev \in Keyboards THEN ev.key ELSE @]
    BY <1>2 DEF StartOrDeliver
  <2> HIDE DEF S
  <2>2. SyncKept /\ HoldsNoNew /\ grabKey' \in [Devices -> Keys \cup {0}]
    BY <1>1, <2>1, ActivatePassiveKeeps DEF KeysTyped
  <2>3. HeldGood'
    BY <2>1, <2>2, HeldUnchanged
  <2>4. activatingKey' \in [Devices -> Keys \cup {0}]
    BY <2>1, EventFields DEF KeysTyped
  <2> QED
    BY <2>1, <2>2, <2>3, <2>4 DEF KeysTyped
<1>3. CASE ~(grab[ev.dev] = NoGrab /\ S # {})
  <2>1. Deliver(ev, rest) /\ activatingKey' = activatingKey /\ grabKey' = grabKey
    BY <1>3 DEF StartOrDeliver
  <2> QED
    BY <2>1, DeliverKeeps DEF KeysTyped
<1> QED
  BY <1>2, <1>3

\* A release that ends a grab.
LEMMA EndKeeps ==
  ASSUME SyncInv, HeldGood, KeysTyped, NEW d \in Devices,
         NEW rest \in Seq(GoodCall), DeactivateGrab(d, <<>>, rest), held' = held
  PROVE  SyncKept /\ HeldGood' /\ held' \in [Devices -> Event \cup {NoEvent}]
<1>1. SyncKept /\ HoldsNoNew
  BY DeactivateKeeps DEF SyncInv
<1>2. HeldGood'
  BY <1>1, HeldUnchanged
<1> QED
  BY <1>1, <1>2 DEF KeysTyped

\* What processing an event starts from and what it keeps.
ProcessInv == SyncInv /\ HeldGood /\ KeysTyped /\ RequestTyped /\ WindowTyped
ProcessKept == SyncKept /\ HeldGood' /\ KeysTyped'

\* CoreProcessKeyboardEvent, a release.
LEMMA KeyReleaseKeeps ==
  ASSUME ProcessInv, NEW ev \in GoodEvent, ev.dev \in Keyboards,
         NEW rest \in Seq(GoodCall), trace' \in Windows,
         KeyRelease(ev, rest)
  PROVE  ProcessKept
<1> DEFINE d == ev.dev
           ends == fromPassive[d] /\ ev.key = activatingKey[d]
<1> USE DEF ProcessInv
<1>1. d \in Devices /\ d \notin Pointers
  BY DeviceAssumption, EventFields
<1>2. CASE ev.key \notin down[d]
  <2>1. /\ work' = rest /\ UNCHANGED <<syncVars, playing>> /\ CallsGood'
        /\ UNCHANGED <<held, down, activatingKey, grabKey>>
    BY <1>2 DEF KeyRelease, CallsGood
  <2>2. SyncKept /\ HoldsNoNew
    BY <2>1, SyncUnchanged
  <2>3. HeldGood' /\ KeysTyped'
    BY <2>1, <2>2, HeldUnchanged DEF KeysTyped
  <2> QED
    BY <2>2, <2>3 DEF ProcessKept
<1>3. CASE ev.key \in down[d]
  <2>1. /\ down' = [down EXCEPT ![d] = @ \ {ev.key}]
        /\ EndOrDeliver(ev, ends, rest)
        /\ activatingKey' = activatingKey /\ grabKey' = grabKey
    BY <1>3 DEF KeyRelease, EndOrDeliver
  <2>2. SyncKept /\ HeldGood' /\ held' \in [Devices -> Event \cup {NoEvent}]
    <3>1. CASE ends
      <4>1. DeactivateGrab(d, <<>>, rest) /\ held' = held
        BY <2>1, <3>1 DEF EndOrDeliver
      <4> QED
        BY <1>1, <4>1, EndKeeps
    <3>2. CASE ~ends
      <4>1. Deliver(ev, rest)
        BY <2>1, <3>2 DEF EndOrDeliver
      <4> QED
        BY <4>1, DeliverKeeps DEF KeysTyped
    <3> QED
      BY <3>1, <3>2
  <2>3. KeysTyped'
    BY <2>1, <2>2 DEF KeysTyped
  <2> QED
    BY <2>2, <2>3 DEF ProcessKept
<1> QED
  BY <1>2, <1>3

\* CoreProcessKeyboardEvent, a press or a repeat.
LEMMA KeyPressKeeps ==
  ASSUME ProcessInv, NEW ev \in GoodEvent, ev.dev \in Keyboards, ev.type = "press",
         NEW rest \in Seq(GoodCall), trace' \in Windows,
         KeyPress(ev, rest)
  PROVE  ProcessKept
<1> DEFINE d == ev.dev
<1> USE DEF ProcessInv
<1>1. d \in Devices /\ d \notin Pointers /\ ev.key \in Keys
  BY DeviceAssumption, EventFields
<1>2. CASE ev.key \notin down[d]
  <2>1. down' = [down EXCEPT ![d] = @ \cup {ev.key}] /\ StartOrDeliver(ev, rest)
    BY <1>2 DEF KeyPress
  <2>2. /\ SyncKept /\ HeldGood' /\ held' \in [Devices -> Event \cup {NoEvent}]
        /\ activatingKey' \in [Devices -> Keys \cup {0}]
        /\ grabKey' \in [Devices -> Keys \cup {0}]
    BY <2>1, StartOrDeliverKeeps
  <2>3. KeysTyped'
    BY <1>1, <2>1, <2>2 DEF KeysTyped
  <2> QED
    BY <2>2, <2>3 DEF ProcessKept
<1>3. CASE ev.key \in down[d] /\ ev.key \in Modifiers
  <2>1. /\ work' = rest /\ UNCHANGED <<syncVars, playing>> /\ CallsGood'
        /\ UNCHANGED <<held, down, activatingKey, grabKey>>
    BY <1>3 DEF KeyPress, CallsGood
  <2>2. SyncKept /\ HoldsNoNew
    BY <2>1, SyncUnchanged
  <2>3. HeldGood' /\ KeysTyped'
    BY <2>1, <2>2, HeldUnchanged DEF KeysTyped
  <2> QED
    BY <2>2, <2>3 DEF ProcessKept
<1>4. CASE ev.key \in down[d] /\ ev.key \notin Modifiers
  <2>1. KeyRelease([ev EXCEPT !.type = "release"], <<DoEvent("repeat", 0, ev)>> \o rest)
    BY <1>4 DEF KeyPress
  <2>2. /\ [ev EXCEPT !.type = "release"] \in GoodEvent
        /\ [ev EXCEPT !.type = "release"].dev \in Keyboards
    BY <1>1 DEF GoodEvent, Event
  <2>3. <<DoEvent("repeat", 0, ev)>> \o rest \in Seq(GoodCall)
    <3>1. 0 \in 0 .. Depth
      BY ClientAssumption
    <3> QED
      BY <3>1, EventCallGood, PushGood
  <2> HIDE DEF ProcessInv
  <2> QED
    BY <2>1, <2>2, <2>3, KeyReleaseKeeps
<1> QED
  BY <1>2, <1>3, <1>4

\* CoreProcessPointerEvent, a press.
LEMMA ButtonPressKeeps ==
  ASSUME ProcessInv, NEW ev \in GoodEvent, ev.type = "press",
         NEW rest \in Seq(GoodCall), trace' \in Windows,
         ButtonPress(ev, rest)
  PROVE  ProcessKept
<1> DEFINE d == ev.dev
<1> USE DEF ProcessInv
<1>1. d \in Devices /\ ev.key \in Keys
  BY EventFields
<1>2. down' = [down EXCEPT ![d] = @ \cup {ev.key}] /\ StartOrDeliver(ev, rest)
  BY DEF ButtonPress
<1>3. /\ SyncKept /\ HeldGood' /\ held' \in [Devices -> Event \cup {NoEvent}]
      /\ activatingKey' \in [Devices -> Keys \cup {0}]
      /\ grabKey' \in [Devices -> Keys \cup {0}]
  BY <1>2, StartOrDeliverKeeps
<1>4. KeysTyped'
  BY <1>1, <1>2, <1>3 DEF KeysTyped
<1> QED
  BY <1>3, <1>4 DEF ProcessKept

\* CoreProcessPointerEvent, a release.
LEMMA ButtonReleaseKeeps ==
  ASSUME ProcessInv, NEW ev \in GoodEvent,
         NEW rest \in Seq(GoodCall), trace' \in Windows,
         ButtonRelease(ev, rest)
  PROVE  ProcessKept
<1> DEFINE d == ev.dev
           ends == fromPassive[d] /\ down'[d] = {}
<1> USE DEF ProcessInv
<1>1. d \in Devices
  BY EventFields
<1>2. /\ down' = [down EXCEPT ![d] = @ \ {ev.key}]
      /\ EndOrDeliver(ev, ends, rest)
      /\ activatingKey' = activatingKey /\ grabKey' = grabKey
  BY DEF ButtonRelease, EndOrDeliver
<1>3. SyncKept /\ HeldGood' /\ held' \in [Devices -> Event \cup {NoEvent}]
  <2>1. CASE ends
    <3>1. DeactivateGrab(d, <<>>, rest) /\ held' = held
      BY <1>2, <2>1 DEF EndOrDeliver
    <3> QED
      BY <1>1, <3>1, EndKeeps
  <2>2. CASE ~ends
    <3>1. Deliver(ev, rest)
      BY <1>2, <2>2 DEF EndOrDeliver
    <3> QED
      BY <3>1, DeliverKeeps DEF KeysTyped
  <2> QED
    BY <2>1, <2>2
<1>4. KeysTyped'
  BY <1>2, <1>3 DEF KeysTyped
<1> QED
  BY <1>3, <1>4 DEF ProcessKept

\* CoreProcessKeyboardEvent and CoreProcessPointerEvent.
LEMMA ProcessEventKeeps ==
  ASSUME ProcessInv, DoneTyped, NEW ev \in GoodEvent,
         NEW rest \in Seq(GoodCall), ProcessEvent(ev, rest)
  PROVE  ProcessKept /\ DoneTyped' /\ WindowTyped'
<1>1. DoneTyped' /\ WindowTyped' /\ trace' \in Windows
  BY BoundAssumption, EventFields
     DEF ProcessEvent, ProcessInv, DoneTyped, WindowTyped, Windows
<1>2. CASE ev.dev \in Keyboards /\ ev.type = "press" /\ KeyPress(ev, rest)
  BY <1>1, <1>2, KeyPressKeeps
<1>3. CASE ev.dev \in Keyboards /\ ev.type = "release" /\ KeyRelease(ev, rest)
  BY <1>1, <1>3, KeyReleaseKeeps
<1>4. CASE ev.dev \in Pointers /\ ev.type = "press" /\ ButtonPress(ev, rest)
  BY <1>1, <1>4, ButtonPressKeeps
<1>5. CASE ev.dev \in Pointers /\ ev.type = "release" /\ ButtonRelease(ev, rest)
  BY <1>1, <1>5, ButtonReleaseKeeps
<1>6. CASE Deliver(ev, rest) /\ UNCHANGED <<down, activatingKey, grabKey>>
  <2>1. SyncKept /\ HeldGood' /\ held' \in [Devices -> Event \cup {NoEvent}]
    BY <1>1, <1>6, DeliverKeeps DEF ProcessInv, KeysTyped
  <2> QED
    BY <1>1, <1>6, <2>1 DEF ProcessInv, ProcessKept, KeysTyped
<1> QED
  BY <1>2, <1>3, <1>4, <1>5, <1>6 DEF ProcessEvent

-----------------------------------------------------------------------------
(* The queue.                                                              *)

\* EnqueueEvent only queues events of frozen devices.
LEMMA EnqueueEventKeeps ==
  ASSUME QueueGood, NEW ev \in GoodEvent, EnqueueEvent(ev)
  PROVE  /\ QueueGood'
         /\ \A i \in 1 .. Len(pending') :
              pending'[i] = ev \/ (i \in 1 .. Len(pending) /\ pending'[i] = pending[i])
<1>1. CASE Len(pending) > 0 /\ pending' = [pending EXCEPT ![Len(pending)] = ev]
  <2>1. Len(pending) \in 1 .. Len(pending)
    BY <1>1, LenProperties DEF QueueGood
  <2> QED
    BY <1>1, <2>1, ExceptSeq DEF QueueGood
<1>2. CASE pending' = Append(pending, ev)
  BY <1>2, AppendProperties DEF QueueGood
<1> QED
  BY <1>1, <1>2 DEF EnqueueEvent

\* Removing an event from the queue.
LEMMA RemoveGood ==
  ASSUME QueueGood, NEW i \in 1 .. Len(pending)
  PROVE  SubSeq(pending, 1, i - 1) \o SubSeq(pending, i + 1, Len(pending)) \in Seq(GoodEvent)
<1>1. /\ \A j \in 1 .. (i - 1) : pending[j] \in GoodEvent
      /\ \A j \in (i + 1) .. Len(pending) : pending[j] \in GoodEvent
  BY LenProperties, ElementOfSeq DEF QueueGood
<1>2. SubSeq(pending, 1, i - 1) \in Seq(GoodEvent)
  BY <1>1, SubSeqProperties, LenProperties DEF QueueGood
<1>3. SubSeq(pending, i + 1, Len(pending)) \in Seq(GoodEvent)
  BY <1>1, SubSeqProperties, LenProperties DEF QueueGood
<1> QED
  BY <1>2, <1>3, ConcatProperties

\* A queue that does not change strands nothing if the step strands nothing.
LEMMA SameQueueNotStranded ==
  ASSUME QueueGood, NothingStranded, StrandsNothing, playing' \in BOOLEAN, pending' = pending
  PROVE  NothingStranded'
<1> SUFFICES ASSUME ~playing', NEW i \in 1 .. Len(pending)
             PROVE  frozen'[pending[i].dev]
  BY DEF NothingStranded
<1>1. pending[i].dev \in Devices
  BY EventFields, ElementOfSeq DEF QueueGood
<1>2. pending # <<>>
  BY DEF QueueGood
<1>3. playing' = playing /\ \A e \in Devices : frozen[e] => frozen'[e]
  BY <1>2 DEF StrandsNothing
<1> QED
  BY <1>1, <1>3 DEF NothingStranded

-----------------------------------------------------------------------------
(* Actions.                                                                *)

\* A step that changes grabs and the calls in progress, and neither events
\* nor the queue.
LEMMA SyncStepKeeps ==
  ASSUME GrabInv, SyncKept, HoldsNoNew, UNCHANGED <<eventVars, pending>>,
         WindowTyped', RequestTyped'
  PROVE  GrabInv'
<1>1. held' = held /\ KeysTyped' /\ DoneTyped' /\ QueueGood'
  BY DEF GrabInv, Typed, eventVars, KeysTyped, DoneTyped, QueueGood
<1>2. HeldGood'
  BY <1>1, HeldUnchanged DEF GrabInv
<1>3. NothingStranded'
  BY SameQueueNotStranded DEF GrabInv, Typed, SyncKept, SyncTyped
<1> QED
  BY <1>1, <1>2, <1>3 DEF GrabInv, Typed, SyncKept

\* A step that changes no grab at all.
LEMMA QuietStepKeeps ==
  ASSUME GrabInv, UNCHANGED <<syncVars, playing>>, UNCHANGED <<eventVars, pending>>,
         CallsGood', WindowTyped', RequestTyped'
  PROVE  GrabInv'
<1>1. SyncKept /\ HoldsNoNew
  BY SyncUnchanged DEF GrabInv, Typed, SyncInv
<1> QED
  BY <1>1, SyncStepKeeps

\* Steps that leave windows alone keep their part of the invariant,
LEMMA SameWindows ==
  ASSUME GrabInv, UNCHANGED windowVars
  PROVE  WindowTyped'
BY DEF GrabInv, Typed, WindowTyped, windowVars

\* and so do steps that leave requests alone.
LEMMA SameRequests ==
  ASSUME GrabInv, UNCHANGED inputVars, UNCHANGED clientVars
  PROVE  RequestTyped'
BY DEF GrabInv, Typed, RequestTyped, inputVars, clientVars

\* The invariant and its parts.
LEMMA InvParts ==
  ASSUME GrabInv
  PROVE  /\ SyncInv /\ ProcessInv /\ DoneTyped /\ QueueGood /\ CallsGood
         /\ SyncTyped /\ HeldByActiveGrab /\ RequestTyped /\ WindowTyped
BY DEF GrabInv, Typed, SyncInv, ProcessInv

\* A device event, queued or processed, keeps the invariant.
LEMMA DeviceEventKeeps ==
  ASSUME GrabInv, NEW d \in Devices, NEW k \in Keys \cup {0},
         NEW type \in {"press", "release", "motion"}, DeviceEvent(d, type, k)
  PROVE  GrabInv'
<1> DEFINE ev == [dev |-> d, type |-> type, key |-> k, n |-> events + 1]
<1>1. /\ events < MaxEvents /\ (k = 0 <=> type = "motion") /\ events' = events + 1
      /\ phys' = [phys EXCEPT ![d] = IF type = "press" THEN @ \cup {k} ELSE @ \ {k}]
      /\ UNCHANGED clientVars
      /\ IF frozen[d]
         THEN EnqueueEvent(ev) /\ UNCHANGED <<syncVars, eventVars, windowVars, playing, work>>
         ELSE UNCHANGED pending /\ ProcessEvent(ev, <<>>)
  BY DEF DeviceEvent
<1>2. ev \in GoodEvent
  BY <1>1, InvParts, BoundAssumption DEF GoodEvent, Event, RequestTyped
<1>3. RequestTyped'
  BY <1>1, InvParts, BoundAssumption DEF RequestTyped, clientVars
<1>4. CASE frozen[d]
  <2>1. EnqueueEvent(ev) /\ UNCHANGED <<syncVars, eventVars, windowVars, playing, work>>
    BY <1>1, <1>4
  <2> HIDE DEF ev
  <2>2. /\ QueueGood'
        /\ \A i \in 1 .. Len(pending') :
             pending'[i] = ev \/ (i \in 1 .. Len(pending) /\ pending'[i] = pending[i])
    BY <1>2, <2>1, EnqueueEventKeeps, InvParts
  <2>3. ev.dev = d
    BY DEF ev
  <2>4. NothingStranded'
    BY <1>4, <2>1, <2>2, <2>3 DEF GrabInv, NothingStranded, syncVars
  <2> QED
    BY <1>3, <2>1, <2>2, <2>4
       DEF GrabInv, Typed, SyncTyped, KeysTyped, DoneTyped, WindowTyped, CallsGood, HeldGood,
           FrozenIffHeld, HeldByActiveGrab, syncVars, eventVars, windowVars
<1>5. CASE ~frozen[d]
  <2>1. pending' = pending /\ ProcessEvent(ev, <<>>)
    BY <1>1, <1>5
  <2>2. <<>> \in Seq(GoodCall)
    OBVIOUS
  <2> HIDE DEF ev
  <2>3. ProcessKept /\ DoneTyped' /\ WindowTyped'
    BY <1>2, <2>1, <2>2, ProcessEventKeeps, InvParts
  <2>4. QueueGood'
    BY <2>1, InvParts DEF QueueGood
  <2>5. NothingStranded'
    BY <2>1, <2>3, SameQueueNotStranded, InvParts DEF GrabInv, ProcessKept, SyncKept, SyncTyped
  <2> QED
    BY <1>3, <2>3, <2>4, <2>5 DEF GrabInv, Typed, ProcessKept, SyncKept
<1> QED
  BY <1>4, <1>5

\* PlayReleasedEvents, one event.
LEMMA PlayKeeps ==
  ASSUME GrabInv, Play
  PROVE  GrabInv'
<1>1. PICK i \in Playable :
        /\ pending' = SubSeq(pending, 1, i - 1) \o SubSeq(pending, i + 1, Len(pending))
        /\ ProcessEvent(pending[i], work)
  BY DEF Play
<1>2. i \in 1 .. Len(pending) /\ ~frozen[pending[i].dev]
  BY DEF Playable
<1>3. pending[i] \in GoodEvent /\ QueueGood'
  BY <1>1, <1>2, RemoveGood, InvParts, ElementOfSeq DEF QueueGood
<1>4. ProcessKept /\ DoneTyped' /\ WindowTyped'
  BY <1>1, <1>3, ProcessEventKeeps, InvParts DEF CallsGood
<1>5. RequestTyped'
  BY SameRequests DEF Play, NothingElse
<1>6. NothingStranded'
  \* Only while the queue is played is there an event to play in it.
  <2>1. playing = TRUE
    BY <1>2, InvParts DEF GrabInv, NothingStranded, SyncTyped
  <2>2. playing' = TRUE \/ pending' = <<>>
    BY <1>4, <2>1 DEF ProcessKept, SyncKept, StrandsNothing
  <2> QED
    BY <2>2 DEF NothingStranded
<1> QED
  BY <1>3, <1>4, <1>5, <1>6 DEF GrabInv, Typed, ProcessKept, SyncKept

\* PlayReleasedEvents returns with every queued event frozen.
LEMMA PlayEndsKeeps ==
  ASSUME GrabInv, PlayEnds
  PROVE  GrabInv'
<1>1. /\ work # <<>> /\ Playable = {} /\ playing' = FALSE /\ work' = Tail(work)
      /\ UNCHANGED <<syncVars, eventVars, pending, windowVars, inputVars, clientVars>>
  BY DEF PlayEnds, Now, Then, SyncOnly, NothingElse
<1>2. CallsGood'
  BY <1>1, PopGood, InvParts DEF CallsGood
<1>3. NothingStranded'
  BY <1>1 DEF NothingStranded, Playable, syncVars
<1>4. WindowTyped' /\ RequestTyped'
  BY <1>1, SameWindows, SameRequests
<1> QED
  BY <1>1, <1>2, <1>3, <1>4
     DEF GrabInv, Typed, SyncTyped, KeysTyped, DoneTyped, QueueGood, HeldGood,
         FrozenIffHeld, HeldByActiveGrab, syncVars, eventVars

\* ComputeFreezes replays the held event.
LEMMA ReplayKeeps ==
  ASSUME GrabInv, Replay
  PROVE  GrabInv'
<1> DEFINE r == Head(work)
           S == IF r.win <= trace' THEN Matching(r.ev, r.win + 1, trace') ELSE {}
<1>1. /\ work # <<>> /\ r.op = "replay" /\ trace' = realized
      /\ UNCHANGED <<pending, held, activatingKey, down, done, realized, alive>>
      /\ IF S # {} THEN ActivatePassive(r.ev, S, Tail(work))
         ELSE DeliverUngrabbed(r.ev, Tail(work)) /\ UNCHANGED grabKey
      /\ UNCHANGED inputVars /\ UNCHANGED clientVars
  BY DEF Replay, Now, Then, NothingElse
<1>2. r \in GoodCall /\ Tail(work) \in Seq(GoodCall)
  BY <1>1, PopGood, InvParts
<1>3. r.ev \in GoodEvent /\ r.win \in 0 .. Depth
  BY <1>1, <1>2 DEF GoodCall, Call
<1>4. WindowTyped' /\ RequestTyped'
  BY <1>1, InvParts, SameRequests DEF WindowTyped
<1>5. CASE S = {}
  <2>1. DeliverUngrabbed(r.ev, Tail(work)) /\ UNCHANGED <<eventVars, pending>>
    BY <1>1, <1>5 DEF eventVars
  <2>2. trace' \in Windows
    BY <1>4 DEF WindowTyped
  <2>3. SyncKept /\ HoldsNoNew
    BY <1>2, <1>3, <2>1, <2>2, DeliverUngrabbedKeeps, InvParts
  <2> QED
    BY <1>4, <2>1, <2>3, SyncStepKeeps
<1>6. CASE S # {}
  <2>1. ActivatePassive(r.ev, S, Tail(work))
    BY <1>1, <1>6
  <2>2. S = Matching(r.ev, r.win + 1, trace')
    BY <1>6
  <2>3. r.win + 1 \in Nat \ {0} /\ trace' \in Windows
    BY <1>1, <1>3, InvParts, ClientAssumption DEF WindowTyped
  <2>4. S \in SUBSET Windows /\ \A w \in S : passive[r.ev.dev][w] # NoPassive
    BY <1>3, <2>2, <2>3, MatchingWindows
  <2> HIDE DEF S, r
  <2>5. grabKey \in [Devices -> Keys \cup {0}] /\ SyncInv /\ RequestTyped
    BY InvParts DEF ProcessInv, KeysTyped
  <2>6. SyncKept /\ HoldsNoNew /\ grabKey' \in [Devices -> Keys \cup {0}]
    BY <1>2, <1>3, <2>1, <2>4, <2>5, ActivatePassiveKeeps
  <2>7. KeysTyped' /\ DoneTyped' /\ QueueGood'
    BY <1>1, <2>6, InvParts DEF ProcessInv, KeysTyped, DoneTyped, QueueGood
  <2>8. HeldGood'
    BY <1>1, <2>6, HeldUnchanged, InvParts DEF ProcessInv
  <2>9. NothingStranded'
    BY <1>1, <2>6, SameQueueNotStranded, InvParts DEF GrabInv, SyncKept, SyncTyped
  <2> QED
    BY <1>4, <2>6, <2>7, <2>8, <2>9 DEF GrabInv, Typed, SyncKept
<1> QED
  BY <1>5, <1>6

\* CheckPassiveGrabsOnWindow after the activation.
LEMMA HoldKeeps ==
  ASSUME GrabInv, Hold
  PROVE  GrabInv'
<1> DEFINE h == Head(work)
<1>1. /\ work # <<>> /\ h.op = "hold" /\ work' = Tail(work)
      /\ IF state[h.dev] = "FROZEN_NO_EVENT"
         THEN /\ state' = [state EXCEPT ![h.dev] = "FROZEN_WITH_EVENT"]
              /\ held' = [held EXCEPT ![h.dev] = h.ev]
         ELSE UNCHANGED <<state, held>>
      /\ UNCHANGED <<grab, fromPassive, other, frozen, playing, activatingKey, down,
                     done, grabKey, pending, windowVars, inputVars, clientVars>>
  BY DEF Hold, Now, Then, NothingElse
<1>2. h \in GoodCall /\ Tail(work) \in Seq(GoodCall)
  BY <1>1, PopGood, InvParts
<1>3. h.ev \in GoodEvent /\ h.dev \in Devices
  BY <1>1, <1>2, EventFields DEF GoodCall
<1>4. WindowTyped' /\ RequestTyped'
  BY <1>1, SameWindows, SameRequests
<1>5. CallsGood' /\ QueueGood' /\ DoneTyped' /\ NothingStranded'
  BY <1>1, <1>2, InvParts
     DEF GrabInv, CallsGood, QueueGood, DoneTyped, NothingStranded
<1>6. CASE state[h.dev] = "FROZEN_NO_EVENT"
  <2> HIDE DEF h
  <2>1. /\ state' = [state EXCEPT ![h.dev] = "FROZEN_WITH_EVENT"]
        /\ held' = [held EXCEPT ![h.dev] = h.ev]
    BY <1>1, <1>6
  <2>2. h.ev \in Event
    BY <1>3, EventFields
  <2>3. SyncTyped' /\ KeysTyped'
    BY <1>1, <1>3, <2>1, <2>2, InvParts
       DEF SyncTyped, KeysTyped, ProcessInv, SyncStates, FROZEN
  <2>4. HeldGood'
    BY <1>3, <2>1, InvParts DEF HeldGood, ProcessInv, SyncTyped, KeysTyped
  <2>5. FrozenIffHeld' /\ HeldByActiveGrab'
    BY <1>1, <1>3, <1>6, <2>1, InvParts
       DEF GrabInv, FrozenIffHeld, HeldByActiveGrab, SyncTyped, FROZEN
  <2> QED
    BY <1>4, <1>5, <2>3, <2>4, <2>5 DEF GrabInv, Typed
<1>7. CASE state[h.dev] # "FROZEN_NO_EVENT"
  <2>1. UNCHANGED <<syncVars, playing>> /\ UNCHANGED <<eventVars, pending>>
    BY <1>1, <1>7 DEF syncVars, eventVars
  <2> QED
    BY <1>4, <1>5, <2>1, QuietStepKeeps
<1> QED
  BY <1>6, <1>7

\* The press half of a key repeat.
LEMMA RepeatKeeps ==
  ASSUME GrabInv, Repeat
  PROVE  GrabInv'
<1> DEFINE r == Head(work)
<1>1. /\ work # <<>> /\ r.op = "repeat"
      /\ IF frozen[r.dev]
         THEN /\ EnqueueEvent(r.ev) /\ work' = Tail(work)
              /\ UNCHANGED <<syncVars, eventVars, windowVars, playing>>
         ELSE UNCHANGED pending /\ ProcessEvent(r.ev, Tail(work))
      /\ UNCHANGED inputVars /\ UNCHANGED clientVars
  BY DEF Repeat, Now, Then, NothingElse
<1>2. r \in GoodCall /\ Tail(work) \in Seq(GoodCall)
  BY <1>1, PopGood, InvParts
<1>3. r.ev \in GoodEvent /\ r.dev = r.ev.dev
  BY <1>1, <1>2 DEF GoodCall
<1>4. RequestTyped'
  BY <1>1, SameRequests
<1> HIDE DEF r
<1>5. CASE frozen[r.dev]
  <2>1. /\ EnqueueEvent(r.ev) /\ work' = Tail(work)
        /\ UNCHANGED <<syncVars, eventVars, windowVars, playing>>
    BY <1>1, <1>5
  <2>2. /\ QueueGood'
        /\ \A i \in 1 .. Len(pending') :
             pending'[i] = r.ev \/ (i \in 1 .. Len(pending) /\ pending'[i] = pending[i])
    BY <1>3, <2>1, EnqueueEventKeeps, InvParts
  <2>3. NothingStranded'
    BY <1>3, <1>5, <2>1, <2>2 DEF GrabInv, NothingStranded, syncVars
  <2>4. CallsGood'
    BY <1>2, <2>1 DEF CallsGood
  <2> QED
    BY <1>4, <2>1, <2>2, <2>3, <2>4
       DEF GrabInv, Typed, SyncTyped, KeysTyped, DoneTyped, WindowTyped, HeldGood,
           FrozenIffHeld, HeldByActiveGrab, syncVars, eventVars, windowVars
<1>6. CASE ~frozen[r.dev]
  <2>1. pending' = pending /\ ProcessEvent(r.ev, Tail(work))
    BY <1>1, <1>6
  <2>2. ProcessKept /\ DoneTyped' /\ WindowTyped'
    BY <1>2, <1>3, <2>1, ProcessEventKeeps, InvParts
  <2>3. QueueGood'
    BY <2>1, InvParts DEF QueueGood
  <2>4. NothingStranded'
    BY <2>1, <2>2, SameQueueNotStranded, InvParts DEF GrabInv, ProcessKept, SyncKept, SyncTyped
  <2> QED
    BY <1>4, <2>2, <2>3, <2>4 DEF GrabInv, Typed, ProcessKept, SyncKept
<1> QED
  BY <1>5, <1>6

\* The end of a grab, whatever called for it.
LEMMA DeactivateStepKeeps ==
  ASSUME GrabInv, NEW d \in Devices, NEW rest \in Seq(GoodCall),
         DeactivateGrab(d, <<>>, rest), pending' = pending, SyncOnly
  PROVE  GrabInv'
<1>1. SyncKept /\ HoldsNoNew
  BY DeactivateKeeps, InvParts
<1>2. WindowTyped' /\ RequestTyped' /\ UNCHANGED <<eventVars, pending>>
  BY SameWindows, SameRequests DEF SyncOnly, NothingElse
<1> QED
  BY <1>1, <1>2, SyncStepKeeps

\* A call that only pushes or pops calls.
LEMMA CallStepKeeps ==
  ASSUME GrabInv, CallsGood', UNCHANGED <<syncVars, playing>>, SyncOnly
  PROVE  GrabInv'
<1>1. WindowTyped' /\ RequestTyped' /\ UNCHANGED <<eventVars, pending>>
  BY SameWindows, SameRequests DEF SyncOnly, NothingElse
<1> QED
  BY <1>1, QuietStepKeeps

\* DeleteWindowFromAnyEvents, one device.
LEMMA EvictKeeps ==
  ASSUME GrabInv, Evict
  PROVE  GrabInv'
<1> DEFINE r == Head(work)
<1>1. work # <<>> /\ r.op = "evict" /\ pending' = pending /\ SyncOnly
  BY DEF Evict, Now
<1>2. r \in GoodCall /\ Tail(work) \in Seq(GoodCall)
  BY <1>1, PopGood, InvParts
<1>3. r.dev \in Devices
  BY <1>1, <1>2 DEF GoodCall
<1>4. CASE DeactivateGrab(r.dev, <<>>, Tail(work))
  BY <1>1, <1>2, <1>3, <1>4, DeactivateStepKeeps
<1>5. CASE work' = Tail(work) /\ UNCHANGED <<syncVars, playing>>
  BY <1>1, <1>2, <1>5, CallStepKeeps DEF CallsGood
<1> QED
  BY <1>4, <1>5 DEF Evict, Then

\* ReleaseActiveGrabs, one device.
LEMMA ReleaseKeeps ==
  ASSUME GrabInv, Release
  PROVE  GrabInv'
<1>1. work # <<>> /\ pending' = pending /\ SyncOnly
  BY DEF Release, Now
<1>2. work \in Seq(GoodCall) /\ Tail(work) \in Seq(GoodCall)
  BY <1>1, PopGood, InvParts DEF CallsGood
<1>3. CASE \E d \in Devices : DeactivateGrab(d, <<>>, work)
  BY <1>1, <1>2, <1>3, DeactivateStepKeeps
<1>4. CASE work' = Tail(work) /\ UNCHANGED <<syncVars, playing>>
  BY <1>1, <1>2, <1>4, CallStepKeeps DEF CallsGood
<1> QED
  BY <1>3, <1>4 DEF Release, Then

\* The calls of UnmapWindow and DeleteWindow.
LEMMA WindowCallsGood ==
  ASSUME GrabInv, NEW w \in 2 .. Depth
  PROVE  /\ UnmapCalls(w) \in Seq(GoodCall) /\ DeleteCalls(w) \in Seq(GoodCall)
         /\ Unmapped(w) \in Windows
<1>1. realized \in Windows /\ w \in Windows /\ w - 1 \in Windows
  BY InvParts, ClientAssumption DEF WindowTyped, Windows
<1>2. UnmapCalls(w) \in Seq(GoodCall)
  BY <1>1, UnrealizeGood, ClientAssumption DEF UnmapCalls, Windows
<1>3. <<DoWindow("crush", NoDev, w, 0)>> \in Seq(GoodCall)
  BY WindowCallGood
<1> QED
  BY <1>1, <1>2, <1>3, ConcatProperties DEF DeleteCalls, Unmapped

\* UnrealizeTree, one window.
LEMMA UnrealizeKeeps ==
  ASSUME GrabInv, Unrealize
  PROVE  GrabInv'
<1> DEFINE r == Head(work)
           next == IF r.win = r.last THEN Do("retrace")
                   ELSE DoWindow("unrealize", NoDev, r.win + 1, r.last)
<1>1. /\ work # <<>> /\ r.op = "unrealize"
      /\ work' = EvictFrom(r.win) \o <<next>> \o Tail(work)
      /\ UNCHANGED <<syncVars, playing>> /\ SyncOnly
  BY DEF Unrealize, Now, Then
<1>2. r \in GoodCall /\ Tail(work) \in Seq(GoodCall)
  BY <1>1, PopGood, InvParts
<1>3. r.win \in Windows /\ r.last \in Windows /\ r.win <= r.last
  BY <1>1, <1>2, ClientAssumption DEF GoodCall, Call, Windows
<1>4. next \in GoodCall
  <2>1. CASE r.win = r.last
    BY <2>1, PlayGood
  <2>2. CASE r.win # r.last
    <3>1. r.win + 1 \in Windows /\ r.win + 1 <= r.last
      BY <1>3, <2>2, ClientAssumption DEF Windows
    <3> QED
      BY <1>3, <2>2, <3>1, UnrealizeGood
  <2> QED
    BY <2>1, <2>2
<1>5. CallsGood'
  <2>1. EvictFrom(r.win) \in Seq(GoodCall)
    BY <1>3, EvictFromGood
  <2> HIDE DEF next
  <2> QED
    BY <1>1, <1>2, <1>4, <2>1, ConcatProperties DEF CallsGood
<1> QED
  BY <1>1, <1>5, CallStepKeeps

\* CrushTree, one window.
LEMMA CrushKeeps ==
  ASSUME GrabInv, Crush
  PROVE  GrabInv'
<1> DEFINE r == Head(work)
<1>1. /\ work # <<>> /\ r.op = "crush"
      /\ work' = IF alive < r.win THEN Tail(work)
                 ELSE EvictFrom(alive) \o <<DoWindow("drop", NoDev, alive, 0)>> \o work
      /\ UNCHANGED <<syncVars, playing>> /\ SyncOnly
  BY DEF Crush, Now, Then
<1>2. r \in GoodCall /\ Tail(work) \in Seq(GoodCall) /\ work \in Seq(GoodCall)
  BY <1>1, PopGood, InvParts DEF CallsGood
<1>3. r.win \in 2 .. Depth /\ alive \in Windows
  BY <1>1, <1>2, InvParts DEF GoodCall, WindowTyped
<1>4. CASE alive < r.win
  BY <1>1, <1>2, <1>4, CallStepKeeps DEF CallsGood
<1>5. CASE ~(alive < r.win)
  <2>1. alive \in 2 .. Depth
    BY <1>3, <1>5, ClientAssumption DEF Windows
  <2>2. EvictFrom(alive) \in Seq(GoodCall)
    BY <1>3, EvictFromGood
  <2>3. DoWindow("drop", NoDev, alive, 0) \in GoodCall
    BY <2>1, WindowCallGood
  <2>4. CallsGood'
    BY <1>1, <1>2, <1>5, <2>2, <2>3, ConcatProperties DEF CallsGood
  <2> QED
    BY <1>1, <2>4, CallStepKeeps
<1> QED
  BY <1>4, <1>5

\* The passive grabs of a freed window go.
LEMMA DropKeeps ==
  ASSUME GrabInv, Drop
  PROVE  GrabInv'
<1> DEFINE r == Head(work)
<1>1. /\ work # <<>> /\ r.op = "drop" /\ work' = Tail(work) /\ alive' = r.win - 1
      /\ passive' = [d \in Devices |-> [passive[d] EXCEPT ![r.win] = NoPassive]]
      /\ UNCHANGED <<syncVars, eventVars, pending, playing, realized, trace,
                     inputVars, status, grabs>>
  BY DEF Drop, Now, Then
<1>2. r \in GoodCall /\ Tail(work) \in Seq(GoodCall)
  BY <1>1, PopGood, InvParts
<1>3. r.win \in 2 .. Depth
  BY <1>1, <1>2 DEF GoodCall
<1>4. WindowTyped'
  BY <1>1, <1>3, InvParts, ClientAssumption DEF WindowTyped, Windows
<1>5. RequestTyped'
  <2> HIDE DEF r
  <2> QED
    BY <1>1, InvParts DEF RequestTyped, inputVars
<1> QED
  BY <1>1, <1>2, <1>4, <1>5, QuietStepKeeps DEF CallsGood

\* WindowsRestructured.
LEMMA RetraceKeeps ==
  ASSUME GrabInv, Retrace
  PROVE  GrabInv'
<1>1. /\ work # <<>> /\ work' = Tail(work) /\ trace' = realized
      /\ UNCHANGED <<syncVars, eventVars, pending, playing, realized, alive,
                     inputVars, clientVars>>
  BY DEF Retrace, Now, Then, NothingElse
<1>2. CallsGood'
  BY <1>1, PopGood, InvParts DEF CallsGood
<1>3. WindowTyped' /\ RequestTyped'
  BY <1>1, InvParts, SameRequests DEF WindowTyped
<1> QED
  BY <1>1, <1>2, <1>3, QuietStepKeeps

\* CloseDownClient marks the client.
LEMMA GoneKeeps ==
  ASSUME GrabInv, Gone
  PROVE  GrabInv'
<1> DEFINE c == Head(work).client
<1>1. /\ work # <<>> /\ Head(work).op = "gone"
      /\ UNCHANGED <<syncVars, eventVars, pending, playing, windowVars, inputVars, grabs>>
  BY DEF Gone, Now
<1>2. c \in Clients /\ Tail(work) \in Seq(GoodCall)
  BY <1>1, PopGood, InvParts DEF GoodCall
<1>3. WindowTyped'
  BY <1>1, SameWindows
<1>4. CASE /\ status' = [status EXCEPT ![c] = "gone"]
           /\ work' = <<DoClient("free", c)>> \o Tail(work) /\ passive' = passive
  <2>1. CallsGood'
    BY <1>2, <1>4, ClientCallGood, PushGood DEF CallsGood
  <2>2. RequestTyped'
    BY <1>1, <1>4, InvParts DEF RequestTyped, inputVars
  <2> QED
    BY <1>1, <1>3, <2>1, <2>2, QuietStepKeeps
<1>5. CASE /\ status' = [status EXCEPT ![c] = "retained"]
           /\ passive' = [d \in Devices |-> [w \in Windows |->
                IF passive[d][w].client = c THEN NoPassive ELSE passive[d][w]]]
           /\ work' = Tail(work)
  <2>1. CallsGood'
    BY <1>2, <1>5 DEF CallsGood
  <2>2. RequestTyped'
    BY <1>1, <1>5, InvParts DEF RequestTyped, inputVars
  <2> QED
    BY <1>1, <1>3, <2>1, <2>2, QuietStepKeeps
<1> QED
  BY <1>4, <1>5 DEF Gone, Then

\* FreeClientResources, one resource.
LEMMA FreeKeeps ==
  ASSUME GrabInv, Free
  PROVE  GrabInv'
<1> DEFINE c == Head(work).client
<1>1. /\ work # <<>> /\ Head(work).op = "free"
      /\ UNCHANGED <<syncVars, eventVars, pending, playing, alive, trace,
                     inputVars, status, grabs>>
  BY DEF Free, Now
<1>2. c \in Clients /\ Tail(work) \in Seq(GoodCall) /\ work \in Seq(GoodCall)
  BY <1>1, PopGood, InvParts DEF GoodCall, CallsGood
<1>3. CASE \E p \in Devices \X Windows :
             /\ passive' = [passive EXCEPT ![p[1]][p[2]] = NoPassive]
             /\ UNCHANGED <<work, realized>>
  <2>1. RequestTyped'
    BY <1>1, <1>3, InvParts DEF RequestTyped, inputVars
  <2>2. CallsGood' /\ WindowTyped'
    BY <1>1, <1>3, InvParts DEF CallsGood, WindowTyped
  <2> QED
    BY <1>1, <2>1, <2>2, QuietStepKeeps
<1>4. CASE \E w \in 1 .. alive : /\ WinOwner[w] = c
                                 /\ work' = DeleteCalls(w) \o work
                                 /\ realized' = Unmapped(w)
                                 /\ passive' = passive
  <2>1. PICK w \in 1 .. alive : /\ WinOwner[w] = c
                                /\ work' = DeleteCalls(w) \o work
                                /\ realized' = Unmapped(w)
                                /\ passive' = passive
    BY <1>4
  <2>2. w \in 2 .. Depth
    \* The root window belongs to no client.
    BY <1>2, <2>1, InvParts, ClientAssumption DEF WindowTyped, Windows
  <2>3. DeleteCalls(w) \in Seq(GoodCall) /\ Unmapped(w) \in Windows
    BY <2>2, WindowCallsGood
  <2>4. CallsGood' /\ WindowTyped'
    BY <1>1, <1>2, <2>1, <2>3, InvParts, ConcatProperties DEF CallsGood, WindowTyped
  <2>5. RequestTyped'
    BY <1>1, <2>1, InvParts DEF RequestTyped, inputVars
  <2> QED
    BY <1>1, <2>4, <2>5, QuietStepKeeps
<1>5. CASE work' = Tail(work) /\ UNCHANGED <<passive, realized>>
  <2>1. RequestTyped' /\ WindowTyped' /\ CallsGood'
    BY <1>1, <1>2, <1>5, InvParts DEF RequestTyped, WindowTyped, CallsGood, inputVars
  <2> QED
    BY <1>1, <2>1, QuietStepKeeps
<1> QED
  BY <1>3, <1>4, <1>5 DEF Free, Then

\* ProcGrabPointer and GrabDevice.
LEMMA GrabDeviceKeeps ==
  ASSUME GrabInv, NEW c \in Clients, NEW d \in Devices, NEW w \in Windows,
         NEW m \in Modes, NEW o \in Modes, GrabDevice(c, d, w, m, o)
  PROVE  GrabInv'
<1>1. /\ ActivateGrab(d, [client |-> c, win |-> w], FALSE, m, o, <<>>)
      /\ pending' = pending /\ SyncOnly
  BY DEF GrabDevice
<1>2. [client |-> c, win |-> w] \in Grab /\ <<>> \in Seq(GoodCall)
  BY DEF Grab
<1>3. SyncKept /\ HoldsNoNew
  BY <1>1, <1>2, ActivateGrabKeeps, InvParts
<1>4. WindowTyped' /\ RequestTyped' /\ UNCHANGED <<eventVars, pending>>
  BY <1>1, SameWindows, SameRequests DEF SyncOnly, NothingElse
<1> QED
  BY <1>3, <1>4, SyncStepKeeps

\* ProcUngrabPointer and ProcUngrabKeyboard.
LEMMA UngrabKeeps ==
  ASSUME GrabInv, NEW c \in Clients, NEW d \in Devices, Ungrab(c, d)
  PROVE  GrabInv'
<1>1. DeactivateGrab(d, <<>>, <<>>) /\ pending' = pending /\ SyncOnly
  BY DEF Ungrab
<1>2. <<>> \in Seq(GoodCall)
  OBVIOUS
<1> QED
  BY <1>1, <1>2, DeactivateStepKeeps

\* AllowSome other than for a replay: only grabs of the client itself change
\* state, and freezes are lifted.
LEMMA AllowedStates ==
  ASSUME GrabInv, NEW c \in Clients, NEW d \in Devices, AllowEvents(c, d)
  PROVE  /\ state' \in [Devices -> SyncStates]
         /\ other' \in [Devices -> Devices \cup {NoDev}]
         /\ \A e \in Devices :
              /\ state'[e] = state[e] \/ (/\ e \in Mine(c)
                                          /\ state'[e] \in {"THAWED", "FREEZE_NEXT_EVENT",
                                                            "FREEZE_BOTH_NEXT_EVENT"})
              /\ other'[e] \in {other[e], NoDev}
<1>0. /\ state \in [Devices -> SyncStates] /\ other \in [Devices -> Devices \cup {NoDev}]
      /\ {"THAWED", "FREEZE_NEXT_EVENT", "FREEZE_BOTH_NEXT_EVENT"} \subseteq SyncStates
  BY InvParts DEF SyncTyped, SyncStates
<1>1. CASE AllowThis(c, d)
  <2>1. state' = state \/ (d \in Mine(c) /\ state' = [state EXCEPT ![d] = "THAWED"])
    BY <1>1 DEF AllowThis
  <2>2. other' = other \/ other' = [other EXCEPT ![d] = NoDev]
    BY <1>1 DEF AllowThis
  <2> QED
    BY <1>0, <2>1, <2>2
<1>2. CASE AllowNext(c, d)
  <2>1. d \in Mine(c) /\ state' = [state EXCEPT ![d] = "FREEZE_NEXT_EVENT"]
    BY <1>2 DEF AllowNext
  <2>2. other' = other \/ other' = [other EXCEPT ![d] = NoDev]
    BY <1>2 DEF AllowNext
  <2> QED
    BY <1>0, <2>1, <2>2
<1>3. ASSUME NEW S, NEW new \in {"THAWED", "FREEZE_BOTH_NEXT_EVENT"}, AllowMany(c, d, S, new)
      PROVE  /\ state' \in [Devices -> SyncStates]
             /\ other' \in [Devices -> Devices \cup {NoDev}]
             /\ \A e \in Devices :
                  /\ state'[e] = state[e] \/ (e \in Mine(c) /\ state'[e] = new)
                  /\ other'[e] \in {other[e], NoDev}
  <2>1. /\ state' = [e \in Devices |-> IF e \in S \cap Mine(c) THEN new ELSE state[e]]
        /\ other' = [e \in Devices |-> IF e \in S /\ HeldBy(grab, e, c) THEN NoDev ELSE other[e]]
    BY <1>3 DEF AllowMany
  <2> QED
    BY <1>0, <2>1
<1>4. AllowThis(c, d) \/ AllowNext(c, d)
      \/ \E S, new : new \in {"THAWED", "FREEZE_BOTH_NEXT_EVENT"} /\ AllowMany(c, d, S, new)
  BY DEF AllowEvents
<1> QED
  BY <1>1, <1>2, <1>3, <1>4

\* AllowSome, but for the replay.
LEMMA AllowEventsKeeps ==
  ASSUME GrabInv, NEW c \in Clients, NEW d \in Devices, AllowEvents(c, d)
  PROVE  GrabInv'
<1>1. /\ grab' = grab /\ fromPassive' = fromPassive /\ pending' = pending
      /\ ComputeFreezes(<<>>, <<>>) /\ SyncOnly
  BY DEF AllowEvents
<1>2. /\ state' \in [Devices -> SyncStates]
      /\ other' \in [Devices -> Devices \cup {NoDev}]
      /\ \A e \in Devices :
           /\ state'[e] = state[e] \/ (/\ e \in Mine(c)
                                       /\ state'[e] \in {"THAWED", "FREEZE_NEXT_EVENT",
                                                         "FREEZE_BOTH_NEXT_EVENT"})
           /\ other'[e] \in {other[e], NoDev}
  BY AllowedStates
<1>3. <<>> \in Seq(GoodCall)
  OBVIOUS
<1>4. /\ frozen' \in [Devices -> BOOLEAN] /\ playing' \in BOOLEAN
      /\ FrozenIffHeld' /\ CallsGood'
      /\ playing' = TRUE \/ pending' = <<>>
  BY <1>1, <1>2, <1>3, ComputeFreezesKeeps, InvParts
<1>5. HeldByActiveGrab'
  <2>1. \A e \in Mine(c) : grab[e] # NoGrab
    BY ClientAssumption DEF Mine, NoGrab
  <2>2. \A e \in Devices : state'[e] = "NOT_GRABBED" <=> grab[e] = NoGrab
    BY <1>2, <2>1, InvParts DEF HeldByActiveGrab
  <2> QED
    BY <1>1, <1>2, <2>2, InvParts DEF HeldByActiveGrab
<1>6. SyncKept
  BY <1>1, <1>2, <1>4, <1>5, InvParts DEF SyncKept, SyncTyped, StrandsNothing
<1>7. HoldsNoNew
  BY <1>2 DEF HoldsNoNew
<1>8. WindowTyped' /\ RequestTyped' /\ UNCHANGED <<eventVars, pending>>
  BY <1>1, SameWindows, SameRequests DEF SyncOnly, NothingElse
<1> QED
  BY <1>1, <1>6, <1>7, <1>8, SyncStepKeeps

\* AllowSome with NOT_GRABBED.
LEMMA AllowReplayKeeps ==
  ASSUME GrabInv, NEW c \in Clients, NEW d \in Devices, AllowReplay(c, d)
  PROVE  GrabInv'
<1> DEFINE otr == IF Synced(c, d) THEN [other EXCEPT ![d] = NoDev] ELSE other
           replay == <<DoEvent("replay", grab[d].win, held[d])>>
<1>1. /\ state[d] = "FROZEN_WITH_EVENT" /\ d \in Mine(c)
      /\ DeactivateGrabOn(otr, d, replay, <<>>)
      /\ pending' = pending /\ SyncOnly
  BY DEF AllowReplay
<1>2. /\ otr \in [Devices -> Devices \cup {NoDev}]
      /\ \A e \in Devices : otr[e] \in {other[e], NoDev}
  BY InvParts DEF SyncTyped
<1>3. grab[d].win \in 0 .. Depth
  <2>1. grab[d] \in Grab \cup {NoGrab}
    BY InvParts DEF SyncTyped
  <2> QED
    BY <2>1, ClientAssumption DEF Grab, NoGrab, Windows
<1>4. replay \in Seq(GoodCall) /\ <<>> \in Seq(GoodCall)
  <2>1. held[d] \in GoodEvent
    BY <1>1 DEF GrabInv, HeldGood
  <2>2. DoEvent("replay", grab[d].win, held[d]) \in GoodCall
    BY <1>3, <2>1, EventCallGood
  <2> QED
    BY <2>2
<1> HIDE DEF otr, replay
<1>5. SyncKept /\ HoldsNoNew
  BY <1>1, <1>2, <1>4, DeactivateGrabKeeps, InvParts
<1>6. WindowTyped' /\ RequestTyped' /\ UNCHANGED <<eventVars, pending>>
  BY <1>1, SameWindows, SameRequests DEF SyncOnly, NothingElse
<1> QED
  BY <1>5, <1>6, SyncStepKeeps

\* GrabKey, GrabButton, UngrabKey and UngrabButton.
LEMMA PassiveKeeps ==
  ASSUME GrabInv, NEW c \in Clients, NEW d \in Devices, NEW w \in Windows,
         \/ UngrabKey(c, d, w)
         \/ \E m, o \in Modes : GrabKey(c, d, w, m, o)
  PROVE  GrabInv'
<1>1. UNCHANGED <<syncVars, playing>> /\ UNCHANGED <<eventVars, pending>>
      /\ UNCHANGED <<windowVars, inputVars, status, work>>
  BY DEF GrabKey, UngrabKey
<1>2. RequestTyped'
  <2>1. CASE UngrabKey(c, d, w)
    BY <2>1, InvParts DEF UngrabKey, RequestTyped, inputVars
  <2>2. ASSUME NEW m \in Modes, NEW o \in Modes, GrabKey(c, d, w, m, o)
        PROVE  RequestTyped'
    <3>1. [client |-> c, own |-> m, oth |-> o] \in Passive
      BY DEF Passive
    <3> QED
      BY <2>2, <3>1, InvParts, BoundAssumption DEF GrabKey, RequestTyped, inputVars
  <2> QED
    BY <2>1, <2>2
<1>3. CallsGood' /\ WindowTyped'
  BY <1>1, InvParts, SameWindows DEF CallsGood
<1> QED
  BY <1>1, <1>2, <1>3, QuietStepKeeps

\* MapWindow, UnmapWindow and DestroyWindow.
LEMMA WindowRequestKeeps ==
  ASSUME GrabInv, NEW c \in Clients,
         MapWindow(c) \/ \E w \in Windows : UnmapWindow(c, w) \/ DestroyWindow(c, w)
  PROVE  GrabInv'
<1>1. UNCHANGED <<syncVars, playing>> /\ UNCHANGED <<eventVars, pending>>
      /\ alive' = alive /\ UNCHANGED inputVars /\ UNCHANGED clientVars
  BY DEF MapWindow, UnmapWindow, DestroyWindow, NothingElse
<1>2. RequestTyped'
  BY <1>1, SameRequests
<1>3. CASE MapWindow(c)
  <2>1. WindowTyped' /\ CallsGood'
    BY <1>3, InvParts, ClientAssumption DEF MapWindow, WindowTyped, CallsGood, Windows
  <2> QED
    BY <1>1, <1>2, <2>1, QuietStepKeeps
<1>4. ASSUME NEW w \in Windows, UnmapWindow(c, w) \/ DestroyWindow(c, w)
      PROVE  GrabInv'
  <2>1. w \in 2 .. Depth /\ trace' = trace /\ realized' = Unmapped(w)
        /\ work' \in {UnmapCalls(w), DeleteCalls(w)}
    BY <1>4, ClientAssumption DEF UnmapWindow, DestroyWindow, Windows
  <2>2. CallsGood' /\ WindowTyped'
    BY <1>1, <2>1, WindowCallsGood, InvParts DEF CallsGood, WindowTyped
  <2> QED
    BY <1>1, <1>2, <2>2, QuietStepKeeps
<1> QED
  BY <1>3, <1>4

\* The start of CloseDownClient and of CloseDownRetainedResources.
LEMMA CloseKeeps ==
  ASSUME GrabInv, NEW c \in Clients, CloseDownClient(c) \/ CloseDownRetained(c)
  PROVE  GrabInv'
<1>1. CASE CloseDownClient(c)
  <2>1. work' = <<DoClient("release", c), DoClient("gone", c)>>
        /\ UNCHANGED <<syncVars, playing>> /\ SyncOnly
    BY <1>1 DEF CloseDownClient
  <2>2. CallsGood'
    BY <2>1, ClientCallGood DEF CallsGood
  <2> QED
    BY <2>1, <2>2, CallStepKeeps
<1>2. CASE CloseDownRetained(c)
  <2>1. /\ status' = [status EXCEPT ![c] = "gone"]
        /\ work' = <<DoClient("free", c)>>
        /\ UNCHANGED <<syncVars, eventVars, pending, playing, windowVars, inputVars,
                       passive, grabs>>
    BY <1>2 DEF CloseDownRetained
  <2>2. CallsGood'
    BY <2>1, ClientCallGood DEF CallsGood
  <2>3. RequestTyped' /\ WindowTyped'
    BY <2>1, InvParts, SameWindows DEF RequestTyped, inputVars
  <2> QED
    BY <2>1, <2>2, <2>3, QuietStepKeeps
<1> QED
  BY <1>1, <1>2

-----------------------------------------------------------------------------
(* The invariant.                                                          *)

\* The invariant holds when the server starts,
LEMMA GrabInvInitially ==
  ASSUME Init
  PROVE  GrabInv
<1>1. SyncTyped /\ DoneTyped /\ CallsGood /\ QueueGood
  <2>1. SyncTyped
    BY DEF Init, SyncTyped, SyncStates
  <2>2. DoneTyped
    BY BoundAssumption DEF Init, DoneTyped
  <2>3. CallsGood /\ QueueGood
    BY DEF Init, CallsGood, QueueGood
  <2> QED
    BY <2>1, <2>2, <2>3
<1>2. KeysTyped
  BY DEF Init, KeysTyped
<1>3. WindowTyped /\ RequestTyped
  BY BoundAssumption, ClientAssumption DEF Init, WindowTyped, RequestTyped, Windows
<1>4. HeldGood /\ FrozenIffHeld /\ HeldByActiveGrab /\ NothingStranded
  BY DEF Init, HeldGood, FrozenIffHeld, HeldByActiveGrab, NothingStranded, FROZEN
<1> QED
  BY <1>1, <1>2, <1>3, <1>4 DEF GrabInv, Typed

\* and every step keeps it.
LEMMA GrabInvStep ==
  ASSUME GrabInv, [Next]_vars
  PROVE  GrabInv'
<1>1. ASSUME NEW d \in Devices, NEW k \in Keys \cup {0},
             NEW type \in {"press", "release", "motion"}, DeviceEvent(d, type, k)
      PROVE  GrabInv'
  BY <1>1, DeviceEventKeeps
<1>2. CASE Step
  BY <1>2, PlayKeeps, PlayEndsKeeps, ReplayKeeps, HoldKeeps, RepeatKeeps, UnrealizeKeeps,
     EvictKeeps, RetraceKeeps, CrushKeeps, DropKeeps, ReleaseKeeps, GoneKeeps, FreeKeeps
     DEF Step
<1>3. ASSUME NEW c \in Clients, ClientStep(c)
      PROVE  GrabInv'
  <2>1. ASSUME NEW d \in Devices, NEW w \in Windows,
               \/ UngrabKey(c, d, w)
               \/ \E m, o \in Modes : GrabDevice(c, d, w, m, o) \/ GrabKey(c, d, w, m, o)
        PROVE  GrabInv'
    BY <2>1, GrabDeviceKeeps, PassiveKeeps
  <2>2. ASSUME NEW d \in Devices, Ungrab(c, d) \/ AllowEvents(c, d) \/ AllowReplay(c, d)
        PROVE  GrabInv'
    BY <2>2, UngrabKeeps, AllowEventsKeeps, AllowReplayKeeps
  <2> QED
    BY <1>3, <2>1, <2>2, WindowRequestKeeps, CloseKeeps DEF ClientStep
<1>4. CASE UNCHANGED vars
  <2>1. UNCHANGED <<syncVars, playing>> /\ UNCHANGED <<eventVars, pending>>
        /\ UNCHANGED windowVars /\ UNCHANGED inputVars /\ UNCHANGED clientVars /\ work' = work
    BY <1>4 DEF vars
  <2>2. CallsGood' /\ WindowTyped' /\ RequestTyped'
    BY <2>1, SameWindows, SameRequests, InvParts DEF CallsGood
  <2> QED
    BY <2>1, <2>2, QuietStepKeeps
<1> QED
  BY <1>1, <1>2, <1>3, <1>4 DEF Next

\* At every moment, in the middle of a nest of calls too, the inductive invariant holds.
THEOREM InvariantHolds == Spec => []GrabInv
<1> QED
  BY GrabInvInitially, GrabInvStep, PTL DEF Spec

\* Every variable keeps its type, whatever nests in a request: among others
\* every call is made with a window, a device or an event it can be made with.
THEOREM TypeCorrect == Spec => []TypeOK
<1>1. GrabInv => TypeOK
  <2> SUFFICES ASSUME GrabInv PROVE TypeOK
    OBVIOUS
  <2>1. work \in Seq(Call)
    BY SeqMonotonic DEF GrabInv, Typed, CallsGood, GoodCall
  <2>2. pending \in Seq(Event)
    BY SeqMonotonic DEF GrabInv, Typed, QueueGood, GoodEvent
  <2> QED
    BY <2>1, <2>2 DEF GrabInv, Typed, SyncTyped, KeysTyped, DoneTyped, WindowTyped,
                      RequestTyped, TypeOK
<1> QED
  BY <1>1, InvariantHolds, PTL

\* processInputProc of every device (its frozen flag) agrees with sync.state
\* and sync.other, however freezes, thaws and calls nest.
THEOREM FreezesAgree == Spec => []FrozenIffHeld
<1>1. GrabInv => FrozenIffHeld
  BY DEF GrabInv
<1> QED
  BY <1>1, InvariantHolds, PTL

\* sync.other never points to a grab that has ended.
THEOREM FreezesHaveGrabs == Spec => []HeldByActiveGrab
<1>1. GrabInv => HeldByActiveGrab
  BY DEF GrabInv
<1> QED
  BY <1>1, InvariantHolds, PTL

\* PlayReleasedEvents leaves no event of a thawed device in the queue.
THEOREM NoneStranded == Spec => []NothingStranded
<1>1. GrabInv => NothingStranded
  BY DEF GrabInv
<1> QED
  BY <1>1, InvariantHolds, PTL

-----------------------------------------------------------------------------
(* What a step may never do.                                               *)

\* An event is processed for its own device only.
LEMMA ProcessOwnDevice ==
  ASSUME ProcessInv, NEW ev \in GoodEvent, NEW rest, ProcessEvent(ev, rest)
  PROVE  \A e \in Devices \ {ev.dev} : done'[e] = done[e] /\ down'[e] = down[e]
<1>1. done' = [done EXCEPT ![ev.dev] = ev.n]
  BY DEF ProcessEvent
<1>2. \/ down' = down
      \/ down' = [down EXCEPT ![ev.dev] = @ \ {ev.key}]
      \/ down' = [down EXCEPT ![ev.dev] = @ \cup {ev.key}]
  <2>1. CASE KeyPress(ev, rest)
    <3>1. CASE KeyRelease([ev EXCEPT !.type = "release"], <<DoEvent("repeat", 0, ev)>> \o rest)
      <4>1. /\ [ev EXCEPT !.type = "release"].dev = ev.dev
            /\ [ev EXCEPT !.type = "release"].key = ev.key
        BY DEF GoodEvent, Event
      <4> QED
        BY <3>1, <4>1 DEF KeyRelease
    <3> QED
      BY <2>1, <3>1 DEF KeyPress
  <2>2. CASE KeyRelease(ev, rest)
    BY <2>2 DEF KeyRelease
  <2>3. CASE ButtonPress(ev, rest)
    BY <2>3 DEF ButtonPress
  <2>4. CASE ButtonRelease(ev, rest)
    BY <2>4 DEF ButtonRelease
  <2>5. CASE UNCHANGED down
    BY <2>5
  <2> QED
    BY <2>1, <2>2, <2>3, <2>4, <2>5 DEF ProcessEvent
<1>3. ev.dev \in Devices
  BY EventFields
<1> QED
  BY <1>1, <1>2 DEF ProcessInv, KeysTyped

-----------------------------------------------------------------------------
(* What an event does, and what happens to the calls in progress.          *)

Waits == {"FREEZE_NEXT_EVENT", "FREEZE_BOTH_NEXT_EVENT"}

\* Calls that neither hold, replay nor repeat an event.
Plain == {r \in GoodCall : r.op \notin {"hold", "replay", "repeat"}}

\* Calls other than those that close down a client, which are never nested.
Nested == {r \in GoodCall : r.op \notin {"release", "gone", "free"}}

Simple == Plain \cap Nested

\* The effect of an event on its device: it is delivered or ignored, delivered and
\* held, starts a grab, or ends one.
Effect(ev, rest) ==
  \/ work' = rest /\ UNCHANGED <<syncVars, playing, held>>
  \/ /\ grab[ev.dev] # NoGrab /\ ev.type # "motion" /\ state[ev.dev] \in Waits
     /\ CanReach(ev) /\ FreezeFor(ev) /\ work' = rest /\ playing' = playing
  \/ grab[ev.dev] = NoGrab /\ ImplicitGrab(ev, rest) /\ held' = held
  \/ /\ grab[ev.dev] = NoGrab /\ ev.type = "press" /\ held' = held
     /\ ActivatePassive(ev, Matching(ev, 1, trace), rest)
  \/ /\ fromPassive[ev.dev] /\ ev.type = "release" /\ held' = held
     /\ DeactivateGrab(ev.dev, <<>>, rest)

\* ... and on the keys or buttons that are down.
Moves(ev) ==
  down' = [down EXCEPT ![ev.dev] = IF ev.type = "press" THEN @ \cup {ev.key}
                                   ELSE IF ev.type = "release" THEN @ \ {ev.key} ELSE @]

\* The release half of a repeat.
AsRelease(ev) == [ev EXCEPT !.type = "release"]

\* An event that is delivered has one of these effects.
LEMMA DeliverEffect ==
  ASSUME NEW ev \in GoodEvent, NEW rest, Deliver(ev, rest)
  PROVE  Effect(ev, rest)
<1>1. CASE grab[ev.dev] # NoGrab
  <2>1. DeliverGrabbedEvent(ev, rest)
    BY <1>1 DEF Deliver
  <2> QED
    BY <1>1, <2>1 DEF DeliverGrabbedEvent, Effect, Waits
<1>2. CASE grab[ev.dev] = NoGrab
  <2>1. DeliverUngrabbed(ev, rest) /\ held' = held
    BY <1>2 DEF Deliver
  <2> QED
    BY <1>2, <2>1 DEF DeliverUngrabbed, Effect
<1> QED
  BY <1>1, <1>2

\* So has a press that may start a passive grab,
LEMMA StartEffect ==
  ASSUME NEW ev \in GoodEvent, ev.type = "press", NEW rest, StartOrDeliver(ev, rest)
  PROVE  Effect(ev, rest)
<1>1. CASE Deliver(ev, rest)
  BY <1>1, DeliverEffect
<1>2. CASE ~Deliver(ev, rest)
  <2>1. /\ grab[ev.dev] = NoGrab /\ held' = held
        /\ ActivatePassive(ev, Matching(ev, 1, trace), rest)
    BY <1>2 DEF StartOrDeliver
  <2> QED
    BY <2>1 DEF Effect
<1> QED
  BY <1>1, <1>2

\* and a release of a key that is down.
LEMMA KeyReleaseEffect ==
  ASSUME KeysTyped, NEW ev \in GoodEvent, ev.type = "release", NEW rest, KeyRelease(ev, rest)
  PROVE  Effect(ev, rest) /\ Moves(ev)
<1>0. ev.dev \in Devices /\ ev.key \in Keys
  BY EventFields
<1>1. CASE ev.key \notin down[ev.dev]
  <2>1. work' = rest /\ UNCHANGED <<syncVars, playing, held, down>>
    BY <1>1 DEF KeyRelease
  <2>2. [down EXCEPT ![ev.dev] = @ \ {ev.key}] = down
    BY <1>0, <1>1 DEF KeysTyped
  <2> QED
    BY <2>1, <2>2 DEF Effect, Moves
<1>2. CASE ev.key \in down[ev.dev]
  <2>1. /\ down' = [down EXCEPT ![ev.dev] = @ \ {ev.key}]
        /\ EndOrDeliver(ev, fromPassive[ev.dev] /\ ev.key = activatingKey[ev.dev], rest)
    BY <1>2 DEF KeyRelease
  <2>2. Moves(ev)
    BY <2>1 DEF Moves
  <2>3. CASE Deliver(ev, rest)
    BY <2>2, <2>3, DeliverEffect
  <2>4. CASE ~Deliver(ev, rest)
    <3>1. fromPassive[ev.dev] /\ DeactivateGrab(ev.dev, <<>>, rest) /\ held' = held
      BY <2>1, <2>4 DEF EndOrDeliver
    <3> QED
      BY <2>2, <3>1 DEF Effect
  <2> QED
    BY <2>3, <2>4
<1> QED
  BY <1>1, <1>2

\* Which half of the event is processed now: all of it, or the release half of a
\* repeat, the press half being pushed.
Halves(ev, rest, e2, r2) ==
  \/ e2 = ev /\ r2 = rest
  \/ /\ ev.dev \in Keyboards /\ ev.type = "press" /\ ev.key \in down[ev.dev]
     /\ e2 = AsRelease(ev) /\ r2 = <<DoEvent("repeat", 0, ev)>> \o rest

\* The whole of realInputProc.  (The last button that goes up ends the grab.)
LEMMA ProcessEffect ==
  ASSUME KeysTyped, SyncTyped, NEW ev \in GoodEvent, NEW rest \in Seq(GoodCall),
         ProcessEvent(ev, rest)
  PROVE  \E e2 \in GoodEvent, r2 \in Seq(GoodCall) :
           /\ Halves(ev, rest, e2, r2)
           /\ e2.dev = ev.dev /\ e2.n = ev.n /\ e2.key = ev.key
           /\ done' = [done EXCEPT ![e2.dev] = e2.n]
           /\ Moves(e2) /\ Effect(e2, r2)
           /\ e2.dev \in Pointers /\ e2.type = "release" /\ down'[e2.dev] = {}
                => ~fromPassive'[e2.dev]
<1>0. ev.dev \in Devices /\ ev.key \in Keys \cup {0} /\ (ev.type # "motion" => ev.key \in Keys)
  BY EventFields
<1>1. done' = [done EXCEPT ![ev.dev] = ev.n]
  BY DEF ProcessEvent
<1>a. ASSUME Moves(ev), Effect(ev, rest),
             ev.dev \in Pointers /\ ev.type = "release" /\ down'[ev.dev] = {}
               => ~fromPassive'[ev.dev]
      PROVE  \E e2 \in GoodEvent, r2 \in Seq(GoodCall) :
           /\ Halves(ev, rest, e2, r2)
           /\ e2.dev = ev.dev /\ e2.n = ev.n /\ e2.key = ev.key
           /\ done' = [done EXCEPT ![e2.dev] = e2.n]
           /\ Moves(e2) /\ Effect(e2, r2)
           /\ e2.dev \in Pointers /\ e2.type = "release" /\ down'[e2.dev] = {}
                => ~fromPassive'[e2.dev]
  <2>1. Halves(ev, rest, ev, rest)
    BY DEF Halves
  <2> QED
    BY <1>1, <1>a, <2>1
<1>2. CASE ev.dev \in Keyboards /\ ev.type = "press" /\ KeyPress(ev, rest)
  <2>0. ev.dev \notin Pointers
    BY <1>2, DeviceAssumption
  <2>1. CASE ev.key \notin down[ev.dev]
    <3>1. down' = [down EXCEPT ![ev.dev] = @ \cup {ev.key}] /\ StartOrDeliver(ev, rest)
      BY <1>2, <2>1 DEF KeyPress
    <3>2. Moves(ev) /\ Effect(ev, rest)
      BY <1>2, <3>1, StartEffect DEF Moves
    <3> QED
      BY <1>a, <1>2, <3>2
  <2>2. CASE ev.key \in down[ev.dev] /\ ev.key \in Modifiers
    <3>1. work' = rest /\ UNCHANGED <<syncVars, playing, held, down>>
      BY <1>2, <2>2 DEF KeyPress
    <3>2. [down EXCEPT ![ev.dev] = @ \cup {ev.key}] = down
      BY <1>0, <2>2 DEF KeysTyped
    <3>3. Moves(ev) /\ Effect(ev, rest)
      BY <1>2, <3>1, <3>2 DEF Effect, Moves
    <3> QED
      BY <1>a, <1>2, <3>3
  <2>3. CASE ev.key \in down[ev.dev] /\ ev.key \notin Modifiers
    <3> DEFINE e2 == AsRelease(ev)
               r2 == <<DoEvent("repeat", 0, ev)>> \o rest
    <3>1. KeyRelease(e2, r2)
      BY <1>2, <2>3 DEF KeyPress, AsRelease
    <3>2. /\ e2 \in GoodEvent /\ e2.dev = ev.dev /\ e2.n = ev.n /\ e2.key = ev.key
          /\ e2.type = "release"
      BY <1>0, <1>2 DEF GoodEvent, Event, AsRelease
    <3>3. r2 \in Seq(GoodCall)
      <4>1. 0 \in 0 .. Depth
        BY ClientAssumption
      <4> QED
        BY <4>1, EventCallGood, PushGood
    <3>4. Halves(ev, rest, e2, r2)
      BY <1>2, <2>3 DEF Halves
    <3> HIDE DEF e2, r2
    <3>5. Effect(e2, r2) /\ Moves(e2)
      BY <3>1, <3>2, KeyReleaseEffect
    <3> QED
      BY <1>1, <2>0, <3>2, <3>3, <3>4, <3>5
  <2> QED
    BY <2>1, <2>2, <2>3
<1>3. CASE ev.dev \in Keyboards /\ ev.type = "release" /\ KeyRelease(ev, rest)
  <2>1. ev.dev \notin Pointers
    BY <1>3, DeviceAssumption
  <2> QED
    BY <1>a, <1>3, <2>1, KeyReleaseEffect
<1>4. CASE ev.dev \in Pointers /\ ev.type = "press" /\ ButtonPress(ev, rest)
  <2>1. down' = [down EXCEPT ![ev.dev] = @ \cup {ev.key}] /\ StartOrDeliver(ev, rest)
    BY <1>4 DEF ButtonPress
  <2>2. Moves(ev) /\ Effect(ev, rest)
    BY <1>4, <2>1, StartEffect DEF Moves
  <2> QED
    BY <1>a, <1>4, <2>2
<1>5. CASE ev.dev \in Pointers /\ ev.type = "release" /\ ButtonRelease(ev, rest)
  <2>1. /\ down' = [down EXCEPT ![ev.dev] = @ \ {ev.key}]
        /\ EndOrDeliver(ev, fromPassive[ev.dev] /\ down'[ev.dev] = {}, rest)
    BY <1>5 DEF ButtonRelease
  <2>2. Moves(ev)
    BY <1>5, <2>1 DEF Moves
  <2>3. CASE fromPassive[ev.dev] /\ down'[ev.dev] = {}
    <3>1. DeactivateGrab(ev.dev, <<>>, rest) /\ held' = held
      BY <2>1, <2>3 DEF EndOrDeliver
    <3>2. fromPassive' = [fromPassive EXCEPT ![ev.dev] = FALSE]
      BY <3>1 DEF DeactivateGrab, DeactivateGrabOn
    <3>3. ~fromPassive'[ev.dev]
      BY <1>0, <3>2 DEF SyncTyped
    <3>4. Effect(ev, rest)
      BY <1>5, <2>3, <3>1 DEF Effect
    <3> QED
      BY <1>a, <2>2, <3>3, <3>4
  <2>4. CASE ~(fromPassive[ev.dev] /\ down'[ev.dev] = {})
    <3>1. Deliver(ev, rest)
      BY <2>1, <2>4 DEF EndOrDeliver
    <3>2. Effect(ev, rest)
      BY <3>1, DeliverEffect
    <3>3. down'[ev.dev] = {} => ~fromPassive'[ev.dev]
      <4>1. grab[ev.dev] # NoGrab => fromPassive' = fromPassive
        BY <3>1 DEF Deliver, DeliverGrabbedEvent, FreezeFor, syncVars
      <4>2. grab[ev.dev] = NoGrab => fromPassive' = fromPassive
        BY <1>5, <3>1 DEF Deliver, DeliverUngrabbed, ImplicitGrab, syncVars
      <4> QED
        BY <2>4, <4>1, <4>2
    <3> QED
      BY <1>a, <2>2, <3>2, <3>3
  <2> QED
    BY <2>3, <2>4
<1>6. CASE ev.type = "motion" /\ Deliver(ev, rest) /\ UNCHANGED <<down, activatingKey, grabKey>>
  <2>1. [down EXCEPT ![ev.dev] = @] = down
    BY <1>0 DEF KeysTyped
  <2>2. Moves(ev) /\ Effect(ev, rest)
    BY <1>6, <2>1, DeliverEffect DEF Moves
  <2> QED
    BY <1>a, <1>6, <2>2
<1> QED
  BY <1>2, <1>3, <1>4, <1>5, <1>6 DEF ProcessEvent

\* The calls in progress other than those of one kind.
Without(op) == {r \in GoodCall : r.op # op}

\* A step that pushes plain calls, on all the calls in progress or on all but the
\* innermost, and that is not about an event held or replayed.
PlainCalls ==
  /\ \E p \in Seq(Plain) : \/ work' = p \o work
                           \/ work # <<>> /\ work' = p \o Tail(work)
  /\ work # <<>> => Head(work) \in Plain

\* ... and whose calls are nested ones besides.
SimpleCalls ==
  /\ \E p \in Seq(Simple) : \/ work' = p \o work
                            \/ work # <<>> /\ work' = p \o Tail(work)
  /\ work # <<>> => Head(work) \in Plain

\* ComputeFreezes returns or plays first.
LEMMA FreezesThenRest ==
  ASSUME NEW rest \in Seq(GoodCall), ComputeFreezes(<<>>, rest)
  PROVE  work' = rest \/ work' = <<Do("play")>> \o rest
BY DEF ComputeFreezes

\* The calls without an event are plain.
LEMMA PlayPlain == Do("play") \in Simple /\ Do("retrace") \in Simple
BY PlayGood DEF Simple, Plain, Nested, Do, Item

\* and so are those of DeleteWindowFromAnyEvents, UnmapWindow and DeleteWindow.
LEMMA EvictFromPlain ==
  ASSUME NEW w \in Windows
  PROVE  EvictFrom(w) \in Seq(Simple)
<1>1. Len(EvictOrder) \in Nat /\ \A i \in 1 .. Len(EvictOrder) : EvictOrder[i] \in Devices
  BY DeviceAssumption, ElementOfSeq, LenProperties
<1>2. \A i \in 1 .. Len(EvictOrder) : DoWindow("evict", EvictOrder[i], w, 0) \in Simple
  BY <1>1, EvictGood DEF Simple, Plain, Nested, DoWindow, Item
<1> QED
  BY <1>1, <1>2, SeqDef DEF EvictFrom

\* Those of UnmapWindow and DeleteWindow are.
LEMMA WindowCallsPlain ==
  ASSUME GrabInv, NEW w \in 2 .. Depth
  PROVE  UnmapCalls(w) \in Seq(Simple) /\ DeleteCalls(w) \in Seq(Simple)
<1>1. realized \in Windows /\ w \in Windows
  BY InvParts, ClientAssumption DEF WindowTyped, Windows
<1>2. w <= realized => DoWindow("unrealize", NoDev, w, realized) \in Simple
  BY <1>1, UnrealizeGood DEF Simple, Plain, Nested, DoWindow, Item
<1>3. UnmapCalls(w) \in Seq(Simple)
  BY <1>1, <1>2, ClientAssumption DEF UnmapCalls, Windows
<1>4. DoWindow("crush", NoDev, w, 0) \in Simple
  BY WindowCallGood DEF Simple, Plain, Nested, DoWindow, Item
<1>5. <<DoWindow("crush", NoDev, w, 0)>> \in Seq(Simple)
  BY <1>4
<1> QED
  BY <1>3, <1>5, ConcatProperties DEF DeleteCalls

\* Every step of the calls in progress that is not about an event pushes nested
\* calls that are plain, except that of CloseDownClient,
LEMMA StepSimple ==
  ASSUME GrabInv,
         PlayEnds \/ Unrealize \/ Evict \/ Retrace \/ Crush \/ Drop \/ Release \/ Free
  PROVE  SimpleCalls
<1> DEFINE r == Head(work)
<1>0. work # <<>> /\ r \in GoodCall /\ Tail(work) \in Seq(GoodCall) /\ work \in Seq(GoodCall)
  <2>1. work # <<>>
    BY DEF PlayEnds, Unrealize, Evict, Retrace, Crush, Drop, Release, Free, Now
  <2> QED
    BY <2>1, PopGood, InvParts DEF CallsGood
<1>1. r \in Plain
  <2>1. r.op \in Ops \ {"hold", "replay", "repeat"}
    BY DEF PlayEnds, Unrealize, Evict, Retrace, Crush, Drop, Release, Free, Now, Ops
  <2> QED
    BY <1>0, <2>1 DEF Plain
<1>2. ASSUME NEW p \in Seq(Simple), work' = p \o work \/ work' = p \o Tail(work)
      PROVE  SimpleCalls
  BY <1>0, <1>1, <1>2 DEF SimpleCalls
<1>3. ASSUME work' = work \/ work' = Tail(work)
      PROVE  SimpleCalls
  <2>1. <<>> \in Seq(Simple) /\ <<>> \o work = work /\ <<>> \o Tail(work) = Tail(work)
    BY <1>0
  <2> HIDE DEF r
  <2> QED
    BY <1>2, <1>3, <2>1
<1>4. ASSUME NEW d \in Devices,
             DeactivateGrab(d, <<>>, work) \/ DeactivateGrab(d, <<>>, Tail(work))
      PROVE  SimpleCalls
  <2>1. \/ work' = work \/ work' = Tail(work)
        \/ work' = <<Do("play")>> \o work \/ work' = <<Do("play")>> \o Tail(work)
    BY <1>0, <1>4, FreezesThenRest DEF DeactivateGrab, DeactivateGrabOn
  <2>2. <<Do("play")>> \in Seq(Simple)
    BY PlayPlain
  <2> HIDE DEF r
  <2> QED
    BY <1>2, <1>3, <2>1, <2>2
<1>5. CASE PlayEnds \/ Retrace \/ Drop
  BY <1>3, <1>5 DEF PlayEnds, Retrace, Drop, Then
<1>6. CASE Evict
  <2>1. r.dev \in Devices
    BY <1>0, <1>6 DEF Evict, Now, GoodCall
  <2> HIDE DEF r
  <2> QED
    BY <1>3, <1>4, <1>6, <2>1 DEF Evict, Then, r
<1>7. CASE Release
  BY <1>3, <1>4, <1>7 DEF Release, Then
<1>8. CASE Unrealize
  <2> DEFINE next == IF r.win = r.last THEN Do("retrace")
                     ELSE DoWindow("unrealize", NoDev, r.win + 1, r.last)
  <2>1. work' = EvictFrom(r.win) \o <<next>> \o Tail(work) /\ r.op = "unrealize"
    BY <1>8 DEF Unrealize, Now, Then
  <2>2. r.win \in Windows /\ r.last \in Windows /\ r.win <= r.last
    BY <1>0, <2>1, ClientAssumption DEF GoodCall, Call, Windows
  <2>3. next \in Simple
    <3>1. CASE r.win = r.last
      BY <3>1, PlayPlain
    <3>2. CASE r.win # r.last
      <4>1. r.win + 1 \in Windows /\ r.win + 1 <= r.last
        BY <2>2, <3>2, ClientAssumption DEF Windows
      <4>2. DoWindow("unrealize", NoDev, r.win + 1, r.last) \in Simple
        BY <2>2, <4>1, UnrealizeGood DEF Simple, Plain, Nested, DoWindow, Item
      <4> QED
        BY <3>2, <4>2
    <3> QED
      BY <3>1, <3>2
  <2>4. EvictFrom(r.win) \in Seq(Simple)
    BY <2>2, EvictFromPlain
  <2> HIDE DEF next, r
  <2>5. EvictFrom(r.win) \o <<next>> \in Seq(Simple)
    BY <2>3, <2>4, ConcatProperties
  <2>6. work' = (EvictFrom(r.win) \o <<next>>) \o Tail(work)
    BY <2>1
  <2> QED
    BY <1>2, <2>5, <2>6
<1>9. CASE Crush
  <2>1. CASE alive < r.win
    BY <1>3, <1>9, <2>1 DEF Crush, Then
  <2>2. CASE ~(alive < r.win)
    <3>1. work' = EvictFrom(alive) \o <<DoWindow("drop", NoDev, alive, 0)>> \o work
          /\ r.op = "crush"
      BY <1>9, <2>2 DEF Crush, Now
    <3>2. r.win \in 2 .. Depth /\ alive \in Windows
      BY <1>0, <3>1, InvParts DEF GoodCall, WindowTyped
    <3>3. alive \in 2 .. Depth
      BY <2>2, <3>2, ClientAssumption DEF Windows
    <3>4. DoWindow("drop", NoDev, alive, 0) \in Simple
      BY <3>3, WindowCallGood DEF Simple, Plain, Nested, DoWindow, Item
    <3>5. EvictFrom(alive) \in Seq(Simple)
      BY <3>2, EvictFromPlain
    <3> HIDE DEF r
    <3>6. EvictFrom(alive) \o <<DoWindow("drop", NoDev, alive, 0)>> \in Seq(Simple)
      BY <3>4, <3>5, ConcatProperties
    <3>7. work' = (EvictFrom(alive) \o <<DoWindow("drop", NoDev, alive, 0)>>) \o work
      BY <3>1
    <3> QED
      BY <1>2, <3>6, <3>7
  <2> QED
    BY <2>1, <2>2
<1>11. CASE Free
  <2>1. r.client \in Clients
    BY <1>0, <1>11 DEF Free, Now, GoodCall
  <2>2. ASSUME NEW w \in 1 .. alive, WinOwner[w] = r.client, work' = DeleteCalls(w) \o work
        PROVE  SimpleCalls
    <3>1. w \in 2 .. Depth
      BY <2>1, <2>2, InvParts, ClientAssumption DEF WindowTyped, Windows
    <3>2. DeleteCalls(w) \in Seq(Simple)
      BY <3>1, WindowCallsPlain
    <3> HIDE DEF r
    <3> QED
      BY <1>2, <2>2, <3>2
  <2>3. \/ work' = work \/ work' = Tail(work)
        \/ \E w \in 1 .. alive : WinOwner[w] = r.client /\ work' = DeleteCalls(w) \o work
    BY <1>11 DEF Free, Then
  <2> HIDE DEF r
  <2> QED
    BY <1>3, <2>2, <2>3
<1> QED
  BY <1>5, <1>6, <1>7, <1>8, <1>9, <1>11

\* which pushes FreeClientResources.
LEMMA StepPlain ==
  ASSUME GrabInv,
         PlayEnds \/ Unrealize \/ Evict \/ Retrace \/ Crush \/ Drop \/ Release \/ Gone \/ Free
  PROVE  PlainCalls
<1>1. CASE PlayEnds \/ Unrealize \/ Evict \/ Retrace \/ Crush \/ Drop \/ Release \/ Free
  <2>1. SimpleCalls
    BY <1>1, StepSimple
  <2>2. \A p \in Seq(Simple) : p \in Seq(Plain)
    BY SeqMonotonic DEF Simple
  <2> QED
    BY <2>1, <2>2 DEF SimpleCalls, PlainCalls
<1>2. CASE Gone
  <2> DEFINE r == Head(work)
             f == DoClient("free", r.client)
  <2>1. work # <<>> /\ r \in GoodCall /\ r.op = "gone" /\ Tail(work) \in Seq(GoodCall)
    <3>1. work # <<>> /\ r.op = "gone"
      BY <1>2 DEF Gone, Now
    <3> QED
      BY <3>1, PopGood, InvParts
  <2>2. r \in Plain
    BY <2>1 DEF Plain
  <2>3. f \in Plain
    <3>1. r.client \in Clients
      BY <2>1 DEF GoodCall
    <3> QED
      BY <3>1, ClientCallGood DEF Plain, DoClient, Item
  <2>4. work' = <<f>> \o Tail(work) \/ work' = Tail(work)
    BY <1>2 DEF Gone, Then
  <2> HIDE DEF f, r
  <2>5. <<f>> \in Seq(Plain) /\ <<>> \in Seq(Plain) /\ <<>> \o Tail(work) = Tail(work)
    BY <2>1, <2>3
  <2>6. \E p \in Seq(Plain) : work' = p \o Tail(work)
    BY <2>4, <2>5
  <2> QED
    BY <2>1, <2>2, <2>6 DEF PlainCalls, r
<1> QED
  BY <1>1, <1>2

\* The calls of a request are plain and nested,
LEMMA NestedRequest ==
  ASSUME GrabInv, Idle, NEW c \in Clients,
         \/ \E d \in Devices :
              \/ Ungrab(c, d) \/ AllowEvents(c, d)
              \/ \E w \in Windows :
                   \/ UngrabKey(c, d, w)
                   \/ \E m, o \in Modes : GrabDevice(c, d, w, m, o) \/ GrabKey(c, d, w, m, o)
         \/ MapWindow(c) \/ \E w \in Windows : UnmapWindow(c, w) \/ DestroyWindow(c, w)
  PROVE  work' \in Seq(Simple)
<1>0. work = <<>> /\ <<>> \in Seq(GoodCall) /\ <<>> \in Seq(Simple)
  BY DEF Idle
<1>1. ASSUME ComputeFreezes(<<>>, <<>>)
      PROVE  work' \in Seq(Simple)
  <2>1. <<Do("play")>> \o <<>> \in Seq(Simple)
    BY PlayPlain
  <2> QED
    BY <1>0, <1>1, <2>1, FreezesThenRest
<1>2. ASSUME \E d \in Devices : Ungrab(c, d)
      PROVE  work' \in Seq(Simple)
  <2>1. ComputeFreezes(<<>>, <<>>)
    BY <1>2 DEF Ungrab, DeactivateGrab, DeactivateGrabOn
  <2> QED
    BY <1>1, <2>1
<1>3. ASSUME \E d \in Devices : AllowEvents(c, d)
      PROVE  work' \in Seq(Simple)
  <2>1. ComputeFreezes(<<>>, <<>>)
    BY <1>3 DEF AllowEvents
  <2> QED
    BY <1>1, <2>1
<1>4. ASSUME NEW d \in Devices, NEW w \in Windows, NEW m \in Modes, NEW o \in Modes,
             GrabDevice(c, d, w, m, o)
      PROVE  work' \in Seq(Simple)
  <2>1. ComputeFreezes(<<>>, <<>>)
    BY <1>4 DEF GrabDevice, ActivateGrab, CheckGrabForSyncs
  <2> QED
    BY <1>1, <2>1
<1>5. ASSUME NEW d \in Devices, NEW w \in Windows,
             UngrabKey(c, d, w) \/ \E m, o \in Modes : GrabKey(c, d, w, m, o)
      PROVE  work' \in Seq(Simple)
  BY <1>0, <1>5 DEF UngrabKey, GrabKey
<1>6. ASSUME MapWindow(c)
      PROVE  work' \in Seq(Simple)
  BY <1>0, <1>6 DEF MapWindow
<1>7. ASSUME NEW w \in Windows, UnmapWindow(c, w) \/ DestroyWindow(c, w)
      PROVE  work' \in Seq(Simple)
  <2>1. w \in 2 .. Depth /\ work' \in {UnmapCalls(w), DeleteCalls(w)}
    BY <1>7, ClientAssumption DEF UnmapWindow, DestroyWindow, Windows
  <2> QED
    BY <2>1, WindowCallsPlain
<1> QED
  BY <1>2, <1>3, <1>4, <1>5, <1>6, <1>7

\* and those of CloseDownClient are plain as well.
LEMMA RequestPlain ==
  ASSUME GrabInv, Idle, NEW c \in Clients,
         \/ \E d \in Devices :
              \/ Ungrab(c, d) \/ AllowEvents(c, d)
              \/ \E w \in Windows :
                   \/ UngrabKey(c, d, w)
                   \/ \E m, o \in Modes : GrabDevice(c, d, w, m, o) \/ GrabKey(c, d, w, m, o)
         \/ MapWindow(c) \/ \E w \in Windows : UnmapWindow(c, w) \/ DestroyWindow(c, w)
         \/ CloseDownClient(c) \/ CloseDownRetained(c)
  PROVE  /\ work = <<>> /\ work' \in Seq(Plain)
<1>1. work = <<>>
  BY DEF Idle
<1>2. CASE CloseDownClient(c)
  <2>1. DoClient("release", c) \in Plain /\ DoClient("gone", c) \in Plain
    BY ClientCallGood DEF Plain, DoClient, Item
  <2>2. <<DoClient("release", c), DoClient("gone", c)>> \in Seq(Plain)
    BY <2>1
  <2> QED
    BY <1>1, <1>2, <2>2 DEF CloseDownClient
<1>3. ASSUME work' \in Seq(Simple)
      PROVE  work' \in Seq(Plain)
  BY <1>3, SeqMonotonic DEF Simple
<1>4. CASE CloseDownRetained(c)
  <2>1. DoClient("free", c) \in Plain
    BY ClientCallGood DEF Plain, DoClient, Item
  <2> QED
    BY <1>1, <1>4, <2>1 DEF CloseDownRetained
<1> QED
  BY <1>1, <1>2, <1>3, <1>4, NestedRequest

-----------------------------------------------------------------------------
(* The event a grab holds.                                                 *)

\* ev is the last event of device d, and if it is a button press the button is
\* still down.
Dated(ev, d, dn, dw) ==
  ev.dev = d /\ ev.n = dn[d] /\ (d \in Pointers /\ ev.type = "press" => dw[d] # {})

HeldDated == \A d \in Devices : state[d] = "FROZEN_WITH_EVENT" => Dated(held[d], d, done, down)

\* No call on top of the i-th one holds an event of the same device.
Inner(s, i) == \A j \in 1 .. (i - 1) : ~(s[j].op = "hold" /\ s[j].dev = s[i].dev)

\* The event that the calls s are to hold if a device of D is still frozen by the
\* grab it started is the last one of the device.
HoldsOn(s, D, st, dn, dw) ==
  \A i \in 1 .. Len(s) : s[i].op = "hold" /\ s[i].dev \in D =>
    /\ st[s[i].dev] \notin Waits
    /\ st[s[i].dev] = "FROZEN_NO_EVENT" /\ Inner(s, i) => Dated(s[i].ev, s[i].dev, dn, dw)

\* An event is replayed at once, when the grab that held it has ended.
ReplayDated ==
  work # <<>> =>
    /\ Tail(work) \in Seq(Without("replay"))
    /\ Head(work).op = "replay" =>
         grab[Head(work).ev.dev] = NoGrab /\ Dated(Head(work).ev, Head(work).ev.dev, done, down)

HeldInv == /\ HeldDated /\ HoldsOn(work, Devices, state, done, down)
           /\ ReplayDated /\ ButtonHoldsGrab

\* Pushing calls that hold nothing.
LEMMA HoldsUnder ==
  ASSUME NEW p \in Seq(Without("hold")), NEW s \in Seq(GoodCall), NEW D, NEW st, NEW dn, NEW dw,
         HoldsOn(s, D, st, dn, dw)
  PROVE  HoldsOn(p \o s, D, st, dn, dw)
<1> DEFINE t == p \o s
<1>1. /\ Len(p) \in Nat /\ Len(s) \in Nat /\ Len(t) = Len(p) + Len(s)
      /\ \A i \in 1 .. Len(p) : t[i] = p[i] /\ p[i] \in Without("hold")
      /\ \A i \in 1 .. Len(s) : t[i + Len(p)] = s[i]
  <2>1. p \in Seq(GoodCall)
    BY SeqMonotonic DEF Without
  <2> QED
    BY <2>1, ElementOfSeq, LenProperties, ConcatProperties
<1> HIDE DEF t
<1> SUFFICES ASSUME NEW i \in 1 .. Len(t), t[i].op = "hold", t[i].dev \in D
             PROVE  /\ st[t[i].dev] \notin Waits
                    /\ st[t[i].dev] = "FROZEN_NO_EVENT" /\ Inner(t, i)
                         => Dated(t[i].ev, t[i].dev, dn, dw)
  BY DEF HoldsOn, t
<1>2. i \notin 1 .. Len(p)
  BY <1>1 DEF Without
<1> DEFINE k == i - Len(p)
<1>3. k \in 1 .. Len(s) /\ i = k + Len(p) /\ t[i] = s[k]
  BY <1>1, <1>2
<1>4. Inner(t, i) => Inner(s, k)
  <2> SUFFICES ASSUME Inner(t, i), NEW j \in 1 .. (k - 1)
               PROVE  ~(s[j].op = "hold" /\ s[j].dev = s[k].dev)
    BY DEF Inner
  <2>1. j + Len(p) \in 1 .. (i - 1) /\ t[j + Len(p)] = s[j]
    BY <1>1, <1>3
  <2> HIDE DEF k
  <2> QED
    BY <1>3, <2>1 DEF Inner
<1> HIDE DEF k
<1> QED
  BY <1>3, <1>4 DEF HoldsOn

\* Pushing one that holds the last event of its device.
LEMMA HoldsPushed ==
  ASSUME NEW h \in GoodCall, h.op = "hold", NEW s \in Seq(GoodCall), NEW st, NEW dn, NEW dw,
         HoldsOn(s, Devices \ {h.dev}, st, dn, dw),
         st[h.dev] \notin Waits, Dated(h.ev, h.dev, dn, dw)
  PROVE  HoldsOn(<<h>> \o s, Devices, st, dn, dw)
<1> DEFINE t == <<h>> \o s
<1>1. /\ Len(s) \in Nat /\ Len(t) = 1 + Len(s) /\ t[1] = h
      /\ \A i \in 1 .. Len(s) : t[i + 1] = s[i]
  OBVIOUS
<1> HIDE DEF t
<1> SUFFICES ASSUME NEW i \in 1 .. Len(t), t[i].op = "hold", t[i].dev \in Devices
             PROVE  /\ st[t[i].dev] \notin Waits
                    /\ st[t[i].dev] = "FROZEN_NO_EVENT" /\ Inner(t, i)
                         => Dated(t[i].ev, t[i].dev, dn, dw)
  BY DEF HoldsOn, t
<1>2. CASE i = 1
  BY <1>1, <1>2
<1>3. CASE i # 1
  <2> DEFINE k == i - 1
  <2>1. k \in 1 .. Len(s) /\ i = k + 1 /\ t[i] = s[k] /\ 1 \in 1 .. (i - 1)
    BY <1>1, <1>3
  <2>2. CASE t[i].dev = h.dev
    BY <1>1, <2>1, <2>2 DEF Inner
  <2>3. CASE t[i].dev # h.dev
    <3>1. Inner(t, i) => Inner(s, k)
      <4> SUFFICES ASSUME Inner(t, i), NEW j \in 1 .. (k - 1)
                   PROVE  ~(s[j].op = "hold" /\ s[j].dev = s[k].dev)
        BY DEF Inner
      <4>1. j + 1 \in 1 .. (i - 1) /\ t[j + 1] = s[j]
        BY <1>1, <2>1
      <4> HIDE DEF k
      <4> QED
        BY <2>1, <4>1 DEF Inner
    <3> HIDE DEF k
    <3> QED
      BY <2>1, <2>3, <3>1 DEF HoldsOn
  <2> QED
    BY <2>2, <2>3
<1> QED
  BY <1>2, <1>3

\* The innermost call returns, which if it holds an event has done so.
LEMMA HoldsPopped ==
  ASSUME NEW s \in Seq(GoodCall), s # <<>>, NEW D, NEW st, NEW dn, NEW dw,
         HoldsOn(s, D, st, dn, dw),
         Head(s).op = "hold" => st[Head(s).dev] # "FROZEN_NO_EVENT"
  PROVE  HoldsOn(Tail(s), D, st, dn, dw)
<1> DEFINE t == Tail(s)
<1>1. /\ Len(t) \in Nat /\ Len(s) = 1 + Len(t) /\ s[1] = Head(s)
      /\ \A i \in 1 .. Len(t) : t[i] = s[i + 1]
  BY LenProperties, HeadTailProperties
<1> HIDE DEF t
<1> SUFFICES ASSUME NEW i \in 1 .. Len(t), t[i].op = "hold", t[i].dev \in D
             PROVE  /\ st[t[i].dev] \notin Waits
                    /\ st[t[i].dev] = "FROZEN_NO_EVENT" /\ Inner(t, i)
                         => Dated(t[i].ev, t[i].dev, dn, dw)
  BY DEF HoldsOn, t
<1>2. i + 1 \in 1 .. Len(s) /\ t[i] = s[i + 1]
  BY <1>1
<1>3. Inner(t, i) /\ st[t[i].dev] = "FROZEN_NO_EVENT" => Inner(s, i + 1)
  <2> SUFFICES ASSUME Inner(t, i), st[t[i].dev] = "FROZEN_NO_EVENT", NEW j \in 1 .. i
               PROVE  ~(s[j].op = "hold" /\ s[j].dev = s[i + 1].dev)
    BY DEF Inner
  <2>1. CASE j = 1
    BY <1>1, <1>2, <2>1
  <2>2. CASE j # 1
    <3>1. j - 1 \in 1 .. (i - 1) /\ s[j] = t[j - 1]
      BY <1>1, <2>2
    <3> QED
      BY <1>2, <3>1 DEF Inner
  <2> QED
    BY <2>1, <2>2
<1> QED
  BY <1>2, <1>3 DEF HoldsOn

\* Devices of D have not come to wait for an event, nor to be frozen by a grab
\* unless they did wait for one, and those frozen have processed nothing.
NoNewHold(D, st, st2, dn, dn2, dw, dw2) ==
  \A e \in D :
    /\ st2[e] \in Waits => st[e] \in Waits
    /\ st2[e] = "FROZEN_NO_EVENT" =>
         \/ st[e] \in Waits
         \/ st[e] = "FROZEN_NO_EVENT" /\ dn2[e] = dn[e] /\ dw2[e] = dw[e]

\* Calls about to hold an event may go on holding it while their device stays
\* as it is.
LEMMA HoldsStay ==
  ASSUME NEW s \in Seq(GoodCall), NEW D, NEW st, NEW st2, NEW dn, NEW dn2, NEW dw, NEW dw2,
         HoldsOn(s, D, st, dn, dw), NoNewHold(D, st, st2, dn, dn2, dw, dw2)
  PROVE  HoldsOn(s, D, st2, dn2, dw2)
<1> SUFFICES ASSUME NEW i \in 1 .. Len(s), s[i].op = "hold", s[i].dev \in D
             PROVE  /\ st2[s[i].dev] \notin Waits
                    /\ st2[s[i].dev] = "FROZEN_NO_EVENT" /\ Inner(s, i)
                         => Dated(s[i].ev, s[i].dev, dn2, dw2)
  BY DEF HoldsOn
<1>1. /\ st[s[i].dev] \notin Waits
      /\ st[s[i].dev] = "FROZEN_NO_EVENT" /\ Inner(s, i) => Dated(s[i].ev, s[i].dev, dn, dw)
  BY DEF HoldsOn
<1> QED
  BY <1>1 DEF NoNewHold, Dated

\* Plain calls hold and replay nothing.
LEMMA PlainWithout ==
  ASSUME NEW p \in Seq(Plain)
  PROVE  /\ p \in Seq(Without("hold")) /\ p \in Seq(Without("replay"))
         /\ p \in Seq(Without("repeat")) /\ p \in Seq(GoodCall)
<1>1. /\ Plain \subseteq Without("hold") /\ Plain \subseteq Without("replay")
      /\ Plain \subseteq Without("repeat") /\ Plain \subseteq GoodCall
  BY DEF Plain, Without
<1> QED
  BY <1>1, SeqMonotonic

\* A step of plain calls that lets devices come to hold nothing.
LEMMA PlainHolds ==
  ASSUME GrabInv, HeldInv, PlainCalls,
         NoNewHold(Devices, state, state', done, done', down, down')
  PROVE  /\ HoldsOn(work', Devices, state', done', down')
         /\ work' \in Seq(Without("replay"))
<1>0. work \in Seq(GoodCall)
  BY InvParts DEF CallsGood
<1>1. PICK p \in Seq(Plain) : \/ work' = p \o work
                              \/ work # <<>> /\ work' = p \o Tail(work)
  BY DEF PlainCalls
<1>2. p \in Seq(Without("hold")) /\ p \in Seq(Without("replay"))
  BY PlainWithout
<1>3. HoldsOn(work, Devices, state', done', down')
  BY <1>0, HoldsStay DEF HeldInv
<1>4. CASE work' = p \o work
  <2>1. work \in Seq(Without("replay"))
    <3>1. CASE work = <<>>
      BY <3>1
    <3>2. CASE work # <<>>
      <4>1. Head(work) \in Without("replay") /\ Tail(work) \in Seq(Without("replay"))
        BY <3>2 DEF PlainCalls, HeldInv, ReplayDated, Plain, Without
      <4>2. work = <<Head(work)>> \o Tail(work)
        BY <1>0, <3>2
      <4> QED
        BY <4>1, <4>2
    <3> QED
      BY <3>1, <3>2
  <2> QED
    BY <1>0, <1>2, <1>3, <1>4, <2>1, HoldsUnder, ConcatProperties
<1>5. CASE work # <<>> /\ work' = p \o Tail(work)
  <2>1. Tail(work) \in Seq(GoodCall) /\ Tail(work) \in Seq(Without("replay"))
        /\ Head(work).op # "hold"
    BY <1>0, <1>5 DEF HeldInv, ReplayDated, PlainCalls, Plain
  <2>2. HoldsOn(Tail(work), Devices, state', done', down')
    BY <1>0, <1>3, <1>5, <2>1, HoldsPopped
  <2> QED
    BY <1>2, <1>5, <2>1, <2>2, HoldsUnder, ConcatProperties
<1> QED
  BY <1>1, <1>4, <1>5

\* What ActivateGrab assigns, whatever is played next.
LEMMA ActivateGrabSets ==
  ASSUME NEW d \in Devices, NEW g, NEW auto, NEW m, NEW o, NEW rest,
         ActivateGrab(d, g, auto, m, o, rest)
  PROVE  /\ grab' = [grab EXCEPT ![d] = g]
         /\ fromPassive' = [fromPassive EXCEPT ![d] = auto]
         /\ state' = [state EXCEPT ![d] = IF m = "Sync" THEN "FROZEN_NO_EVENT" ELSE "THAWED"]
         /\ ComputeFreezes(<<>>, rest)
BY DEF ActivateGrab, CheckGrabForSyncs

\* The same of an implicit grab, whose modes are both Async.
LEMMA ImplicitSets ==
  ASSUME NEW d \in Devices, NEW g, NEW rest, ActivateGrab(d, g, TRUE, "Async", "Async", rest)
  PROVE  /\ grab' = [grab EXCEPT ![d] = g]
         /\ fromPassive' = [fromPassive EXCEPT ![d] = TRUE]
         /\ state' = [state EXCEPT ![d] = "THAWED"]
         /\ ComputeFreezes(<<>>, rest)
BY DEF ActivateGrab, CheckGrabForSyncs

\* CheckPassiveGrabsOnWindow: the grab it starts, and the call that holds its event.
LEMMA ActivatePassiveSets ==
  ASSUME NEW ev, NEW S, NEW rest, ActivatePassive(ev, S, rest), ev.dev \in Devices
  PROVE  \E w \in S, st \in {"FROZEN_NO_EVENT", "THAWED"} :
           /\ grab' = [grab EXCEPT ![ev.dev] = [client |-> passive[ev.dev][w].client,
                                                win |-> w]]
           /\ fromPassive' = [fromPassive EXCEPT ![ev.dev] = TRUE]
           /\ state' = [state EXCEPT ![ev.dev] = st]
           /\ ComputeFreezes(<<>>, <<DoEvent("hold", w, ev)>> \o rest)
<1>1. PICK w \in S :
        ActivateGrab(ev.dev, [client |-> passive[ev.dev][w].client, win |-> w], TRUE,
                     passive[ev.dev][w].own, passive[ev.dev][w].oth,
                     <<DoEvent("hold", w, ev)>> \o rest)
  BY DEF ActivatePassive
<1> DEFINE st == IF passive[ev.dev][w].own = "Sync" THEN "FROZEN_NO_EVENT" ELSE "THAWED"
<1>2. st \in {"FROZEN_NO_EVENT", "THAWED"}
  OBVIOUS
<1>3. /\ grab' = [grab EXCEPT ![ev.dev] = [client |-> passive[ev.dev][w].client, win |-> w]]
      /\ fromPassive' = [fromPassive EXCEPT ![ev.dev] = TRUE]
      /\ state' = [state EXCEPT ![ev.dev] = st]
      /\ ComputeFreezes(<<>>, <<DoEvent("hold", w, ev)>> \o rest)
  BY <1>1, ActivateGrabSets
<1> HIDE DEF st
<1> QED
  BY <1>2, <1>3

\* Playing the queue holds and replays nothing.
LEMMA PlayWithout ==
  <<Do("play")>> \in Seq(Without("hold")) /\ <<Do("play")>> \in Seq(Without("replay"))
<1>1. <<Do("play")>> \in Seq(Plain)
  BY PlayPlain DEF Simple
<1> QED
  BY <1>1, PlainWithout

\* The grab an ungrabbed device is given when its event is replayed or delivered.
LEMMA PassiveHolds ==
  ASSUME SyncTyped, NEW ev \in GoodEvent, ev.type = "press", NEW S \in SUBSET Windows,
         NEW rest \in Seq(GoodCall), ActivatePassive(ev, S, rest),
         HoldsOn(rest, Devices \ {ev.dev}, state, done', down'),
         rest \in Seq(Without("replay")), Dated(ev, ev.dev, done', down')
  PROVE  /\ HoldsOn(work', Devices, state', done', down')
         /\ work' \in Seq(Without("replay"))
         /\ state' \in [Devices -> SyncStates] /\ fromPassive' \in [Devices -> BOOLEAN]
         /\ state'[ev.dev] \in {"FROZEN_NO_EVENT", "THAWED"} /\ fromPassive'[ev.dev] = TRUE
         /\ \A e \in Devices \ {ev.dev} :
              state'[e] = state[e] /\ fromPassive'[e] = fromPassive[e] /\ grab'[e] = grab[e]
<1>0. ev.dev \in Devices
  BY EventFields
<1>1. PICK w \in S, st \in {"FROZEN_NO_EVENT", "THAWED"} :
        /\ grab' = [grab EXCEPT ![ev.dev] = [client |-> passive[ev.dev][w].client, win |-> w]]
        /\ fromPassive' = [fromPassive EXCEPT ![ev.dev] = TRUE]
        /\ state' = [state EXCEPT ![ev.dev] = st]
        /\ ComputeFreezes(<<>>, <<DoEvent("hold", w, ev)>> \o rest)
  BY <1>0, ActivatePassiveSets
<1> DEFINE h == DoEvent("hold", w, ev)
<1>2. h \in GoodCall /\ h.op = "hold" /\ h.dev = ev.dev /\ h.ev = ev
  <2>1. w \in 0 .. Depth
    BY ClientAssumption DEF Windows
  <2> QED
    BY <2>1, EventCallGood DEF DoEvent, Item
<1> HIDE DEF h
<1>3. <<h>> \o rest \in Seq(GoodCall) /\ <<h>> \o rest \in Seq(Without("replay"))
  BY <1>2 DEF Without
<1>4. HoldsOn(rest, Devices \ {h.dev}, state', done', down')
  <2>1. NoNewHold(Devices \ {ev.dev}, state, state', done', done', down', down')
    BY <1>0, <1>1 DEF NoNewHold, SyncTyped
  <2> QED
    BY <1>2, <2>1, HoldsStay
<1>5. HoldsOn(<<h>> \o rest, Devices, state', done', down')
  <2>1. state'[h.dev] \notin Waits
    BY <1>0, <1>1, <1>2 DEF SyncTyped, Waits
  <2> QED
    BY <1>2, <1>4, <2>1, HoldsPushed
<1>6. work' = <<h>> \o rest \/ work' = <<Do("play")>> \o (<<h>> \o rest)
  BY <1>1, <1>3, FreezesThenRest DEF h
<1>7. <<Do("play")>> \in Seq(Without("hold")) /\ <<Do("play")>> \in Seq(Without("replay"))
  BY PlayWithout
<1>8. HoldsOn(work', Devices, state', done', down') /\ work' \in Seq(Without("replay"))
  BY <1>3, <1>5, <1>6, <1>7, HoldsUnder, ConcatProperties
<1> QED
  BY <1>0, <1>1, <1>8 DEF SyncTyped, SyncStates, FROZEN

\* A step that plays first or not, and holds nothing new.
LEMMA ThenHolds ==
  ASSUME NEW rest \in Seq(GoodCall), rest \in Seq(Without("replay")),
         work' = rest \/ work' = <<Do("play")>> \o rest,
         HoldsOn(rest, Devices, state', done', down')
  PROVE  /\ HoldsOn(work', Devices, state', done', down')
         /\ work' \in Seq(Without("replay"))
<1>1. <<Do("play")>> \in Seq(Without("hold")) /\ <<Do("play")>> \in Seq(Without("replay"))
  BY PlayWithout
<1> QED
  BY <1>1, HoldsUnder, ConcatProperties

\* The parts of the invariant about one device, after a step that leaves the calls
\* in order.
LEMMA HeldFromParts ==
  ASSUME NEW d \in Devices, HeldInv,
         HoldsOn(work', Devices, state', done', down'), work' \in Seq(Without("replay")),
         state'[d] = "FROZEN_WITH_EVENT" => Dated(held'[d], d, done', down'),
         d \in Pointers /\ fromPassive'[d] => down'[d] # {},
         \A e \in Devices \ {d} :
           /\ state'[e] = "FROZEN_WITH_EVENT" => state[e] = "FROZEN_WITH_EVENT"
           /\ held'[e] = held[e] /\ done'[e] = done[e] /\ down'[e] = down[e]
           /\ fromPassive'[e] = fromPassive[e]
  PROVE  HeldInv'
<1>1. HeldDated'
  BY DEF HeldInv, HeldDated, Dated
<1>2. ButtonHoldsGrab'
  BY DEF HeldInv, ButtonHoldsGrab, Devices
<1>3. ReplayDated'
  <2> SUFFICES ASSUME work' # <<>>
               PROVE  Tail(work') \in Seq(Without("replay")) /\ Head(work') \in Without("replay")
    BY DEF ReplayDated, Without
  <2> QED
    OBVIOUS
<1> QED
  BY <1>1, <1>2, <1>3 DEF HeldInv

\* An event of a device that is not frozen is processed.
LEMMA ProcessHolds ==
  ASSUME GrabInv, HeldInv, NEW ev \in GoodEvent, ~frozen[ev.dev], NEW rest \in Seq(GoodCall),
         HoldsOn(rest, Devices, state, done, down), rest \in Seq(Without("replay")),
         ProcessEvent(ev, rest)
  PROVE  HeldInv'
<1>0. KeysTyped /\ SyncTyped /\ done \in [Devices -> 0 .. MaxEvents]
  BY InvParts DEF ProcessInv, DoneTyped
<1>1. PICK e2 \in GoodEvent, r2 \in Seq(GoodCall) :
           /\ Halves(ev, rest, e2, r2)
           /\ e2.dev = ev.dev
           /\ done' = [done EXCEPT ![e2.dev] = e2.n]
           /\ Moves(e2) /\ Effect(e2, r2)
           /\ e2.dev \in Pointers /\ e2.type = "release" /\ down'[e2.dev] = {}
                => ~fromPassive'[e2.dev]
  BY <1>0, ProcessEffect
<1> DEFINE d == e2.dev
<1>2. d \in Devices
  BY EventFields
<1>3. /\ state[d] # "FROZEN_NO_EVENT" /\ state[d] # "FROZEN_WITH_EVENT"
  BY <1>1, <1>2 DEF GrabInv, FrozenIffHeld, FROZEN
<1>4. /\ done'[d] = e2.n /\ \A e \in Devices \ {d} : done'[e] = done[e] /\ down'[e] = down[e]
      /\ down' \in [Devices -> SUBSET Keys]
      /\ e2.type = "press" => down'[d] # {}
      /\ e2.type # "press" /\ e2.type # "release" => down'[d] = down[d]
  <2>1. e2.type # "motion" => e2.key \in Keys
    BY EventFields
  <2>2. e2.type \in {"press", "release", "motion"}
    BY EventFields
  <2> QED
    BY <1>0, <1>1, <1>2, <2>1, <2>2 DEF Moves, KeysTyped
<1>5. HoldsOn(r2, Devices, state, done, down) /\ r2 \in Seq(Without("replay"))
  <2>1. CASE r2 = rest
    BY <2>1
  <2>2. CASE r2 = <<DoEvent("repeat", 0, ev)>> \o rest
    <3>1. 0 \in 0 .. Depth
      BY ClientAssumption
    <3>2. DoEvent("repeat", 0, ev) \in GoodCall
      BY <3>1, EventCallGood
    <3>3. DoEvent("repeat", 0, ev) \in Without("hold")
          /\ DoEvent("repeat", 0, ev) \in Without("replay")
      BY <3>2 DEF Without, DoEvent, Item
    <3>4. <<DoEvent("repeat", 0, ev)>> \in Seq(Without("hold"))
          /\ <<DoEvent("repeat", 0, ev)>> \in Seq(Without("replay"))
      BY <3>3
    <3> QED
      BY <2>2, <3>4, HoldsUnder, ConcatProperties
  <2> QED
    BY <1>1, <2>1, <2>2 DEF Halves
<1>6. /\ HoldsOn(r2, Devices, state, done', down')
      /\ HoldsOn(r2, Devices \ {d}, state, done', down')
  <2>1. NoNewHold(Devices, state, state, done, done', down, down')
    BY <1>3, <1>4 DEF NoNewHold
  <2>2. HoldsOn(r2, Devices, state, done', down')
    BY <1>5, <2>1, HoldsStay
  <2> QED
    BY <2>2 DEF HoldsOn
<1>7. Dated(e2, d, done', down')
  BY <1>4 DEF Dated
<1>8. /\ d \in Pointers /\ fromPassive[d] => down[d] # {}
      /\ d \in Pointers /\ fromPassive'[d] = fromPassive[d] /\ fromPassive[d] => down'[d] # {}
  <2>1. d \in Pointers /\ fromPassive[d] => down[d] # {}
    BY DEF HeldInv, ButtonHoldsGrab
  <2>2. e2.type \in {"press", "release", "motion"}
    BY EventFields
  <2> QED
    BY <1>1, <1>4, <2>1, <2>2
<1> HIDE DEF d
<1>9. CASE work' = r2 /\ UNCHANGED <<syncVars, playing, held>>
  <2>1. state' = state /\ held' = held /\ fromPassive' = fromPassive
    BY <1>9 DEF syncVars
  <2>2. HoldsOn(work', Devices, state', done', down') /\ work' \in Seq(Without("replay"))
    BY <1>5, <1>6, <1>9, <2>1
  <2> QED
    BY <1>2, <1>3, <1>4, <1>8, <2>1, <2>2, HeldFromParts
<1>10. CASE /\ grab[d] # NoGrab /\ state[d] \in Waits /\ FreezeFor(e2) /\ work' = r2
  <2>1. /\ state'[d] = "FROZEN_WITH_EVENT" /\ held'[d] = e2 /\ fromPassive' = fromPassive
        /\ \A e \in Devices \ {d} :
             /\ held'[e] = held[e]
             /\ state'[e] = state[e] \/ (state'[e] = "FROZEN_NO_EVENT" /\ state[e] \in Waits)
    BY <1>0, <1>2, <1>10 DEF FreezeFor, d, KeysTyped, Waits
  <2>2. NoNewHold(Devices, state, state', done', done', down', down')
    BY <2>1 DEF NoNewHold, Waits
  <2>3. HoldsOn(work', Devices, state', done', down')
    BY <1>6, <1>10, <2>2, HoldsStay
  <2>4. /\ state'[d] = "FROZEN_WITH_EVENT" => Dated(held'[d], d, done', down')
        /\ \A e \in Devices \ {d} :
             /\ state'[e] = "FROZEN_WITH_EVENT" => state[e] = "FROZEN_WITH_EVENT"
             /\ held'[e] = held[e] /\ fromPassive'[e] = fromPassive[e]
    BY <1>7, <2>1
  <2> QED
    BY <1>2, <1>4, <1>5, <1>8, <1>10, <2>1, <2>3, <2>4, HeldFromParts
<1>11. CASE grab[d] = NoGrab /\ ImplicitGrab(e2, r2) /\ held' = held
  <2>1. /\ fromPassive' = [fromPassive EXCEPT ![d] = TRUE]
        /\ state' = [state EXCEPT ![d] = "THAWED"]
        /\ ComputeFreezes(<<>>, r2) /\ e2.type = "press"
    <3>1. PICK c \in Clients, w \in 1 .. trace' :
            ActivateGrab(d, [client |-> c, win |-> w], TRUE, "Async", "Async", r2)
      BY <1>11 DEF ImplicitGrab, d
    <3>2. /\ fromPassive' = [fromPassive EXCEPT ![d] = TRUE]
          /\ state' = [state EXCEPT ![d] = "THAWED"]
          /\ ComputeFreezes(<<>>, r2)
      BY <1>2, <3>1, ImplicitSets
    <3>3. e2.type = "press"
      BY <1>11 DEF ImplicitGrab
    <3> QED
      BY <3>2, <3>3
  <2>2. NoNewHold(Devices, state, state', done', done', down', down')
    BY <1>0, <2>1 DEF NoNewHold, SyncTyped, Waits
  <2>3. HoldsOn(r2, Devices, state', done', down')
    BY <1>6, <2>2, HoldsStay
  <2>4. work' = r2 \/ work' = <<Do("play")>> \o r2
    BY <2>1, FreezesThenRest
  <2>5. HoldsOn(work', Devices, state', done', down') /\ work' \in Seq(Without("replay"))
    BY <1>5, <2>3, <2>4, ThenHolds
  <2>6. /\ state'[d] # "FROZEN_WITH_EVENT" /\ down'[d] # {}
        /\ \A e \in Devices \ {d} : state'[e] = state[e] /\ fromPassive'[e] = fromPassive[e]
    BY <1>0, <1>2, <1>4, <2>1 DEF SyncTyped
  <2> QED
    BY <1>2, <1>4, <1>11, <2>5, <2>6, HeldFromParts
<1>12. CASE /\ grab[d] = NoGrab /\ e2.type = "press" /\ held' = held
            /\ ActivatePassive(e2, Matching(e2, 1, trace), r2)
  <2>1. Matching(e2, 1, trace) \in SUBSET Windows
    <3>1. 1 \in Nat \ {0} /\ trace \in Windows
      BY InvParts DEF WindowTyped
    <3> QED
      BY <3>1, MatchingWindows
  <2>2. /\ HoldsOn(work', Devices, state', done', down') /\ work' \in Seq(Without("replay"))
        /\ state'[d] \in {"FROZEN_NO_EVENT", "THAWED"}
        /\ \A e \in Devices \ {d} : state'[e] = state[e] /\ fromPassive'[e] = fromPassive[e]
    BY <1>0, <1>5, <1>6, <1>7, <1>12, <2>1, PassiveHolds DEF d
  <2>3. state'[d] # "FROZEN_WITH_EVENT" /\ down'[d] # {}
    BY <1>4, <1>12, <2>2
  <2> QED
    BY <1>2, <1>4, <1>12, <2>2, <2>3, HeldFromParts
<1>13. CASE fromPassive[d] /\ held' = held /\ DeactivateGrab(d, <<>>, r2)
  <2>1. /\ fromPassive' = [fromPassive EXCEPT ![d] = FALSE]
        /\ state' = [state EXCEPT ![d] = "NOT_GRABBED"]
        /\ ComputeFreezes(<<>>, r2)
    BY <1>13 DEF DeactivateGrab, DeactivateGrabOn
  <2>2. NoNewHold(Devices, state, state', done', done', down', down')
    BY <1>0, <2>1 DEF NoNewHold, SyncTyped, Waits
  <2>3. HoldsOn(r2, Devices, state', done', down')
    BY <1>6, <2>2, HoldsStay
  <2>4. work' = r2 \/ work' = <<Do("play")>> \o r2
    BY <2>1, FreezesThenRest
  <2>5. HoldsOn(work', Devices, state', done', down') /\ work' \in Seq(Without("replay"))
    BY <1>5, <2>3, <2>4, ThenHolds
  <2>6. /\ state'[d] # "FROZEN_WITH_EVENT" /\ ~fromPassive'[d]
        /\ \A e \in Devices \ {d} : state'[e] = state[e] /\ fromPassive'[e] = fromPassive[e]
    BY <1>0, <1>2, <2>1 DEF SyncTyped
  <2> QED
    BY <1>2, <1>4, <1>13, <2>5, <2>6, HeldFromParts
<1> QED
  BY <1>1, <1>9, <1>10, <1>11, <1>12, <1>13 DEF Effect, d

\* A step of plain calls that ends no more than a grab.
LEMMA PlainHeld ==
  ASSUME GrabInv, HeldInv, PlainCalls, UNCHANGED <<held, done, down>>,
         \/ UNCHANGED <<fromPassive, state>>
         \/ \E d \in Devices : /\ fromPassive' = [fromPassive EXCEPT ![d] = FALSE]
                               /\ state' = [state EXCEPT ![d] = "NOT_GRABBED"]
  PROVE  HeldInv'
<1>1. SyncTyped
  BY InvParts
<1>2. \A e \in Devices : /\ state'[e] = state[e] \/ state'[e] = "NOT_GRABBED"
                         /\ fromPassive'[e] => fromPassive[e]
  BY <1>1 DEF SyncTyped
<1>3. NoNewHold(Devices, state, state', done, done', down, down')
  BY <1>2 DEF NoNewHold, Waits
<1>4. HoldsOn(work', Devices, state', done', down') /\ work' \in Seq(Without("replay"))
  BY <1>3, PlainHolds
<1>5. HeldDated' /\ ButtonHoldsGrab'
  BY <1>2 DEF HeldInv, HeldDated, ButtonHoldsGrab, Dated, Devices
<1>6. ReplayDated'
  <2> SUFFICES ASSUME work' # <<>>
               PROVE  Tail(work') \in Seq(Without("replay")) /\ Head(work') \in Without("replay")
    BY DEF ReplayDated, Without
  <2> QED
    BY <1>4
<1> QED
  BY <1>4, <1>5, <1>6 DEF HeldInv

\* The calls of a request hold nothing.
LEMMA RequestHeld ==
  ASSUME HeldInv, work' \in Seq(Plain), UNCHANGED <<held, done, down>>,
         \A e \in Devices :
           /\ state'[e] = "FROZEN_WITH_EVENT" => state[e] = "FROZEN_WITH_EVENT"
           /\ fromPassive'[e] => fromPassive[e]
  PROVE  HeldInv'
<1>1. HoldsOn(work', Devices, state', done', down')
  BY ElementOfSeq DEF HoldsOn, Plain
<1>2. HeldDated' /\ ButtonHoldsGrab'
  BY DEF HeldInv, HeldDated, ButtonHoldsGrab, Dated, Devices
<1>3. work' \in Seq(Without("replay"))
  BY PlainWithout
<1>4. ReplayDated'
  <2> SUFFICES ASSUME work' # <<>>
               PROVE  Tail(work') \in Seq(Without("replay")) /\ Head(work') \in Without("replay")
    BY DEF ReplayDated, Without
  <2> QED
    BY <1>3
<1> QED
  BY <1>1, <1>2, <1>4 DEF HeldInv

\* The rest of the calls when the innermost one is not about to hold an event.
LEMMA RestHolds ==
  ASSUME GrabInv, HeldInv, work # <<>>, Head(work).op # "hold"
  PROVE  /\ Tail(work) \in Seq(GoodCall) /\ Tail(work) \in Seq(Without("replay"))
         /\ HoldsOn(Tail(work), Devices, state, done, down)
<1>1. work \in Seq(GoodCall)
  BY InvParts DEF CallsGood
<1> QED
  BY <1>1, HoldsPopped DEF HeldInv, ReplayDated

\* A device event, queued or processed, keeps the held events dated;
LEMMA DeviceEventHeld ==
  ASSUME GrabInv, HeldInv, NEW d \in Devices, NEW k \in Keys \cup {0},
         NEW type \in {"press", "release", "motion"}, DeviceEvent(d, type, k)
  PROVE  HeldInv'
<1> DEFINE ev == [dev |-> d, type |-> type, key |-> k, n |-> events + 1]
<1>1. CASE frozen[d]
  <2>1. UNCHANGED <<grab, fromPassive, state, held, done, down, work>>
    BY <1>1 DEF DeviceEvent, syncVars, eventVars
  <2>2. HeldDated' /\ ButtonHoldsGrab' /\ ReplayDated'
    BY <2>1 DEF HeldInv, HeldDated, ButtonHoldsGrab, ReplayDated
  <2> QED
    BY <2>1, <2>2 DEF HeldInv
<1>2. CASE ~frozen[d]
  <2>1. ProcessEvent(ev, <<>>) /\ events < MaxEvents /\ (k = 0 <=> type = "motion")
    BY <1>2 DEF DeviceEvent
  <2>2. ev \in GoodEvent /\ ev.dev = d
    BY <2>1, InvParts, BoundAssumption DEF GoodEvent, Event, RequestTyped
  <2>3. /\ <<>> \in Seq(GoodCall) /\ <<>> \in Seq(Without("replay"))
        /\ HoldsOn(<<>>, Devices, state, done, down)
    BY DEF HoldsOn
  <2> HIDE DEF ev
  <2> QED
    BY <1>2, <2>1, <2>2, <2>3, ProcessHolds
<1> QED
  BY <1>1, <1>2

\* so does an event that is played,
LEMMA PlayHeld ==
  ASSUME GrabInv, HeldInv, Play
  PROVE  HeldInv'
<1>1. PICK i \in Playable : ProcessEvent(pending[i], work)
  BY DEF Play
<1>2. pending[i] \in GoodEvent /\ ~frozen[pending[i].dev]
  BY <1>1, InvParts, ElementOfSeq DEF QueueGood, Playable
<1>3. work # <<>> /\ Head(work).op = "play" /\ work \in Seq(GoodCall)
  BY InvParts DEF Play, Now, CallsGood
<1>4. work \in Seq(Without("replay"))
  <2>1. Head(work) \in Without("replay") /\ Tail(work) \in Seq(Without("replay"))
    BY <1>3 DEF Without, HeldInv, ReplayDated
  <2>2. work = <<Head(work)>> \o Tail(work)
    BY <1>3
  <2> QED
    BY <2>1, <2>2
<1> QED
  BY <1>1, <1>2, <1>3, <1>4, ProcessHolds DEF HeldInv

\* the press half of a repeat,
LEMMA RepeatHeld ==
  ASSUME GrabInv, HeldInv, Repeat
  PROVE  HeldInv'
<1> DEFINE r == Head(work)
<1>1. work # <<>> /\ r.op = "repeat"
  BY DEF Repeat, Now
<1>2. r \in GoodCall /\ r.ev \in GoodEvent /\ r.dev = r.ev.dev
  BY <1>1, PopGood, InvParts DEF GoodCall
<1>3. /\ Tail(work) \in Seq(GoodCall) /\ Tail(work) \in Seq(Without("replay"))
      /\ HoldsOn(Tail(work), Devices, state, done, down)
  BY <1>1, RestHolds
<1>4. CASE frozen[r.dev]
  <2>1. UNCHANGED <<grab, fromPassive, state, held, done, down>> /\ work' = Tail(work)
    BY <1>4 DEF Repeat, Then, syncVars, eventVars
  <2>2. HeldDated' /\ ButtonHoldsGrab'
    BY <2>1 DEF HeldInv, HeldDated, ButtonHoldsGrab
  <2>3. ReplayDated'
    <3> SUFFICES ASSUME work' # <<>>
                 PROVE  Tail(work') \in Seq(Without("replay")) /\ Head(work') \in Without("replay")
      BY DEF ReplayDated, Without
    <3>1. work' \in Seq(Without("replay"))
      BY <1>3, <2>1
    <3> QED
      BY <3>1
  <2> QED
    BY <1>3, <2>1, <2>2, <2>3 DEF HeldInv
<1>5. CASE ~frozen[r.dev]
  <2>1. ProcessEvent(r.ev, Tail(work))
    BY <1>5 DEF Repeat, Then
  <2> HIDE DEF r
  <2> QED
    BY <1>2, <1>3, <1>5, <2>1, ProcessHolds
<1> QED
  BY <1>4, <1>5

\* the end of CheckPassiveGrabsOnWindow, which is where an event becomes held,
LEMMA HoldHeld ==
  ASSUME GrabInv, HeldInv, Hold
  PROVE  HeldInv'
<1> DEFINE h == Head(work)
<1>0. work # <<>> /\ h.op = "hold" /\ work' = Tail(work) /\ work \in Seq(GoodCall)
      /\ UNCHANGED <<fromPassive, down, done>>
  BY InvParts DEF Hold, Now, Then, CallsGood
<1>1. h \in GoodCall /\ h.ev \in GoodEvent /\ h.dev \in Devices
  BY <1>0, EventFields DEF GoodCall
<1>2. /\ state[h.dev] \notin Waits
      /\ state[h.dev] = "FROZEN_NO_EVENT" => Dated(h.ev, h.dev, done, down)
  <2>1. 1 \in 1 .. Len(work) /\ work[1] = h
    BY <1>0
  <2>2. Inner(work, 1)
    BY DEF Inner
  <2> HIDE DEF h
  <2> QED
    BY <1>0, <1>1, <2>1, <2>2 DEF HeldInv, HoldsOn
<1>3. ReplayDated'
  <2> SUFFICES ASSUME work' # <<>>
               PROVE  Tail(work') \in Seq(Without("replay")) /\ Head(work') \in Without("replay")
    BY DEF ReplayDated, Without
  <2>1. work' \in Seq(Without("replay"))
    BY <1>0 DEF HeldInv, ReplayDated
  <2> QED
    BY <2>1
<1> HIDE DEF h
<1>4. /\ state'[h.dev] # "FROZEN_NO_EVENT"
      /\ \A e \in Devices : state'[e] \in Waits \cup {"FROZEN_NO_EVENT"} => state'[e] = state[e]
      /\ \A e \in Devices : state'[e] = "FROZEN_WITH_EVENT" => Dated(held'[e], e, done, down)
  <2>1. CASE state[h.dev] = "FROZEN_NO_EVENT"
    <3>1. /\ state' = [state EXCEPT ![h.dev] = "FROZEN_WITH_EVENT"]
          /\ held' = [held EXCEPT ![h.dev] = h.ev]
      BY <2>1 DEF Hold, h
    <3>2. state'[h.dev] = "FROZEN_WITH_EVENT" /\ held'[h.dev] = h.ev
          /\ \A e \in Devices \ {h.dev} : state'[e] = state[e] /\ held'[e] = held[e]
      BY <1>1, <3>1, InvParts DEF SyncTyped, ProcessInv, KeysTyped
    <3> QED
      BY <1>1, <1>2, <2>1, <3>2 DEF HeldInv, HeldDated, Waits
  <2>2. CASE state[h.dev] # "FROZEN_NO_EVENT"
    <3>1. state' = state /\ held' = held
      BY <2>2 DEF Hold, h
    <3> QED
      BY <2>2, <3>1 DEF HeldInv, HeldDated
  <2> QED
    BY <2>1, <2>2
<1>5. HeldDated' /\ ButtonHoldsGrab'
  BY <1>0, <1>4 DEF HeldInv, HeldDated, ButtonHoldsGrab
<1>6. HoldsOn(work, Devices, state', done', down')
  <2>1. NoNewHold(Devices, state, state', done, done', down, down')
    BY <1>0, <1>4 DEF NoNewHold
  <2> QED
    BY <1>0, <2>1, HoldsStay DEF HeldInv
<1>7. HoldsOn(work', Devices, state', done', down')
  BY <1>0, <1>4, <1>6, HoldsPopped DEF h
<1> QED
  BY <1>3, <1>5, <1>7 DEF HeldInv

\* an event that is replayed, which was held until now,
LEMMA ReplayHeld ==
  ASSUME GrabInv, HeldInv, Replay
  PROVE  HeldInv'
<1> DEFINE r == Head(work)
           S == IF r.win <= trace' THEN Matching(r.ev, r.win + 1, trace') ELSE {}
           d == r.ev.dev
<1>1. /\ work # <<>> /\ r.op = "replay" /\ trace' = realized
      /\ UNCHANGED <<held, down, done>>
      /\ IF S # {} THEN ActivatePassive(r.ev, S, Tail(work))
         ELSE DeliverUngrabbed(r.ev, Tail(work))
  BY DEF Replay, Now, Then
<1>2. r \in GoodCall /\ r.ev \in GoodEvent /\ r.win \in 0 .. Depth /\ d \in Devices
  BY <1>1, PopGood, InvParts, EventFields DEF GoodCall, Call
<1>3. grab[d] = NoGrab /\ Dated(r.ev, d, done', down')
  BY <1>1 DEF HeldInv, ReplayDated
<1>4. /\ Tail(work) \in Seq(GoodCall) /\ Tail(work) \in Seq(Without("replay"))
      /\ HoldsOn(Tail(work), Devices, state, done', down')
  BY <1>1, RestHolds
<1>5. SyncTyped /\ state[d] = "NOT_GRABBED" /\ fromPassive[d] = FALSE
  BY <1>2, <1>3, InvParts DEF HeldByActiveGrab, SyncTyped
<1>6. CASE S # {}
  <2>1. ActivatePassive(r.ev, S, Tail(work)) /\ r.ev.type = "press"
        /\ S = Matching(r.ev, r.win + 1, trace')
    BY <1>1, <1>6 DEF Matching
  <2>2. S \in SUBSET Windows
    <3>1. r.win + 1 \in Nat \ {0} /\ trace' \in Windows
      BY <1>1, <1>2, InvParts, ClientAssumption DEF WindowTyped
    <3> QED
      BY <1>2, <2>1, <3>1, MatchingWindows
  <2> HIDE DEF S, r
  <2>3. HoldsOn(Tail(work), Devices \ {r.ev.dev}, state, done', down')
    BY <1>4 DEF HoldsOn
  <2>4. /\ HoldsOn(work', Devices, state', done', down') /\ work' \in Seq(Without("replay"))
        /\ state'[d] \in {"FROZEN_NO_EVENT", "THAWED"}
        /\ \A e \in Devices \ {d} : state'[e] = state[e] /\ fromPassive'[e] = fromPassive[e]
    BY <1>2, <1>3, <1>4, <1>5, <2>1, <2>2, <2>3, PassiveHolds
  <2>5. state'[d] # "FROZEN_WITH_EVENT" /\ (d \in Pointers => down'[d] # {})
    BY <1>3, <2>1, <2>4 DEF Dated
  <2> HIDE DEF d
  <2> QED
    BY <1>1, <1>2, <2>4, <2>5, HeldFromParts
<1>7. CASE S = {}
  <2>1. DeliverUngrabbed(r.ev, Tail(work))
    BY <1>1, <1>7
  <2> HIDE DEF S, r
  <2>2. CASE ImplicitGrab(r.ev, Tail(work))
    <3>0. r.ev.type = "press" /\ d \in Pointers
      BY <2>2 DEF ImplicitGrab
    <3>1. PICK c \in Clients, w \in 1 .. trace' :
            ActivateGrab(d, [client |-> c, win |-> w], TRUE, "Async", "Async", Tail(work))
      BY <2>2 DEF ImplicitGrab
    <3>2. /\ fromPassive' = [fromPassive EXCEPT ![d] = TRUE]
          /\ state' = [state EXCEPT ![d] = "THAWED"]
          /\ ComputeFreezes(<<>>, Tail(work))
      BY <1>2, <3>1, ImplicitSets
    <3> HIDE DEF d
    <3>3. /\ state'[d] = "THAWED"
          /\ \A e \in Devices \ {d} : state'[e] = state[e] /\ fromPassive'[e] = fromPassive[e]
      BY <1>2, <1>5, <3>2 DEF SyncTyped
    <3>4. NoNewHold(Devices, state, state', done', done', down', down')
      BY <3>3 DEF NoNewHold, Waits
    <3>5. HoldsOn(Tail(work), Devices, state', done', down')
      BY <1>4, <3>4, HoldsStay
    <3>6. work' = Tail(work) \/ work' = <<Do("play")>> \o Tail(work)
      BY <1>4, <3>2, FreezesThenRest
    <3>7. HoldsOn(work', Devices, state', done', down') /\ work' \in Seq(Without("replay"))
      BY <1>4, <3>5, <3>6, ThenHolds
    <3>8. state'[d] # "FROZEN_WITH_EVENT" /\ down'[d] # {}
      BY <1>3, <3>0, <3>3 DEF Dated
    <3> QED
      BY <1>1, <1>2, <3>3, <3>7, <3>8, HeldFromParts
  <2>3. CASE work' = Tail(work) /\ UNCHANGED <<syncVars, playing>>
    <3>1. state' = state /\ fromPassive' = fromPassive
      BY <2>3 DEF syncVars
    <3>2. HoldsOn(work', Devices, state', done', down') /\ work' \in Seq(Without("replay"))
      BY <1>4, <2>3, <3>1
    <3> HIDE DEF d
    <3> QED
      BY <1>1, <1>2, <1>5, <3>1, <3>2, HeldFromParts
  <2> QED
    BY <2>1, <2>2, <2>3 DEF DeliverUngrabbed
<1> QED
  BY <1>6, <1>7

\* and AllowSome(NOT_GRABBED), which takes it from sync.event.
LEMMA AllowReplayHeld ==
  ASSUME GrabInv, HeldInv, NEW c \in Clients, NEW d \in Devices, AllowReplay(c, d)
  PROVE  HeldInv'
<1> DEFINE otr == IF Synced(c, d) THEN [other EXCEPT ![d] = NoDev] ELSE other
           r == DoEvent("replay", grab[d].win, held[d])
<1>1. /\ state[d] = "FROZEN_WITH_EVENT"
      /\ DeactivateGrabOn(otr, d, <<r>>, <<>>)
      /\ UNCHANGED <<held, done, down>>
  BY DEF AllowReplay, SyncOnly, eventVars
<1>2. /\ fromPassive' = [fromPassive EXCEPT ![d] = FALSE]
      /\ state' = [state EXCEPT ![d] = "NOT_GRABBED"]
      /\ grab' = [grab EXCEPT ![d] = NoGrab]
      /\ ComputeFreezes(<<r>>, <<>>)
  BY <1>1 DEF DeactivateGrabOn
<1>3. r \in GoodCall
  <2>1. grab[d].win \in 0 .. Depth
    <3>1. grab[d] \in Grab \cup {NoGrab}
      BY InvParts DEF SyncTyped
    <3> QED
      BY <3>1, ClientAssumption DEF Grab, NoGrab, Windows
  <2>2. held[d] \in GoodEvent
    BY <1>1 DEF GrabInv, HeldGood
  <2> QED
    BY <2>1, <2>2, EventCallGood
<1>4. work' = <<>> \/ work' = <<r>> \o (<<Do("play")>> \o <<>>)
  BY <1>2 DEF ComputeFreezes
<1>5. r.op = "replay" /\ r.ev = held[d] /\ Do("play") \in Plain
  BY PlayPlain DEF Simple, DoEvent, Item
<1> HIDE DEF r
<1>6. work' = <<>> \/ (work' # <<>> /\ Head(work') = r /\ Tail(work') = <<Do("play")>>)
  <2>1. <<Do("play")>> \o <<>> = <<Do("play")>> /\ <<Do("play")>> \in Seq(Plain)
    BY <1>5
  <2>2. \A t \in Seq(Plain) : /\ <<r>> \o t # <<>> /\ Head(<<r>> \o t) = r
                              /\ Tail(<<r>> \o t) = t
    OBVIOUS
  <2> QED
    BY <1>4, <2>1, <2>2
<1>7. HoldsOn(work', Devices, state', done', down')
  <2>1. CASE work' = <<>>
    BY <2>1 DEF HoldsOn
  <2>2. CASE work' = <<r>> \o (<<Do("play")>> \o <<>>)
    <3>1. Len(work') = 2 /\ work'[1] = r /\ work'[2] = Do("play")
      BY <2>2
    <3>2. r.op # "hold" /\ Do("play").op # "hold"
      BY <1>5 DEF Plain
    <3>3. \A i \in 1 .. Len(work') : work'[i].op # "hold"
      BY <3>1, <3>2
    <3> QED
      BY <3>3 DEF HoldsOn
  <2> QED
    BY <1>4, <2>1, <2>2
<1>8. Dated(held[d], d, done, down)
  BY <1>1 DEF HeldInv, HeldDated
<1>9. ReplayDated'
  <2> SUFFICES ASSUME work' # <<>>
               PROVE  /\ Tail(work') \in Seq(Without("replay"))
                      /\ Head(work').op = "replay" =>
                           /\ grab'[Head(work').ev.dev] = NoGrab
                           /\ Dated(Head(work').ev, Head(work').ev.dev, done', down')
    BY DEF ReplayDated
  <2>1. Head(work') = r /\ Tail(work') = <<Do("play")>>
    BY <1>6
  <2>2. grab'[d] = NoGrab
    BY <1>2, InvParts DEF SyncTyped
  <2> QED
    BY <1>1, <1>5, <1>8, <2>1, <2>2, PlayWithout DEF Dated
<1>10. HeldDated' /\ ButtonHoldsGrab'
  <2>1. SyncTyped
    BY InvParts
  <2>2. \A e \in Devices : /\ state'[e] = "FROZEN_WITH_EVENT" => state[e] = "FROZEN_WITH_EVENT"
                           /\ fromPassive'[e] => fromPassive[e]
    BY <1>2, <2>1 DEF SyncTyped
  <2> QED
    BY <1>1, <2>2 DEF HeldInv, HeldDated, ButtonHoldsGrab, Devices
<1> QED
  BY <1>7, <1>9, <1>10 DEF HeldInv

\* The induction on the steps of the server.
LEMMA HeldInitially ==
  ASSUME Init
  PROVE  HeldInv
<1>1. work = <<>> /\ HoldsOn(work, Devices, state, done, down) /\ ReplayDated
  BY DEF Init, HoldsOn, ReplayDated
<1>2. HeldDated /\ ButtonHoldsGrab
  BY DEF Init, HeldDated, ButtonHoldsGrab, Devices
<1> QED
  BY <1>1, <1>2 DEF HeldInv

\* Every step, that of a request first of all, is one of the cases above.
LEMMA HeldStep ==
  ASSUME GrabInv, HeldInv, [Next]_vars
  PROVE  HeldInv'
<1>0. SyncTyped
  BY InvParts DEF SyncTyped
<1>1. ASSUME NEW d \in Devices, NEW k \in Keys \cup {0},
             NEW type \in {"press", "release", "motion"}, DeviceEvent(d, type, k)
      PROVE  HeldInv'
  BY <1>1, DeviceEventHeld
<1>2. CASE PlayEnds \/ Unrealize \/ Evict \/ Retrace \/ Crush \/ Drop \/ Release \/ Gone \/ Free
  <2>1. PlainCalls
    BY <1>2, StepPlain
  <2>2. UNCHANGED <<held, done, down>>
    BY <1>2 DEF PlayEnds, Unrealize, Evict, Retrace, Crush, Drop, Release, Gone, Free,
                SyncOnly, eventVars
  <2>3. \/ UNCHANGED <<fromPassive, state>>
        \/ \E d \in Devices : /\ fromPassive' = [fromPassive EXCEPT ![d] = FALSE]
                              /\ state' = [state EXCEPT ![d] = "NOT_GRABBED"]
    <3>1. CASE PlayEnds \/ Unrealize \/ Retrace \/ Crush \/ Drop \/ Gone \/ Free
      BY <3>1 DEF PlayEnds, Unrealize, Retrace, Crush, Drop, Gone, Free, syncVars
    <3>2. CASE Evict
      <4>1. Head(work).dev \in Devices
        BY <3>2, PopGood, InvParts DEF Evict, Now, GoodCall
      <4> QED
        BY <3>2, <4>1 DEF Evict, DeactivateGrab, DeactivateGrabOn, syncVars
    <3>3. CASE Release
      BY <3>3 DEF Release, DeactivateGrab, DeactivateGrabOn, syncVars
    <3> QED
      BY <1>2, <3>1, <3>2, <3>3
  <2> QED
    BY <2>1, <2>2, <2>3, PlainHeld
<1>3. CASE Step
  BY <1>2, <1>3, PlayHeld, ReplayHeld, HoldHeld, RepeatHeld DEF Step
<1>4. ASSUME NEW c \in Clients, ClientStep(c)
      PROVE  HeldInv'
  <2>0. Idle
    BY <1>4 DEF ClientStep, Ungrab, AllowEvents, MayAllow, AllowReplay, UngrabKey, GrabDevice,
                GrabKey, MapWindow, UnmapWindow, DestroyWindow, CloseDownClient,
                CloseDownRetained, Request
  <2>1. CASE \E d \in Devices : AllowReplay(c, d)
    BY <2>1, AllowReplayHeld
  <2> DEFINE Other ==
         \/ \E d \in Devices :
              \/ Ungrab(c, d) \/ AllowEvents(c, d)
              \/ \E w \in Windows :
                   \/ UngrabKey(c, d, w)
                   \/ \E m, o \in Modes : GrabDevice(c, d, w, m, o) \/ GrabKey(c, d, w, m, o)
         \/ MapWindow(c) \/ \E w \in Windows : UnmapWindow(c, w) \/ DestroyWindow(c, w)
         \/ CloseDownClient(c) \/ CloseDownRetained(c)
  <2>2. CASE Other
    <3>1. work' \in Seq(Plain)
      BY <2>0, <2>2, RequestPlain
    <3>2. UNCHANGED <<held, done, down>>
      BY <2>2 DEF Ungrab, AllowEvents, UngrabKey, GrabDevice,
                  GrabKey, MapWindow, UnmapWindow, DestroyWindow, CloseDownClient,
                  CloseDownRetained, SyncOnly, eventVars
    <3>3. \A e \in Devices :
            /\ state'[e] = "FROZEN_WITH_EVENT" => state[e] = "FROZEN_WITH_EVENT"
            /\ fromPassive'[e] => fromPassive[e]
      <4>1. ASSUME NEW d \in Devices, Ungrab(c, d)
            PROVE  /\ fromPassive' = [fromPassive EXCEPT ![d] = FALSE]
                   /\ state' = [state EXCEPT ![d] = "NOT_GRABBED"]
        BY <4>1 DEF Ungrab, DeactivateGrab, DeactivateGrabOn
      <4>2. ASSUME NEW d \in Devices, AllowEvents(c, d)
            PROVE  /\ fromPassive' = fromPassive
                   /\ \A e \in Devices : state'[e] = "FROZEN_WITH_EVENT"
                                           => state[e] = "FROZEN_WITH_EVENT"
        BY <4>2, AllowedStates DEF AllowEvents
      <4>3. ASSUME NEW d \in Devices, NEW w \in Windows, NEW m \in Modes, NEW o \in Modes,
                   GrabDevice(c, d, w, m, o)
            PROVE  /\ fromPassive' = [fromPassive EXCEPT ![d] = FALSE]
                   /\ \E st \in {"FROZEN_NO_EVENT", "THAWED"} : state' = [state EXCEPT ![d] = st]
        BY <4>3 DEF GrabDevice, ActivateGrab, CheckGrabForSyncs
      <4>4. ASSUME NEW d \in Devices, NEW w \in Windows,
                   UngrabKey(c, d, w) \/ \E m, o \in Modes : GrabKey(c, d, w, m, o)
            PROVE  UNCHANGED <<fromPassive, state>>
        BY <4>4 DEF UngrabKey, GrabKey, syncVars
      <4>5. ASSUME MapWindow(c) \/ (\E w \in Windows : UnmapWindow(c, w) \/ DestroyWindow(c, w))
                   \/ CloseDownClient(c) \/ CloseDownRetained(c)
            PROVE  UNCHANGED <<fromPassive, state>>
        BY <4>5 DEF MapWindow, UnmapWindow, DestroyWindow, CloseDownClient, CloseDownRetained,
                    syncVars
      <4>6. CASE \E d \in Devices : Ungrab(c, d)
        BY <1>0, <4>1, <4>6 DEF SyncTyped
      <4>7. CASE \E d \in Devices : AllowEvents(c, d)
        BY <4>2, <4>7
      <4>8. CASE \E d \in Devices, w \in Windows, m, o \in Modes : GrabDevice(c, d, w, m, o)
        BY <1>0, <4>3, <4>8 DEF SyncTyped
      <4>9. CASE UNCHANGED <<fromPassive, state>>
        BY <4>9
      <4> QED
        BY <2>2, <4>4, <4>5, <4>6, <4>7, <4>8, <4>9
    <3> QED
      BY <3>1, <3>2, <3>3, RequestHeld
  <2> QED
    BY <1>4, <2>1, <2>2 DEF ClientStep
<1>5. CASE UNCHANGED vars
  <2>1. UNCHANGED <<grab, fromPassive, state, held, done, down, work>>
    BY <1>5 DEF vars, syncVars, eventVars
  <2>2. HeldDated' /\ ButtonHoldsGrab' /\ ReplayDated'
    BY <2>1 DEF HeldInv, HeldDated, ButtonHoldsGrab, ReplayDated
  <2> QED
    BY <2>1, <2>2 DEF HeldInv
<1> QED
  BY <1>1, <1>3, <1>4, <1>5 DEF Next

\* So the invariant holds in every state.
LEMMA HeldHolds == Spec => [](GrabInv /\ HeldInv)
<1>1. Init => GrabInv /\ HeldInv
  BY GrabInvInitially, HeldInitially
<1>2. GrabInv /\ HeldInv /\ [Next]_vars => (GrabInv /\ HeldInv)'
  BY GrabInvStep, HeldStep
<1> QED
  BY <1>1, <1>2, PTL DEF Spec

\* The event that a frozen grab holds, the one AllowEvents(Replay) would replay,
\* is the last one its device has had processed -- HeldEventIsLast: nothing of a
\* frozen device is processed until the grab has been thawed or has ended.
THEOREM HeldIsLast == Spec => []HeldEventIsLast
<1>1. HeldInv => HeldEventIsLast
  BY DEF HeldInv, HeldDated, Dated, HeldEventIsLast
<1> QED
  BY <1>1, HeldHolds, PTL

\* A grab of a pointer that a button press started has a button down --
\* ButtonHoldsGrab: the release of the last button always finds and ends it, even
\* when its events were queued, replayed or repeated on the way.
THEOREM ButtonsHoldGrabs == Spec => []ButtonHoldsGrab
<1>1. HeldInv => ButtonHoldsGrab
  BY DEF HeldInv
<1> QED
  BY <1>1, HeldHolds, PTL

-----------------------------------------------------------------------------
(* What an event puts on the calls in progress, and whose grabs it starts. *)

\* The calls that an event pushes: it plays the queue, and may hold the event.
Quick == {r \in GoodCall : r.op \in {"play", "hold"}}

\* These calls are nested ones.
LEMMA QuickNested ==
  ASSUME NEW q \in Seq(Quick)
  PROVE  q \in Seq(Nested) /\ q \in Seq(GoodCall)
<1>1. Quick \subseteq Nested /\ Quick \subseteq GoodCall
  BY DEF Quick, Nested
<1> QED
  BY <1>1, SeqMonotonic

\* An event that is processed,
LEMMA EffectQuick ==
  ASSUME WindowTyped, NEW ev \in GoodEvent, NEW rest \in Seq(GoodCall), Effect(ev, rest)
  PROVE  \E q \in Seq(Quick) : work' = q \o rest
<1>0. ev.dev \in Devices
  BY EventFields
<1>1. Do("play") \in Quick /\ Quick \subseteq GoodCall
  BY PlayGood DEF Quick, Do, Item
<1>2. ASSUME ComputeFreezes(<<>>, rest)
      PROVE  \E q \in Seq(Quick) : work' = q \o rest
  <2>1. CASE work' = rest
    <3>1. <<>> \in Seq(Quick) /\ <<>> \o rest = rest
      OBVIOUS
    <3> QED
      BY <2>1, <3>1
  <2>2. CASE work' = <<Do("play")>> \o rest
    <3>1. <<Do("play")>> \in Seq(Quick)
      BY <1>1
    <3> QED
      BY <2>2, <3>1
  <2> QED
    BY <1>2, <2>1, <2>2, FreezesThenRest
<1>3. CASE work' = rest
  <2>1. <<>> \in Seq(Quick) /\ <<>> \o rest = rest
    OBVIOUS
  <2> QED
    BY <1>3, <2>1
<1>4. CASE ImplicitGrab(ev, rest)
  <2>1. PICK c \in Clients, w \in 1 .. trace' :
          ActivateGrab(ev.dev, [client |-> c, win |-> w], TRUE, "Async", "Async", rest)
    BY <1>4 DEF ImplicitGrab
  <2> QED
    BY <1>0, <1>2, <2>1, ImplicitSets
<1>5. CASE ActivatePassive(ev, Matching(ev, 1, trace), rest)
  <2>1. PICK w \in Matching(ev, 1, trace) :
          ComputeFreezes(<<>>, <<DoEvent("hold", w, ev)>> \o rest)
    BY <1>0, <1>5, ActivatePassiveSets
  <2> DEFINE h == DoEvent("hold", w, ev)
  <2>2. h \in Quick
    <3>1. w \in 0 .. Depth
      BY ClientAssumption DEF Matching, WindowTyped, Windows
    <3> QED
      BY <3>1, EventCallGood DEF Quick, DoEvent, Item
  <2> HIDE DEF h
  <2>3. <<h>> \in Seq(Quick) /\ <<h>> \o rest \in Seq(GoodCall)
    BY <1>1, <2>2
  <2>4. work' = <<h>> \o rest \/ work' = <<Do("play")>> \o (<<h>> \o rest)
    BY <2>1, <2>3, FreezesThenRest DEF h
  <2>5. <<Do("play"), h>> \in Seq(Quick)
        /\ <<Do("play"), h>> \o rest = <<Do("play")>> \o (<<h>> \o rest)
    BY <1>1, <2>2
  <2> QED
    BY <2>3, <2>4, <2>5
<1>6. CASE DeactivateGrab(ev.dev, <<>>, rest)
  BY <1>2, <1>6 DEF DeactivateGrab, DeactivateGrabOn
<1> QED
  BY <1>3, <1>4, <1>5, <1>6 DEF Effect

\* and one that is replayed.
LEMMA ReplayQuick ==
  ASSUME GrabInv, Replay
  PROVE  \E q \in Seq(Quick) : work' = q \o Tail(work)
<1> DEFINE r == Head(work)
           S == IF r.win <= trace' THEN Matching(r.ev, r.win + 1, trace') ELSE {}
<1>0. /\ work # <<>> /\ r.op = "replay" /\ r \in GoodCall /\ Tail(work) \in Seq(GoodCall)
      /\ <<>> \in Seq(Quick) /\ <<>> \o Tail(work) = Tail(work)
  <2>1. work # <<>> /\ r.op = "replay"
    BY DEF Replay, Now
  <2> QED
    BY <2>1, PopGood, InvParts
<1>1. IF S # {} THEN ActivatePassive(r.ev, S, Tail(work))
      ELSE DeliverUngrabbed(r.ev, Tail(work))
  BY DEF Replay, Then
<1>2. r.ev \in GoodEvent /\ r.ev.dev \in Devices
  BY <1>0, EventFields DEF GoodCall
<1>3. Do("play") \in Quick /\ Quick \subseteq GoodCall
  BY PlayGood DEF Quick, Do, Item
<1>4. CASE S # {}
  <2>1. PICK w \in S : ComputeFreezes(<<>>, <<DoEvent("hold", w, r.ev)>> \o Tail(work))
    BY <1>1, <1>2, <1>4, ActivatePassiveSets
  <2>2. w \in 0 .. Depth
    <3>1. trace' \in Windows /\ r.win \in 0 .. Depth
      BY <1>0, InvParts DEF Replay, WindowTyped, GoodCall, Call
    <3> QED
      BY <2>1, <3>1, ClientAssumption DEF Matching, Windows
  <2> DEFINE h == DoEvent("hold", w, r.ev)
  <2>3. h \in Quick
    BY <1>2, <2>2, EventCallGood DEF Quick, DoEvent, Item
  <2> HIDE DEF h
  <2>4. <<h>> \in Seq(Quick) /\ <<h>> \o Tail(work) \in Seq(GoodCall)
    BY <1>0, <1>3, <2>3
  <2>5. \/ work' = <<h>> \o Tail(work)
        \/ work' = <<Do("play")>> \o (<<h>> \o Tail(work))
    BY <2>1, <2>4, FreezesThenRest DEF h
  <2>6. <<Do("play"), h>> \in Seq(Quick)
        /\ <<Do("play"), h>> \o Tail(work) = <<Do("play")>> \o (<<h>> \o Tail(work))
    BY <1>0, <1>3, <2>3
  <2> QED
    BY <1>0, <2>4, <2>5, <2>6
<1>5. CASE S = {} /\ ImplicitGrab(r.ev, Tail(work))
  <2>1. PICK c \in Clients, w \in 1 .. trace' :
          ActivateGrab(r.ev.dev, [client |-> c, win |-> w], TRUE, "Async", "Async", Tail(work))
    BY <1>5 DEF ImplicitGrab
  <2>2. work' = Tail(work) \/ work' = <<Do("play")>> \o Tail(work)
    BY <1>0, <1>2, <2>1, ImplicitSets, FreezesThenRest
  <2>3. <<Do("play")>> \in Seq(Quick)
    BY <1>3
  <2> HIDE DEF r
  <2> QED
    BY <1>0, <2>2, <2>3
<1>6. CASE work' = Tail(work)
  BY <1>0, <1>6
<1> HIDE DEF S
<1> QED
  BY <1>1, <1>4, <1>5, <1>6 DEF DeliverUngrabbed

\* These calls are nested ones.  A repeat pushes its press half as well.
LEMMA ProcessPushes ==
  ASSUME GrabInv, NEW ev \in GoodEvent, NEW rest \in Seq(GoodCall), ProcessEvent(ev, rest)
  PROVE  \E q \in Seq(Nested) : work' = q \o rest
<1>0. KeysTyped /\ SyncTyped /\ WindowTyped
  BY InvParts DEF ProcessInv
<1>1. PICK e2 \in GoodEvent, r2 \in Seq(GoodCall) : Halves(ev, rest, e2, r2) /\ Effect(e2, r2)
  BY <1>0, ProcessEffect
<1>2. PICK q \in Seq(Nested) : work' = q \o r2
  BY <1>0, <1>1, EffectQuick, QuickNested
<1>3. CASE r2 = rest
  BY <1>2, <1>3
<1>4. CASE r2 = <<DoEvent("repeat", 0, ev)>> \o rest
  <2> DEFINE r == DoEvent("repeat", 0, ev)
  <2>1. r \in Nested
    <3>1. 0 \in 0 .. Depth
      BY ClientAssumption
    <3> QED
      BY <3>1, EventCallGood DEF Nested, DoEvent, Item
  <2> HIDE DEF r
  <2>2. q \o <<r>> \in Seq(Nested) /\ (q \o <<r>>) \o rest = q \o (<<r>> \o rest)
    <3>1. Nested \subseteq GoodCall
      BY DEF Nested
    <3>2. q \in Seq(GoodCall) /\ <<r>> \in Seq(GoodCall) /\ <<r>> \in Seq(Nested)
      BY <2>1, <3>1, SeqMonotonic
    <3> QED
      BY <3>2, ConcatProperties, ConcatAssociative
  <2> QED
    BY <1>2, <1>4, <2>2 DEF r
<1> QED
  BY <1>1, <1>3, <1>4 DEF Halves

\* Every step of the calls in progress leaves all but the innermost, and pushes
\* others, calls of S.
Pushes(S) ==
  /\ work # <<>>
  /\ \E q \in Seq(S) : work' = q \o work \/ work' = q \o Tail(work)

\* A step of the calls in progress pushes nested calls on them,
LEMMA StepPushes ==
  ASSUME GrabInv, Step, ~Gone
  PROVE  Pushes(Nested)
<1>0. work # <<>> /\ work \in Seq(GoodCall) /\ Tail(work) \in Seq(GoodCall)
      /\ Head(work) \in GoodCall
  <2>1. work # <<>>
    BY DEF Step, Play, PlayEnds, Replay, Hold, Repeat, Unrealize, Evict, Retrace, Crush, Drop,
           Release, Gone, Free, Now
  <2> QED
    BY <2>1, PopGood, InvParts DEF CallsGood
<1>1. CASE PlayEnds \/ Unrealize \/ Evict \/ Retrace \/ Crush \/ Drop \/ Release \/ Free
  <2>1. \E p \in Seq(Simple) : work' = p \o work \/ work' = p \o Tail(work)
    BY <1>1, StepSimple DEF SimpleCalls
  <2>2. \A p \in Seq(Simple) : p \in Seq(Nested)
    BY SeqMonotonic DEF Simple
  <2> QED
    BY <1>0, <2>1, <2>2 DEF Pushes
<1>2. CASE Play
  <2>1. PICK i \in Playable : ProcessEvent(pending[i], work)
    BY <1>2 DEF Play
  <2>2. pending[i] \in GoodEvent
    BY <2>1, InvParts, ElementOfSeq DEF QueueGood, Playable
  <2> QED
    BY <1>0, <2>1, <2>2, ProcessPushes DEF Pushes
<1>a. ASSUME work' = Tail(work)
      PROVE  Pushes(Nested)
  <2>1. <<>> \in Seq(Nested) /\ <<>> \o Tail(work) = Tail(work)
    BY <1>0
  <2> QED
    BY <1>0, <1>a, <2>1 DEF Pushes
<1>3. CASE Hold
  BY <1>3, <1>a DEF Hold, Then
<1>4. CASE Repeat
  <2>1. Head(work).ev \in GoodEvent
    BY <1>0, <1>4 DEF Repeat, Now, GoodCall
  <2>2. work' = Tail(work) \/ ProcessEvent(Head(work).ev, Tail(work))
    BY <1>4 DEF Repeat, Then
  <2> QED
    BY <1>0, <1>a, <2>1, <2>2, ProcessPushes DEF Pushes
<1>5. CASE Replay
  BY <1>0, <1>5, ReplayQuick, QuickNested DEF Pushes
<1> QED
  BY <1>1, <1>2, <1>3, <1>4, <1>5 DEF Step

\* or FreeClientResources.
LEMMA StepPushesGood ==
  ASSUME GrabInv, Step
  PROVE  Pushes(GoodCall)
<1>1. CASE ~Gone
  <2>1. Pushes(Nested)
    BY <1>1, StepPushes
  <2>2. \A q \in Seq(Nested) : q \in Seq(GoodCall)
    BY SeqMonotonic DEF Nested
  <2> QED
    BY <2>1, <2>2 DEF Pushes
<1>2. CASE Gone
  <2>1. PlainCalls
    BY <1>2, StepPlain
  <2>2. \A q \in Seq(Plain) : q \in Seq(GoodCall)
    BY SeqMonotonic DEF Plain
  <2>3. work # <<>>
    BY <1>2 DEF Gone, Now
  <2> QED
    BY <2>1, <2>2, <2>3 DEF Pushes, PlainCalls
<1> QED
  BY <1>1, <1>2

-----------------------------------------------------------------------------
(* The owners of grabs.                                                    *)

\* A client of which a window is freed with it.
Owns(c) == \E w \in Windows : WinOwner[w] = c

\* FreeClientResources of a client that is gone is in progress: it is the first call,
\* and those on top of it are made to delete one of its windows.
Freeing(c) ==
  /\ status[c] = "gone"
  /\ \E p \in Seq(Nested) : work = p \o <<DoClient("free", c)>> /\ (p # <<>> => Owns(c))

\* A passive grab belongs to a client that is connected, or whose resources are
\* being freed.
PassiveUp ==
  \A d \in Devices, w \in Windows : passive[d][w] # NoPassive =>
    status[passive[d][w].client] = "up" \/ Freeing(passive[d][w].client)

\* A grab that a passive grab of a client started while its windows were freed.
LeftBehind(d) == status[grab[d].client] = "gone" /\ fromPassive[d] /\ Owns(grab[d].client)

\* An active one belongs to a client that is connected, or is left behind.
OwnersUp == \A d \in Devices : grab[d] # NoGrab => status[grab[d].client] = "up" \/ LeftBehind(d)

\* Closing down a client is never nested in another call, and when its grabs have
\* been released it has none.
Closing ==
  \/ work \in Seq(Nested)
  \/ \E c \in Clients, p \in Seq(Nested) :
       work = p \o <<DoClient("release", c), DoClient("gone", c)>>
  \/ \E c \in Clients : work = <<DoClient("gone", c)>> /\ \A d \in Devices : grab[d].client # c
  \/ \E c \in Clients : Freeing(c)

OwnerInv == PassiveUp /\ OwnersUp /\ Closing

\* The grab that a step starts on device d belongs to a client that is connected,
\* or is a passive grab that has been established.
NewOwner(d) ==
  /\ grab'[d] \in Grab
  /\ \/ status[grab'[d].client] = "up"
     \/ /\ fromPassive'[d]
        /\ \E w \in Windows : passive[d][w] # NoPassive /\ grab'[d].client = passive[d][w].client

GrabsMove ==
  \A d \in Devices : \/ grab'[d] = grab[d] /\ (fromPassive[d] => fromPassive'[d])
                     \/ grab'[d] = NoGrab
                     \/ NewOwner(d)

\* A grab that is started on one device.
LEMMA OneMoves ==
  ASSUME SyncTyped, NEW d \in Devices, NEW c \in Clients, NEW w \in Windows, NEW auto \in BOOLEAN,
         grab' = [grab EXCEPT ![d] = [client |-> c, win |-> w]],
         fromPassive' = [fromPassive EXCEPT ![d] = auto],
         \/ status[c] = "up"
         \/ auto /\ \E v \in Windows : passive[d][v] # NoPassive /\ c = passive[d][v].client
  PROVE  GrabsMove
<1>1. [client |-> c, win |-> w] \in Grab /\ [client |-> c, win |-> w].client = c
  BY DEF Grab
<1>2. grab \in [Devices -> Grab \cup {NoGrab}] /\ fromPassive \in [Devices -> BOOLEAN]
  BY DEF SyncTyped
<1>3. grab'[d] = [client |-> c, win |-> w] /\ fromPassive'[d] = auto
  BY <1>2
<1>4. NewOwner(d)
  BY <1>1, <1>3 DEF NewOwner
<1>5. \A e \in Devices \ {d} : grab'[e] = grab[e] /\ fromPassive'[e] = fromPassive[e]
  BY <1>2
<1> QED
  BY <1>4, <1>5 DEF GrabsMove

\* A grab that ends.
LEMMA OneEnds ==
  ASSUME SyncTyped, NEW d \in Devices, NEW otr, NEW replay, NEW rest,
         DeactivateGrabOn(otr, d, replay, rest)
  PROVE  GrabsMove
BY DEF DeactivateGrabOn, GrabsMove, SyncTyped

\* No grab of any device changes.
LEMMA NoneMoves ==
  ASSUME UNCHANGED <<grab, fromPassive>>
  PROVE  GrabsMove
BY DEF GrabsMove

\* The grab CheckPassiveGrabsOnWindow starts.
LEMMA PassiveOwner ==
  ASSUME NEW ev, NEW S, NEW rest, ActivatePassive(ev, S, rest)
  PROVE  \E w \in S :
           /\ grab' = [grab EXCEPT ![ev.dev] = [client |-> passive[ev.dev][w].client, win |-> w]]
           /\ fromPassive' = [fromPassive EXCEPT ![ev.dev] = TRUE]
BY DEF ActivatePassive, ActivateGrab

\* An event starts such grabs,
LEMMA EffectOwners ==
  ASSUME SyncTyped, WindowTyped, trace' \in Windows, RequestTyped, NEW ev \in GoodEvent,
         NEW rest \in Seq(GoodCall), Effect(ev, rest)
  PROVE  GrabsMove
<1>0. ev.dev \in Devices
  BY EventFields
<1>1. CASE UNCHANGED <<grab, fromPassive>>
  BY <1>1, NoneMoves
<1>3. CASE ImplicitGrab(ev, rest)
  <2>1. PICK c \in Clients, w \in 1 .. trace' :
          /\ status[c] = "up"
          /\ ActivateGrab(ev.dev, [client |-> c, win |-> w], TRUE, "Async", "Async", rest)
    BY <1>3 DEF ImplicitGrab
  <2>2. w \in Windows
    BY ClientAssumption DEF Windows
  <2>3. /\ grab' = [grab EXCEPT ![ev.dev] = [client |-> c, win |-> w]]
        /\ fromPassive' = [fromPassive EXCEPT ![ev.dev] = TRUE]
    BY <1>0, <2>1, ImplicitSets
  <2> QED
    BY <1>0, <2>1, <2>2, <2>3, OneMoves
<1>4. CASE ActivatePassive(ev, Matching(ev, 1, trace), rest)
  <2>1. PICK w \in Matching(ev, 1, trace) :
          /\ grab' = [grab EXCEPT ![ev.dev] = [client |-> passive[ev.dev][w].client, win |-> w]]
          /\ fromPassive' = [fromPassive EXCEPT ![ev.dev] = TRUE]
    BY <1>4, PassiveOwner
  <2>2. w \in Windows /\ passive[ev.dev][w] # NoPassive
    BY ClientAssumption DEF Matching, WindowTyped, Windows
  <2>3. passive[ev.dev][w].client \in Clients
    BY <1>0, <2>2 DEF RequestTyped, Passive
  <2> QED
    BY <1>0, <2>1, <2>2, <2>3, OneMoves
<1>5. CASE DeactivateGrab(ev.dev, <<>>, rest)
  BY <1>0, <1>5, OneEnds DEF DeactivateGrab
<1> QED
  BY <1>1, <1>3, <1>4, <1>5 DEF Effect, FreezeFor, syncVars

\* whichever of the two halves of a repeated key it is,
LEMMA ProcessOwners ==
  ASSUME GrabInv, NEW ev \in GoodEvent, NEW rest \in Seq(GoodCall), ProcessEvent(ev, rest)
  PROVE  GrabsMove
<1>0. KeysTyped /\ SyncTyped /\ WindowTyped /\ RequestTyped /\ trace' \in Windows
  BY InvParts DEF ProcessInv, ProcessEvent, WindowTyped
<1>1. PICK e2 \in GoodEvent, r2 \in Seq(GoodCall) : Halves(ev, rest, e2, r2) /\ Effect(e2, r2)
  BY <1>0, ProcessEffect
<1> QED
  BY <1>0, <1>1, EffectOwners

\* and so does an event that is replayed.
LEMMA ReplayOwners ==
  ASSUME GrabInv, Replay
  PROVE  GrabsMove
<1> DEFINE r == Head(work)
           d == r.ev.dev
           S == IF r.win <= trace' THEN Matching(r.ev, r.win + 1, trace') ELSE {}
<1>1. /\ work # <<>> /\ r.op = "replay" /\ trace' = realized
      /\ IF S # {} THEN ActivatePassive(r.ev, S, Tail(work))
         ELSE DeliverUngrabbed(r.ev, Tail(work))
  BY DEF Replay, Now, Then
<1>2. r.ev \in GoodEvent /\ d \in Devices /\ r.win \in 0 .. Depth /\ trace' \in Windows
  BY <1>1, PopGood, InvParts, EventFields DEF GoodCall, Call, WindowTyped
<1>3. SyncTyped /\ RequestTyped
  BY InvParts
<1>5. CASE S # {}
  <2>1. PICK w \in S :
          /\ grab' = [grab EXCEPT ![d] = [client |-> passive[d][w].client, win |-> w]]
          /\ fromPassive' = [fromPassive EXCEPT ![d] = TRUE]
    <3>1. ActivatePassive(r.ev, S, Tail(work))
      BY <1>1, <1>5
    <3> HIDE DEF S, r
    <3> QED
      BY <3>1, PassiveOwner
  <2>2. w \in Windows /\ passive[d][w] # NoPassive
    BY <1>2, <2>1, ClientAssumption DEF Matching, Windows
  <2> HIDE DEF d, S
  <2>3. passive[d][w].client \in Clients
    BY <1>2, <1>3, <2>2 DEF RequestTyped, Passive
  <2> QED
    BY <1>2, <1>3, <2>1, <2>2, <2>3, OneMoves
<1>6. CASE S = {} /\ ImplicitGrab(r.ev, Tail(work))
  <2>1. PICK c \in Clients, w \in 1 .. trace' :
          /\ status[c] = "up"
          /\ ActivateGrab(d, [client |-> c, win |-> w], TRUE, "Async", "Async", Tail(work))
    BY <1>6 DEF ImplicitGrab
  <2>2. w \in Windows
    BY <1>2, ClientAssumption DEF Windows
  <2> HIDE DEF d, r
  <2>3. /\ grab' = [grab EXCEPT ![d] = [client |-> c, win |-> w]]
        /\ fromPassive' = [fromPassive EXCEPT ![d] = TRUE]
    BY <1>2, <2>1, ImplicitSets
  <2> QED
    BY <1>2, <1>3, <2>1, <2>2, <2>3, OneMoves
<1>7. CASE UNCHANGED syncVars
  BY <1>7 DEF GrabsMove, syncVars
<1> HIDE DEF S, d, r
<1> QED
  BY <1>1, <1>5, <1>6, <1>7 DEF DeliverUngrabbed

\* The first call stays the first while the innermost one is a nested call.
LEMMA BottomStays ==
  ASSUME GrabInv, Pushes(Nested), Head(work) \in Nested, NEW p \in Seq(Nested),
         NEW t \in Seq(GoodCall), t # <<>>, Head(t) \notin Nested, work = p \o t
  PROVE  p # <<>> /\ \E s \in Seq(Nested) : work' = s \o t
<1>0. work \in Seq(GoodCall) /\ Nested \subseteq GoodCall
  BY InvParts DEF CallsGood, Nested
<1>1. PICK q \in Seq(Nested) : work' = q \o work \/ work' = q \o Tail(work)
  BY DEF Pushes
<1>2. p # <<>>
  <2>1. p = <<>> => work = t
    OBVIOUS
  <2> QED
    BY <2>1
<1>3. p \in Seq(GoodCall) /\ q \in Seq(GoodCall)
  BY <1>0, SeqMonotonic
<1>4. Tail(p) \in Seq(Nested) /\ p = <<Head(p)>> \o Tail(p) /\ Tail(work) = Tail(p) \o t
  BY <1>2, <1>3
<1>5. \/ work' = (q \o p) \o t
      \/ work' = (q \o Tail(p)) \o t
  <2>1. CASE work' = q \o work
    <3>1. work' = q \o (p \o t)
      BY <2>1
    <3>2. q \in Seq(GoodCall) /\ p \in Seq(GoodCall) /\ t \in Seq(GoodCall)
      BY <1>3
    <3>3. q \o (p \o t) = (q \o p) \o t
      BY <3>2, ConcatAssociative
    <3> QED
      BY <3>1, <3>3
  <2>2. CASE work' = q \o Tail(work)
    <3>1. Tail(p) \in Seq(GoodCall)
      BY <1>0, <1>4, SeqMonotonic
    <3>2. work' = q \o (Tail(p) \o t)
      BY <1>4, <2>2
    <3>3. q \o (Tail(p) \o t) = (q \o Tail(p)) \o t
      BY <1>3, <3>1, ConcatAssociative
    <3> QED
      BY <3>2, <3>3
  <2> QED
    BY <1>1, <2>1, <2>2
<1>6. q \o p \in Seq(Nested) /\ q \o Tail(p) \in Seq(Nested)
  BY <1>4, ConcatProperties
<1> QED
  BY <1>2, <1>5, <1>6

\* So does the freeing of a client's resources,
LEMMA FreeingStays ==
  ASSUME GrabInv, Pushes(Nested), Head(work) \in Nested, status' = status,
         NEW c \in Clients, Freeing(c)
  PROVE  Freeing(c)' /\ Owns(c)
<1> DEFINE t == <<DoClient("free", c)>>
<1>1. PICK p \in Seq(Nested) : work = p \o t /\ (p # <<>> => Owns(c))
  BY DEF Freeing
<1>2. t \in Seq(GoodCall) /\ t # <<>> /\ Head(t) \notin Nested
  BY ClientCallGood DEF Nested, DoClient, Item
<1> HIDE DEF t
<1>3. p # <<>> /\ \E s \in Seq(Nested) : work' = s \o t
  BY <1>1, <1>2, BottomStays
<1> QED
  BY <1>1, <1>3 DEF Freeing, t

\* and the closing down of a client before.
LEMMA ClosingStays ==
  ASSUME GrabInv, Closing, Pushes(Nested), Head(work) \in Nested, status' = status
  PROVE  Closing'
<1>1. CASE work \in Seq(Nested)
  <2>1. PICK q \in Seq(Nested) : work' = q \o work \/ work' = q \o Tail(work)
    BY DEF Pushes
  <2>2. Tail(work) \in Seq(Nested)
    BY <1>1 DEF Pushes
  <2>3. work' \in Seq(Nested)
    BY <1>1, <2>1, <2>2, ConcatProperties
  <2> QED
    BY <2>3 DEF Closing
<1>2. ASSUME NEW c \in Clients, NEW p \in Seq(Nested),
             work = p \o <<DoClient("release", c), DoClient("gone", c)>>
      PROVE  Closing'
  <2> DEFINE t == <<DoClient("release", c), DoClient("gone", c)>>
  <2>1. t \in Seq(GoodCall)
    BY ClientCallGood
  <2>2. DoClient("release", c) \notin Nested /\ Head(t) = DoClient("release", c) /\ t # <<>>
    BY DEF Nested, DoClient, Item
  <2> HIDE DEF t
  <2>3. \E s \in Seq(Nested) : work' = s \o t
    <3>1. work = p \o t
      BY <1>2 DEF t
    <3> QED
      BY <2>1, <2>2, <3>1, BottomStays
  <2> QED
    BY <2>3 DEF Closing, t
<1>3. ASSUME NEW c \in Clients, work = <<DoClient("gone", c)>>
      PROVE  Closing'
  BY <1>3 DEF Nested, DoClient, Item
<1>4. ASSUME NEW c \in Clients, Freeing(c)
      PROVE  Closing'
  BY <1>4, FreeingStays DEF Closing
<1> QED
  BY <1>1, <1>2, <1>3, <1>4 DEF Closing

\* Nothing is freed while the innermost call is another of those that close down
\* a client, or none is in progress.
LEMMA NotFreeing ==
  ASSUME work # <<>> => Head(work) \notin Nested /\ Head(work).op # "free",
         NEW c \in Clients
  PROVE  ~Freeing(c)
<1> SUFFICES ASSUME NEW p \in Seq(Nested), work = p \o <<DoClient("free", c)>>
             PROVE  FALSE
  BY DEF Freeing
<1>0. p \in Seq(GoodCall) /\ <<DoClient("free", c)>> \in Seq(GoodCall)
  BY ClientCallGood, SeqMonotonic DEF Nested
<1>1. p # <<>> => work # <<>> /\ Head(work) = Head(p) /\ Head(p) \in Nested
  BY <1>0
<1>2. p = <<>> => work # <<>> /\ Head(work) = DoClient("free", c)
  OBVIOUS
<1>3. DoClient("free", c).op = "free"
  BY DEF DoClient, Item
<1> QED
  BY <1>1, <1>2, <1>3

\* A step that starts no grab but of connected clients and passive ones, and
\* closes nothing down.
LEMMA OwnersStay ==
  ASSUME GrabInv, OwnerInv, GrabsMove, status' = status, Closing',
         \A c \in Clients : Freeing(c) => Freeing(c)' /\ Owns(c),
         \A d \in Devices, w \in Windows : passive'[d][w] \in {passive[d][w], NoPassive}
  PROVE  OwnerInv'
<1>0. \A d \in Devices, w \in Windows :
        passive[d][w] # NoPassive => passive[d][w].client \in Clients
  BY InvParts DEF RequestTyped, Passive
<1>1. \A d \in Devices, w \in Windows : passive[d][w] # NoPassive =>
        \/ status[passive[d][w].client] = "up"
        \/ status[passive[d][w].client] = "gone" /\ Owns(passive[d][w].client)
  BY <1>0 DEF OwnerInv, PassiveUp, Freeing
<1>2. OwnersUp'
  <2> SUFFICES ASSUME NEW d \in Devices, grab'[d] # NoGrab
               PROVE  \/ status[grab'[d].client] = "up"
                      \/ /\ status[grab'[d].client] = "gone" /\ fromPassive'[d]
                         /\ Owns(grab'[d].client)
    BY DEF OwnersUp, LeftBehind, Owns
  <2>1. CASE grab'[d] = grab[d] /\ (fromPassive[d] => fromPassive'[d])
    BY <2>1 DEF OwnerInv, OwnersUp, LeftBehind
  <2>2. CASE NewOwner(d)
    BY <1>1, <2>2 DEF NewOwner
  <2> QED
    BY <2>1, <2>2 DEF GrabsMove
<1>3. PassiveUp'
  <2> SUFFICES ASSUME NEW d \in Devices, NEW w \in Windows, passive'[d][w] # NoPassive
               PROVE  (status[passive[d][w].client] = "up" \/ Freeing(passive[d][w].client))'
    BY DEF PassiveUp
  <2>1. passive'[d][w] = passive[d][w]
    OBVIOUS
  <2>2. status[passive[d][w].client] = "up" \/ Freeing(passive[d][w].client)
    BY <2>1 DEF OwnerInv, PassiveUp
  <2>3. passive[d][w].client \in Clients
    BY <1>0, <2>1
  <2>4. CASE status[passive[d][w].client] = "up"
    BY <2>1, <2>4
  <2>5. CASE Freeing(passive[d][w].client)
    <3>1. PICK c \in Clients : c = passive[d][w].client /\ Freeing(c)'
      BY <2>3, <2>5
    <3> QED
      BY <2>1, <3>1 DEF Freeing, Owns
  <2> QED
    BY <2>2, <2>4, <2>5
<1> QED
  BY <1>2, <1>3 DEF OwnerInv

\* The owners of grabs stay connected when an event is processed,
LEMMA ProcessOwned ==
  ASSUME GrabInv, OwnerInv, NEW ev \in GoodEvent, NEW rest \in Seq(GoodCall),
         ProcessEvent(ev, rest), UNCHANGED clientVars, Closing',
         \A c \in Clients : Freeing(c) => Freeing(c)' /\ Owns(c)
  PROVE  OwnerInv'
<1>1. GrabsMove
  BY ProcessOwners
<1>2. status' = status /\ passive' = passive
  BY DEF clientVars
<1> QED
  BY <1>1, <1>2, OwnersStay

\* nothing that concerns grabs changes,
LEMMA SameOwners ==
  ASSUME OwnerInv, UNCHANGED <<grab, fromPassive, passive, status, work>>
  PROVE  OwnerInv'
<1>1. \A c : Freeing(c)' <=> Freeing(c)
  BY DEF Freeing, Owns
<1>2. PassiveUp'
  BY <1>1 DEF OwnerInv, PassiveUp
<1>3. OwnersUp'
  BY DEF OwnerInv, OwnersUp, LeftBehind, Owns
<1>4. Closing'
  BY <1>1 DEF OwnerInv, Closing
<1> QED
  BY <1>2, <1>3, <1>4 DEF OwnerInv

\* or the event comes from the device.
LEMMA DeviceEventOwned ==
  ASSUME GrabInv, OwnerInv, NEW d \in Devices, NEW k \in Keys \cup {0},
         NEW type \in {"press", "release", "motion"}, DeviceEvent(d, type, k)
  PROVE  OwnerInv'
<1> DEFINE ev == [dev |-> d, type |-> type, key |-> k, n |-> events + 1]
<1>1. CASE frozen[d]
  <2>1. UNCHANGED <<grab, fromPassive, status, passive, work>>
    BY <1>1 DEF DeviceEvent, syncVars, clientVars
  <2> QED
    BY <2>1, SameOwners
<1>2. CASE ~frozen[d]
  <2>1. /\ ProcessEvent(ev, <<>>) /\ events < MaxEvents /\ (k = 0 <=> type = "motion")
        /\ UNCHANGED clientVars /\ work = <<>>
    BY <1>2 DEF DeviceEvent, Idle
  <2>2. ev \in GoodEvent
    BY <2>1, InvParts, BoundAssumption DEF GoodEvent, Event, RequestTyped
  <2> HIDE DEF ev
  <2>3. Closing'
    <3>1. <<>> \in Seq(GoodCall) /\ \A q \in Seq(Nested) : q \o <<>> = q
      OBVIOUS
    <3>2. PICK q \in Seq(Nested) : work' = q \o <<>>
      BY <2>1, <2>2, <3>1, ProcessPushes
    <3> QED
      BY <3>1, <3>2 DEF Closing
  <2>4. <<>> \in Seq(GoodCall) /\ \A c \in Clients : ~Freeing(c)
    BY <2>1, NotFreeing
  <2> QED
    BY <2>1, <2>2, <2>3, <2>4, ProcessOwned
<1> QED
  BY <1>1, <1>2

\* The steps of the calls in progress but those that close down a client.
LEMMA StepOwned ==
  ASSUME GrabInv, OwnerInv, Step, ~Release, ~Gone, ~Free
  PROVE  OwnerInv'
<1>0. /\ work # <<>> /\ Head(work) \in GoodCall
      /\ Head(work) \in Nested
  <2>1. work # <<>> /\ Head(work).op \notin {"release", "gone", "free"}
    BY DEF Step, Play, PlayEnds, Replay, Hold, Repeat, Unrealize, Evict, Retrace, Crush, Drop, Now
  <2> QED
    BY <2>1, PopGood, InvParts DEF Nested
<1>2. status' = status
  BY DEF Step, Play, PlayEnds, Replay, Hold, Repeat, Unrealize, Evict, Retrace, Crush, Drop,
         SyncOnly, NothingElse, clientVars
<1>1. Closing' /\ \A c \in Clients : Freeing(c) => Freeing(c)' /\ Owns(c)
  BY <1>0, <1>2, StepPushes, ClosingStays, FreeingStays DEF OwnerInv
<1>3. \A d \in Devices, w \in Windows : passive'[d][w] \in {passive[d][w], NoPassive}
  <2>1. CASE Drop
    BY <2>1, InvParts DEF Drop, RequestTyped
  <2>2. CASE ~Drop
    <3>1. passive' = passive
      BY <2>2 DEF Step, Play, PlayEnds, Replay, Hold, Repeat, Unrealize, Evict, Retrace, Crush,
                  SyncOnly, NothingElse, clientVars
    <3> QED
      BY <3>1
  <2> QED
    BY <2>1, <2>2
<1>4. GrabsMove
  <2>1. CASE Play
    <3>1. PICK i \in Playable : ProcessEvent(pending[i], work)
      BY <2>1 DEF Play
    <3>2. pending[i] \in GoodEvent /\ work \in Seq(GoodCall)
      BY <3>1, InvParts, ElementOfSeq DEF QueueGood, Playable, CallsGood
    <3> QED
      BY <3>1, <3>2, ProcessOwners
  <2>2. CASE Repeat
    <3>1. Head(work).ev \in GoodEvent /\ Tail(work) \in Seq(GoodCall)
      BY <1>0, <2>2, PopGood, InvParts DEF Repeat, Now, GoodCall
    <3>2. UNCHANGED syncVars \/ ProcessEvent(Head(work).ev, Tail(work))
      BY <2>2 DEF Repeat, Then
    <3>3. CASE UNCHANGED syncVars
      BY <3>3, NoneMoves DEF syncVars
    <3> QED
      BY <3>1, <3>2, <3>3, ProcessOwners
  <2>3. CASE Replay
    BY <2>3, ReplayOwners
  <2>4. CASE Evict
    <3>1. UNCHANGED syncVars \/ DeactivateGrab(Head(work).dev, <<>>, Tail(work))
      BY <2>4 DEF Evict, Then
    <3>2. Head(work).dev \in Devices
      BY <1>0, <2>4 DEF Evict, Now, GoodCall
    <3>3. CASE UNCHANGED syncVars
      BY <3>3, NoneMoves DEF syncVars
    <3> QED
      BY <3>1, <3>2, <3>3, InvParts, OneEnds DEF DeactivateGrab
  <2>5. CASE PlayEnds \/ Hold \/ Unrealize \/ Retrace \/ Crush \/ Drop
    <3>1. UNCHANGED <<grab, fromPassive>>
      BY <2>5 DEF PlayEnds, Hold, Unrealize, Retrace, Crush, Drop, syncVars
    <3> QED
      BY <3>1, NoneMoves
  <2> QED
    BY <2>1, <2>2, <2>3, <2>4, <2>5 DEF Step
<1> QED
  BY <1>0, <1>1, <1>2, <1>3, <1>4, OwnersStay

\* ReleaseActiveGrabs leaves the client without a grab.
LEMMA ReleaseOwned ==
  ASSUME GrabInv, OwnerInv, Release
  PROVE  OwnerInv'
<1> DEFINE c == Head(work).client
<1>0. /\ work # <<>> /\ Head(work).op = "release" /\ work \in Seq(GoodCall)
      /\ UNCHANGED <<status, passive>>
  BY InvParts DEF Release, Now, CallsGood, SyncOnly, NothingElse, clientVars
<1>1. GrabsMove
  <2>1. UNCHANGED <<grab, fromPassive>> \/ \E d \in Devices : DeactivateGrab(d, <<>>, work)
    BY DEF Release, syncVars
  <2> QED
    BY <2>1, InvParts, NoneMoves, OneEnds DEF DeactivateGrab
<1>5. Head(work) \notin Nested /\ \A e \in Clients : ~Freeing(e)
  BY <1>0, NotFreeing DEF Nested
<1>2. PICK b \in Clients : work = <<DoClient("release", b), DoClient("gone", b)>>
  <2>1. Head(work) \notin Nested
    BY <1>0 DEF Nested
  <2>2. work \notin Seq(Nested)
    BY <1>0, <2>1
  <2>3. \A b : work # <<DoClient("gone", b)>>
    BY <1>0 DEF DoClient, Item
  <2>4. PICK b \in Clients, p \in Seq(Nested) :
          work = p \o <<DoClient("release", b), DoClient("gone", b)>>
    BY <1>5, <2>2, <2>3 DEF OwnerInv, Closing
  <2>5. p = <<>>
    <3>1. <<DoClient("release", b), DoClient("gone", b)>> \in Seq(GoodCall)
      BY ClientCallGood
    <3>2. p \in Seq(GoodCall)
      BY SeqMonotonic DEF Nested
    <3>3. p # <<>> => Head(work) = Head(p) /\ Head(p) \in Nested
      BY <2>4, <3>1, <3>2
    <3> QED
      BY <2>1, <3>3
  <2> QED
    BY <2>4, <2>5
<1>3. Head(work).client = b /\ Tail(work) = <<DoClient("gone", b)>>
  BY <1>2 DEF DoClient, Item
<1>4. Closing'
  <2>1. CASE \E d \in Devices : DeactivateGrab(d, <<>>, work)
    <3>1. work' = work \/ work' = <<Do("play")>> \o work
      BY <1>0, <2>1, FreezesThenRest DEF DeactivateGrab, DeactivateGrabOn
    <3>2. <<>> \in Seq(Nested) /\ <<Do("play")>> \in Seq(Nested)
      <4>1. Do("play") \in Nested
        BY PlayPlain DEF Simple
      <4> QED
        BY <4>1
    <3>3. work = <<>> \o <<DoClient("release", b), DoClient("gone", b)>>
      BY <1>2
    <3>4. \E p \in Seq(Nested) : work' = p \o <<DoClient("release", b), DoClient("gone", b)>>
      BY <1>2, <3>1, <3>2, <3>3
    <3> QED
      BY <3>4 DEF Closing
  <2>2. CASE ~\E d \in Devices : DeactivateGrab(d, <<>>, work)
    <3>1. /\ \A d \in Devices : grab[d].client # b
          /\ work' = Tail(work) /\ grab' = grab
      BY <1>3, <2>2 DEF Release, Then, syncVars
    <3> QED
      BY <1>3, <3>1 DEF Closing
  <2> QED
    BY <2>1, <2>2
<1> QED
  BY <1>0, <1>1, <1>4, <1>5, OwnersStay

\* CloseDownClient: a client that goes has released its grabs.
LEMMA GoneOwned ==
  ASSUME GrabInv, OwnerInv, Gone
  PROVE  OwnerInv'
<1> DEFINE c == Head(work).client
<1>0. /\ work # <<>> /\ Head(work).op = "gone" /\ work \in Seq(GoodCall)
      /\ UNCHANGED <<grab, fromPassive>>
      /\ status \in [Clients -> {"up", "retained", "gone"}]
  BY InvParts DEF Gone, Now, CallsGood, syncVars, RequestTyped
<1>9. \A e \in Clients : ~Freeing(e)
  BY <1>0, NotFreeing DEF Nested
<1>1. PICK b \in Clients : work = <<DoClient("gone", b)>> /\ \A d \in Devices : grab[d].client # b
  <2>1. Head(work) \notin Nested
    BY <1>0 DEF Nested
  <2>2. work \notin Seq(Nested)
    BY <1>0, <2>1
  <2>3. ASSUME NEW e \in Clients, NEW p \in Seq(Nested),
               work = p \o <<DoClient("release", e), DoClient("gone", e)>>
        PROVE  FALSE
    <3>1. <<DoClient("release", e), DoClient("gone", e)>> \in Seq(GoodCall)
      BY ClientCallGood
    <3>2. p \in Seq(GoodCall)
      BY SeqMonotonic DEF Nested
    <3>3. p # <<>> => Head(work) = Head(p) /\ Head(p) \in Nested
      BY <2>3, <3>1, <3>2
    <3>4. p = <<>> => Head(work) = DoClient("release", e)
      BY <2>3
    <3>5. DoClient("release", e).op = "release"
      BY DEF DoClient, Item
    <3> QED
      BY <1>0, <2>1, <3>3, <3>4, <3>5
  <2> QED
    BY <1>9, <2>2, <2>3 DEF OwnerInv, Closing
<1>2. c = b /\ Tail(work) = <<>>
  BY <1>1 DEF DoClient, Item
<1>3. \E st \in {"gone", "retained"} : status' = [status EXCEPT ![b] = st]
  BY <1>2 DEF Gone
<1>4. \A e \in Clients \ {b} : status'[e] = status[e]
  BY <1>0, <1>3
<1>5. OwnersUp'
  <2> SUFFICES ASSUME NEW d \in Devices, grab[d] # NoGrab
               PROVE  \/ status'[grab[d].client] = "up"
                      \/ /\ status'[grab[d].client] = "gone" /\ fromPassive[d]
                         /\ Owns(grab[d].client)
    BY <1>0 DEF OwnersUp, LeftBehind, Owns
  <2>1. grab[d].client \in Clients
    BY InvParts DEF SyncTyped, Grab
  <2> QED
    BY <1>1, <1>4, <2>1 DEF OwnerInv, OwnersUp, LeftBehind
<1>6. \A d \in Devices, w \in Windows : passive[d][w] # NoPassive =>
        passive[d][w].client \in Clients /\ status[passive[d][w].client] = "up"
  BY <1>9, InvParts DEF OwnerInv, PassiveUp, RequestTyped, Passive
<1>7. CASE /\ work' = <<DoClient("free", c)>> \o Tail(work) /\ passive' = passive
           /\ status' = [status EXCEPT ![c] = "gone"]
  <2>1. work' = <<DoClient("free", b)>>
    <3>1. work' = <<DoClient("free", b)>> \o <<>>
      BY <1>2, <1>7
    <3>2. \A x \in GoodCall : <<x>> \o <<>> = <<x>>
      OBVIOUS
    <3>3. DoClient("free", b) \in GoodCall
      BY ClientCallGood
    <3> QED
      BY <3>1, <3>2, <3>3
  <2>2. Freeing(b)'
    <3>1. work' = <<>> \o <<DoClient("free", b)>> /\ <<>> \in Seq(Nested)
      BY <2>1
    <3>2. status'[b] = "gone"
      BY <1>0, <1>2, <1>7
    <3> QED
      BY <3>1, <3>2 DEF Freeing
  <2>4. PassiveUp'
    BY <1>4, <1>6, <1>7, <2>2 DEF PassiveUp
  <2> QED
    BY <1>5, <2>2, <2>4 DEF OwnerInv, Closing
<1>8. CASE /\ passive' = [d \in Devices |-> [w \in Windows |->
                IF passive[d][w].client = c THEN NoPassive ELSE passive[d][w]]]
           /\ work' = Tail(work)
  <2>1. \A d \in Devices, w \in Windows :
          passive'[d][w] = IF passive[d][w].client = b THEN NoPassive ELSE passive[d][w]
    BY <1>2, <1>8
  <2>2. PassiveUp'
    BY <1>4, <1>6, <2>1 DEF PassiveUp
  <2>4. work' = <<>> /\ <<>> \in Seq(Nested)
    BY <1>2, <1>8
  <2> QED
    BY <1>5, <2>2, <2>4 DEF OwnerInv, Closing
<1> QED
  BY <1>7, <1>8 DEF Gone, Then

\* FreeClientResources: the passive grabs of the client go one by one, and its
\* windows.
LEMMA FreeOwned ==
  ASSUME GrabInv, OwnerInv, Free
  PROVE  OwnerInv'
<1> DEFINE c == Head(work).client
<1>0. /\ work # <<>> /\ Head(work).op = "free" /\ work \in Seq(GoodCall)
      /\ UNCHANGED <<grab, fromPassive, status>>
      /\ passive \in [Devices -> [Windows -> Passive \cup {NoPassive}]]
  BY InvParts DEF Free, Now, CallsGood, syncVars, RequestTyped
<1>1. \A p \in Seq(Nested) : p # <<>> => \A t \in Seq(GoodCall) : work # p \o t
  <2> SUFFICES ASSUME NEW p \in Seq(Nested), p # <<>>, NEW t \in Seq(GoodCall), work = p \o t
               PROVE  FALSE
    OBVIOUS
  <2>1. p \in Seq(GoodCall) /\ Head(p) \in Nested
    BY SeqMonotonic DEF Nested
  <2>2. Head(work) = Head(p)
    BY <2>1
  <2> QED
    BY <1>0, <2>1, <2>2 DEF Nested
<1>2. \A b \in Clients : Freeing(b) => work = <<DoClient("free", b)>> /\ b = c /\ status[b] = "gone"
  <2> SUFFICES ASSUME NEW b \in Clients, Freeing(b)
               PROVE  work = <<DoClient("free", b)>> /\ b = c
    BY DEF Freeing
  <2>1. <<DoClient("free", b)>> \in Seq(GoodCall)
    BY ClientCallGood
  <2>2. PICK p \in Seq(Nested) : work = p \o <<DoClient("free", b)>>
    BY DEF Freeing
  <2>3. p = <<>>
    BY <1>1, <2>1, <2>2
  <2>4. work = <<DoClient("free", b)>>
    BY <2>2, <2>3
  <2> QED
    BY <2>4 DEF DoClient, Item
<1>3. PICK b \in Clients : Freeing(b)
  <2>1. work \notin Seq(Nested)
    BY <1>0 DEF Nested
  <2>2. \A b \in Clients : work # <<DoClient("gone", b)>>
    BY <1>0 DEF DoClient, Item
  <2>3. ASSUME NEW b \in Clients, NEW p \in Seq(Nested),
               work = p \o <<DoClient("release", b), DoClient("gone", b)>>
        PROVE  FALSE
    <3>1. <<DoClient("release", b), DoClient("gone", b)>> \in Seq(GoodCall)
      BY ClientCallGood
    <3>2. p = <<>>
      BY <1>1, <2>3, <3>1
    <3>3. Head(work) = DoClient("release", b)
      BY <2>3, <3>2
    <3> QED
      BY <1>0, <3>3 DEF DoClient, Item
  <2> QED
    BY <2>1, <2>2, <2>3 DEF OwnerInv, Closing
<1>4. work = <<DoClient("free", b)>> /\ b = c /\ status[b] = "gone"
  BY <1>2, <1>3
<1>5. OwnersUp'
  BY <1>0 DEF OwnerInv, OwnersUp, LeftBehind, Owns
<1>6. \A d \in Devices, w \in Windows : passive[d][w] # NoPassive =>
        status[passive[d][w].client] = "up" \/ passive[d][w].client = b
  BY <1>0, <1>2, <1>4 DEF OwnerInv, PassiveUp, Passive
<1>7. CASE \E p \in Devices \X Windows :
             passive' = [passive EXCEPT ![p[1]][p[2]] = NoPassive] /\ work' = work
  <2>1. \A d \in Devices, w \in Windows : passive'[d][w] \in {passive[d][w], NoPassive}
    BY <1>0, <1>7
  <2>2. Freeing(b)'
    BY <1>0, <1>3, <1>7 DEF Freeing, Owns
  <2>3. PassiveUp'
    BY <1>0, <1>6, <2>1, <2>2 DEF PassiveUp
  <2> QED
    BY <1>5, <2>2, <2>3 DEF OwnerInv, Closing
<1>8. ASSUME passive' = passive, NEW w \in 1 .. alive, WinOwner[w] = c,
             work' = DeleteCalls(w) \o work
      PROVE  OwnerInv'
  <2>1. w \in 2 .. Depth /\ w \in Windows
    BY <1>4, <1>8, InvParts, ClientAssumption DEF WindowTyped, Windows
  <2>2. DeleteCalls(w) \in Seq(Nested)
    <3>1. DeleteCalls(w) \in Seq(Simple)
      BY <2>1, WindowCallsPlain
    <3> QED
      BY <3>1, SeqMonotonic DEF Simple
  <2>3. Owns(b)
    BY <1>4, <1>8, <2>1 DEF Owns
  <2>4. Freeing(b)'
    <3>1. work' = DeleteCalls(w) \o <<DoClient("free", b)>>
      BY <1>4, <1>8
    <3> QED
      BY <1>0, <1>4, <2>2, <2>3, <3>1 DEF Freeing, Owns
  <2>5. PassiveUp'
    BY <1>0, <1>6, <1>8, <2>4 DEF PassiveUp
  <2> QED
    BY <1>5, <2>4, <2>5 DEF OwnerInv, Closing
<1>9. CASE /\ passive' = passive /\ work' = Tail(work)
           /\ {p \in Devices \X Windows : passive[p[1]][p[2]].client = c} = {}
  <2>1. \A d \in Devices, w \in Windows : passive[d][w].client # b
    <3> TAKE d \in Devices, w \in Windows
    <3>1. <<d, w>> \in Devices \X Windows
      OBVIOUS
    <3> QED
      BY <1>4, <1>9, <3>1
  <2>2. PassiveUp'
    BY <1>0, <1>6, <1>9, <2>1 DEF PassiveUp
  <2>3. work' \in Seq(Nested)
    <3>1. work' = <<>>
      BY <1>4, <1>9
    <3> QED
      BY <3>1
  <2> QED
    BY <1>5, <2>2, <2>3 DEF OwnerInv, Closing
<1> QED
  BY <1>7, <1>8, <1>9 DEF Free, Then

\* Between requests every passive grab belongs to a client that is connected.
LEMMA IdleOwners ==
  ASSUME GrabInv, OwnerInv, Idle
  PROVE  /\ \A c \in Clients : ~Freeing(c)
         /\ \A d \in Devices, w \in Windows :
              passive[d][w] # NoPassive => status[passive[d][w].client] = "up"
<1>1. \A c \in Clients : ~Freeing(c)
  BY NotFreeing DEF Idle
<1> QED
  BY <1>1, InvParts DEF OwnerInv, PassiveUp, RequestTyped, Passive

\* ProcUngrabKey, the grabs of devices and their ends, and what is done to
\* windows: no client's status changes, and no passive grab is new.
LEMMA QuietRequestOwned ==
  ASSUME GrabInv, OwnerInv, Idle, GrabsMove, status' = status,
         work' \in Seq(Nested),
         \A d \in Devices, w \in Windows : passive'[d][w] \in {passive[d][w], NoPassive}
  PROVE  OwnerInv'
<1>1. Closing'
  BY DEF Closing
<1> QED
  BY <1>1, IdleOwners, OwnersStay

\* ProcGrabKey and ProcGrabButton are requests of a client that is connected.
LEMMA GrabKeyOwned ==
  ASSUME GrabInv, OwnerInv, NEW c \in Clients, NEW d \in Devices, NEW w \in Windows,
         NEW m \in Modes, NEW o \in Modes, GrabKey(c, d, w, m, o)
  PROVE  OwnerInv'
<1> DEFINE p == [client |-> c, own |-> m, oth |-> o]
<1>1. /\ Idle /\ status[c] = "up"
      /\ passive' = [passive EXCEPT ![d][w] = p]
      /\ UNCHANGED <<grab, fromPassive, status, work>>
  BY DEF GrabKey, Request, syncVars
<1>2. \A e \in Devices, v \in Windows : passive'[e][v] \in {passive[e][v], p}
  BY <1>1, InvParts DEF RequestTyped
<1>3. p.client = c
  OBVIOUS
<1> HIDE DEF p
<1>4. PassiveUp'
  BY <1>1, <1>2, <1>3, IdleOwners DEF PassiveUp
<1>5. OwnersUp'
  BY <1>1 DEF OwnerInv, OwnersUp, LeftBehind, Owns
<1>6. Closing'
  <2>1. work' = <<>> /\ <<>> \in Seq(Nested)
    BY <1>1 DEF Idle
  <2> QED
    BY <2>1 DEF Closing
<1> QED
  BY <1>4, <1>5, <1>6 DEF OwnerInv

\* CloseDownClient of a client that was retained: it owns no grab any more.
LEMMA RetainedOwned ==
  ASSUME GrabInv, OwnerInv, NEW c \in Clients, CloseDownRetained(c)
  PROVE  OwnerInv'
<1>1. /\ Idle /\ status[c] = "retained" /\ status' = [status EXCEPT ![c] = "gone"]
      /\ work' = <<DoClient("free", c)>> /\ UNCHANGED <<grab, fromPassive, passive>>
      /\ status \in [Clients -> {"up", "retained", "gone"}]
  BY InvParts DEF CloseDownRetained, syncVars, RequestTyped
<1>2. \A b \in Clients : status[b] \in {"up", "gone"} => status'[b] = status[b]
  BY <1>1
<1>3. PassiveUp'
  <2> SUFFICES ASSUME NEW d \in Devices, NEW w \in Windows, passive[d][w] # NoPassive
               PROVE  status'[passive[d][w].client] = "up"
    BY <1>1 DEF PassiveUp
  <2>1. passive[d][w].client \in Clients
    BY InvParts DEF RequestTyped, Passive
  <2> QED
    BY <1>1, <1>2, <2>1, IdleOwners
<1>4. OwnersUp'
  <2> SUFFICES ASSUME NEW d \in Devices, grab[d] # NoGrab
               PROVE  \/ status'[grab[d].client] = "up"
                      \/ /\ status'[grab[d].client] = "gone" /\ fromPassive[d]
                         /\ Owns(grab[d].client)
    BY <1>1 DEF OwnersUp, LeftBehind, Owns
  <2>1. grab[d].client \in Clients
    BY InvParts DEF SyncTyped, Grab
  <2> QED
    BY <1>2, <2>1 DEF OwnerInv, OwnersUp, LeftBehind
<1>5. Freeing(c)'
  <2>1. work' = <<>> \o <<DoClient("free", c)>> /\ <<>> \in Seq(Nested)
    BY <1>1
  <2>2. status'[c] = "gone"
    BY <1>1
  <2> QED
    BY <2>1, <2>2 DEF Freeing
<1> QED
  BY <1>3, <1>4, <1>5 DEF OwnerInv, Closing

\* CloseDownClient begins: its calls are the only ones.
LEMMA CloseOwned ==
  ASSUME GrabInv, OwnerInv, NEW c \in Clients, CloseDownClient(c)
  PROVE  OwnerInv'
<1>1. /\ Idle /\ work' = <<DoClient("release", c), DoClient("gone", c)>>
      /\ UNCHANGED <<grab, fromPassive, passive, status>>
  BY DEF CloseDownClient, Request, SyncOnly, NothingElse, clientVars, syncVars
<1>2. PassiveUp'
  BY <1>1, IdleOwners DEF PassiveUp
<1>4. OwnersUp'
  BY <1>1 DEF OwnerInv, OwnersUp, LeftBehind, Owns
<1>3. Closing'
  <2>1. work' = <<>> \o <<DoClient("release", c), DoClient("gone", c)>> /\ <<>> \in Seq(Nested)
    BY <1>1
  <2> QED
    BY <2>1 DEF Closing
<1> QED
  BY <1>2, <1>3, <1>4 DEF OwnerInv

\* AllowSome(NOT_GRABBED) ends a grab and replays its event.
LEMMA AllowReplayOwned ==
  ASSUME GrabInv, OwnerInv, NEW c \in Clients, NEW d \in Devices, AllowReplay(c, d)
  PROVE  OwnerInv'
<1> DEFINE otr == IF Synced(c, d) THEN [other EXCEPT ![d] = NoDev] ELSE other
           r == DoEvent("replay", grab[d].win, held[d])
<1>1. /\ Idle /\ state[d] = "FROZEN_WITH_EVENT"
      /\ DeactivateGrabOn(otr, d, <<r>>, <<>>)
      /\ UNCHANGED <<status, passive>>
  BY DEF AllowReplay, MayAllow, Request, SyncOnly, NothingElse, clientVars
<1>2. grab' = [grab EXCEPT ![d] = NoGrab] /\ ComputeFreezes(<<r>>, <<>>)
  BY <1>1 DEF DeactivateGrabOn
<1>3. r \in Nested
  <2>1. grab[d].win \in 0 .. Depth
    <3>1. grab[d] \in Grab \cup {NoGrab}
      BY InvParts DEF SyncTyped
    <3> QED
      BY <3>1, ClientAssumption DEF Grab, NoGrab, Windows
  <2>2. held[d] \in GoodEvent
    BY <1>1 DEF GrabInv, HeldGood
  <2> QED
    BY <2>1, <2>2, EventCallGood DEF Nested, DoEvent, Item
<1>4. Do("play") \in Nested
  BY PlayPlain DEF Simple
<1> HIDE DEF r
<1>5. work' = <<>> \/ work' = <<r>> \o (<<Do("play")>> \o <<>>)
  BY <1>2 DEF ComputeFreezes
<1>6. work' \in Seq(Nested)
  <2>1. <<Do("play")>> \o <<>> \in Seq(Nested) /\ <<>> \in Seq(Nested)
    BY <1>4
  <2>2. \A q \in Seq(Nested) : <<r>> \o q \in Seq(Nested)
    BY <1>3
  <2> QED
    BY <1>5, <2>1, <2>2
<1>7. GrabsMove
  BY <1>1, InvParts, OneEnds
<1> QED
  BY <1>1, <1>6, <1>7, QuietRequestOwned

\* The requests of a client keep the invariant.
LEMMA RequestOwned ==
  ASSUME GrabInv, OwnerInv, NEW c \in Clients, ClientStep(c)
  PROVE  OwnerInv'
<1> DEFINE Quiet ==
             \/ \E d \in Devices :
                  \/ Ungrab(c, d) \/ AllowEvents(c, d)
                  \/ \E w \in Windows :
                       UngrabKey(c, d, w) \/ \E m, o \in Modes : GrabDevice(c, d, w, m, o)
             \/ MapWindow(c) \/ \E w \in Windows : UnmapWindow(c, w) \/ DestroyWindow(c, w)
<1>1. CASE Quiet
  <2>0. Idle /\ status[c] = "up"
    BY <1>1 DEF Ungrab, AllowEvents, MayAllow, UngrabKey, GrabDevice, MapWindow, UnmapWindow,
                DestroyWindow, Request
  <2>1. status' = status
    BY <1>1 DEF Ungrab, AllowEvents, UngrabKey, GrabDevice, MapWindow, UnmapWindow,
                DestroyWindow, SyncOnly, NothingElse, clientVars
  <2>2. work' \in Seq(Nested)
    <3>1. work' \in Seq(Simple)
      BY <2>0, <1>1, NestedRequest
    <3> QED
      BY <3>1, SeqMonotonic DEF Simple
  <2>3. \A d \in Devices, w \in Windows : passive'[d][w] \in {passive[d][w], NoPassive}
    <3>1. \/ passive' = passive
          \/ \E d \in Devices, w \in Windows : passive' = [passive EXCEPT ![d][w] = NoPassive]
      BY <1>1 DEF Ungrab, AllowEvents, UngrabKey, GrabDevice, MapWindow, UnmapWindow,
                  DestroyWindow, SyncOnly, NothingElse, clientVars
    <3> QED
      BY <3>1, InvParts DEF RequestTyped
  <2>4. GrabsMove
    <3>1. CASE \E d \in Devices : Ungrab(c, d)
      <4>1. \E d \in Devices : DeactivateGrabOn(other, d, <<>>, <<>>)
        BY <3>1 DEF Ungrab, DeactivateGrab
      <4> QED
        BY <4>1, InvParts, OneEnds
    <3>2. ASSUME NEW d \in Devices, NEW w \in Windows, NEW m \in Modes, NEW o \in Modes,
                 GrabDevice(c, d, w, m, o)
          PROVE  GrabsMove
      <4>1. /\ grab' = [grab EXCEPT ![d] = [client |-> c, win |-> w]]
            /\ fromPassive' = [fromPassive EXCEPT ![d] = FALSE]
        BY <3>2 DEF GrabDevice, ActivateGrab
      <4> QED
        BY <2>0, <4>1, InvParts, OneMoves
    <3>3. CASE UNCHANGED <<grab, fromPassive>>
      BY <3>3, NoneMoves
    <3>4. \/ \E d \in Devices : Ungrab(c, d)
          \/ \E d \in Devices, w \in Windows, m, o \in Modes : GrabDevice(c, d, w, m, o)
          \/ UNCHANGED <<grab, fromPassive>>
      BY <1>1 DEF AllowEvents, UngrabKey, MapWindow, UnmapWindow, DestroyWindow, syncVars
    <3> QED
      BY <3>1, <3>2, <3>3, <3>4
  <2> QED
    BY <2>0, <2>1, <2>2, <2>3, <2>4, QuietRequestOwned
<1>2. CASE \E d \in Devices : AllowReplay(c, d)
  BY <1>2, AllowReplayOwned
<1>3. CASE \E d \in Devices, w \in Windows, m, o \in Modes : GrabKey(c, d, w, m, o)
  BY <1>3, GrabKeyOwned
<1>4. CASE CloseDownClient(c)
  BY <1>4, CloseOwned
<1>5. CASE CloseDownRetained(c)
  BY <1>5, RetainedOwned
<1> QED
  BY <1>1, <1>2, <1>3, <1>4, <1>5 DEF ClientStep

\* The induction on the steps of the server.
LEMMA OwnerInitially ==
  ASSUME Init
  PROVE  OwnerInv
<1>1. /\ \A d \in Devices : grab[d] = NoGrab
      /\ \A d \in Devices, w \in Windows : passive[d][w] = NoPassive
      /\ work = <<>>
  BY DEF Init
<1>2. work \in Seq(Nested)
  BY <1>1
<1> QED
  BY <1>1, <1>2 DEF OwnerInv, PassiveUp, OwnersUp, Closing

\* Every step is one of the cases above.
LEMMA OwnerStep ==
  ASSUME GrabInv, OwnerInv, [Next]_vars
  PROVE  OwnerInv'
<1>1. ASSUME NEW d \in Devices, NEW k \in Keys \cup {0},
             NEW type \in {"press", "release", "motion"}, DeviceEvent(d, type, k)
      PROVE  OwnerInv'
  BY <1>1, DeviceEventOwned
<1>2. CASE Step
  BY <1>2, StepOwned, ReleaseOwned, GoneOwned, FreeOwned
<1>3. ASSUME NEW c \in Clients, ClientStep(c)
      PROVE  OwnerInv'
  BY <1>3, RequestOwned
<1>4. CASE UNCHANGED vars
  <2>1. UNCHANGED <<grab, fromPassive, passive, status, work>>
    BY <1>4 DEF vars, syncVars, clientVars
  <2> QED
    BY <2>1, SameOwners
<1> QED
  BY <1>1, <1>2, <1>3, <1>4 DEF Next

\* Once a request or CloseDownClient has returned, the owner of every active grab
\* is connected -- OwnersAreConnected -- unless the grab was started by a passive
\* grab of a client that is gone, and that client had windows: nothing else that
\* happens in the middle of closing down a client can leave it a grab.
THEOREM OwnersStayConnected == Spec => []OwnersAreConnected
<1>1. Init => GrabInv /\ OwnerInv
  BY GrabInvInitially, OwnerInitially
<1>2. GrabInv /\ OwnerInv /\ [Next]_vars => (GrabInv /\ OwnerInv)'
  BY GrabInvStep, OwnerStep
<1>3. OwnerInv => OwnersAreConnected
  BY DEF OwnerInv, OwnersUp, LeftBehind, Owns, OwnersAreConnected
<1> QED
  BY <1>1, <1>2, <1>3, PTL DEF Spec

-----------------------------------------------------------------------------
(* Active grabs and the windows that are unmapped.                         *)

\* A call that will look whether device d is grabbed on window w.
Dooms(r, d, w) ==
  \/ r.op = "evict" /\ r.dev = d /\ r.win = w
  \/ r.op = "unrealize" /\ r.win <= w /\ w <= r.last

Doomed(s, d, w) == \E i \in 1 .. Len(s) : Dooms(s[i], d, w)

\* A grab made by GrabPointer or GrabKeyboard is on a window that is viewable, or
\* it is about to be looked at.
ViewInv ==
  \A d \in Devices :
    ~fromPassive[d] /\ grab[d].win > realized => Doomed(work, d, grab[d].win)

\* A step that starts no grab but passive and implicit ones.
GrabsPass ==
  \A d \in Devices :
    \/ grab'[d] = NoGrab \/ fromPassive'[d]
    \/ grab'[d] = grab[d] /\ fromPassive'[d] = fromPassive[d]

\* What dooms a grab still does with more calls on top of it,
LEMMA DoomedUnder ==
  ASSUME NEW q \in Seq(GoodCall), NEW s \in Seq(GoodCall), NEW d, NEW w, Doomed(s, d, w)
  PROVE  Doomed(q \o s, d, w)
<1>1. PICK i \in 1 .. Len(s) : Dooms(s[i], d, w)
  BY DEF Doomed
<1>2. Len(q) \in Nat /\ Len(s) \in Nat /\ Len(q \o s) = Len(q) + Len(s)
  BY ConcatProperties, LenProperties
<1>3. Len(q) + i \in 1 .. Len(q \o s) /\ (q \o s)[Len(q) + i] = s[i]
  BY <1>2
<1> QED
  BY <1>1, <1>3 DEF Doomed

\* or below it,
LEMMA DoomedOver ==
  ASSUME NEW q \in Seq(GoodCall), NEW s \in Seq(GoodCall), NEW d, NEW w, Doomed(q, d, w)
  PROVE  Doomed(q \o s, d, w)
<1>1. PICK i \in 1 .. Len(q) : Dooms(q[i], d, w)
  BY DEF Doomed
<1>2. Len(q) \in Nat /\ Len(s) \in Nat /\ Len(q \o s) = Len(q) + Len(s)
  BY ConcatProperties, LenProperties
<1>3. i \in 1 .. Len(q \o s) /\ (q \o s)[i] = q[i]
  BY <1>2
<1> QED
  BY <1>1, <1>3 DEF Doomed

\* and when a call that does not doom it has returned.
LEMMA DoomedBelow ==
  ASSUME NEW s \in Seq(GoodCall), s # <<>>, NEW d, NEW w, Doomed(s, d, w),
         ~Dooms(Head(s), d, w)
  PROVE  Doomed(Tail(s), d, w)
<1>1. PICK i \in 1 .. Len(s) : Dooms(s[i], d, w)
  BY DEF Doomed
<1>2. i # 1
  BY <1>1
<1>3. i - 1 \in 1 .. Len(Tail(s)) /\ Tail(s)[i - 1] = s[i]
  BY <1>2
<1> QED
  BY <1>1, <1>3 DEF Doomed

\* Between requests all such grabs are on windows that are viewable.
LEMMA IdleViews ==
  ASSUME GrabInv, ViewInv, Idle
  PROVE  \A d \in Devices : ~fromPassive[d] => grab[d].win <= realized
<1> SUFFICES ASSUME NEW d \in Devices, ~fromPassive[d]
             PROVE  grab[d].win <= realized
  OBVIOUS
<1>1. ~Doomed(work, d, grab[d].win)
  BY DEF Doomed, Idle
<1>2. ~(grab[d].win > realized)
  BY <1>1 DEF ViewInv
<1>3. grab[d].win \in Nat /\ realized \in Nat
  BY InvParts, ClientAssumption DEF SyncTyped, WindowTyped, Grab, NoGrab, Windows
<1> QED
  BY <1>2, <1>3

\* NoGrab is on no window.
LEMMA ViewFromParts ==
  ASSUME WindowTyped', GrabsPass,
         \A d \in Devices : ~fromPassive[d] /\ grab[d].win > realized' =>
           grab'[d] = NoGrab \/ Doomed(work', d, grab[d].win)
  PROVE  ViewInv'
<1> SUFFICES ASSUME NEW d \in Devices, ~fromPassive'[d], grab'[d].win > realized'
             PROVE  Doomed(work', d, grab'[d].win)
  BY DEF ViewInv, Doomed
<1>1. grab'[d] # NoGrab
  <2>1. NoGrab.win = 0 /\ realized' \in Nat \ {0}
    BY ClientAssumption DEF NoGrab, WindowTyped, Windows
  <2> QED
    BY <2>1
<1>2. grab'[d] = grab[d] /\ fromPassive'[d] = fromPassive[d]
  BY <1>1 DEF GrabsPass
<1> QED
  BY <1>1, <1>2

\* A step that pushes calls, in the middle of which windows stay as they are.
LEMMA ViewStays ==
  ASSUME GrabInv, ViewInv, WindowTyped', GrabsPass, Pushes(GoodCall), realized' = realized,
         \A d \in Devices : ~Dooms(Head(work), d, grab[d].win)
  PROVE  ViewInv'
<1>0. work # <<>> /\ work \in Seq(GoodCall) /\ Tail(work) \in Seq(GoodCall)
  BY InvParts, PopGood DEF CallsGood, Pushes
<1>1. PICK q \in Seq(GoodCall) : work' = q \o work \/ work' = q \o Tail(work)
  BY DEF Pushes
<1>2. q \in Seq(GoodCall)
  BY <1>1
<1> SUFFICES ASSUME NEW d \in Devices, ~fromPassive[d], grab[d].win > realized
             PROVE  Doomed(work', d, grab[d].win)
  BY ViewFromParts
<1>3. Doomed(work, d, grab[d].win)
  BY DEF ViewInv
<1>4. Doomed(Tail(work), d, grab[d].win)
  BY <1>0, <1>3, DoomedBelow
<1> QED
  BY <1>0, <1>1, <1>2, <1>3, <1>4, DoomedUnder

\* An event only starts passive and implicit grabs,
LEMMA EffectPasses ==
  ASSUME SyncTyped, NEW ev \in GoodEvent, NEW rest \in Seq(GoodCall), Effect(ev, rest)
  PROVE  GrabsPass
<1>0. ev.dev \in Devices
  BY EventFields
<1>1. CASE UNCHANGED <<grab, fromPassive>>
  BY <1>1 DEF GrabsPass
<1>2. ASSUME NEW g, grab' = [grab EXCEPT ![ev.dev] = g],
             fromPassive' = [fromPassive EXCEPT ![ev.dev] = TRUE]
      PROVE  GrabsPass
  BY <1>0, <1>2 DEF GrabsPass, SyncTyped
<1>3. CASE ImplicitGrab(ev, rest)
  <2>1. \E c \in Clients, w \in 1 .. trace' :
          ActivateGrab(ev.dev, [client |-> c, win |-> w], TRUE, "Async", "Async", rest)
    BY <1>3 DEF ImplicitGrab
  <2> QED
    BY <1>2, <2>1 DEF ActivateGrab
<1>4. CASE ActivatePassive(ev, Matching(ev, 1, trace), rest)
  BY <1>2, <1>4 DEF ActivatePassive, ActivateGrab
<1>5. CASE DeactivateGrab(ev.dev, <<>>, rest)
  BY <1>0, <1>5 DEF DeactivateGrab, DeactivateGrabOn, GrabsPass, SyncTyped
<1> QED
  BY <1>1, <1>3, <1>4, <1>5 DEF Effect, FreezeFor, syncVars

\* also as one half of a repeat,
LEMMA ProcessPasses ==
  ASSUME GrabInv, NEW ev \in GoodEvent, NEW rest \in Seq(GoodCall), ProcessEvent(ev, rest)
  PROVE  GrabsPass
<1>0. KeysTyped /\ SyncTyped
  BY InvParts DEF ProcessInv
<1>1. PICK e2 \in GoodEvent, r2 \in Seq(GoodCall) : Effect(e2, r2)
  BY <1>0, ProcessEffect
<1> QED
  BY <1>0, <1>1, EffectPasses

\* and so does an event that is replayed.
LEMMA ReplayPasses ==
  ASSUME GrabInv, Replay
  PROVE  GrabsPass
<1> DEFINE r == Head(work)
           d == r.ev.dev
<1>1. work # <<>> /\ r.op = "replay"
  BY DEF Replay, Now
<1>2. d \in Devices
  BY <1>1, PopGood, InvParts, EventFields DEF GoodCall
<1>3. CASE \E S : ActivatePassive(r.ev, S, Tail(work))
  <2>1. \E g : grab' = [grab EXCEPT ![d] = g] /\ fromPassive' = [fromPassive EXCEPT ![d] = TRUE]
    BY <1>3 DEF ActivatePassive, ActivateGrab
  <2> HIDE DEF d
  <2> QED
    BY <1>2, <2>1, InvParts DEF GrabsPass, SyncTyped
<1>4. CASE ImplicitGrab(r.ev, Tail(work))
  <2>1. \E g : grab' = [grab EXCEPT ![d] = g] /\ fromPassive' = [fromPassive EXCEPT ![d] = TRUE]
    BY <1>4 DEF ImplicitGrab, ActivateGrab
  <2> HIDE DEF d
  <2> QED
    BY <1>2, <2>1, InvParts DEF GrabsPass, SyncTyped
<1>5. CASE UNCHANGED syncVars
  BY <1>5 DEF GrabsPass, syncVars
<1> QED
  BY <1>3, <1>4, <1>5 DEF Replay, Then, DeliverUngrabbed

\* The calls of DeleteWindowFromAnyEvents look at every device,
LEMMA EvictDooms ==
  ASSUME NEW w \in Windows, NEW d \in Devices
  PROVE  Doomed(EvictFrom(w), d, w)
<1>1. PICK i \in 1 .. Len(EvictOrder) : EvictOrder[i] = d
  BY DeviceAssumption
<1>2. Len(EvictOrder) \in Nat
  BY DeviceAssumption, LenProperties
<1>3. EvictFrom(w)[i] = DoWindow("evict", d, w, 0)
  BY <1>1 DEF EvictFrom
<1>4. Len(EvictFrom(w)) = Len(EvictOrder)
  BY <1>2 DEF EvictFrom
<1>5. Dooms(EvictFrom(w)[i], d, w)
  BY <1>3 DEF Dooms, DoWindow, Item
<1> QED
  BY <1>4, <1>5 DEF Doomed

\* and unmapping a window goes through all that are no longer realized.
LEMMA UnmapDooms ==
  ASSUME GrabInv, NEW w \in 2 .. Depth, NEW d, NEW x \in Nat, x > Unmapped(w), x <= realized
  PROVE  Doomed(UnmapCalls(w), d, x) /\ Doomed(DeleteCalls(w), d, x)
<1>1. realized \in Nat /\ w \in Nat
  BY InvParts, ClientAssumption DEF WindowTyped, Windows
<1>2. w <= x /\ w <= realized
  BY <1>1 DEF Unmapped
<1>3. UnmapCalls(w) = <<DoWindow("unrealize", NoDev, w, realized)>>
  BY <1>1, <1>2 DEF UnmapCalls
<1>4. Dooms(DoWindow("unrealize", NoDev, w, realized), d, x)
  BY <1>2 DEF Dooms, DoWindow, Item
<1>5. Doomed(UnmapCalls(w), d, x)
  <2>1. Len(UnmapCalls(w)) = 1 /\ UnmapCalls(w)[1] = DoWindow("unrealize", NoDev, w, realized)
    BY <1>3
  <2> QED
    BY <1>4, <2>1 DEF Doomed
<1>6. UnmapCalls(w) \in Seq(GoodCall) /\ <<DoWindow("crush", NoDev, w, 0)>> \in Seq(GoodCall)
  BY WindowCallsGood, WindowCallGood
<1> QED
  BY <1>5, <1>6, DoomedOver DEF DeleteCalls

\* The window of a grab is a number.
LEMMA GrabWindow ==
  ASSUME GrabInv, NEW d \in Devices
  PROVE  grab[d].win \in Nat /\ realized \in Nat
BY InvParts, ClientAssumption DEF SyncTyped, WindowTyped, Grab, NoGrab, Windows

\* DeleteWindowFromAnyEvents, one device.
LEMMA EvictViews ==
  ASSUME GrabInv, ViewInv, WindowTyped', Evict
  PROVE  ViewInv'
<1> DEFINE r == Head(work)
<1>0. /\ work # <<>> /\ r.op = "evict" /\ r.dev \in Devices /\ realized' = realized
      /\ work \in Seq(GoodCall) /\ Tail(work) \in Seq(GoodCall)
  BY InvParts, PopGood DEF Evict, Now, SyncOnly, windowVars, GoodCall, CallsGood
<1>1. CASE grab[r.dev].win = r.win
  <2>1. DeactivateGrab(r.dev, <<>>, Tail(work))
    BY <1>1 DEF Evict, Then
  <2>2. /\ grab' = [grab EXCEPT ![r.dev] = NoGrab]
        /\ fromPassive' = [fromPassive EXCEPT ![r.dev] = FALSE]
        /\ work' = Tail(work) \/ work' = <<Do("play")>> \o Tail(work)
    BY <1>0, <2>1, FreezesThenRest DEF DeactivateGrab, DeactivateGrabOn
  <2>3. GrabsPass /\ grab'[r.dev] = NoGrab
    BY <1>0, <2>2, InvParts DEF GrabsPass, SyncTyped
  <2>4. ASSUME NEW d \in Devices, ~fromPassive[d], grab[d].win > realized, d # r.dev
        PROVE  Doomed(work', d, grab[d].win)
    <3>1. Doomed(work, d, grab[d].win)
      BY <2>4 DEF ViewInv
    <3>2. ~Dooms(r, d, grab[d].win)
      BY <1>0, <2>4 DEF Dooms
    <3>3. Doomed(Tail(work), d, grab[d].win)
      BY <1>0, <3>1, <3>2, DoomedBelow
    <3>4. <<Do("play")>> \in Seq(GoodCall)
      BY PlayGood
    <3> QED
      BY <1>0, <2>2, <3>3, <3>4, DoomedUnder
  <2> QED
    BY <1>0, <2>3, <2>4, ViewFromParts
<1>2. CASE grab[r.dev].win # r.win
  <2>1. UNCHANGED <<grab, fromPassive>>
    BY <1>2 DEF Evict, syncVars
  <2>2. GrabsPass
    BY <2>1 DEF GrabsPass
  <2>3. \A d \in Devices : ~Dooms(r, d, grab[d].win)
    BY <1>0, <1>2 DEF Dooms
  <2>4. Pushes(GoodCall)
    BY StepPushesGood DEF Step
  <2> QED
    BY <1>0, <2>2, <2>3, <2>4, ViewStays
<1> QED
  BY <1>1, <1>2

\* UnrealizeTree, one window: its grabs are looked at now and those of the windows
\* below it later.
LEMMA UnrealizeViews ==
  ASSUME GrabInv, ViewInv, WindowTyped', Unrealize
  PROVE  ViewInv'
<1> DEFINE r == Head(work)
           next == IF r.win = r.last THEN Do("retrace")
                   ELSE DoWindow("unrealize", NoDev, r.win + 1, r.last)
<1>0. /\ work # <<>> /\ r.op = "unrealize" /\ realized' = realized
      /\ UNCHANGED <<grab, fromPassive>>
      /\ work' = EvictFrom(r.win) \o <<next>> \o Tail(work)
  BY DEF Unrealize, Now, Then, SyncOnly, windowVars, syncVars
<1>1. /\ r.win \in Windows /\ r.last \in Windows /\ r.win <= r.last
      /\ work \in Seq(GoodCall) /\ Tail(work) \in Seq(GoodCall)
  <2>1. r \in GoodCall /\ Tail(work) \in Seq(GoodCall) /\ work \in Seq(GoodCall)
    BY <1>0, PopGood, InvParts DEF CallsGood
  <2> QED
    BY <1>0, <2>1, ClientAssumption DEF GoodCall, Call, Windows
<1>2. EvictFrom(r.win) \in Seq(GoodCall)
  BY <1>1, EvictFromGood
<1>3. next \in GoodCall
  <2>1. CASE r.win = r.last
    BY <2>1, PlayGood
  <2>2. CASE r.win # r.last
    <3>1. r.win + 1 \in Windows /\ r.win + 1 <= r.last
      BY <1>1, <2>2, ClientAssumption DEF Windows
    <3> QED
      BY <1>1, <2>2, <3>1, UnrealizeGood
  <2> QED
    BY <2>1, <2>2
<1>4. <<next>> \in Seq(GoodCall) /\ Len(<<next>>) = 1 /\ <<next>>[1] = next
  BY <1>3
<1>5. ASSUME NEW d \in Devices, ~fromPassive[d], grab[d].win > realized
      PROVE  Doomed(work', d, grab[d].win)
  <2> DEFINE x == grab[d].win
  <2>0. x \in Nat
    BY GrabWindow
  <2>1. Doomed(work, d, x)
    BY <1>5 DEF ViewInv
  <2>2. CASE Doomed(Tail(work), d, x)
    <3>1. EvictFrom(r.win) \o <<next>> \in Seq(GoodCall)
      BY <1>2, <1>4, ConcatProperties
    <3> HIDE DEF next, x, r
    <3> QED
      BY <1>0, <1>1, <2>2, <3>1, DoomedUnder DEF x
  <2>3. CASE Dooms(r, d, x)
    <3>1. r.win <= x /\ x <= r.last
      BY <1>0, <2>3 DEF Dooms
    <3>2. CASE x = r.win
      <4>1. Doomed(EvictFrom(r.win), d, x)
        BY <1>1, <3>2, EvictDooms
      <4> HIDE DEF next, x, r
      <4>2. Doomed(EvictFrom(r.win) \o <<next>>, d, x)
        BY <1>2, <1>4, <4>1, DoomedOver
      <4>3. EvictFrom(r.win) \o <<next>> \in Seq(GoodCall)
        BY <1>2, <1>4, ConcatProperties
      <4> QED
        BY <1>0, <1>1, <4>2, <4>3, DoomedOver DEF x
    <3>3. CASE x # r.win
      <4>1. r.win # r.last /\ r.win + 1 <= x
        BY <1>1, <2>0, <3>1, <3>3, ClientAssumption DEF Windows
      <4>2. Dooms(next, d, x)
        BY <3>1, <4>1 DEF Dooms, DoWindow, Item
      <4> HIDE DEF next, x, r
      <4>3. Doomed(<<next>>, d, x)
        BY <1>4, <4>2 DEF Doomed
      <4>4. Doomed(EvictFrom(r.win) \o <<next>>, d, x)
        BY <1>2, <1>4, <4>3, DoomedUnder
      <4>5. EvictFrom(r.win) \o <<next>> \in Seq(GoodCall)
        BY <1>2, <1>4, ConcatProperties
      <4> QED
        BY <1>0, <1>1, <4>4, <4>5, DoomedOver DEF x
    <3> QED
      BY <3>2, <3>3
  <2> QED
    BY <1>0, <1>1, <2>1, <2>2, <2>3, DoomedBelow
<1>6. GrabsPass
  BY <1>0 DEF GrabsPass
<1> QED
  BY <1>0, <1>5, <1>6, ViewFromParts

\* FreeClientResources: a window is unmapped before it is destroyed.
LEMMA FreeViews ==
  ASSUME GrabInv, ViewInv, WindowTyped', Free
  PROVE  ViewInv'
<1>0. /\ work # <<>> /\ Head(work).op = "free" /\ UNCHANGED <<grab, fromPassive>>
      /\ work \in Seq(GoodCall) /\ Head(work).client \in Clients
  BY InvParts, PopGood DEF Free, Now, CallsGood, syncVars, GoodCall
<1>1. GrabsPass
  BY <1>0 DEF GrabsPass
<1>2. CASE realized' = realized
  <2>1. Pushes(GoodCall)
    BY StepPushesGood DEF Step
  <2>2. \A d \in Devices : ~Dooms(Head(work), d, grab[d].win)
    BY <1>0 DEF Dooms
  <2> QED
    BY <1>1, <1>2, <2>1, <2>2, ViewStays
<1>3. ASSUME NEW w \in 1 .. alive, WinOwner[w] = Head(work).client,
             work' = DeleteCalls(w) \o work, realized' = Unmapped(w)
      PROVE  ViewInv'
  <2>1. w \in 2 .. Depth
    BY <1>0, <1>3, InvParts, ClientAssumption DEF WindowTyped, Windows
  <2>2. DeleteCalls(w) \in Seq(GoodCall)
    BY <2>1, WindowCallsGood
  <2> SUFFICES ASSUME NEW d \in Devices, ~fromPassive[d], grab[d].win > realized'
               PROVE  Doomed(work', d, grab[d].win)
    BY <1>1, ViewFromParts
  <2>3. CASE grab[d].win > realized
    <3>1. Doomed(work, d, grab[d].win)
      BY <2>3 DEF ViewInv
    <3> QED
      BY <1>0, <1>3, <2>2, <3>1, DoomedUnder
  <2>4. CASE grab[d].win <= realized
    <3>1. Doomed(DeleteCalls(w), d, grab[d].win)
      BY <1>3, <2>1, <2>4, GrabWindow, UnmapDooms
    <3> QED
      BY <1>0, <1>3, <2>2, <3>1, DoomedOver
  <2> QED
    BY <2>3, <2>4, GrabWindow
<1> QED
  BY <1>2, <1>3 DEF Free

\* A device event, queued or processed.
LEMMA DeviceEventViews ==
  ASSUME GrabInv, ViewInv, WindowTyped', NEW d \in Devices, NEW k \in Keys \cup {0},
         NEW type \in {"press", "release", "motion"}, DeviceEvent(d, type, k)
  PROVE  ViewInv'
<1> DEFINE ev == [dev |-> d, type |-> type, key |-> k, n |-> events + 1]
<1>0. Idle
  BY DEF DeviceEvent
<1>1. CASE frozen[d]
  <2>1. UNCHANGED <<grab, fromPassive, realized>> /\ work' = work
    BY <1>1 DEF DeviceEvent, syncVars, windowVars
  <2> QED
    BY <2>1 DEF ViewInv
<1>2. CASE ~frozen[d]
  <2>1. /\ ProcessEvent(ev, <<>>) /\ events < MaxEvents /\ (k = 0 <=> type = "motion")
    BY <1>2 DEF DeviceEvent
  <2>2. ev \in GoodEvent
    BY <2>1, InvParts, BoundAssumption DEF GoodEvent, Event, RequestTyped
  <2> HIDE DEF ev
  <2>3. <<>> \in Seq(GoodCall)
    OBVIOUS
  <2>4. GrabsPass /\ realized' = realized
    BY <2>1, <2>2, <2>3, ProcessPasses DEF ProcessEvent
  <2>5. \A e \in Devices : ~fromPassive[e] => ~(grab[e].win > realized)
    BY <1>0, IdleViews, GrabWindow
  <2> QED
    BY <2>4, <2>5, ViewFromParts
<1> QED
  BY <1>1, <1>2

\* The steps of the calls in progress.
LEMMA StepViews ==
  ASSUME GrabInv, ViewInv, WindowTyped', Step
  PROVE  ViewInv'
<1> DEFINE Other == Play \/ PlayEnds \/ Replay \/ Hold \/ Repeat \/ Retrace \/ Crush \/ Drop
                    \/ Release \/ Gone
<1>1. CASE Other
  <2>1. work # <<>> /\ Head(work).op \notin {"evict", "unrealize"} /\ realized' = realized
    BY <1>1 DEF Play, PlayEnds, Replay, Hold, Repeat, Retrace, Crush, Drop, Release, Gone, Now,
                ProcessEvent, SyncOnly, windowVars
  <2>2. \A d \in Devices : ~Dooms(Head(work), d, grab[d].win)
    BY <2>1 DEF Dooms
  <2>3. GrabsPass
    <3>1. CASE Play
      <4>1. PICK i \in Playable : ProcessEvent(pending[i], work)
        BY <3>1 DEF Play
      <4>2. pending[i] \in GoodEvent /\ work \in Seq(GoodCall)
        BY <4>1, InvParts, ElementOfSeq DEF QueueGood, Playable, CallsGood
      <4> QED
        BY <4>1, <4>2, ProcessPasses
    <3>2. CASE Repeat
      <4>1. Head(work).ev \in GoodEvent /\ Tail(work) \in Seq(GoodCall)
        BY <2>1, <3>2, PopGood, InvParts DEF Repeat, Now, GoodCall
      <4>2. UNCHANGED syncVars \/ ProcessEvent(Head(work).ev, Tail(work))
        BY <3>2 DEF Repeat, Then
      <4>3. CASE UNCHANGED syncVars
        BY <4>3 DEF GrabsPass, syncVars
      <4> QED
        BY <4>1, <4>2, <4>3, ProcessPasses
    <3>3. CASE Replay
      BY <3>3, ReplayPasses
    <3>4. CASE Release
      <4>1. CASE \E d \in Devices : DeactivateGrab(d, <<>>, work)
        <5>1. \E d \in Devices : /\ grab' = [grab EXCEPT ![d] = NoGrab]
                                 /\ fromPassive' = [fromPassive EXCEPT ![d] = FALSE]
          BY <4>1 DEF DeactivateGrab, DeactivateGrabOn
        <5> QED
          BY <5>1, InvParts DEF GrabsPass, SyncTyped
      <4>2. CASE UNCHANGED syncVars
        BY <4>2 DEF GrabsPass, syncVars
      <4> QED
        BY <3>4, <4>1, <4>2 DEF Release
    <3>5. CASE PlayEnds \/ Hold \/ Retrace \/ Crush \/ Drop \/ Gone
      <4>1. UNCHANGED <<grab, fromPassive>>
        BY <3>5 DEF PlayEnds, Hold, Retrace, Crush, Drop, Gone, syncVars
      <4> QED
        BY <4>1 DEF GrabsPass
    <3> QED
      BY <1>1, <3>1, <3>2, <3>3, <3>4, <3>5
  <2>4. Pushes(GoodCall)
    BY StepPushesGood
  <2> QED
    BY <2>1, <2>2, <2>3, <2>4, ViewStays
<1> QED
  BY <1>1, EvictViews, UnrealizeViews, FreeViews DEF Step

\* A request finds every such grab on a window that is viewable.
LEMMA RequestViews ==
  ASSUME GrabInv, ViewInv, WindowTyped', NEW c \in Clients, ClientStep(c)
  PROVE  ViewInv'
<1>0. Idle
  BY DEF ClientStep, Ungrab, AllowEvents, AllowReplay, MayAllow, UngrabKey, GrabDevice, GrabKey,
         MapWindow, UnmapWindow, DestroyWindow, CloseDownClient, CloseDownRetained, Request
<1>1. /\ \A d \in Devices : ~fromPassive[d] => grab[d].win <= realized
      /\ \A d \in Devices : grab[d].win \in Nat /\ realized \in Nat /\ realized' \in Nat
  BY <1>0, IdleViews, GrabWindow, ClientAssumption DEF WindowTyped, Windows
<1>2. ASSUME GrabsPass, realized' >= realized
      PROVE  ViewInv'
  BY <1>1, <1>2, ViewFromParts
<1>3. ASSUME NEW d \in Devices, Ungrab(c, d) \/ AllowReplay(c, d)
      PROVE  ViewInv'
  <2>1. /\ grab' = [grab EXCEPT ![d] = NoGrab] /\ fromPassive' = [fromPassive EXCEPT ![d] = FALSE]
        /\ realized' = realized
    BY <1>3 DEF Ungrab, AllowReplay, DeactivateGrab, DeactivateGrabOn, SyncOnly, windowVars
  <2>2. GrabsPass
    BY <2>1, InvParts DEF GrabsPass, SyncTyped
  <2> QED
    BY <1>1, <1>2, <2>1, <2>2
<1>4. ASSUME NEW d \in Devices, NEW w \in Windows, NEW m \in Modes, NEW o \in Modes,
             GrabDevice(c, d, w, m, o)
      PROVE  ViewInv'
  \* GrabNotViewable
  <2>1. /\ grab' = [grab EXCEPT ![d] = [client |-> c, win |-> w]]
        /\ fromPassive' = [fromPassive EXCEPT ![d] = FALSE]
        /\ w <= realized /\ realized' = realized
    BY <1>4 DEF GrabDevice, ActivateGrab, SyncOnly, windowVars
  <2>2. w \in Nat /\ realized \in Nat /\ [client |-> c, win |-> w].win = w
    BY <1>1, ClientAssumption DEF Windows
  <2>3. /\ grab'[d] = [client |-> c, win |-> w]
        /\ \A e \in Devices \ {d} : grab'[e] = grab[e] /\ fromPassive'[e] = fromPassive[e]
    BY <2>1, InvParts DEF SyncTyped
  <2>4. grab'[d].win <= realized'
    BY <2>1, <2>2, <2>3
  <2>5. ASSUME NEW e \in Devices, ~fromPassive'[e], e # d
        PROVE  grab'[e].win <= realized'
    BY <1>1, <2>1, <2>3, <2>5
  <2>6. ASSUME NEW e \in Devices
        PROVE  grab'[e].win \in Nat /\ realized' \in Nat
    BY <1>1, <2>1, <2>2, <2>3, <2>6
  <2>7. \A x, y \in Nat : x <= y => ~(x > y)
    OBVIOUS
  <2> QED
    BY <2>4, <2>5, <2>6, <2>7 DEF ViewInv
<1>5. ASSUME NEW w \in Windows, UnmapWindow(c, w) \/ DestroyWindow(c, w)
      PROVE  ViewInv'
  <2>1. /\ w \in 2 .. Depth /\ realized' = Unmapped(w) /\ work' \in {UnmapCalls(w), DeleteCalls(w)}
        /\ UNCHANGED <<grab, fromPassive>>
    BY <1>5, ClientAssumption DEF UnmapWindow, DestroyWindow, Windows, syncVars
  <2>2. GrabsPass
    BY <2>1 DEF GrabsPass
  <2> SUFFICES ASSUME NEW d \in Devices, ~fromPassive[d], grab[d].win > realized'
               PROVE  Doomed(work', d, grab[d].win)
    BY <2>2, ViewFromParts
  <2> QED
    BY <1>1, <2>1, UnmapDooms
<1>6. ASSUME MapWindow(c)
      PROVE  ViewInv'
  <2>1. UNCHANGED <<grab, fromPassive>> /\ realized' \in (realized + 1) .. alive
    BY <1>6 DEF MapWindow, syncVars
  <2>2. GrabsPass
    BY <2>1 DEF GrabsPass
  <2>3. realized' >= realized
    BY <2>1, InvParts, ClientAssumption DEF WindowTyped, Windows
  <2> QED
    BY <1>2, <2>2, <2>3
<1>7. ASSUME \/ \E d \in Devices : \/ AllowEvents(c, d)
                                   \/ \E w \in Windows :
                                        \/ UngrabKey(c, d, w)
                                        \/ \E m, o \in Modes : GrabKey(c, d, w, m, o)
             \/ CloseDownClient(c) \/ CloseDownRetained(c)
      PROVE  ViewInv'
  <2>1. UNCHANGED <<grab, fromPassive, realized>>
    BY <1>7 DEF AllowEvents, UngrabKey, GrabKey, CloseDownClient, CloseDownRetained, SyncOnly,
                syncVars, windowVars
  <2>2. GrabsPass
    BY <2>1 DEF GrabsPass
  <2>3. realized' >= realized
    BY <2>1, InvParts, ClientAssumption DEF WindowTyped, Windows
  <2> QED
    BY <1>2, <2>2, <2>3
<1> QED
  BY <1>3, <1>4, <1>5, <1>6, <1>7 DEF ClientStep

\* The induction on the steps of the server.
LEMMA ViewStep ==
  ASSUME GrabInv, ViewInv, [Next]_vars
  PROVE  ViewInv'
<1>0. WindowTyped'
  BY GrabInvStep DEF GrabInv, Typed
<1>1. ASSUME NEW d \in Devices, NEW k \in Keys \cup {0},
             NEW type \in {"press", "release", "motion"}, DeviceEvent(d, type, k)
      PROVE  ViewInv'
  BY <1>0, <1>1, DeviceEventViews
<1>2. CASE Step
  BY <1>0, <1>2, StepViews
<1>3. ASSUME NEW c \in Clients, ClientStep(c)
      PROVE  ViewInv'
  BY <1>0, <1>3, RequestViews
<1>4. CASE UNCHANGED vars
  BY <1>4 DEF ViewInv, vars, syncVars, windowVars
<1> QED
  BY <1>1, <1>2, <1>3, <1>4 DEF Next

\* When a request has been executed, no device grabbed with GrabPointer or
\* GrabKeyboard is left on a window that is not viewable -- ActiveGrabViewable:
\* between the moment a window is unmapped and the moment its grabs are looked at
\* the calls in progress hold the call that will do so, whatever events are played
\* and whatever windows are destroyed in between.
THEOREM ActiveGrabsViewable == Spec => []ActiveGrabViewable
<1>1. Init => GrabInv /\ ViewInv
  <2>1. ASSUME Init
        PROVE  ViewInv
    <3>1. /\ \A d \in Devices : grab[d] = NoGrab
          /\ realized \in Nat
      BY <2>1, ClientAssumption DEF Init, Windows
    <3> QED
      BY <3>1 DEF ViewInv, NoGrab
  <2> QED
    BY <2>1, GrabInvInitially
<1>2. GrabInv /\ ViewInv /\ [Next]_vars => (GrabInv /\ ViewInv)'
  BY GrabInvStep, ViewStep
<1>3. GrabInv /\ ViewInv => ActiveGrabViewable
  BY IdleViews DEF ActiveGrabViewable
<1> QED
  BY <1>1, <1>2, <1>3, PTL DEF Spec

-----------------------------------------------------------------------------
(* The order of queued events.                                             *)

\* The events of key or button k of device d in the queue q, and what is said of
\* them: the first is the opposite of what DIX knows of the key, each is the
\* opposite of the one before, and the last is what the key really does.
Of(q, d, k) == {i \in 1 .. Len(q) : q[i].dev = d /\ q[i].key = k}

FirstOf(q, d, k, dn) ==
  \A i \in Of(q, d, k) : (\A j \in Of(q, d, k) : i <= j) => (q[i].type = "press" <=> ~dn)

NextOf(q, d, k) ==
  \A i, j \in Of(q, d, k) :
    i < j /\ (\A m \in Of(q, d, k) : m <= i \/ j <= m) =>
      (q[i].type = "press" <=> q[j].type # "press")

LastOf(q, d, k, dn, ph) ==
  ph <=> IF Of(q, d, k) = {} THEN dn
         ELSE \E i \in Of(q, d, k) : (\A j \in Of(q, d, k) : j <= i) /\ q[i].type = "press"

Alternates(q, d, k, dn, ph) ==
  FirstOf(q, d, k, dn) /\ NextOf(q, d, k) /\ LastOf(q, d, k, dn, ph)

\* The queue without its event i.
Removed(q, i) == SubSeq(q, 1, i - 1) \o SubSeq(q, i + 1, Len(q))
Skip(i, j) == IF j < i THEN j ELSE j + 1

\* What is left: the events before i, and those after it one place earlier.
LEMMA RemovedIs ==
  ASSUME NEW q \in Seq(GoodEvent), NEW i \in 1 .. Len(q)
  PROVE  /\ Len(Removed(q, i)) = Len(q) - 1
         /\ \A j \in 1 .. (Len(q) - 1) :
              Skip(i, j) \in 1 .. Len(q) /\ Removed(q, i)[j] = q[Skip(i, j)]
<1>0. Len(q) \in Nat
  OBVIOUS
<1>1. /\ SubSeq(q, 1, i - 1) \in Seq(GoodEvent) /\ Len(SubSeq(q, 1, i - 1)) = i - 1
      /\ \A j \in 1 .. (i - 1) : SubSeq(q, 1, i - 1)[j] = q[j]
  BY <1>0, SubSeqProperties
<1>2. /\ SubSeq(q, i + 1, Len(q)) \in Seq(GoodEvent)
      /\ Len(SubSeq(q, i + 1, Len(q))) = Len(q) - i
      /\ \A j \in 1 .. (Len(q) - i) : SubSeq(q, i + 1, Len(q))[j] = q[i + j]
  BY <1>0, SubSeqProperties
<1>3. /\ Len(Removed(q, i)) = (i - 1) + (Len(q) - i)
      /\ \A j \in 1 .. (i - 1) : Removed(q, i)[j] = q[j]
      /\ \A j \in i .. (Len(q) - 1) : Removed(q, i)[j] = SubSeq(q, i + 1, Len(q))[j - (i - 1)]
  <2> DEFINE s == SubSeq(q, 1, i - 1)
             t == SubSeq(q, i + 1, Len(q))
  <2>1. /\ s \in Seq(GoodEvent) /\ t \in Seq(GoodEvent) /\ Len(s) = i - 1 /\ Len(t) = Len(q) - i
    BY <1>1, <1>2
  <2> HIDE DEF s, t
  <2>2. /\ Len(s \o t) = (i - 1) + (Len(q) - i)
        /\ \A j \in 1 .. (i - 1) : (s \o t)[j] = s[j]
        /\ \A j \in i .. (Len(q) - 1) : (s \o t)[j] = t[j - (i - 1)]
    BY <1>0, <2>1
  <2> QED
    BY <1>1, <2>2 DEF Removed, s, t
<1>4. \A j \in i .. (Len(q) - 1) : j - (i - 1) \in 1 .. (Len(q) - i) /\ i + (j - (i - 1)) = j + 1
  BY <1>0
<1>5. \A j \in i .. (Len(q) - 1) : Removed(q, i)[j] = q[j + 1]
  BY <1>2, <1>3, <1>4
<1> QED
  BY <1>0, <1>3, <1>5 DEF Skip

\* What is left of a key's events when the first event of its device goes.
LEMMA RemovedOf ==
  ASSUME NEW q \in Seq(GoodEvent), NEW i \in 1 .. Len(q), NEW d, NEW k
  PROVE  /\ \A j \in Of(Removed(q, i), d, k) :
              /\ Skip(i, j) \in Of(q, d, k) /\ Skip(i, j) # i
              /\ Removed(q, i)[j] = q[Skip(i, j)]
         /\ \A m \in Of(q, d, k) : m # i => \E j \in Of(Removed(q, i), d, k) : Skip(i, j) = m
         /\ \A j, m \in Of(Removed(q, i), d, k) : j <= m <=> Skip(i, j) <= Skip(i, m)
         /\ Of(q, d, k) \subseteq Nat /\ Of(Removed(q, i), d, k) \subseteq Nat
<1>0. Len(q) \in Nat /\ Len(Removed(q, i)) = Len(q) - 1
  BY RemovedIs
<1>1. \A j \in Of(Removed(q, i), d, k) :
        /\ Skip(i, j) \in Of(q, d, k) /\ Removed(q, i)[j] = q[Skip(i, j)]
  BY <1>0, RemovedIs DEF Of
<1>2. \A j \in 1 .. (Len(q) - 1) : Skip(i, j) # i
  BY <1>0 DEF Skip
<1>3. ASSUME NEW m \in Of(q, d, k), m # i
      PROVE  \E j \in Of(Removed(q, i), d, k) : Skip(i, j) = m
  <2>1. CASE m < i
    <3>1. m \in 1 .. (Len(q) - 1) /\ Skip(i, m) = m
      BY <1>0, <2>1 DEF Of, Skip
    <3>2. m \in Of(Removed(q, i), d, k)
      BY <1>0, <3>1, RemovedIs DEF Of
    <3> QED
      BY <3>1, <3>2
  <2>2. CASE ~(m < i)
    <3>1. m - 1 \in 1 .. (Len(q) - 1) /\ Skip(i, m - 1) = m
      BY <1>0, <1>3, <2>2 DEF Of, Skip
    <3>2. m - 1 \in Of(Removed(q, i), d, k)
      BY <1>0, <3>1, RemovedIs DEF Of
    <3> QED
      BY <3>1, <3>2
  <2> QED
    BY <2>1, <2>2
<1>4. \A j, m \in 1 .. (Len(q) - 1) : j <= m <=> Skip(i, j) <= Skip(i, m)
  BY <1>0 DEF Skip
<1>5. /\ Of(q, d, k) \subseteq 1 .. Len(q)
      /\ Of(Removed(q, i), d, k) \subseteq 1 .. (Len(q) - 1)
  BY <1>0 DEF Of
<1> QED
  BY <1>1, <1>2, <1>3, <1>4, <1>5

\* The first event of a device is played.
LEMMA RemovedAlternates ==
  ASSUME NEW q \in Seq(GoodEvent), NEW i \in 1 .. Len(q),
         \A j \in 1 .. (i - 1) : q[j].dev # q[i].dev,
         NEW d, NEW k, NEW dn \in BOOLEAN, NEW ph \in BOOLEAN, Alternates(q, d, k, dn, ph)
  PROVE  Alternates(Removed(q, i), d, k,
                    IF q[i].dev = d /\ q[i].key = k THEN q[i].type = "press" ELSE dn, ph)
<1> DEFINE r == Removed(q, i)
           A == Of(q, d, k)
           B == Of(r, d, k)
           f(j) == Skip(i, j)
           dn2 == IF q[i].dev = d /\ q[i].key = k THEN q[i].type = "press" ELSE dn
<1>1. /\ \A j \in B : f(j) \in A /\ f(j) # i /\ r[j] = q[f(j)]
      /\ \A m \in A : m # i => \E j \in B : f(j) = m
      /\ \A j, m \in B : j <= m <=> f(j) <= f(m)
      /\ A \subseteq Nat /\ B \subseteq Nat /\ i \in Nat
  BY RemovedOf
<1>2. i \in A => /\ \A m \in A : i <= m
                 /\ dn2 <=> q[i].type = "press"
  <2>1. ASSUME i \in A, NEW m \in A
        PROVE  i <= m
    <3>1. q[m].dev = q[i].dev /\ m \in 1 .. Len(q)
      BY <2>1 DEF Of
    <3>2. m \notin 1 .. (i - 1)
      BY <3>1
    <3> QED
      BY <3>1, <3>2
  <2> QED
    BY <2>1 DEF Of
<1>3. i \notin A => (dn2 <=> dn)
  BY DEF Of
<1>4. /\ \A x \in A : (\A y \in A : x <= y) => (q[x].type = "press" <=> ~dn)
      /\ \A x, y \in A :
           x < y /\ (\A m \in A : m <= x \/ y <= m) => (q[x].type = "press" <=> q[y].type # "press")
      /\ ph <=> IF A = {} THEN dn
                ELSE \E x \in A : (\A y \in A : y <= x) /\ q[x].type = "press"
  BY DEF Alternates, FirstOf, NextOf, LastOf
<1>a. dn2 \in BOOLEAN
  OBVIOUS
<1> HIDE DEF A, B, f, r, dn2
<1>5. \A j \in B : (\A m \in B : j <= m) => (r[j].type = "press" <=> ~dn2)
  <2> SUFFICES ASSUME NEW j \in B, \A m \in B : j <= m
               PROVE  q[f(j)].type = "press" <=> ~dn2
    BY <1>1
  <2>1. \A x \in A : x # i => f(j) <= x
    BY <1>1
  <2>2. CASE i \in A
    <3>0. f(j) \in A /\ f(j) # i /\ f(j) \in Nat /\ i \in Nat /\ i <= f(j)
      BY <1>1, <1>2, <2>2
    <3>a. i < f(j)
      BY <3>0
    <3>b. ASSUME NEW m \in A
          PROVE  m <= i \/ f(j) <= m
      <4>1. m = i => m <= i
        BY <3>0
      <4> QED
        BY <2>1, <4>1
    <3>1. f(j) \in A /\ i < f(j) /\ \A m \in A : m <= i \/ f(j) <= m
      BY <3>0, <3>a, <3>b
    <3>2. q[i].type = "press" <=> q[f(j)].type # "press"
      BY <1>1, <1>4, <2>2, <3>1
    <3> QED
      <4>1. dn2 <=> q[i].type = "press"
        BY <1>2, <2>2
      <4>2. q[f(j)].type # "press" <=> dn2
        BY <3>2, <4>1
      <4> QED
        BY <4>2
  <2>3. CASE i \notin A
    <3>1. \A x \in A : f(j) <= x
      BY <2>1, <2>3
    <3>2. q[f(j)].type = "press" <=> ~dn
      BY <1>1, <1>4, <3>1
    <3> QED
      BY <1>3, <2>3, <3>2
  <2> QED
    BY <2>2, <2>3
<1>6. \A j, m \in B : j < m /\ (\A n \in B : n <= j \/ m <= n) =>
        (r[j].type = "press" <=> r[m].type # "press")
  <2> SUFFICES ASSUME NEW j \in B, NEW m \in B, j < m, \A n \in B : n <= j \/ m <= n
               PROVE  q[f(j)].type = "press" <=> q[f(m)].type # "press"
    BY <1>1
  <2>1. f(j) < f(m)
    <3>1. j \in Nat /\ m \in Nat /\ f(j) \in Nat /\ f(m) \in Nat
      BY <1>1
    <3>2. ~(m <= j)
      BY <3>1
    <3>3. ~(f(m) <= f(j))
      BY <1>1, <3>2
    <3> QED
      BY <3>1, <3>3
  <2>2. \A x \in A : x <= f(j) \/ f(m) <= x
    <3> SUFFICES ASSUME NEW x \in A
                 PROVE  x <= f(j) \/ f(m) <= x
      OBVIOUS
    <3>1. CASE x = i
      BY <1>1, <1>2, <3>1
    <3>2. CASE x # i
      <4>1. PICK n \in B : f(n) = x
        BY <1>1, <3>2
      <4> QED
        BY <1>1, <4>1
    <3> QED
      BY <3>1, <3>2
  <2> QED
    BY <1>1, <1>4, <2>1, <2>2
<1>7. ph <=> IF B = {} THEN dn2
             ELSE \E j \in B : (\A m \in B : m <= j) /\ r[j].type = "press"
  <2>1. CASE B = {}
    <3>1. \A m \in A : m = i
      BY <1>1, <2>1
    <3>2. CASE i \in A
      <4>1. (\E x \in A : (\A y \in A : y <= x) /\ q[x].type = "press") <=> q[i].type = "press"
        BY <1>1, <3>1, <3>2
      <4>2. ph <=> q[i].type = "press"
        BY <1>4, <3>2, <4>1
      <4> QED
        BY <1>2, <2>1, <3>2, <4>2
    <3>3. CASE i \notin A
      <4>1. A = {}
        BY <3>1, <3>3
      <4> QED
        BY <1>3, <1>4, <2>1, <3>3, <4>1
    <3> QED
      BY <3>2, <3>3
  <2>2. CASE B # {}
    <3>1. A # {}
      BY <1>1, <2>2
    <3>2. ASSUME NEW x \in A, \A y \in A : y <= x, q[x].type = "press"
          PROVE  \E j \in B : (\A m \in B : m <= j) /\ r[j].type = "press"
      <4>1. x # i
        <5>1. PICK j \in B : TRUE
          BY <2>2
        <5>2. f(j) \in A /\ f(j) # i /\ f(j) <= x
          BY <1>1, <3>2, <5>1
        <5>3. i \in Nat /\ f(j) \in Nat
          BY <1>1, <5>2
        <5>4. ASSUME x = i
              PROVE  FALSE
          <6>1. i \in A /\ i <= f(j) /\ f(j) <= i
            BY <1>2, <5>2, <5>4
          <6> QED
            BY <5>2, <5>3, <6>1
        <5> QED
          BY <5>4
      <4>2. PICK j \in B : f(j) = x
        BY <1>1, <4>1
      <4>3. \A m \in B : m <= j
        BY <1>1, <3>2, <4>2
      <4> QED
        BY <1>1, <3>2, <4>2, <4>3
    <3>3. ASSUME NEW j \in B, \A m \in B : m <= j, r[j].type = "press"
          PROVE  \E x \in A : (\A y \in A : y <= x) /\ q[x].type = "press"
      <4>1. \A y \in A : y <= f(j)
        <5> SUFFICES ASSUME NEW y \in A
                     PROVE  y <= f(j)
          OBVIOUS
        <5>1. CASE y = i
          BY <1>1, <1>2, <5>1
        <5>2. CASE y # i
          <6>1. PICK m \in B : f(m) = y
            BY <1>1, <5>2
          <6> QED
            BY <1>1, <3>3, <6>1
        <5> QED
          BY <5>1, <5>2
      <4> QED
        BY <1>1, <3>3, <4>1
    <3> QED
      BY <1>4, <2>2, <3>1, <3>2, <3>3
  <2> QED
    BY <2>1, <2>2
<1> QED
  BY <1>5, <1>6, <1>7 DEF Alternates, FirstOf, NextOf, LastOf, B, r, dn2

\* An event is queued behind the others.
LEMMA AppendedAlternates ==
  ASSUME NEW q \in Seq(GoodEvent), NEW ev \in GoodEvent,
         NEW d, NEW k, NEW dn \in BOOLEAN, NEW ph \in BOOLEAN, Alternates(q, d, k, dn, ph),
         ev.dev = d /\ ev.key = k => (ev.type = "press" <=> ~ph)
  PROVE  Alternates(Append(q, ev), d, k, dn,
                    IF ev.dev = d /\ ev.key = k THEN ev.type = "press" ELSE ph)
<1> DEFINE r == Append(q, ev)
           A == Of(q, d, k)
           B == Of(r, d, k)
           n == Len(q) + 1
<1>0. /\ Len(q) \in Nat /\ Len(r) = n /\ r[n] = ev
      /\ \A j \in 1 .. Len(q) : r[j] = q[j]
  OBVIOUS
<1>1. /\ \A j \in A : j \in B /\ r[j] = q[j] /\ j < n /\ j \in Nat
      /\ \A j \in B : j # n => j \in A
      /\ n \in B <=> ev.dev = d /\ ev.key = k
      /\ n \in Nat
  BY <1>0 DEF Of
<1>2. /\ \A x \in A : (\A y \in A : x <= y) => (q[x].type = "press" <=> ~dn)
      /\ \A x, y \in A :
           x < y /\ (\A m \in A : m <= x \/ y <= m) => (q[x].type = "press" <=> q[y].type # "press")
      /\ ph <=> IF A = {} THEN dn
                ELSE \E x \in A : (\A y \in A : y <= x) /\ q[x].type = "press"
  BY DEF Alternates, FirstOf, NextOf, LastOf
<1>3. n \in B => (ev.type = "press" <=> ~ph)
  BY <1>1
<1>a. n \in B => (n \in B /\ r[n].type = ev.type)
  BY <1>0
<1> HIDE DEF r, A, B, n
<1>4. ASSUME NEW x \in B, \A y \in B : x <= y
      PROVE  r[x].type = "press" <=> ~dn
  <2>1. CASE x = n
    <3>1. A = {}
      BY <1>1, <1>4, <2>1
    <3>2. ph <=> dn
      BY <1>2, <3>1
    <3> QED
      BY <1>3, <1>4, <1>a, <2>1, <3>2
  <2>2. CASE x # n
    <3>1. x \in A /\ r[x] = q[x] /\ \A y \in A : x <= y
      BY <1>1, <1>4, <2>2
    <3> QED
      BY <1>2, <3>1
  <2> QED
    BY <2>1, <2>2
<1>5. ASSUME NEW x \in B, NEW y \in B, x < y, \A m \in B : m <= x \/ y <= m
      PROVE  r[x].type = "press" <=> r[y].type # "press"
  <2>0. x # n
    BY <1>1, <1>5
  <2>1. x \in A /\ r[x] = q[x]
    BY <1>1, <2>0
  <2>2. CASE y = n
    <3>1. \A m \in A : m <= x
      BY <1>1, <1>5, <2>1, <2>2
    <3>2. (\E z \in A : (\A m \in A : m <= z) /\ q[z].type = "press") <=> q[x].type = "press"
      BY <1>1, <2>1, <3>1
    <3>3. ph <=> q[x].type = "press"
      BY <1>2, <2>1, <3>2
    <3> QED
      BY <1>3, <1>5, <1>a, <2>1, <2>2, <3>3
  <2>3. CASE y # n
    <3>1. y \in A /\ r[y] = q[y] /\ \A m \in A : m <= x \/ y <= m
      BY <1>1, <1>5, <2>3
    <3> QED
      BY <1>2, <1>5, <2>1, <3>1
  <2> QED
    BY <2>2, <2>3
<1>6. CASE n \in B
  <2>1. \A m \in B : m <= n
    BY <1>1
  <2>2. (\E x \in B : (\A m \in B : m <= x) /\ r[x].type = "press") <=> ev.type = "press"
    <3>1. ASSUME NEW x \in B, \A m \in B : m <= x
          PROVE  x = n
      BY <1>1, <1>6, <3>1
    <3> QED
      BY <1>6, <1>a, <2>1, <3>1
  <2>3. ev.type = "press" <=> IF B = {} THEN dn
                 ELSE \E x \in B : (\A m \in B : m <= x) /\ r[x].type = "press"
    BY <1>6, <2>2
  <2>4. ev.dev = d /\ ev.key = k
    BY <1>1, <1>6
  <2> QED
    BY <1>4, <1>5, <2>3, <2>4 DEF Alternates, FirstOf, NextOf, LastOf, B, r
<1>7. CASE n \notin B
  <2>1. B = A
    BY <1>1, <1>7
  <2>2. \A x \in A : r[x] = q[x]
    BY <1>1
  <2>3. ph <=> IF B = {} THEN dn
               ELSE \E x \in B : (\A m \in B : m <= x) /\ r[x].type = "press"
    BY <1>2, <2>1, <2>2
  <2>4. ~(ev.dev = d /\ ev.key = k)
    BY <1>1, <1>7
  <2> QED
    BY <1>4, <1>5, <2>3, <2>4 DEF Alternates, FirstOf, NextOf, LastOf, B, r
<1> QED
  BY <1>6, <1>7

\* A motion replaces a motion.
LEMMA ReplacedAlternates ==
  ASSUME NEW q \in Seq(GoodEvent), NEW n \in 1 .. Len(q), NEW ev \in GoodEvent,
         NEW d, NEW k, k # 0, NEW dn, NEW ph, Alternates(q, d, k, dn, ph),
         q[n].key = 0, ev.key = 0
  PROVE  Alternates([q EXCEPT ![n] = ev], d, k, dn, ph)
<1> DEFINE r == [q EXCEPT ![n] = ev]
<1>1. Len(r) = Len(q) /\ \A j \in 1 .. Len(q) : r[j] = IF j = n THEN ev ELSE q[j]
  BY ExceptSeq
<1> HIDE DEF r
<1>2. Of(r, d, k) = Of(q, d, k) /\ \A j \in Of(q, d, k) : r[j] = q[j]
  BY <1>1 DEF Of
<1> QED
  BY <1>2 DEF Alternates, FirstOf, NextOf, LastOf, r

\* The queue is only being played while the call that plays it is in progress, and
\* without multiple downs no press has to be repeated.
HasPlay(s) == \E i \in 1 .. Len(s) : s[i].op = "play"
CallsInv == work \in Seq(Without("repeat")) /\ (playing => HasPlay(work))

\* A call to play stays while others are pushed on it, and while others return.
LEMMA PlayUnder ==
  ASSUME NEW q \in Seq(GoodCall), NEW s \in Seq(GoodCall), HasPlay(s)
  PROVE  HasPlay(q \o s)
<1>1. PICK i \in 1 .. Len(s) : s[i].op = "play"
  BY DEF HasPlay
<1>2. Len(q) \in Nat /\ Len(s) \in Nat /\ Len(q \o s) = Len(q) + Len(s)
  BY ConcatProperties, LenProperties
<1>3. Len(q) + i \in 1 .. Len(q \o s) /\ (q \o s)[Len(q) + i] = s[i]
  BY <1>2
<1> QED
  BY <1>1, <1>3 DEF HasPlay

\* A call to play that is not the innermost stays when that one returns.
LEMMA PlayBelow ==
  ASSUME NEW s \in Seq(GoodCall), s # <<>>, HasPlay(s), Head(s).op # "play"
  PROVE  HasPlay(Tail(s))
<1>1. PICK i \in 1 .. Len(s) : s[i].op = "play"
  BY DEF HasPlay
<1>2. i # 1
  BY <1>1
<1>3. i - 1 \in 1 .. Len(Tail(s)) /\ Tail(s)[i - 1] = s[i]
  BY <1>2
<1> QED
  BY <1>1, <1>3 DEF HasPlay

\* ComputeFreezes sets playingEvents and plays the queue.
LEMMA FreezesPlay ==
  ASSUME NEW replay \in Seq(GoodCall), NEW rest \in Seq(GoodCall), ComputeFreezes(replay, rest)
  PROVE  playing' => playing \/ HasPlay(work')
<1>1. CASE playing' = playing
  BY <1>1
<1>2. CASE work' = replay \o <<Do("play")>> \o rest
  <2>1. <<Do("play")>> \in Seq(GoodCall) /\ Do("play").op = "play"
    BY PlayGood DEF Do, Item
  <2>2. HasPlay(<<Do("play")>>)
    <3>1. Len(<<Do("play")>>) = 1 /\ <<Do("play")>>[1] = Do("play")
      OBVIOUS
    <3> QED
      BY <2>1, <3>1 DEF HasPlay
  <2>3. HasPlay(replay \o <<Do("play")>>) /\ replay \o <<Do("play")>> \in Seq(GoodCall)
    BY <2>1, <2>2, PlayUnder, ConcatProperties
  <2>4. HasPlay((replay \o <<Do("play")>>) \o rest)
    <3> DEFINE s == replay \o <<Do("play")>>
    <3>1. s \in Seq(GoodCall) /\ HasPlay(s)
      BY <2>3
    <3> HIDE DEF s
    <3>2. PICK i \in 1 .. Len(s) : s[i].op = "play"
      BY <3>1 DEF HasPlay
    <3>3. i \in 1 .. Len(s \o rest) /\ (s \o rest)[i] = s[i]
      BY <3>1
    <3>4. HasPlay(s \o rest)
      BY <3>2, <3>3 DEF HasPlay
    <3> QED
      BY <3>4 DEF s
  <2> QED
    BY <1>2, <2>4
<1> QED
  BY <1>1, <1>2 DEF ComputeFreezes

\* An event that is processed,
LEMMA EffectPlays ==
  ASSUME WindowTyped, NEW ev \in GoodEvent, NEW rest \in Seq(GoodCall), Effect(ev, rest)
  PROVE  playing' => playing \/ HasPlay(work')
<1>0. ev.dev \in Devices /\ <<>> \in Seq(GoodCall)
  BY EventFields
<1>1. CASE playing' = playing
  BY <1>1
<1>2. CASE ImplicitGrab(ev, rest)
  <2>1. ComputeFreezes(<<>>, rest)
    BY <1>2 DEF ImplicitGrab, ActivateGrab, CheckGrabForSyncs
  <2> QED
    BY <1>0, <2>1, FreezesPlay
<1>3. CASE ActivatePassive(ev, Matching(ev, 1, trace), rest)
  <2>1. PICK w \in Matching(ev, 1, trace) :
          ComputeFreezes(<<>>, <<DoEvent("hold", w, ev)>> \o rest)
    BY <1>0, <1>3, ActivatePassiveSets
  <2>2. w \in 0 .. Depth
    BY ClientAssumption DEF Matching, WindowTyped, Windows
  <2>3. <<DoEvent("hold", w, ev)>> \o rest \in Seq(GoodCall)
    BY <2>2, EventCallGood, PushGood
  <2> QED
    BY <1>0, <2>1, <2>3, FreezesPlay
<1>4. CASE DeactivateGrab(ev.dev, <<>>, rest)
  BY <1>0, <1>4, FreezesPlay DEF DeactivateGrab, DeactivateGrabOn
<1> QED
  BY <1>1, <1>2, <1>3, <1>4 DEF Effect

\* and one that is replayed.
LEMMA ReplayPlays ==
  ASSUME GrabInv, Replay
  PROVE  playing' => playing \/ HasPlay(work')
<1> DEFINE r == Head(work)
           S == IF r.win <= trace' THEN Matching(r.ev, r.win + 1, trace') ELSE {}
<1>0. /\ work # <<>> /\ r.op = "replay" /\ r \in GoodCall /\ Tail(work) \in Seq(GoodCall)
      /\ <<>> \in Seq(GoodCall) /\ trace' \in Windows
  <2>1. work # <<>> /\ r.op = "replay" /\ trace' = realized
    BY DEF Replay, Now
  <2> QED
    BY <2>1, PopGood, InvParts DEF WindowTyped
<1>1. IF S # {} THEN ActivatePassive(r.ev, S, Tail(work))
      ELSE DeliverUngrabbed(r.ev, Tail(work))
  BY DEF Replay, Then
<1>2. r.ev \in GoodEvent /\ r.ev.dev \in Devices /\ r.win \in 0 .. Depth
  BY <1>0, EventFields DEF GoodCall, Call
<1>3. CASE S # {}
  <2>1. PICK w \in S : ComputeFreezes(<<>>, <<DoEvent("hold", w, r.ev)>> \o Tail(work))
    BY <1>1, <1>2, <1>3, ActivatePassiveSets
  <2>2. w \in 0 .. Depth
    BY <1>0, <1>2, <2>1, ClientAssumption DEF Matching, Windows
  <2>3. <<DoEvent("hold", w, r.ev)>> \o Tail(work) \in Seq(GoodCall)
    BY <1>0, <1>2, <2>2, EventCallGood, PushGood
  <2> QED
    BY <1>0, <2>1, <2>3, FreezesPlay
<1>4. CASE ImplicitGrab(r.ev, Tail(work))
  <2>1. ComputeFreezes(<<>>, Tail(work))
    BY <1>4 DEF ImplicitGrab, ActivateGrab, CheckGrabForSyncs
  <2> QED
    BY <1>0, <2>1, FreezesPlay
<1>5. CASE playing' = playing
  BY <1>5
<1> HIDE DEF S, r
<1> QED
  BY <1>1, <1>3, <1>4, <1>5 DEF DeliverUngrabbed

\* Steps that push calls keep the invariant of the calls.
LEMMA CallsStay ==
  ASSUME GrabInv, CallsInv, NEW p \in Seq(Without("repeat")),
         \/ work' = p \o work
         \/ work # <<>> /\ Head(work).op # "play" /\ work' = p \o Tail(work),
         playing' => playing \/ HasPlay(work')
  PROVE  CallsInv'
<1>0. /\ work \in Seq(GoodCall) /\ Without("repeat") \subseteq GoodCall
      /\ work \in Seq(Without("repeat"))
  BY InvParts DEF CallsGood, CallsInv, Without
<1>1. p \in Seq(GoodCall)
  BY <1>0, SeqMonotonic
<1>2. work # <<>> => Tail(work) \in Seq(GoodCall) /\ Tail(work) \in Seq(Without("repeat"))
  BY <1>0
<1>3. work' \in Seq(Without("repeat"))
  BY <1>0, <1>2, ConcatProperties
<1>4. playing => HasPlay(work')
  <2> SUFFICES ASSUME playing
               PROVE  HasPlay(work')
    OBVIOUS
  <2>1. HasPlay(work)
    BY DEF CallsInv
  <2>2. CASE work' = p \o work
    BY <1>0, <1>1, <2>1, <2>2, PlayUnder
  <2>3. CASE work # <<>> /\ Head(work).op # "play" /\ work' = p \o Tail(work)
    BY <1>0, <1>1, <1>2, <2>1, <2>3, PlayUnder, PlayBelow
  <2> QED
    BY <2>2, <2>3
<1> QED
  BY <1>3, <1>4 DEF CallsInv

\* Playing and holding repeats nothing.
LEMMA QuickWithout ==
  ASSUME NEW q \in Seq(Quick)
  PROVE  q \in Seq(Without("repeat"))
<1>1. Quick \subseteq Without("repeat")
  BY DEF Quick, Without
<1> QED
  BY <1>1, SeqMonotonic

\* An event that is not a repeat is processed as a whole.
LEMMA ProcessWhole ==
  ASSUME GrabInv, NEW ev \in GoodEvent, NEW rest \in Seq(GoodCall), ProcessEvent(ev, rest),
         ev.type = "press" => ev.key \notin down[ev.dev]
  PROVE  /\ \E q \in Seq(Without("repeat")) : work' = q \o rest
         /\ playing' => playing \/ HasPlay(work')
         /\ done' = [done EXCEPT ![ev.dev] = ev.n]
         /\ Moves(ev)
<1>0. KeysTyped /\ SyncTyped /\ WindowTyped
  BY InvParts DEF ProcessInv
<1>1. PICK e2 \in GoodEvent, r2 \in Seq(GoodCall) :
        Halves(ev, rest, e2, r2) /\ Effect(e2, r2) /\ Moves(e2)
  BY <1>0, ProcessEffect
<1>2. e2 = ev /\ r2 = rest
  BY <1>1 DEF Halves
<1> QED
  BY <1>0, <1>1, <1>2, EffectQuick, EffectPlays, QuickWithout DEF ProcessEvent

\* Events are numbered in the order in which they happen, and a motion has no key.
Numbered ==
  /\ \A d \in Devices : done[d] <= events
  /\ \A i \in 1 .. Len(pending) :
       pending[i].n <= events /\ (pending[i].type = "motion" => pending[i].key = 0)

\* The queue and what DIX knows of a key amount to what the key really does.
KeysInv ==
  \A d \in Devices, k \in Keys : Alternates(pending, d, k, k \in down[d], k \in phys[d])

OrderInv == CallsInv /\ Numbered /\ EventsInOrder /\ KeysInv

\* The order of the queue does not depend on anything but these variables.
LEMMA QuietOrder ==
  ASSUME OrderInv, CallsInv', UNCHANGED <<pending, done, down, phys, events>>
  PROVE  OrderInv'
<1>1. Numbered' /\ EventsInOrder'
  BY DEF OrderInv, Numbered, EventsInOrder
<1>2. KeysInv'
  <2>1. \A d \in Devices, k \in Keys : Alternates(pending, d, k, k \in down[d], k \in phys[d])
    BY DEF OrderInv, KeysInv
  <2>2. \A d \in Devices, k \in Keys : Alternates(pending', d, k, k \in down'[d], k \in phys'[d])
    BY <2>1
  <2> QED
    BY <2>2 DEF KeysInv
<1> QED
  BY <1>1, <1>2 DEF OrderInv

\* What DIX knows and where the key is are true or false, however they are written.
LEMMA AlternatesSame ==
  ASSUME NEW q, NEW d, NEW k, NEW dn, NEW dn2, NEW ph, NEW ph2,
         dn <=> dn2, ph <=> ph2, Alternates(q, d, k, dn, ph)
  PROVE  Alternates(q, d, k, dn2, ph2)
<1>1. FirstOf(q, d, k, dn2)
  BY DEF Alternates, FirstOf
<1>2. LastOf(q, d, k, dn2, ph2)
  BY DEF Alternates, LastOf
<1> QED
  BY <1>1, <1>2 DEF Alternates

\* A press or release moves its own key and no other.
LEMMA MovesKey ==
  ASSUME KeysTyped, NEW ev \in GoodEvent, ev.type = "motion" => ev.key = 0, Moves(ev),
         NEW d \in Devices, NEW k \in Keys
  PROVE  /\ ev.dev = d /\ ev.key = k => (k \in down'[d] <=> ev.type = "press")
         /\ ~(ev.dev = d /\ ev.key = k) => (k \in down'[d] <=> k \in down[d])
<1>0. /\ ev.dev \in Devices /\ ev.type \in {"press", "release", "motion"}
      /\ down \in [Devices -> SUBSET Keys] /\ 0 \notin Keys
  BY DeviceAssumption DEF KeysTyped, GoodEvent, Event
<1>1. down'[ev.dev] = IF ev.type = "press" THEN down[ev.dev] \cup {ev.key}
                      ELSE IF ev.type = "release" THEN down[ev.dev] \ {ev.key} ELSE down[ev.dev]
  BY <1>0 DEF Moves
<1>2. d # ev.dev => down'[d] = down[d]
  BY <1>0 DEF Moves
<1> QED
  BY <1>0, <1>1, <1>2

\* PlayReleasedEvents takes the first event of a device.
LEMMA PlayOrder ==
  ASSUME GrabInv, OrderInv, Play
  PROVE  OrderInv'
<1>1. PICK i \in Playable :
        /\ \A j \in Playable : i <= j
        /\ pending' = Removed(pending, i)
        /\ ProcessEvent(pending[i], work)
  BY DEF Play, Removed
<1> DEFINE ev == pending[i]
<1>2. /\ pending \in Seq(GoodEvent) /\ i \in 1 .. Len(pending) /\ ev \in GoodEvent
      /\ Len(pending) \in Nat /\ work \in Seq(GoodCall) /\ work # <<>>
  <2>1. pending \in Seq(GoodEvent) /\ i \in 1 .. Len(pending) /\ ev \in GoodEvent
    BY <1>1, InvParts, ElementOfSeq DEF QueueGood, Playable
  <2> QED
    BY <2>1, InvParts DEF CallsGood, Play, Now
<1>3. \A j \in 1 .. (i - 1) : pending[j].dev # ev.dev
  <2> SUFFICES ASSUME NEW j \in 1 .. (i - 1), pending[j].dev = ev.dev
               PROVE  FALSE
    OBVIOUS
  <2>1. j \in 1 .. Len(pending) /\ ~(i <= j)
    BY <1>2
  <2>2. j \in Playable
    BY <1>1, <2>1 DEF Playable
  <2> QED
    BY <1>1, <2>1, <2>2
<1>4. ev.dev \in Devices /\ (ev.type = "motion" => ev.key = 0) /\ (ev.type # "motion" => ev.key \in Keys)
      /\ ev.n <= events
  BY <1>2, EventFields DEF OrderInv, Numbered
<1>5. ev.type = "press" => ev.key \notin down[ev.dev]
  <2> SUFFICES ASSUME ev.type = "press"
               PROVE  ev.key \notin down[ev.dev]
    OBVIOUS
  <2>1. ev.key \in Keys
    BY <1>4
  <2>2. Alternates(pending, ev.dev, ev.key, ev.key \in down[ev.dev], ev.key \in phys[ev.dev])
    BY <1>4, <2>1 DEF OrderInv, KeysInv
  <2>3. i \in Of(pending, ev.dev, ev.key)
    BY <1>2 DEF Of
  <2>4. \A j \in Of(pending, ev.dev, ev.key) : i <= j
    BY <1>2, <1>3 DEF Of
  <2> QED
    BY <2>2, <2>3, <2>4 DEF Alternates, FirstOf
<1> HIDE DEF ev
<1>6. /\ \E q \in Seq(Without("repeat")) : work' = q \o work
      /\ playing' => playing \/ HasPlay(work')
      /\ done' = [done EXCEPT ![ev.dev] = ev.n]
      /\ Moves(ev)
  BY <1>1, <1>2, <1>5, ProcessWhole DEF ev
<1>7. UNCHANGED <<phys, events>>
  BY DEF Play, NothingElse, inputVars
<1>8. CallsInv'
  BY <1>2, <1>6, CallsStay DEF OrderInv
<1>9. Numbered'
  <2>1. \A d \in Devices : done'[d] <= events
    BY <1>4, <1>6, InvParts DEF OrderInv, Numbered, DoneTyped
  <2>2. ASSUME NEW j \in 1 .. Len(pending')
        PROVE  pending'[j].n <= events /\ (pending'[j].type = "motion" => pending'[j].key = 0)
    <3>1. Skip(i, j) \in 1 .. Len(pending) /\ pending'[j] = pending[Skip(i, j)]
      BY <1>1, <1>2, RemovedIs
    <3> QED
      BY <3>1 DEF OrderInv, Numbered
  <2> QED
    BY <1>7, <2>1, <2>2 DEF Numbered
<1>10. EventsInOrder'
  <2>1. Len(pending') = Len(pending) - 1
        /\ \A j \in 1 .. Len(pending') :
             Skip(i, j) \in 1 .. Len(pending) /\ pending'[j] = pending[Skip(i, j)]
    BY <1>1, <1>2, RemovedIs
  <2>2. \A j \in 1 .. Len(pending) :
          /\ pending[j].n > done[pending[j].dev]
          /\ \A m \in 1 .. (j - 1) : pending[m].dev = pending[j].dev => pending[m].n < pending[j].n
    BY DEF OrderInv, EventsInOrder
  <2>3. \A j \in 1 .. Len(pending) : pending[j].n \in Nat /\ pending[j].dev \in Devices
    <3>1. \A j \in 1 .. Len(pending) : pending[j] \in GoodEvent
      BY <1>2, ElementOfSeq
    <3> QED
      BY <3>1 DEF GoodEvent, Event
  <2>4. ASSUME NEW j \in 1 .. Len(pending')
        PROVE  pending'[j].n > done'[pending'[j].dev]
    <3> DEFINE m == Skip(i, j)
    <3>1. m \in 1 .. Len(pending) /\ pending'[j] = pending[m] /\ m # i
      <4>1. m # i
        BY <1>2, <2>1 DEF Skip
      <4> QED
        BY <2>1, <4>1
    <3> HIDE DEF m
    <3>2. CASE pending[m].dev = ev.dev
      <4>1. m \notin 1 .. (i - 1)
        BY <1>3, <3>2
      <4>2. i \in 1 .. (m - 1)
        BY <1>2, <3>1, <4>1
      <4>3. ev.n < pending[m].n
        BY <2>2, <3>1, <3>2, <4>2 DEF ev
      <4>4. done'[ev.dev] = ev.n
        BY <1>4, <1>6, InvParts DEF DoneTyped
      <4>5. ev.n \in Nat
        BY <1>2, <2>3 DEF ev
      <4> QED
        BY <2>3, <3>1, <3>2, <4>3, <4>4, <4>5
    <3>3. CASE pending[m].dev # ev.dev
      <4>1. done'[pending[m].dev] = done[pending[m].dev]
        BY <1>6, <2>3, <3>1, <3>3, InvParts DEF DoneTyped
      <4> QED
        BY <2>2, <3>1, <4>1
    <3> QED
      BY <3>2, <3>3
  <2>5. ASSUME NEW j \in 1 .. Len(pending'), NEW m \in 1 .. (j - 1),
               pending'[m].dev = pending'[j].dev
        PROVE  pending'[m].n < pending'[j].n
    <3>1. m \in 1 .. Len(pending') /\ Skip(i, m) \in 1 .. (Skip(i, j) - 1)
      BY <1>2, <2>1 DEF Skip
    <3> QED
      BY <2>1, <2>2, <2>5, <3>1
  <2> QED
    BY <2>4, <2>5 DEF EventsInOrder
<1>11. KeysInv'
  <2> SUFFICES ASSUME NEW d \in Devices, NEW k \in Keys
               PROVE  Alternates(pending', d, k, k \in down'[d], k \in phys'[d])
    BY DEF KeysInv
  <2>1. Alternates(pending, d, k, k \in down[d], k \in phys[d])
    BY DEF OrderInv, KeysInv
  <2>2. Alternates(pending', d, k,
          IF ev.dev = d /\ ev.key = k THEN ev.type = "press" ELSE k \in down[d], k \in phys[d])
    <3> DEFINE dn == k \in down[d]
               ph == k \in phys[d]
    <3>1. dn \in BOOLEAN /\ ph \in BOOLEAN /\ Alternates(pending, d, k, dn, ph)
      BY <2>1
    <3>2. \A j \in 1 .. (i - 1) : pending[j].dev # pending[i].dev
      BY <1>3 DEF ev
    <3> HIDE DEF dn, ph
    <3>3. Alternates(Removed(pending, i), d, k,
            IF pending[i].dev = d /\ pending[i].key = k THEN pending[i].type = "press" ELSE dn, ph)
      BY <1>2, <3>1, <3>2, RemovedAlternates
    <3> QED
      BY <1>1, <3>3 DEF ev, dn, ph
  <2>3. (IF ev.dev = d /\ ev.key = k THEN ev.type = "press" ELSE k \in down[d])
          <=> k \in down'[d]
    BY <1>2, <1>4, <1>6, MovesKey, InvParts DEF ProcessInv
  <2>4. k \in phys[d] <=> k \in phys'[d]
    BY <1>7
  <2> QED
    BY <2>2, <2>3, <2>4, AlternatesSame
<1> QED
  BY <1>8, <1>9, <1>10, <1>11 DEF OrderInv

\* A device event of a device that is frozen is queued,
LEMMA EnqueueOrder ==
  ASSUME GrabInv, OrderInv, NEW ev \in GoodEvent, EnqueueEvent(ev),
         ev.n = events + 1, events' = events + 1,
         ev.type = "motion" <=> ev.key = 0,
         ev.type = "press" => ev.key \notin phys[ev.dev],
         ev.type = "release" => ev.key \in phys[ev.dev],
         phys' = [phys EXCEPT ![ev.dev] = IF ev.type = "press" THEN @ \cup {ev.key}
                                          ELSE @ \ {ev.key}],
         UNCHANGED <<done, down, work, playing>>
  PROVE  OrderInv'
<1>0. /\ pending \in Seq(GoodEvent) /\ Len(pending) \in Nat /\ ev.dev \in Devices
      /\ events \in Nat /\ phys \in [Devices -> SUBSET Keys] /\ 0 \notin Keys
      /\ ev.type \in {"press", "release", "motion"} /\ done \in [Devices -> 0 .. MaxEvents]
      /\ \A i \in 1 .. Len(pending) : pending[i].n \in Nat /\ pending[i].dev \in Devices
  <2>1. pending \in Seq(GoodEvent) /\ done \in [Devices -> 0 .. MaxEvents] /\ events \in Nat
        /\ phys \in [Devices -> SUBSET Keys]
    BY InvParts, BoundAssumption DEF QueueGood, DoneTyped, RequestTyped
  <2>2. \A i \in 1 .. Len(pending) : pending[i] \in GoodEvent
    BY <2>1, ElementOfSeq
  <2>3. \A e \in GoodEvent : e.n \in Nat /\ e.dev \in Devices
                             /\ e.type \in {"press", "release", "motion"}
    BY BoundAssumption DEF GoodEvent, Event
  <2>4. Len(pending) \in Nat
    BY <2>1
  <2>5. ev.dev \in Devices /\ ev.type \in {"press", "release", "motion"}
    BY <2>3
  <2>6. \A i \in 1 .. Len(pending) : pending[i].n \in Nat /\ pending[i].dev \in Devices
    BY <2>2, <2>3
  <2>7. 0 \notin Keys
    BY DeviceAssumption
  <2> QED
    BY <2>1, <2>4, <2>5, <2>6, <2>7
<1>1. CallsInv'
  BY DEF OrderInv, CallsInv
<1>2. \A i \in 1 .. Len(pending') :
        \/ pending'[i] = ev /\ i = Len(pending')
        \/ i \in 1 .. Len(pending) /\ pending'[i] = pending[i]
  <2>1. CASE pending' = Append(pending, ev)
    BY <1>0, <2>1
  <2>2. CASE pending' = [pending EXCEPT ![Len(pending)] = ev] /\ Len(pending) > 0
    <3>1. Len(pending) \in 1 .. Len(pending)
      BY <1>0, <2>2
    <3>2. Len(pending') = Len(pending)
          /\ \A j \in 1 .. Len(pending) :
               pending'[j] = IF j = Len(pending) THEN ev ELSE pending[j]
      BY <1>0, <2>2, <3>1, ExceptSeq
    <3> QED
      BY <3>2
  <2> QED
    BY <2>1, <2>2 DEF EnqueueEvent
<1>3. Len(pending') \in Nat
  BY <1>0, EnqueueEventKeeps, InvParts DEF QueueGood
<1>4. Numbered'
  <2>1. \A d \in Devices : done'[d] <= events'
    BY <1>0 DEF OrderInv, Numbered
  <2>2. ASSUME NEW i \in 1 .. Len(pending')
        PROVE  pending'[i].n <= events' /\ (pending'[i].type = "motion" => pending'[i].key = 0)
    <3>1. CASE pending'[i] = ev
      BY <1>0, <3>1
    <3>2. CASE i \in 1 .. Len(pending) /\ pending'[i] = pending[i]
      <4>1. pending[i].n <= events /\ pending[i].n \in Nat
            /\ (pending[i].type = "motion" => pending[i].key = 0)
        BY <1>0, <3>2 DEF OrderInv, Numbered
      <4> QED
        BY <1>0, <3>2, <4>1
    <3> QED
      BY <1>2, <3>1, <3>2
  <2> QED
    BY <2>1, <2>2 DEF Numbered
<1>5. EventsInOrder'
  <2>1. \A i \in 1 .. Len(pending) :
          /\ pending[i].n > done[pending[i].dev]
          /\ \A j \in 1 .. (i - 1) : pending[j].dev = pending[i].dev => pending[j].n < pending[i].n
          /\ pending[i].n <= events
    BY DEF OrderInv, EventsInOrder, Numbered
  <2>2. done[ev.dev] <= events /\ done[ev.dev] \in Nat
    BY <1>0, BoundAssumption DEF OrderInv, Numbered
  <2>3. ASSUME NEW i \in 1 .. Len(pending')
        PROVE  /\ pending'[i].n > done[pending'[i].dev]
               /\ \A j \in 1 .. (i - 1) :
                    pending'[j].dev = pending'[i].dev => pending'[j].n < pending'[i].n
    <3>1. CASE pending'[i] = ev /\ i = Len(pending')
      <4>1. ev.n > done[ev.dev]
        BY <1>0, <2>2
      <4>2. ASSUME NEW j \in 1 .. (i - 1)
            PROVE  pending'[j].n < ev.n
        <5>1. j \in 1 .. Len(pending') /\ j # Len(pending')
          BY <1>3, <3>1
        <5>2. j \in 1 .. Len(pending) /\ pending'[j] = pending[j]
          BY <1>2, <5>1
        <5>3. pending[j].n \in Nat /\ pending[j].n <= events
          BY <1>0, <2>1, <5>2
        <5> QED
          BY <1>0, <5>2, <5>3
      <4> QED
        BY <3>1, <4>1, <4>2
    <3>2. CASE i \in 1 .. Len(pending) /\ pending'[i] = pending[i]
      <4>1. ASSUME NEW j \in 1 .. (i - 1)
            PROVE  j \in 1 .. Len(pending) /\ pending'[j] = pending[j]
        <5>1. j \in 1 .. Len(pending') /\ j # Len(pending')
          BY <1>3
        <5> QED
          BY <1>2, <5>1
      <4>2. pending'[i].n > done[pending'[i].dev]
        <5>1. pending[i].n > done[pending[i].dev]
          BY <2>1, <3>2
        <5> QED
          BY <3>2, <5>1
      <4>3. ASSUME NEW j \in 1 .. (i - 1), pending'[j].dev = pending'[i].dev
            PROVE  pending'[j].n < pending'[i].n
        <5>1. pending[j].dev = pending[i].dev /\ pending'[j] = pending[j]
              /\ pending'[i] = pending[i] /\ i \in 1 .. Len(pending)
          BY <3>2, <4>1, <4>3
        <5>2. pending[j].n < pending[i].n
          BY <2>1, <5>1
        <5> QED
          BY <5>1, <5>2
      <4> QED
        BY <4>2, <4>3
    <3> QED
      BY <1>2, <3>1, <3>2
  <2> QED
    BY <2>3 DEF EventsInOrder
<1>6. KeysInv'
  <2> SUFFICES ASSUME NEW d \in Devices, NEW k \in Keys
               PROVE  Alternates(pending', d, k, k \in down'[d], k \in phys'[d])
    BY DEF KeysInv
  <2> DEFINE dn == k \in down[d]
             ph == k \in phys[d]
  <2>1. dn \in BOOLEAN /\ ph \in BOOLEAN /\ Alternates(pending, d, k, dn, ph)
    BY DEF OrderInv, KeysInv
  <2>2. /\ ev.dev = d /\ ev.key = k => (ev.type = "press" <=> ~ph)
        /\ ev.dev = d /\ ev.key = k => (ev.type = "press" <=> k \in phys'[d])
        /\ ~(ev.dev = d /\ ev.key = k) => (ph <=> k \in phys'[d])
    <3>1. k # 0
      BY <1>0
    <3>2. /\ ev.dev = d => phys'[d] = IF ev.type = "press" THEN phys[d] \cup {ev.key}
                                      ELSE phys[d] \ {ev.key}
          /\ ev.dev # d => phys'[d] = phys[d]
      BY <1>0
    <3> QED
      BY <1>0, <3>1, <3>2
  <2>3. dn <=> k \in down'[d]
    OBVIOUS
  <2> HIDE DEF dn, ph
  <2>4. CASE pending' = Append(pending, ev)
    <3>1. Alternates(Append(pending, ev), d, k, dn,
                     IF ev.dev = d /\ ev.key = k THEN ev.type = "press" ELSE ph)
      BY <1>0, <2>1, <2>2, AppendedAlternates
    <3> DEFINE ph2 == IF ev.dev = d /\ ev.key = k THEN ev.type = "press" ELSE ph
               dn3 == k \in down'[d]
               ph3 == k \in phys'[d]
    <3>2. (ph2 <=> ph3) /\ (dn <=> dn3)
      BY <2>2, <2>3
    <3>3. Alternates(pending', d, k, dn, ph2)
      BY <2>4, <3>1
    <3> HIDE DEF ph2, dn3, ph3
    <3>4. Alternates(pending', d, k, dn3, ph3)
      BY <3>2, <3>3, AlternatesSame
    <3> QED
      BY <3>4 DEF dn3, ph3
  <2>5. CASE /\ ev.type = "motion" /\ Len(pending) > 0 /\ pending[Len(pending)].type = "motion"
             /\ pending' = [pending EXCEPT ![Len(pending)] = ev]
    <3>1. Len(pending) \in 1 .. Len(pending) /\ k # 0 /\ ev.key = 0
      BY <1>0, <2>5
    <3>2. pending[Len(pending)].key = 0
      BY <2>5, <3>1 DEF OrderInv, Numbered
    <3>3. Alternates([pending EXCEPT ![Len(pending)] = ev], d, k, dn, ph)
      BY <1>0, <2>1, <3>1, <3>2, ReplacedAlternates
    <3>4. ph <=> k \in phys'[d]
      BY <2>2, <3>1
    <3> QED
      BY <2>3, <2>5, <3>3, <3>4, AlternatesSame
  <2> QED
    BY <2>4, <2>5 DEF EnqueueEvent
<1> QED
  BY <1>1, <1>4, <1>5, <1>6 DEF OrderInv

\* and one of any other device finds none of its events in the queue.
LEMMA DirectOrder ==
  ASSUME GrabInv, OrderInv, Idle, NEW ev \in GoodEvent, ProcessEvent(ev, <<>>), ~frozen[ev.dev],
         ev.n = events + 1, events' = events + 1,
         ev.type = "motion" <=> ev.key = 0,
         ev.type = "press" => ev.key \notin phys[ev.dev],
         ev.type = "release" => ev.key \in phys[ev.dev],
         phys' = [phys EXCEPT ![ev.dev] = IF ev.type = "press" THEN @ \cup {ev.key}
                                          ELSE @ \ {ev.key}],
         pending' = pending
  PROVE  OrderInv'
<1>0. /\ ev.dev \in Devices /\ events \in Nat /\ phys \in [Devices -> SUBSET Keys]
      /\ 0 \notin Keys /\ done \in [Devices -> 0 .. MaxEvents] /\ <<>> \in Seq(GoodCall)
      /\ ev.key \in Keys \cup {0} /\ ev.type \in {"press", "release", "motion"}
      /\ (ev.type # "motion" => ev.key \in Keys)
      /\ \A i \in 1 .. Len(pending) : pending[i].n \in Nat
  <2>1. \A i \in 1 .. Len(pending) : pending[i] \in GoodEvent
    BY InvParts, ElementOfSeq DEF QueueGood
  <2>2. \A e \in GoodEvent : e.n \in Nat /\ e.type \in {"press", "release", "motion"}
    BY BoundAssumption DEF GoodEvent, Event
  <2>3. events \in Nat /\ phys \in [Devices -> SUBSET Keys] /\ done \in [Devices -> 0 .. MaxEvents]
    BY InvParts, BoundAssumption DEF RequestTyped, DoneTyped
  <2>4. ev.dev \in Devices /\ ev.key \in Keys \cup {0} /\ (ev.type # "motion" => ev.key \in Keys)
    BY EventFields
  <2>5. ev.type \in {"press", "release", "motion"}
    BY <2>2
  <2>6. \A i \in 1 .. Len(pending) : pending[i].n \in Nat
    BY <2>1, <2>2
  <2>7. 0 \notin Keys /\ <<>> \in Seq(GoodCall)
    BY DeviceAssumption
  <2> QED
    BY <2>3, <2>4, <2>5, <2>6, <2>7
<1>1. \A i \in 1 .. Len(pending) : pending[i].dev # ev.dev
  <2>1. ~playing
    BY DEF OrderInv, CallsInv, HasPlay, Idle
  <2> QED
    BY <2>1 DEF GrabInv, NothingStranded
<1>2. \A k : Of(pending, ev.dev, k) = {}
  BY <1>1 DEF Of
<1>3. \A k \in Keys : k \in phys[ev.dev] <=> k \in down[ev.dev]
  BY <1>0, <1>2 DEF OrderInv, KeysInv, Alternates, LastOf
<1>4. ev.type = "press" => ev.key \notin down[ev.dev]
  BY <1>0, <1>3
<1>5. /\ \E q \in Seq(Without("repeat")) : work' = q \o <<>>
      /\ playing' => playing \/ HasPlay(work')
      /\ done' = [done EXCEPT ![ev.dev] = ev.n]
      /\ Moves(ev)
  BY <1>0, <1>4, ProcessWhole
<1>6. CallsInv'
  <2>1. work = <<>>
    BY DEF Idle
  <2> QED
    BY <1>5, <2>1, CallsStay DEF OrderInv
<1>7. Numbered'
  <2>1. \A d \in Devices : done[d] <= events /\ done[d] \in Nat
    BY <1>0, BoundAssumption DEF OrderInv, Numbered
  <2>2. \A d \in Devices : done'[d] = IF d = ev.dev THEN events + 1 ELSE done[d]
    BY <1>0, <1>5
  <2>3. \A d \in Devices : done'[d] <= events'
    BY <1>0, <2>1, <2>2
  <2>4. \A i \in 1 .. Len(pending) :
          pending[i].n <= events' /\ (pending[i].type = "motion" => pending[i].key = 0)
    BY <1>0 DEF OrderInv, Numbered
  <2> QED
    BY <2>3, <2>4 DEF Numbered
<1>8. EventsInOrder'
  <2>1. \A i \in 1 .. Len(pending) : done'[pending[i].dev] = done[pending[i].dev]
    <3> SUFFICES ASSUME NEW i \in 1 .. Len(pending)
                 PROVE  done'[pending[i].dev] = done[pending[i].dev]
      OBVIOUS
    <3>1. pending[i].dev # ev.dev
      BY <1>1
    <3> QED
      BY <1>0, <1>5, <3>1
  <2> QED
    BY <2>1 DEF OrderInv, EventsInOrder
<1>9. KeysInv'
  <2> SUFFICES ASSUME NEW d \in Devices, NEW k \in Keys
               PROVE  Alternates(pending, d, k, k \in down'[d], k \in phys'[d])
    BY DEF KeysInv
  <2>1. Alternates(pending, d, k, k \in down[d], k \in phys[d])
    BY DEF OrderInv, KeysInv
  <2>2. /\ ev.dev = d /\ ev.key = k => (k \in down'[d] <=> ev.type = "press")
        /\ ~(ev.dev = d /\ ev.key = k) => (k \in down'[d] <=> k \in down[d])
    BY <1>5, MovesKey, InvParts DEF ProcessInv
  <2>3. CASE d # ev.dev
    <3>1. phys'[d] = phys[d]
      BY <1>0, <2>3
    <3>2. (k \in down[d] <=> k \in down'[d]) /\ (k \in phys[d] <=> k \in phys'[d])
      BY <2>2, <2>3, <3>1
    <3> QED
      BY <2>1, <3>2, AlternatesSame
  <2>4. CASE d = ev.dev
    <3>1. phys'[d] = IF ev.type = "press" THEN phys[d] \cup {ev.key} ELSE phys[d] \ {ev.key}
      BY <1>0, <2>4
    <3>2. k \in phys'[d] <=> k \in down'[d]
      BY <1>0, <1>3, <2>2, <2>4, <3>1
    <3>3. Of(pending, d, k) = {}
      BY <1>2, <2>4
    <3> QED
      BY <3>2, <3>3 DEF Alternates, FirstOf, NextOf, LastOf
  <2> QED
    BY <2>3, <2>4
<1> QED
  BY <1>6, <1>7, <1>8, <1>9 DEF OrderInv

\* Without multiple downs every press is of a key that is up, every release of one
\* that is down.
LEMMA DeviceEventOrder ==
  ASSUME ~MultipleDowns, GrabInv, OrderInv, NEW d \in Devices, NEW k \in Keys \cup {0},
         NEW type \in {"press", "release", "motion"}, DeviceEvent(d, type, k)
  PROVE  OrderInv'
<1> DEFINE ev == [dev |-> d, type |-> type, key |-> k, n |-> events + 1]
<1>1. /\ Idle /\ events < MaxEvents /\ (k = 0 <=> type = "motion") /\ events' = events + 1
      /\ phys' = [phys EXCEPT ![d] = IF type = "press" THEN @ \cup {k} ELSE @ \ {k}]
      /\ (type = "press" => k \notin phys[d]) /\ (type = "release" => k \in phys[d])
      /\ IF frozen[d]
         THEN EnqueueEvent(ev) /\ UNCHANGED <<syncVars, eventVars, windowVars, playing, work>>
         ELSE UNCHANGED pending /\ ProcessEvent(ev, <<>>)
  BY DEF DeviceEvent
<1>2. ev \in GoodEvent
  BY <1>1, InvParts, BoundAssumption DEF GoodEvent, Event, RequestTyped
<1>3. ev.dev = d /\ ev.type = type /\ ev.key = k /\ ev.n = events + 1
  OBVIOUS
<1> HIDE DEF ev
<1>4. /\ ev.type = "motion" <=> ev.key = 0
      /\ ev.type = "press" => ev.key \notin phys[ev.dev]
      /\ ev.type = "release" => ev.key \in phys[ev.dev]
      /\ phys' = [phys EXCEPT ![ev.dev] = IF ev.type = "press" THEN @ \cup {ev.key}
                                          ELSE @ \ {ev.key}]
  BY <1>1, <1>3
<1>5. CASE frozen[d]
  <2>1. EnqueueEvent(ev) /\ UNCHANGED <<done, down, work, playing>>
    BY <1>1, <1>5 DEF eventVars
  <2> QED
    BY <1>1, <1>2, <1>3, <1>4, <2>1, EnqueueOrder
<1>6. CASE ~frozen[d]
  <2>1. pending' = pending /\ ProcessEvent(ev, <<>>) /\ ~frozen[ev.dev]
    BY <1>1, <1>3, <1>6
  <2> QED
    BY <1>1, <1>2, <1>3, <1>4, <2>1, DirectOrder
<1> QED
  BY <1>5, <1>6

\* The calls in progress do not touch the queue but to play it, and leave it only
\* when there is nothing to play.
LEMMA StepOrder ==
  ASSUME GrabInv, OrderInv, Step
  PROVE  OrderInv'
<1>0. /\ CallsInv /\ work \in Seq(GoodCall) /\ work \in Seq(Without("repeat"))
      /\ (work # <<>> => /\ Tail(work) \in Seq(GoodCall)
                         /\ Tail(work) \in Seq(Without("repeat"))
                         /\ Head(work) \in Without("repeat"))
      /\ <<>> \in Seq(Without("repeat"))
      /\ <<>> \o Tail(work) = Tail(work)
  <2>1. CallsInv /\ work \in Seq(GoodCall) /\ work \in Seq(Without("repeat"))
    BY InvParts DEF OrderInv, CallsInv, CallsGood
  <2>2. work # <<>> => Tail(work) \in Seq(GoodCall) /\ Tail(work) \in Seq(Without("repeat"))
                       /\ Head(work) \in Without("repeat")
    BY <2>1
  <2>3. <<>> \in Seq(Without("repeat"))
    OBVIOUS
  <2>4. work # <<>> => <<>> \o Tail(work) = Tail(work)
    BY <2>2
  <2>5. work # <<>>
    BY DEF Step, Play, PlayEnds, Replay, Hold, Repeat, Unrealize, Evict, Retrace, Crush, Drop,
           Release, Gone, Free, Now
  <2> QED
    BY <2>1, <2>2, <2>3, <2>4, <2>5
<1>1. CASE Play
  BY <1>1, PlayOrder
<1>2. CASE Repeat
  BY <1>0, <1>2 DEF Repeat, Now, Without
<1>3. CASE PlayEnds
  <2>1. /\ work # <<>> /\ work' = Tail(work) /\ ~playing'
        /\ UNCHANGED <<pending, done, down, phys, events>>
    BY <1>3 DEF PlayEnds, Now, Then, SyncOnly, NothingElse, eventVars, inputVars
  <2>2. CallsInv'
    BY <1>0, <2>1 DEF CallsInv
  <2> QED
    BY <2>1, <2>2, QuietOrder
<1>4. CASE Hold
  <2>1. /\ work # <<>> /\ work' = <<>> \o Tail(work) /\ playing' = playing
        /\ Head(work).op # "play"
        /\ UNCHANGED <<pending, done, down, phys, events>>
    BY <1>0, <1>4 DEF Hold, Now, Then, NothingElse, inputVars
  <2>2. CallsInv'
    BY <1>0, <2>1, CallsStay
  <2> QED
    BY <2>1, <2>2, QuietOrder
<1>5. CASE Replay
  <2>1. /\ work # <<>> /\ Head(work).op # "play"
        /\ UNCHANGED <<pending, done, down, phys, events>>
    BY <1>5 DEF Replay, Now, NothingElse, inputVars
  <2>2. PICK q \in Seq(Quick) : work' = q \o Tail(work)
    BY <1>5, ReplayQuick
  <2>3. q \in Seq(Without("repeat")) /\ (playing' => playing \/ HasPlay(work'))
    BY <1>5, <2>2, QuickWithout, ReplayPlays
  <2>4. CallsInv'
    BY <1>0, <2>1, <2>2, <2>3, CallsStay
  <2> QED
    BY <2>1, <2>4, QuietOrder
<1>6. CASE Unrealize \/ Evict \/ Retrace \/ Crush \/ Drop \/ Release \/ Gone \/ Free
  <2>1. /\ work # <<>> /\ Head(work).op # "play"
        /\ UNCHANGED <<pending, done, down, phys, events>>
    BY <1>6 DEF Unrealize, Evict, Retrace, Crush, Drop, Release, Gone, Free, Now,
                SyncOnly, NothingElse, eventVars, inputVars
  <2>2. PICK p \in Seq(Plain) : work' = p \o work \/ work' = p \o Tail(work)
    BY <1>6, StepPlain DEF PlainCalls
  <2>3. p \in Seq(Without("repeat"))
    <3>1. Plain \subseteq Without("repeat")
      BY DEF Plain, Without
    <3> QED
      BY <3>1, SeqMonotonic
  <2>4. playing' => playing \/ HasPlay(work')
    <3>1. CASE Evict
      <4>1. playing' = playing \/ ComputeFreezes(<<>>, Tail(work))
        BY <3>1 DEF Evict, DeactivateGrab, DeactivateGrabOn, Then
      <4>2. Tail(work) \in Seq(GoodCall) /\ <<>> \in Seq(GoodCall)
        BY <1>0, <2>1
      <4>3. ASSUME ComputeFreezes(<<>>, Tail(work))
            PROVE  playing' => playing \/ HasPlay(work')
        BY <4>2, <4>3, FreezesPlay
      <4> QED
        BY <4>1, <4>3
    <3>2. CASE Release
      <4>1. playing' = playing \/ ComputeFreezes(<<>>, work)
        BY <3>2 DEF Release, DeactivateGrab, DeactivateGrabOn
      <4>2. work \in Seq(GoodCall) /\ <<>> \in Seq(GoodCall)
        BY <1>0
      <4>3. ASSUME ComputeFreezes(<<>>, work)
            PROVE  playing' => playing \/ HasPlay(work')
        BY <4>2, <4>3, FreezesPlay
      <4> QED
        BY <4>1, <4>3
    <3>3. CASE Unrealize \/ Retrace \/ Crush \/ Drop \/ Gone \/ Free
      BY <3>3 DEF Unrealize, Retrace, Crush, Drop, Gone, Free
    <3> QED
      BY <1>6, <3>1, <3>2, <3>3
  <2>5. CallsInv'
    BY <1>0, <2>1, <2>2, <2>3, <2>4, CallsStay
  <2> QED
    BY <2>1, <2>5, QuietOrder
<1> QED
  BY <1>1, <1>2, <1>3, <1>4, <1>5, <1>6 DEF Step

\* A request can have the queue played, once its held event has been replayed.
LEMMA AllowReplayCalls ==
  ASSUME GrabInv, CallsInv, Idle, NEW c \in Clients, NEW d \in Devices, AllowReplay(c, d)
  PROVE  CallsInv'
<1> DEFINE r == DoEvent("replay", grab[d].win, held[d])
<1>1. state[d] = "FROZEN_WITH_EVENT" /\ ComputeFreezes(<<r>>, <<>>)
  BY DEF AllowReplay, DeactivateGrabOn
<1>2. r \in GoodCall
  <2>1. grab[d].win \in 0 .. Depth
    <3>1. grab[d] \in Grab \cup {NoGrab}
      BY InvParts DEF SyncTyped
    <3> QED
      BY <3>1, ClientAssumption DEF Grab, NoGrab, Windows
  <2>2. held[d] \in GoodEvent
    BY <1>1 DEF GrabInv, HeldGood
  <2> QED
    BY <2>1, <2>2, EventCallGood
<1>3. r.op = "replay"
  BY DEF DoEvent, Item
<1> HIDE DEF r
<1>4. <<r>> \in Seq(GoodCall) /\ <<>> \in Seq(GoodCall)
  BY <1>2
<1>5. playing' => playing \/ HasPlay(work')
  BY <1>1, <1>4, FreezesPlay
<1>6. work = <<>>
  BY DEF Idle
<1>7. ~playing
  BY <1>6 DEF CallsInv, HasPlay
<1>8. work' = <<>> \/ work' = <<r>> \o (<<Do("play")>> \o <<>>)
  BY <1>1 DEF ComputeFreezes
<1>9. work' \in Seq(Without("repeat"))
  <2>1. r \in Without("repeat") /\ Do("play") \in Without("repeat")
    BY <1>2, <1>3, PlayGood DEF Without, Do, Item
  <2>2. /\ <<>> \in Seq(Without("repeat"))
        /\ <<r>> \o (<<Do("play")>> \o <<>>) \in Seq(Without("repeat"))
    BY <2>1
  <2> QED
    BY <1>8, <2>2
<1> QED
  BY <1>5, <1>7, <1>9 DEF CallsInv

\* No request changes the queue or a key.
LEMMA RequestOrder ==
  ASSUME GrabInv, OrderInv, NEW c \in Clients, ClientStep(c)
  PROVE  OrderInv'
<1> DEFINE Rest ==
             \/ \E d \in Devices :
                  \/ Ungrab(c, d) \/ AllowEvents(c, d)
                  \/ \E w \in Windows :
                       \/ UngrabKey(c, d, w)
                       \/ \E m, o \in Modes : GrabDevice(c, d, w, m, o) \/ GrabKey(c, d, w, m, o)
             \/ MapWindow(c) \/ \E w \in Windows : UnmapWindow(c, w) \/ DestroyWindow(c, w)
             \/ CloseDownClient(c) \/ CloseDownRetained(c)
<1>0. Idle /\ work = <<>> /\ CallsInv /\ ~playing /\ <<>> \in Seq(GoodCall)
  <2>1. Idle
    BY DEF ClientStep, Ungrab, AllowEvents, AllowReplay, MayAllow, UngrabKey, GrabDevice, GrabKey,
           MapWindow, UnmapWindow, DestroyWindow, CloseDownClient, CloseDownRetained, Request
  <2> QED
    BY <2>1 DEF Idle, OrderInv, CallsInv, HasPlay
<1>1. UNCHANGED <<pending, done, down, phys, events>>
  <2>1. CASE \E d \in Devices : Ungrab(c, d) \/ AllowEvents(c, d) \/ AllowReplay(c, d)
    BY <2>1 DEF Ungrab, AllowEvents, AllowReplay, SyncOnly, NothingElse, eventVars, inputVars
  <2>2. CASE \E d \in Devices, w \in Windows :
               \/ UngrabKey(c, d, w)
               \/ \E m, o \in Modes : GrabDevice(c, d, w, m, o) \/ GrabKey(c, d, w, m, o)
    BY <2>2 DEF UngrabKey, GrabDevice, GrabKey, SyncOnly, NothingElse, eventVars, inputVars
  <2>3. CASE \/ MapWindow(c) \/ \E w \in Windows : UnmapWindow(c, w) \/ DestroyWindow(c, w)
             \/ CloseDownClient(c) \/ CloseDownRetained(c)
    BY <2>3 DEF MapWindow, UnmapWindow, DestroyWindow, CloseDownClient, CloseDownRetained,
                SyncOnly, NothingElse, eventVars, inputVars
  <2> QED
    BY <2>1, <2>2, <2>3 DEF ClientStep
<1>2. CASE \E d \in Devices : AllowReplay(c, d)
  <2>1. CallsInv'
    BY <1>0, <1>2, AllowReplayCalls
  <2> QED
    BY <1>1, <2>1, QuietOrder
<1>3. CASE Rest
  <2>1. work' \in Seq(Plain)
    BY <1>0, <1>3, RequestPlain
  <2>2. work' \in Seq(Without("repeat"))
    <3>1. Plain \subseteq Without("repeat")
      BY DEF Plain, Without
    <3> QED
      BY <2>1, <3>1, SeqMonotonic
  <2>3. playing' = playing \/ ComputeFreezes(<<>>, <<>>)
    <3>1. CASE \E d \in Devices : Ungrab(c, d) \/ AllowEvents(c, d)
      BY <3>1 DEF Ungrab, AllowEvents, DeactivateGrab, DeactivateGrabOn
    <3>2. CASE \E d \in Devices, w \in Windows :
                 \/ UngrabKey(c, d, w)
                 \/ \E m, o \in Modes : GrabDevice(c, d, w, m, o) \/ GrabKey(c, d, w, m, o)
      BY <3>2 DEF UngrabKey, GrabDevice, GrabKey, ActivateGrab, CheckGrabForSyncs
    <3>3. CASE \/ MapWindow(c) \/ \E w \in Windows : UnmapWindow(c, w) \/ DestroyWindow(c, w)
               \/ CloseDownClient(c) \/ CloseDownRetained(c)
      BY <3>3 DEF MapWindow, UnmapWindow, DestroyWindow, CloseDownClient, CloseDownRetained
    <3> QED
      BY <1>3, <3>1, <3>2, <3>3
  <2>4. playing' => HasPlay(work')
    BY <1>0, <2>3, FreezesPlay
  <2>5. CallsInv'
    BY <2>2, <2>4 DEF CallsInv
  <2> QED
    BY <1>1, <2>5, QuietOrder
<1> QED
  BY <1>2, <1>3 DEF ClientStep

\* The induction on the steps of the server.
LEMMA OrderInitially ==
  ASSUME Init
  PROVE  OrderInv
<1>1. /\ pending = <<>> /\ work = <<>> /\ ~playing /\ events = 0
      /\ \A d \in Devices : done[d] = 0 /\ down[d] = {} /\ phys[d] = {}
  BY DEF Init
<1>2. CallsInv
  BY <1>1 DEF CallsInv
<1>3. Numbered /\ EventsInOrder
  BY <1>1 DEF Numbered, EventsInOrder
<1>4. KeysInv
  <2> SUFFICES ASSUME NEW d \in Devices, NEW k \in Keys
               PROVE  Alternates(pending, d, k, k \in down[d], k \in phys[d])
    BY DEF KeysInv
  <2>1. Of(pending, d, k) = {} /\ k \notin down[d] /\ k \notin phys[d]
    BY <1>1 DEF Of
  <2> QED
    BY <2>1 DEF Alternates, FirstOf, NextOf, LastOf
<1> QED
  BY <1>2, <1>3, <1>4 DEF OrderInv

\* Multiple downs are excluded: their repeats are calls of their own.
LEMMA OrderStep ==
  ASSUME ~MultipleDowns, GrabInv, OrderInv, [Next]_vars
  PROVE  OrderInv'
<1>1. ASSUME NEW d \in Devices, NEW k \in Keys \cup {0},
             NEW type \in {"press", "release", "motion"}, DeviceEvent(d, type, k)
      PROVE  OrderInv'
  BY <1>1, DeviceEventOrder
<1>2. CASE Step
  BY <1>2, StepOrder
<1>3. ASSUME NEW c \in Clients, ClientStep(c)
      PROVE  OrderInv'
  BY <1>3, RequestOrder
<1>4. CASE UNCHANGED vars
  <2>1. UNCHANGED <<pending, done, down, phys, events, work, playing>>
    BY <1>4 DEF vars, eventVars, inputVars
  <2>2. CallsInv'
    BY <2>1 DEF OrderInv, CallsInv, HasPlay
  <2> QED
    BY <2>1, <2>2, QuietOrder
<1> QED
  BY <1>1, <1>2, <1>3, <1>4 DEF Next

\* The invariant from which both theorems on the order of events follow.
LEMMA OrderHolds ==
  ASSUME ~MultipleDowns
  PROVE  Spec => [](GrabInv /\ OrderInv)
<1>1. Init => GrabInv /\ OrderInv
  BY GrabInvInitially, OrderInitially
<1>2. GrabInv /\ OrderInv /\ [Next]_vars => (GrabInv /\ OrderInv)'
  BY GrabInvStep, OrderStep
<1> QED
  BY <1>1, <1>2, PTL DEF Spec

\* EventsInOrder: the events of a device are processed in the order in which they
\* happened, however often they were queued, when the DDX does not repeat keys by
\* multiple downs.
THEOREM EventsStayInOrder ==
  ASSUME ~MultipleDowns
  PROVE  Spec => []EventsInOrder
<1>1. OrderInv => EventsInOrder
  BY DEF OrderInv
<1> QED
  BY <1>1, OrderHolds, PTL

\* KeysCatchUp: DIX's idea of each key, with the presses and releases that wait in
\* syncEvents.pending, is where the key really is.
THEOREM KeysDoCatchUp ==
  ASSUME ~MultipleDowns
  PROVE  Spec => []KeysCatchUp
<1>1. OrderInv => KeysCatchUp
  BY DEF OrderInv, KeysInv, Alternates, LastOf, KeysCatchUp, Of, OfKey
<1> QED
  BY <1>1, OrderHolds, PTL

-----------------------------------------------------------------------------
(* Freezes and the clients that asked for them.                            *)

\* The server has a pointer and a keyboard and no extension devices.
CoreDevicesOnly == \A a, b, e \in Devices : a = b \/ b = e \/ a = e

\* A freeze of a client that keeps the grab it belongs to is only lifted for a grab
\* of the frozen device that is the same client's.
FreezesKept ==
  \A d \in Devices, c \in Clients :
    HeldBy(grab, d, c) /\ other'[d] = NoDev /\ grab'[other[d]].client = c =>
      grab'[d].client = c

\* A device that is still frozen by another is frozen by the same one.
LEMMA StillHeld ==
  ASSUME CoreDevicesOnly, GrabInv, GrabInv', NEW d \in Devices, NEW c \in Clients,
         HeldBy(grab, d, c), grab'[other[d]].client = c, other'[d] # NoDev
  PROVE  HeldBy(grab, d, c)'
<1>1. /\ other[d] # NoDev /\ other[d] # d /\ other[d] \in Devices
      /\ other'[d] # d /\ other'[d] \in Devices
  BY InvParts DEF HeldBy, GrabInv, Typed, SyncTyped, HeldByActiveGrab
<1>2. other'[d] = other[d]
  BY <1>1 DEF CoreDevicesOnly
<1> QED
  BY <1>1, <1>2 DEF HeldBy

\* A step that only adds freezes lifts none.
LEMMA NoneLifted ==
  ASSUME \A d \in Devices : other[d] # NoDev => other'[d] # NoDev
  PROVE  FreezesKept
BY DEF FreezesKept, HeldBy

\* A grab of a device that was free lifts the freeze of that device alone,
LEMMA ActivateLifts ==
  ASSUME CoreDevicesOnly, SyncTyped, HeldByActiveGrab, NEW x \in Devices, grab[x] = NoGrab,
         NEW g, NEW auto, NEW m, NEW o, NEW rest, ActivateGrab(x, g, auto, m, o, rest)
  PROVE  FreezesKept
<1> SUFFICES ASSUME NEW d \in Devices, NEW c \in Clients,
                    HeldBy(grab, d, c), other'[d] = NoDev, grab'[other[d]].client = c
             PROVE  grab'[d].client = c
  BY DEF FreezesKept
<1>1. other[d] \in Devices /\ other[d] # NoDev /\ other[d] # d /\ other[d] # x
  BY DEF HeldBy, SyncTyped, HeldByActiveGrab
<1>2. x = d
  BY <1>1 DEF CoreDevicesOnly
<1>3. other'[d] = IF HeldBy(grab', d, grab'[x].client) /\ m = "Async" THEN NoDev ELSE other[d]
  BY <1>2 DEF ActivateGrab, CheckGrabForSyncs
<1>4. HeldBy(grab', d, grab'[x].client)
  BY <1>1, <1>3
<1> QED
  BY <1>2, <1>4 DEF HeldBy

\* and a grab that ends lifts the freezes that belong to it.
LEMMA DeactivateLifts ==
  ASSUME SyncTyped, NEW x \in Devices, NEW replay, NEW rest, DeactivateGrab(x, replay, rest)
  PROVE  FreezesKept
<1> SUFFICES ASSUME NEW d \in Devices, NEW c \in Clients,
                    HeldBy(grab, d, c), other'[d] = NoDev, grab'[other[d]].client = c
             PROVE  FALSE
  BY DEF FreezesKept
<1>1. other[d] # NoDev /\ other'[d] = IF other[d] = x THEN NoDev ELSE other[d]
  BY DEF HeldBy, DeactivateGrab, DeactivateGrabOn
<1>2. other[d] = x
  BY <1>1
<1>3. grab'[x] = NoGrab
  BY DEF DeactivateGrab, DeactivateGrabOn, SyncTyped
<1> QED
  BY <1>2, <1>3, ClientAssumption DEF NoGrab

\* An event that is delivered freezes devices and thaws none.
LEMMA EffectLifts ==
  ASSUME CoreDevicesOnly, SyncTyped, HeldByActiveGrab, NEW ev \in GoodEvent, NEW rest,
         Effect(ev, rest)
  PROVE  FreezesKept
<1>0. ev.dev \in Devices /\ ev.dev # NoDev
  BY EventFields, DeviceAssumption
<1>1. CASE UNCHANGED syncVars
  BY <1>1, NoneLifted DEF syncVars
<1>2. CASE FreezeFor(ev)
  <2>1. \A d \in Devices : other'[d] \in {other[d], ev.dev}
    BY <1>2 DEF FreezeFor
  <2> QED
    BY <1>0, <2>1, NoneLifted
<1>3. CASE grab[ev.dev] = NoGrab /\ ImplicitGrab(ev, rest)
  BY <1>0, <1>3, ActivateLifts DEF ImplicitGrab
<1>4. CASE grab[ev.dev] = NoGrab /\ ActivatePassive(ev, Matching(ev, 1, trace), rest)
  BY <1>0, <1>4, ActivateLifts DEF ActivatePassive
<1>5. CASE DeactivateGrab(ev.dev, <<>>, rest)
  BY <1>0, <1>5, DeactivateLifts
<1> QED
  BY <1>1, <1>2, <1>3, <1>4, <1>5 DEF Effect

\* The two halves of a repeat, or the whole event.
LEMMA ProcessLifts ==
  ASSUME CoreDevicesOnly, GrabInv, NEW ev \in GoodEvent, NEW rest \in Seq(GoodCall),
         ProcessEvent(ev, rest)
  PROVE  FreezesKept
<1>0. KeysTyped /\ SyncTyped /\ HeldByActiveGrab
  BY InvParts DEF ProcessInv
<1>1. PICK e2 \in GoodEvent, r2 \in Seq(GoodCall) : Effect(e2, r2)
  BY <1>0, ProcessEffect
<1> QED
  BY <1>0, <1>1, EffectLifts

\* An event that is replayed finds its device free.
LEMMA ReplayLifts ==
  ASSUME CoreDevicesOnly, GrabInv, HeldInv, Replay
  PROVE  FreezesKept
<1> DEFINE r == Head(work)
           d == r.ev.dev
<1>1. work # <<>> /\ r.op = "replay"
  BY DEF Replay, Now
<1>2. d \in Devices /\ grab[d] = NoGrab /\ SyncTyped /\ HeldByActiveGrab
  <2>1. d \in Devices
    BY <1>1, PopGood, InvParts, EventFields DEF GoodCall
  <2> QED
    BY <1>1, <2>1, InvParts DEF HeldInv, ReplayDated
<1>3. \/ \E g, auto, m, o, rest : ActivateGrab(d, g, auto, m, o, rest)
      \/ UNCHANGED syncVars
  BY DEF Replay, DeliverUngrabbed, ImplicitGrab, ActivatePassive
<1> HIDE DEF d, r
<1>4. CASE UNCHANGED syncVars
  BY <1>4, NoneLifted DEF syncVars
<1>5. CASE \E g, auto, m, o, rest : ActivateGrab(d, g, auto, m, o, rest)
  BY <1>2, <1>5, ActivateLifts
<1> QED
  BY <1>3, <1>4, <1>5

\* Every step of the calls in progress.
LEMMA StepLifts ==
  ASSUME CoreDevicesOnly, GrabInv, HeldInv, Step
  PROVE  FreezesKept
<1>0. SyncTyped /\ work # <<>> /\ work \in Seq(GoodCall) /\ Tail(work) \in Seq(GoodCall)
      /\ Head(work) \in GoodCall
  <2>1. work # <<>>
    BY DEF Step, Play, PlayEnds, Replay, Hold, Repeat, Unrealize, Evict, Retrace, Crush, Drop,
           Release, Gone, Free, Now
  <2> QED
    BY <2>1, PopGood, InvParts DEF CallsGood
<1>1. CASE UNCHANGED other
  BY <1>1, NoneLifted
<1>2. CASE Play
  <2>1. PICK i \in Playable : ProcessEvent(pending[i], work)
    BY <1>2 DEF Play
  <2>2. pending[i] \in GoodEvent
    BY <2>1, InvParts, ElementOfSeq DEF QueueGood, Playable
  <2> QED
    BY <1>0, <2>1, <2>2, ProcessLifts
<1>3. CASE Repeat
  <2>1. Head(work).ev \in GoodEvent
    BY <1>0, <1>3 DEF Repeat, Now, GoodCall
  <2>2. UNCHANGED other \/ ProcessEvent(Head(work).ev, Tail(work))
    BY <1>3 DEF Repeat, Then, syncVars
  <2> QED
    BY <1>0, <1>1, <2>1, <2>2, ProcessLifts
<1>4. CASE Replay
  BY <1>4, ReplayLifts
<1>5. CASE Evict
  <2>1. Head(work).dev \in Devices
    BY <1>0, <1>5 DEF Evict, Now, GoodCall
  <2>2. UNCHANGED other \/ DeactivateGrab(Head(work).dev, <<>>, Tail(work))
    BY <1>5 DEF Evict, Then, syncVars
  <2> QED
    BY <1>0, <1>1, <2>1, <2>2, DeactivateLifts
<1>6. CASE Release
  <2>1. UNCHANGED other \/ \E d \in Devices : DeactivateGrab(d, <<>>, work)
    BY <1>6 DEF Release, syncVars
  <2> QED
    BY <1>0, <1>1, <2>1, DeactivateLifts
<1>7. CASE PlayEnds \/ Hold \/ Unrealize \/ Retrace \/ Crush \/ Drop \/ Gone \/ Free
  <2>1. UNCHANGED other
    BY <1>7 DEF PlayEnds, Hold, Unrealize, Retrace, Crush, Drop, Gone, Free, syncVars
  <2> QED
    BY <1>1, <2>1
<1> QED
  BY <1>2, <1>3, <1>4, <1>5, <1>6, <1>7 DEF Step

\* AllowSome only thaws what grabs of its own client froze.
LEMMA AllowLifts ==
  ASSUME SyncTyped, NEW b \in Clients, NEW x \in Devices,
         AllowEvents(b, x) \/ AllowReplay(b, x),
         NEW d \in Devices, NEW c \in Clients,
         HeldBy(grab, d, c), other'[d] = NoDev, grab'[other[d]].client = c
  PROVE  b = c
<1>1. other[d] \in Devices /\ other[d] # NoDev /\ grab[other[d]].client = c
  BY DEF HeldBy, SyncTyped
<1>2. ASSUME NEW z \in Devices, Synced(b, z), z = d
      PROVE  b = c
  BY <1>1, <1>2 DEF Synced, Mine
<1>3. CASE AllowReplay(b, x)
  <2> DEFINE otr == IF Synced(b, x) THEN [other EXCEPT ![x] = NoDev] ELSE other
  <2>1. /\ grab' = [grab EXCEPT ![x] = NoGrab]
        /\ other'[d] = IF otr[d] = x THEN NoDev ELSE otr[d]
    BY <1>3 DEF AllowReplay, DeactivateGrabOn
  <2>2. other[d] # x
    BY <2>1, ClientAssumption DEF SyncTyped, NoGrab
  <2>3. otr[d] = NoDev \/ otr[d] = x
    BY <2>1
  <2>4. Synced(b, x) /\ d = x
    BY <1>1, <2>2, <2>3 DEF SyncTyped
  <2> QED
    BY <1>2, <2>4
<1>4. CASE AllowEvents(b, x)
  <2>1. CASE AllowThis(b, x) \/ AllowNext(b, x)
    <3>1. Synced(b, x) /\ d = x
      BY <1>1, <2>1 DEF AllowThis, AllowNext, SyncTyped
    <3> QED
      BY <1>2, <3>1
  <2>2. ASSUME NEW S, NEW st, AllowMany(b, x, S, st)
        PROVE  b = c
    BY <1>1, <2>2 DEF AllowMany, HeldBy
  <2> QED
    BY <1>4, <2>1, <2>2 DEF AllowEvents
<1> QED
  BY <1>3, <1>4

\* So does a grab the client asks for, but for the freeze of the device it grabs.
LEMMA GrabLifts ==
  ASSUME CoreDevicesOnly, SyncTyped, NEW b \in Clients, NEW x \in Devices, NEW w \in Windows,
         NEW m, NEW o, GrabDevice(b, x, w, m, o), NEW d \in Devices, NEW c \in Clients,
         HeldBy(grab, d, c), other'[d] = NoDev, grab'[other[d]].client = c
  PROVE  b = c
<1>1. other[d] # NoDev
  BY DEF HeldBy
<1>2. HeldBy(grab', d, grab'[x].client)
  BY <1>1, DeviceAssumption DEF GrabDevice, ActivateGrab, CheckGrabForSyncs
<1>3. grab'[x].client = b
  BY DEF GrabDevice, ActivateGrab, SyncTyped
<1> QED
  BY <1>2, <1>3 DEF HeldBy

\* HoldIsKept: with a pointer and a keyboard, no client lifts a freeze that another
\* has asked for and whose grab it still has.
THEOREM HoldsAreKept ==
  ASSUME CoreDevicesOnly
  PROVE  Spec => HoldIsKept
<1> DEFINE Kept ==
             \A d \in Devices, c \in Clients :
               HeldBy(grab, d, c) /\ ~HeldBy(grab, d, c)' /\ grab'[other[d]].client = c =>
                 \/ grab'[d].client = c
                 \/ \E x \in Devices : AllowEvents(c, x) \/ AllowReplay(c, x)
                 \/ \E x \in Devices, w \in Windows, m, o \in Modes : GrabDevice(c, x, w, m, o)
<1>1. ASSUME GrabInv, GrabInv', FreezesKept
      PROVE  Kept
  <2> SUFFICES ASSUME NEW d \in Devices, NEW c \in Clients, HeldBy(grab, d, c),
                      ~HeldBy(grab, d, c)', grab'[other[d]].client = c
               PROVE  grab'[d].client = c
    OBVIOUS
  <2> QED
    BY <1>1, StillHeld DEF FreezesKept
<1>2. ASSUME GrabInv, GrabInv', NEW b \in Clients, ClientStep(b)
      PROVE  Kept
  <2>0. SyncTyped
    BY <1>2, InvParts
  <2>1. CASE UNCHANGED other
    <3> HIDE DEF Kept
    <3> QED
      BY <1>1, <1>2, <2>1, NoneLifted
  <2>2. CASE \E x \in Devices : AllowEvents(b, x) \/ AllowReplay(b, x)
    <3> SUFFICES ASSUME NEW d \in Devices, NEW c \in Clients, HeldBy(grab, d, c),
                        ~HeldBy(grab, d, c)', grab'[other[d]].client = c
                 PROVE  b = c
      BY <2>2
    <3>1. other'[d] = NoDev
      BY <1>2, StillHeld
    <3> QED
      BY <2>0, <2>2, <3>1, AllowLifts
  <2>3. CASE \E x \in Devices : Ungrab(b, x)
    <3>1. FreezesKept
      BY <2>0, <2>3, DeactivateLifts DEF Ungrab
    <3> HIDE DEF Kept
    <3> QED
      BY <1>1, <1>2, <3>1
  <2>4. CASE \E x \in Devices, w \in Windows, m, o \in Modes : GrabDevice(b, x, w, m, o)
    <3> SUFFICES ASSUME NEW d \in Devices, NEW c \in Clients, HeldBy(grab, d, c),
                        ~HeldBy(grab, d, c)', grab'[other[d]].client = c, b # c
                 PROVE  grab'[d].client = c
      BY <2>4
    <3>1. other'[d] = NoDev
      BY <1>2, StillHeld
    <3> QED
      BY <2>0, <2>4, <3>1, GrabLifts
  <2>5. \/ UNCHANGED other
        \/ \E x \in Devices : AllowEvents(b, x) \/ AllowReplay(b, x) \/ Ungrab(b, x)
        \/ \E x \in Devices, w \in Windows, m, o \in Modes : GrabDevice(b, x, w, m, o)
    BY <1>2 DEF ClientStep, UngrabKey, GrabKey, MapWindow, UnmapWindow, DestroyWindow,
                CloseDownClient, CloseDownRetained, syncVars
  <2> HIDE DEF Kept
  <2> QED
    BY <2>1, <2>2, <2>3, <2>4, <2>5
<1>3. ASSUME GrabInv, HeldInv, NEW d \in Devices, NEW k \in Keys \cup {0},
             NEW type \in {"press", "release", "motion"}, DeviceEvent(d, type, k)
      PROVE  FreezesKept
  <2> DEFINE ev == [dev |-> d, type |-> type, key |-> k, n |-> events + 1]
  <2>1. CASE frozen[d]
    BY <1>3, <2>1, NoneLifted DEF DeviceEvent, syncVars
  <2>2. CASE ~frozen[d]
    <3>1. ProcessEvent(ev, <<>>) /\ events < MaxEvents /\ (k = 0 <=> type = "motion")
      BY <1>3, <2>2 DEF DeviceEvent
    <3>2. ev \in GoodEvent /\ <<>> \in Seq(GoodCall)
      BY <1>3, <3>1, InvParts, BoundAssumption DEF GoodEvent, Event, RequestTyped
    <3> HIDE DEF ev
    <3> QED
      BY <1>3, <3>1, <3>2, ProcessLifts
  <2> QED
    BY <2>1, <2>2
<1>4. ASSUME GrabInv, GrabInv', HeldInv, [Next]_vars
      PROVE  [Kept]_vars
  <2> HIDE DEF Kept
  <2> QED
    BY <1>1, <1>2, <1>3, <1>4, StepLifts DEF Next
<1>5. GrabInv /\ HeldInv /\ (GrabInv /\ HeldInv)' /\ [Next]_vars => [Kept]_vars
  BY <1>4
<1>6. Spec => [](GrabInv /\ HeldInv) /\ [][Next]_vars
  BY HeldHolds, PTL DEF Spec
<1> QED
  BY <1>5, <1>6, PTL DEF HoldIsKept

=============================================================================
