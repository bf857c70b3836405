---------------------------- MODULE PassiveGrabs ----------------------------
(***************************************************************************)
(* The passive grabs of one device on one window: the list of GrabRecs     *)
(* that dix/grabs.c keeps for the GrabKey, GrabButton, UngrabKey and       *)
(* UngrabButton requests of dix/events.c, and the search of it when a key  *)
(* or button goes down.  (GrabMatchesSecond never matches records of two   *)
(* devices, so their lists are independent.)                               *)
(*                                                                         *)
(* A record names a key and modifiers, or any of either except for the     *)
(* ones that were ungrabbed since: details whose bit in a mask is cleared. *)
(* Records are prepended; pos orders the list, the head having the highest.*)
(* A request that runs out of memory is backed out of and changes nothing, *)
(* as does one that gets an error, so neither is a step.                   *)
(*                                                                         *)
(* A definition marked "mutant" is a deliberately wrong variant of the one *)
(* that follows it; no specification uses it.                              *)
(***************************************************************************)
EXTENDS Integers, FiniteSets

CONSTANTS
  Clients, Nobody,   \* clients, and the owner of a free combination
  Keys, Modifiers,   \* key codes, and states of the modifiers
  AnyDetail,         \* AnyKey and AnyModifier
  Modes,             \* what else a grab says
  Confined,          \* those of the modes that name a confineTo window
  MaxGrabs           \* bound on the records ever made before the last GrabKey

ASSUME PassiveGrabsAssumption ==
  /\ Nobody \notin Clients
  /\ AnyDetail \notin Keys \cup Modifiers
  /\ Confined \subseteq Modes
  /\ MaxGrabs \in Nat

VARIABLES
  grabs,   \* wPassiveGrabs(pWin)
  next     \* the position of the next record that is prepended
vars == <<grabs, next>>

\* A DetailRec over S; its pMask is NULL as long as no bit has been cleared.
DetailRec(S) == {d \in [exact : S \cup {AnyDetail}, cleared : SUBSET S] :
                   d.exact # AnyDetail => d.cleared = {}}
GrabRec == [client : Clients, detail : DetailRec(Keys), mods : DetailRec(Modifiers),
            mode : Modes, pos : Nat]

\* CreateGrab, and the GrabRecs on the stack of ProcUngrabKey and of
\* CheckPassiveGrabsOnWindow, which only have a part of it.
Exact(x) == [exact |-> x, cleared |-> {}]
CreateGrab(c, k, m, mode) ==
  [client |-> c, detail |-> Exact(k), mods |-> Exact(m), mode |-> mode, pos |-> next]
TempGrab(c, k, m) == [client |-> c, detail |-> Exact(k), mods |-> Exact(m)]

Init == grabs = {} /\ next = 0

-----------------------------------------------------------------------------
(* Does one record include, or meet, the combinations of another?          *)

\* (mutant: the mask of exceptions is not looked at)
IsInGrabMaskAlways(first, second) == first.exact = AnyDetail

IsInGrabMask(first, second) ==
  /\ first.exact = AnyDetail
  /\ \/ first.cleared = {}
     \/ second.exact # AnyDetail /\ second.exact \notin first.cleared

IdenticalExactDetails(x, y) == x # AnyDetail /\ y # AnyDetail /\ x = y

DetailSupersedesSecond(first, second) ==
  \/ IsInGrabMask(first, second)
  \/ IdenticalExactDetails(first.exact, second.exact)

GrabSupersedesSecond(g, h) ==
  /\ DetailSupersedesSecond(g.mods, h.mods)
  /\ DetailSupersedesSecond(g.detail, h.detail)

\* (mutant: grabs that include each other only crosswise are overlooked)
GrabMatchesNested(g, h) == GrabSupersedesSecond(g, h) \/ GrabSupersedesSecond(h, g)

GrabMatchesSecond(g, h) ==
  \/ GrabSupersedesSecond(g, h)
  \/ GrabSupersedesSecond(h, g)
  \/ DetailSupersedesSecond(h.detail, g.detail) /\ DetailSupersedesSecond(g.mods, h.mods)
  \/ DetailSupersedesSecond(g.detail, h.detail) /\ DetailSupersedesSecond(h.mods, g.mods)

-----------------------------------------------------------------------------
(* Requests                                                                *)

\* AddPassiveGrabToList refuses with BadAccess what meets another client's grab.
BadAccess(g) == \E h \in grabs : GrabMatchesSecond(g, h) /\ h.client # g.client

\* ProcGrabKey, ProcGrabButton
GrabKey(c, k, m, mode) ==
  LET g == CreateGrab(c, k, m, mode) IN
  /\ next < MaxGrabs
  /\ ~BadAccess(g)
  /\ grabs' = grabs \cup {g}
  /\ next' = next + 1

\* DeletePassiveGrabFromList: the records of the client that the minuend u meets,
Met(u) == {g \in grabs : g.client = u.client /\ GrabMatchesSecond(g, u)}

\* those of them that are freed,
Deleted(u) == {g \in Met(u) : GrabSupersedesSecond(u, g)}

\* those for any key and any modifiers that are split in two,
Split(u) == {g \in Met(u) \ Deleted(u) :
               g.detail.exact = AnyDetail /\ g.mods.exact = AnyDetail
               /\ u.detail.exact # AnyDetail /\ u.mods.exact # AnyDetail}

\* those that lose modifiers rather than a key,
LosesModifiers(u, g) ==
  g.mods.exact = AnyDetail /\ (g.detail.exact # AnyDetail \/ u.detail.exact = AnyDetail)

DeleteDetail(d, x) == [d EXCEPT !.cleared = @ \cup {x}]

\* what becomes of a record that is not freed,
Update(u, g) ==
  IF LosesModifiers(u, g)
  THEN [g EXCEPT !.mods = DeleteDetail(@, u.mods.exact)]
  ELSE [g EXCEPT !.detail = DeleteDetail(@, u.detail.exact)]

\* and the second half of a record that is split, for the key and the modifiers
\* that are left.  The halves are prepended in the order of the list, which puts
\* that of the oldest record in front.
Behind(S, g) == Cardinality({h \in S : h.pos > g.pos})
Half(u, g) ==
  [g EXCEPT !.detail = u.detail, !.mods = DeleteDetail(@, u.mods.exact),
            !.pos = next + Behind(Split(u), g)]

\* (mutant: no second half is made)
DeleteWithoutHalves(u) ==
  /\ grabs' = (grabs \ Met(u)) \cup {Update(u, g) : g \in Met(u) \ Deleted(u)}
  /\ next' = next

DeletePassiveGrabFromList(u) ==
  /\ grabs' = (grabs \ Met(u))
              \cup {Update(u, g) : g \in Met(u) \ Deleted(u)}
              \cup {Half(u, g) : g \in Split(u)}
  /\ next' = next + Cardinality(Split(u))

\* ProcUngrabKey, ProcUngrabButton
UngrabKey(c, k, m) == DeletePassiveGrabFromList(TempGrab(c, k, m))

\* DeletePassiveGrab, for each grab of a client that is closed down.
CloseDownClient(c) ==
  /\ grabs' = {g \in grabs : g.client # c}
  /\ UNCHANGED next

Next == \E c \in Clients :
  \/ \E k \in Keys \cup {AnyDetail}, m \in Modifiers \cup {AnyDetail} :
       UngrabKey(c, k, m) \/ \E mode \in Modes : GrabKey(c, k, m, mode)
  \/ CloseDownClient(c)

Spec == Init /\ [][Next]_vars

-----------------------------------------------------------------------------
(* A press                                                                 *)

\* CheckPassiveGrabsOnWindow, for a press of k with modifiers m: the grabs it can
\* start, where shown are the confined modes whose confineTo window is realized
\* and has a border that is not empty; and the one it does start, the first in
\* the list, unless SecurityCheckDeviceAccess has not allowed the device to be used.
Confinable(g, shown) == g.mode \in Confined => g.mode \in shown
Matches(k, m, shown) ==
  {g \in grabs : GrabMatchesSecond(TempGrab(Nobody, k, m), g) /\ Confinable(g, shown)}
Started(k, m, shown, allowed) ==
  {g \in Matches(k, m, shown) :
     allowed /\ \A h \in Matches(k, m, shown) : h.pos <= g.pos}

-----------------------------------------------------------------------------
(* Properties                                                              *)

TypeOK == grabs \subseteq GrabRec /\ next \in Nat

\* The combinations a record stands for, and those a request names.
DetailsOf(d, S) == IF d.exact = AnyDetail THEN S \ d.cleared ELSE {d.exact}
Covers(g) == DetailsOf(g.detail, Keys) \X DetailsOf(g.mods, Modifiers)
Combinations == Keys \X Modifiers
Named(k, m) == DetailsOf(Exact(k), Keys) \X DetailsOf(Exact(m), Modifiers)

\* However the clients' requests for single combinations, all keys, all
\* modifiers and all of both follow each other, no combination is ever held by
\* two clients: the masks keep track of what was given up.
OneOwner ==
  \A g, h \in grabs : Covers(g) \cap Covers(h) # {} => g.client = h.client

\* BadAccess means that another client holds one of the combinations, or that it
\* holds a grab of any key or modifier of which it has given up every single one.
RefusedForAReason ==
  \A c \in Clients, k \in Keys \cup {AnyDetail}, m \in Modifiers \cup {AnyDetail} :
    BadAccess(TempGrab(c, k, m)) =>
      \E h \in grabs : h.client # c /\ (Named(k, m) \cap Covers(h) # {} \/ Covers(h) = {})

\* The owner of each combination.
Owner(x) == IF \E g \in grabs : x \in Covers(g)
            THEN (CHOOSE g \in grabs : x \in Covers(g)).client
            ELSE Nobody
\* A press whose device may be used starts a grab exactly if some record stands
\* for its combination and can confine the pointer as it says; and the grab it
\* starts is one of the client that owns the combination, whichever of the
\* records of the list is the first.
StartedIfHeld ==
  \A k \in Keys, m \in Modifiers, shown \in SUBSET Confined, allowed \in BOOLEAN :
    LET S == Started(k, m, shown, allowed) IN
    /\ S # {} <=> allowed /\ \E g \in grabs : <<k, m>> \in Covers(g) /\ Confinable(g, shown)
    /\ \A g \in S : g.client = Owner(<<k, m>>)

\* The promise of the protocol.
Promised == INSTANCE KeyGrabs WITH
  owner <- [x \in Combinations |-> Owner(x)],
  Requests <- {Named(k, m) : k \in Keys \cup {AnyDetail}, m \in Modifiers \cup {AnyDetail}}

\* Masks and split records implement ownership of single combinations: they only
\* change hands when they are free.
ImplementsKeyGrabs == Promised!Spec

\* GrabKey and UngrabKey act on the combinations they name, no more and no less:
\* all of them change hands or are given up, and the others stay whose they are.
RequestsActExactly ==
  [][\A c \in Clients, k \in Keys \cup {AnyDetail}, m \in Modifiers \cup {AnyDetail} :
       /\ (\E mode \in Modes : GrabKey(c, k, m, mode)) => Promised!Grab(c, Named(k, m))
       /\ UngrabKey(c, k, m) => Promised!Release(c, Named(k, m))]_vars

=============================================================================
