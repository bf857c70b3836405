-------------------------- MODULE ServerClientsProofs --------------------------
(***************************************************************************)
(* Proofs about ServerClients for every size of the client table, every    *)
(* number of outstanding requests and every set of requests: nClients, the *)
(* correspondence of descriptors and clients in all masks, the two records *)
(* of the server grab, and when the server resets.                         *)
(*                                                                         *)
(* Procedures take a state and leave one, so the lemmas are about states   *)
(* that are not srv, in the middle of a step as well.                      *)
(***************************************************************************)
EXTENDS ServerClients, FiniteSetTheorems, WellFoundedInduction, TLAPS

Fields ==
  {"state", "mode", "priority", "conn", "failed", "again", "buf", "sock", "eof", "nClients",
   "nextFree", "currentMax", "grabState", "grabClient", "waiters", "asleep", "reset",
   "trans", "all", "input", "saved", "savedInput", "ignored", "impervious", "grabbed",
   "dumb", "phase", "at", "ready", "cur", "turn", "calling"}

\* The table in the middle of CloseDownClient: the connections of D are closed
\* and they are not counted, but their slots are not free yet.  nextFreeClientID
\* is the least free slot, and there is nobody from currentMaxClients on.
TableBut(s, D) ==
  /\ DOMAIN s = Fields
  /\ s.state \in [Slots -> {"None", "Initial", "Running", "Retained"}]
  /\ s.mode \in [Slots -> Modes]
  /\ s.conn \in [Slots -> Fds \cup {0}]
  /\ \A c \in Slots : s.conn[c] # 0 <=> c \notin D /\ s.state[c] \in {"Initial", "Running"}
  /\ s.failed \cup s.eof \cup s.waiters \cup s.asleep \subseteq Connected(s)
  /\ s.nextFree \in 1 .. MAXCLIENTS
  /\ s.nextFree < MAXCLIENTS => s.state[s.nextFree] = "None"
  /\ \A c \in Slots : c < s.nextFree => s.state[c] # "None"
  /\ s.currentMax \in 1 .. MAXCLIENTS
  /\ \A c \in Slots : c >= s.currentMax => s.state[c] = "None"
  /\ s.nClients = Cardinality(Running(s) \ D)

Table(s) == TableBut(s, {})

\* Descriptors and connections correspond, every mask has live descriptors, and
\* the saved ones have any during a grab only.
Live(s) == {f \in Fds : s.trans[f] # 0}
Masks(s) ==
  /\ s.trans \in [Fds -> Slots \cup {0}]
  /\ \A c \in Connected(s) : s.trans[s.conn[c]] = c
  /\ \A f \in Live(s) : s.conn[s.trans[f]] = f
  /\ s.all \subseteq Live(s) /\ s.input \subseteq Live(s) /\ s.impervious \subseteq Live(s)
  /\ s.saved \subseteq Live(s) /\ s.savedInput \subseteq Live(s)
  /\ s.grabbed = 0 => s.saved = {} /\ s.savedInput = {}

Grab(s) ==
  /\ s.grabbed \in Slots \cup {0}
  /\ s.grabState = "None" <=> s.grabbed = 0
  /\ s.grabbed # 0 => s.grabClient = s.grabbed /\ s.conn[s.grabbed] # 0

Tables(s) == Table(s) /\ Masks(s) /\ Grab(s)

\* The loops: somebody is served only in a round, and is connected then; the
\* reset leaves nobody behind.
Loops(s) ==
  /\ s.cur # 0 => s.phase = "serve" /\ s.cur \in Slots /\ s.conn[s.cur] # 0
  /\ s.phase \in {"stragglers", "kill"} => s.at \in Nat \ {0}
  /\ s.phase = "kill" => \A c \in Slots : c < s.at => s.state[c] = "None"

Inv == Tables(srv) /\ Loops(srv)

-----------------------------------------------------------------------------
\* The least and the greatest of some slots.

LEMMA MinIsLeast ==
  ASSUME NEW S \in SUBSET Nat, S # {}
  PROVE  Min(S) \in S /\ \A n \in S : Min(S) <= n
<1> DEFINE R == {ss \in Nat \X Nat : ss[1] < ss[2]}
<1>1. IsWellFoundedOn(R, Nat)
  BY NatLessThanWellFounded DEF OpToRel
<1>2. \A x, y \in Nat : <<y, x>> \in R <=> y < x
  OBVIOUS
<1> HIDE DEF R
<1>3. PICK x \in S : \A y \in S : ~ (<<y, x>> \in R)
  BY <1>1, WFMin
<1>4. \A y \in S : x <= y
  <2>1. TAKE y \in S
  <2>2. x \in Nat /\ y \in Nat
    OBVIOUS
  <2>3. ~ (y < x)
    BY <1>2, <1>3, <2>2
  <2> QED BY <2>2, <2>3
<1> QED BY <1>4 DEF Min

LEMMA MaxIsGreatest ==
  ASSUME NEW S \in SUBSET (0 .. MAXCLIENTS), S # {}
  PROVE  Max(S) \in S /\ \A n \in S : Max(S) >= n
<1> DEFINE T == {MAXCLIENTS - n : n \in S}
<1>1. T \in SUBSET Nat
  BY MAXCLIENTSAssumption
<1>2. T # {}
  OBVIOUS
<1>3. \A n \in S : MAXCLIENTS - n \in T
  OBVIOUS
<1>4. \A m \in T : \E n \in S : m = MAXCLIENTS - n
  OBVIOUS
<1> HIDE DEF T
<1>5. Min(T) \in T /\ \A n \in T : Min(T) <= n
  BY <1>1, <1>2, MinIsLeast
<1>6. PICK x \in S : Min(T) = MAXCLIENTS - x
  BY <1>4, <1>5
<1>7. \A y \in S : x >= y
  BY <1>3, <1>5, <1>6, MAXCLIENTSAssumption
<1> QED BY <1>7 DEF Max

LEMMA RunningFinite ==
  ASSUME NEW s, NEW D
  PROVE  IsFiniteSet(Running(s) \ D)
<1>1. IsFiniteSet(Slots)
  BY FS_Interval, MAXCLIENTSAssumption DEF Slots
<1> QED BY <1>1, FS_Subset DEF Running

-----------------------------------------------------------------------------
\* What a procedure leaves alone.
SameLoop(t, s) == t.cur = s.cur /\ t.phase = s.phase /\ t.at = s.at

LEMMA AttendKeeps ==
  ASSUME NEW s, DOMAIN s = Fields, Masks(s), Grab(s),
         NEW c \in Slots, s.conn[c] \in Fds, s.trans[s.conn[c]] = c
  PROVE  LET t == AttendClient(s, c)
         IN  /\ DOMAIN t = Fields
             /\ Masks(t) /\ Grab(t) /\ SameLoop(t, s)
             /\ t.state = s.state /\ t.mode = s.mode /\ t.conn = s.conn
             /\ t.failed = s.failed /\ t.eof = s.eof
             /\ t.waiters = s.waiters /\ t.asleep = s.asleep
             /\ t.nextFree = s.nextFree /\ t.currentMax = s.currentMax
             /\ t.nClients = s.nClients /\ t.trans = s.trans /\ t.grabbed = s.grabbed
BY DEF AttendClient, Fields, Masks, Grab, SameLoop, Live, Connected, Slots, Fds

LEMMA UngrabKeeps ==
  ASSUME NEW s, NEW D, TableBut(s, D), Masks(s), Grab(s)
  PROVE  LET t == UngrabServer(s)
         IN  /\ DOMAIN t = Fields
             /\ Masks(t) /\ Grab(t) /\ SameLoop(t, s) /\ t.grabbed = 0
             /\ t.state = s.state /\ t.mode = s.mode /\ t.conn = s.conn
             /\ t.failed = s.failed /\ t.eof = s.eof
             /\ t.waiters \subseteq s.waiters /\ t.asleep = s.asleep
             /\ t.nextFree = s.nextFree /\ t.currentMax = s.currentMax
             /\ t.nClients = s.nClients /\ t.trans = s.trans
<1> DEFINE l == ListenToAllClients(s)
           t == [l EXCEPT !.grabState = "None", !.grabClient = 0]
           w == Min(s.waiters)
           u == [t EXCEPT !.waiters = @ \ {w}]
<1>1. /\ DOMAIN t = Fields
      /\ Masks(t) /\ Grab(t) /\ SameLoop(t, s) /\ t.grabbed = 0
      /\ t.state = s.state /\ t.mode = s.mode /\ t.conn = s.conn
      /\ t.failed = s.failed /\ t.eof = s.eof
      /\ t.waiters = s.waiters /\ t.asleep = s.asleep
      /\ t.nextFree = s.nextFree /\ t.currentMax = s.currentMax
      /\ t.nClients = s.nClients /\ t.trans = s.trans
  BY DEF TableBut, Masks, Grab, ListenToAllClients, Fields, SameLoop, Live, Connected
<1>2. CASE s.waiters = {}
  BY <1>1, <1>2 DEF UngrabServer
<1>3. CASE s.waiters # {}
  <2>1. s.waiters \in SUBSET Nat
    BY MAXCLIENTSAssumption DEF TableBut, Connected, Slots
  <2>2. w \in s.waiters
    BY <1>3, <2>1, MinIsLeast
  <2>3. w \in Slots /\ s.conn[w] \in Fds /\ s.trans[s.conn[w]] = w
    BY <2>2 DEF TableBut, Connected, Masks
  <2> HIDE DEF t, w
  <2>4. /\ DOMAIN u = Fields
        /\ Masks(u) /\ Grab(u) /\ SameLoop(u, s) /\ u.grabbed = 0
        /\ u.state = s.state /\ u.mode = s.mode /\ u.conn = s.conn
        /\ u.failed = s.failed /\ u.eof = s.eof
        /\ u.waiters \subseteq s.waiters /\ u.asleep = s.asleep
        /\ u.nextFree = s.nextFree /\ u.currentMax = s.currentMax
        /\ u.nClients = s.nClients /\ u.trans = s.trans
    BY <1>1 DEF Masks, Grab, Fields, SameLoop, Live, Connected
  <2> HIDE DEF u
  <2>5. UngrabServer(s) = AttendClient(u, w)
    BY <1>3 DEF UngrabServer, t, u, w
  <2> QED BY <2>3, <2>4, <2>5, AttendKeeps DEF SameLoop
<1> QED BY <1>2, <1>3

LEMMA CutKeeps ==
  ASSUME NEW s, Table(s), Masks(s), Grab(s),
         NEW c \in Slots, s.conn[c] # 0, s.grabbed # c
  PROVE  LET t == CloseDownConnection([s EXCEPT !.waiters = @ \ {c}, !.asleep = @ \ {c}], c)
         IN  /\ DOMAIN t = Fields
             /\ Masks(t) /\ Grab(t) /\ SameLoop(t, s)
             /\ t.state = s.state /\ t.mode = s.mode
             /\ t.conn = [s.conn EXCEPT ![c] = 0]
             /\ t.failed = s.failed \ {c} /\ t.eof = s.eof \ {c}
             /\ t.waiters = s.waiters \ {c} /\ t.asleep = s.asleep \ {c}
             /\ t.nextFree = s.nextFree /\ t.currentMax = s.currentMax
             /\ t.nClients = s.nClients
<1> DEFINE w == [s EXCEPT !.waiters = @ \ {c}, !.asleep = @ \ {c}]
           t == CloseDownConnection(w, c)
           f == s.conn[c]
<1>1. /\ DOMAIN t = Fields /\ SameLoop(t, s)
      /\ t.state = s.state /\ t.mode = s.mode
      /\ t.conn = [s.conn EXCEPT ![c] = 0]
      /\ t.failed = s.failed \ {c} /\ t.eof = s.eof \ {c}
      /\ t.waiters = s.waiters \ {c} /\ t.asleep = s.asleep \ {c}
      /\ t.nextFree = s.nextFree /\ t.currentMax = s.currentMax
      /\ t.nClients = s.nClients
      /\ t.grabbed = s.grabbed /\ t.grabState = s.grabState /\ t.grabClient = s.grabClient
      /\ t.trans = [s.trans EXCEPT ![f] = 0]
      /\ t.all = s.all \ {f} /\ t.input = s.input \ {f} /\ t.impervious = s.impervious \ {f}
      /\ t.saved = IF s.grabbed # 0 THEN s.saved \ {f} ELSE s.saved
      /\ t.savedInput = IF s.grabbed # 0 THEN s.savedInput \ {f} ELSE s.savedInput
  <2>1. /\ DOMAIN w = Fields /\ SameLoop(w, s)
        /\ w.state = s.state /\ w.mode = s.mode /\ w.conn = s.conn
        /\ w.failed = s.failed /\ w.eof = s.eof
        /\ w.waiters = s.waiters \ {c} /\ w.asleep = s.asleep \ {c}
        /\ w.nextFree = s.nextFree /\ w.currentMax = s.currentMax
        /\ w.nClients = s.nClients /\ w.trans = s.trans
        /\ w.grabbed = s.grabbed /\ w.grabState = s.grabState
        /\ w.grabClient = s.grabClient
        /\ w.all = s.all /\ w.input = s.input /\ w.impervious = s.impervious
        /\ w.saved = s.saved /\ w.savedInput = s.savedInput
    BY DEF Table, TableBut, Fields, SameLoop
  <2> HIDE DEF w
  <2>2. t = [w EXCEPT !.trans[f] = 0, !.all = @ \ {f}, !.input = @ \ {f},
                      !.impervious = @ \ {f},
                      !.saved = IF s.grabbed # 0 THEN @ \ {f} ELSE @,
                      !.savedInput = IF s.grabbed # 0 THEN @ \ {f} ELSE @,
                      !.conn[c] = 0, !.failed = @ \ {c}, !.eof = @ \ {c},
                      !.again = @ \ {c}, !.buf[c] = 0, !.sock[c] = 0]
    BY <2>1, Zenon DEF CloseDownConnection
  <2> HIDE DEF t, f
  <2> QED BY <2>1, <2>2 DEF Fields, SameLoop
<1>2. s.conn \in [Slots -> Fds \cup {0}] /\ f \in Fds
  BY DEF Table, TableBut
<1> HIDE DEF t, f
<1>3. Grab(t)
  BY <1>1, <1>2 DEF Grab
<1>4. t.trans \in [Fds -> Slots \cup {0}] /\ Live(t) = Live(s) \ {f}
  BY <1>1, <1>2 DEF Masks, Live
<1>5. /\ t.all \subseteq Live(t) /\ t.input \subseteq Live(t) /\ t.impervious \subseteq Live(t)
      /\ t.saved \subseteq Live(t) /\ t.savedInput \subseteq Live(t)
      /\ t.grabbed = 0 => t.saved = {} /\ t.savedInput = {}
  BY <1>1, <1>4 DEF Masks
<1>6. \A d \in Connected(t) : t.trans[t.conn[d]] = d
  BY <1>1, <1>2 DEF Masks, Connected, f
<1>7. \A g \in Live(t) : t.conn[t.trans[g]] = g
  BY <1>1, <1>2, <1>4 DEF Masks, Live, Connected, f
<1> QED BY <1>1, <1>3, <1>4, <1>5, <1>6, <1>7 DEF Masks, t, w

LEMMA DisconnectKeeps ==
  ASSUME NEW s, Tables(s), NEW c \in Slots, s.state[c] \in {"Initial", "Running"}
  PROVE  LET u == Disconnect(s, c)
         IN  /\ TableBut(u, IF s.mode[c] = "DestroyAll" THEN {c} ELSE {})
             /\ Masks(u) /\ Grab(u) /\ SameLoop(u, s)
             /\ u.mode = s.mode /\ u.conn[c] = 0
             /\ s.mode[c] # "DestroyAll" => u.state[c] = "Retained"
             /\ \A d \in Slots \ {c} : u.state[d] = s.state[d] /\ u.conn[d] = s.conn[d]
<1> DEFINE t == IF s.grabState # "None" /\ s.grabClient = c THEN UngrabServer(s) ELSE s
           v == CloseDownConnection([t EXCEPT !.waiters = @ \ {c}, !.asleep = @ \ {c}], c)
           u == Disconnect(s, c)
           D == IF s.mode[c] = "DestroyAll" THEN {c} ELSE {}
<1>1. s.conn[c] # 0
  BY DEF Tables, Table, TableBut
<1>2. /\ Table(t) /\ Masks(t) /\ Grab(t) /\ SameLoop(t, s) /\ t.grabbed # c
      /\ t.state = s.state /\ t.mode = s.mode /\ t.conn = s.conn
      /\ t.nClients = s.nClients
  <2>1. CASE s.grabState # "None" /\ s.grabClient = c
    <3>1. t = UngrabServer(s)
      BY <2>1
    <3> HIDE DEF t
    <3>2. /\ DOMAIN t = Fields
          /\ Masks(t) /\ Grab(t) /\ SameLoop(t, s) /\ t.grabbed = 0
          /\ t.state = s.state /\ t.mode = s.mode /\ t.conn = s.conn
          /\ t.failed = s.failed /\ t.eof = s.eof
          /\ t.waiters \subseteq s.waiters /\ t.asleep = s.asleep
          /\ t.nextFree = s.nextFree /\ t.currentMax = s.currentMax
          /\ t.nClients = s.nClients /\ t.trans = s.trans
      BY <3>1, UngrabKeeps DEF Tables, Table
    <3>3. Running(t) = Running(s) /\ Connected(t) = Connected(s)
      BY <3>2 DEF Running, Connected
    <3>4. Table(t)
      BY <3>2, <3>3 DEF Tables, Table, TableBut
    <3>5. t.grabbed # c
      BY <3>2 DEF Slots
    <3> QED BY <3>2, <3>4, <3>5
  <2>2. CASE ~ (s.grabState # "None" /\ s.grabClient = c)
    BY <2>2 DEF Tables, Grab, SameLoop, Slots
  <2> QED BY <2>1, <2>2
<1> HIDE DEF t
<1>3. /\ DOMAIN v = Fields
      /\ Masks(v) /\ Grab(v) /\ SameLoop(v, s)
      /\ v.state = s.state /\ v.mode = s.mode
      /\ v.conn = [s.conn EXCEPT ![c] = 0]
      /\ v.failed = t.failed \ {c} /\ v.eof = t.eof \ {c}
      /\ v.waiters = t.waiters \ {c} /\ v.asleep = t.asleep \ {c}
      /\ v.nextFree = t.nextFree /\ v.currentMax = t.currentMax
      /\ v.nClients = s.nClients
  <2>1. /\ DOMAIN v = Fields
        /\ Masks(v) /\ Grab(v) /\ SameLoop(v, t)
        /\ v.state = t.state /\ v.mode = t.mode
        /\ v.conn = [t.conn EXCEPT ![c] = 0]
        /\ v.failed = t.failed \ {c} /\ v.eof = t.eof \ {c}
        /\ v.waiters = t.waiters \ {c} /\ v.asleep = t.asleep \ {c}
        /\ v.nextFree = t.nextFree /\ v.currentMax = t.currentMax
        /\ v.nClients = t.nClients
    <3>1. t.conn[c] # 0
      BY <1>1, <1>2
    <3> QED BY <1>2, <3>1, CutKeeps
  <2> HIDE DEF v
  <2> QED BY <1>2, <2>1 DEF SameLoop
<1>4. u = [v EXCEPT !.nClients = IF s.state[c] = "Initial" THEN @ ELSE @ - 1,
                    !.state[c] = IF s.mode[c] = "DestroyAll" THEN @ ELSE "Retained"]
  BY DEF Disconnect, t
<1> HIDE DEF v, u, D
<1>5. /\ DOMAIN u = Fields
      /\ SameLoop(u, s) /\ u.mode = s.mode
      /\ u.state = [s.state EXCEPT ![c] = IF s.mode[c] = "DestroyAll" THEN @ ELSE "Retained"]
      /\ u.conn = [s.conn EXCEPT ![c] = 0]
      /\ u.failed = t.failed \ {c} /\ u.eof = t.eof \ {c}
      /\ u.waiters = t.waiters \ {c} /\ u.asleep = t.asleep \ {c}
      /\ u.nextFree = t.nextFree /\ u.currentMax = t.currentMax
      /\ u.nClients = IF s.state[c] = "Initial" THEN s.nClients ELSE s.nClients - 1
  BY <1>3, <1>4 DEF Fields, SameLoop
<1>6. Masks(u) /\ Grab(u)
  BY <1>3, <1>4 DEF Masks, Grab, Live, Connected, Fields
<1>7. /\ s.state \in [Slots -> {"None", "Initial", "Running", "Retained"}]
      /\ s.mode \in [Slots -> Modes] /\ s.conn \in [Slots -> Fds \cup {0}]
  BY DEF Tables, Table, TableBut
<1>8. u.nClients = Cardinality(Running(u) \ D)
  <2>1. Running(u) \ D = Running(s) \ {c}
    BY <1>5, <1>7 DEF Running, D
  <2>2. s.nClients = Cardinality(Running(s))
    <3>1. Running(s) \ {} = Running(s)
      OBVIOUS
    <3> QED BY <3>1 DEF Tables, Table, TableBut
  <2>3. IsFiniteSet(Running(s))
    BY RunningFinite DEF Running
  <2>4. Cardinality(Running(s) \ {c}) = IF c \in Running(s) THEN s.nClients - 1 ELSE s.nClients
    BY <2>2, <2>3, FS_RemoveElement
  <2>5. c \in Running(s) <=> s.state[c] # "Initial"
    BY DEF Running
  <2> QED BY <1>5, <2>1, <2>4, <2>5
<1>9. TableBut(u, D)
  <2>1. \A d \in Slots : u.conn[d] # 0 <=> d \notin D /\ u.state[d] \in {"Initial", "Running"}
    BY <1>5, <1>7 DEF Tables, Table, TableBut, D
  <2>2. u.failed \cup u.eof \cup u.waiters \cup u.asleep \subseteq Connected(u)
    BY <1>2, <1>5, <1>7 DEF Table, TableBut, Connected
  <2>3. /\ u.nextFree \in 1 .. MAXCLIENTS
        /\ u.nextFree < MAXCLIENTS => u.state[u.nextFree] = "None"
        /\ \A d \in Slots : d < u.nextFree => u.state[d] # "None"
        /\ u.currentMax \in 1 .. MAXCLIENTS
        /\ \A d \in Slots : d >= u.currentMax => u.state[d] = "None"
    BY <1>2, <1>5, <1>7, MAXCLIENTSAssumption DEF Table, TableBut, Slots
  <2> QED BY <1>5, <1>7, <1>8, <2>1, <2>2, <2>3 DEF TableBut
<1> QED BY <1>5, <1>6, <1>7, <1>9 DEF D, u

LEMMA FreeSlotsKeeps ==
  ASSUME NEW s, NEW D \in SUBSET Slots, TableBut(s, D), Masks(s), Grab(s)
  PROVE  LET t == FreeSlots(s, D)
         IN  /\ Tables(t) /\ SameLoop(t, s)
             /\ t.conn = s.conn /\ t.mode \in [Slots -> Modes]
             /\ t.state = [c \in Slots |-> IF c \in D THEN "None" ELSE s.state[c]]
<1> DEFINE t == FreeSlots(s, D)
           left == UsedSlots(s) \ D
           below == {c \in left : c < s.currentMax} \cup {0}
<1>1. /\ DOMAIN t = Fields /\ SameLoop(t, s)
      /\ t.state = [c \in Slots |-> IF c \in D THEN "None" ELSE s.state[c]]
      /\ t.mode = [c \in Slots |-> IF c \in D THEN "DestroyAll" ELSE s.mode[c]]
      /\ t.conn = s.conn /\ t.failed = s.failed /\ t.eof = s.eof
      /\ t.waiters = s.waiters /\ t.asleep = s.asleep
      /\ t.nextFree = Min(D \cup {s.nextFree}) /\ t.currentMax = 1 + Max(below)
      /\ t.nClients = s.nClients
  BY DEF TableBut, Fields, SameLoop, FreeSlots
<1>2. Masks(t) /\ Grab(t)
  <2>1. /\ t.conn = s.conn /\ t.trans = s.trans
        /\ t.all = s.all /\ t.input = s.input /\ t.impervious = s.impervious
        /\ t.saved = s.saved /\ t.savedInput = s.savedInput
        /\ t.grabbed = s.grabbed /\ t.grabState = s.grabState /\ t.grabClient = s.grabClient
    BY DEF TableBut, Fields, FreeSlots
  <2> HIDE DEF t
  <2> QED BY <2>1 DEF Masks, Grab, Live, Connected
<1>3. /\ s.state \in [Slots -> {"None", "Initial", "Running", "Retained"}]
      /\ s.mode \in [Slots -> Modes] /\ s.conn \in [Slots -> Fds \cup {0}]
      /\ s.nextFree \in 1 .. MAXCLIENTS /\ s.currentMax \in 1 .. MAXCLIENTS
  BY DEF TableBut
<1> HIDE DEF t
<1>4. /\ t.nextFree \in D \cup {s.nextFree}
      /\ \A n \in D \cup {s.nextFree} : t.nextFree <= n
  <2>1. D \cup {s.nextFree} \in SUBSET Nat
    <3>1. Slots \subseteq Nat /\ s.nextFree \in Nat
      BY <1>3, MAXCLIENTSAssumption DEF Slots
    <3> QED BY <3>1
  <2>2. D \cup {s.nextFree} # {}
    OBVIOUS
  <2> QED BY <1>1, <2>1, <2>2, MinIsLeast
<1>5. /\ t.nextFree \in 1 .. MAXCLIENTS
      /\ t.nextFree < MAXCLIENTS => t.state[t.nextFree] = "None"
  <2>1. CASE t.nextFree \in D
    <3>1. t.nextFree \in Slots
      BY <2>1
    <3> QED BY <1>1, <2>1, <3>1, MAXCLIENTSAssumption DEF Slots
  <2>2. CASE t.nextFree = s.nextFree
    <3>1. s.nextFree < MAXCLIENTS => s.nextFree \in Slots
      BY <1>3, MAXCLIENTSAssumption DEF Slots
    <3> QED BY <1>1, <1>3, <2>2, <3>1 DEF TableBut
  <2> QED BY <1>4, <2>1, <2>2
<1>6. \A c \in Slots : c < t.nextFree => t.state[c] # "None"
  <2> SUFFICES ASSUME NEW c \in Slots, c < t.nextFree
               PROVE  t.state[c] # "None"
    OBVIOUS
  <2>1. c \in Int /\ t.nextFree \in Int /\ s.nextFree \in Int
    BY <1>3, <1>5, MAXCLIENTSAssumption DEF Slots
  <2>2. c \notin D /\ c < s.nextFree
    BY <1>4, <2>1
  <2> QED BY <1>1, <2>2 DEF TableBut
<1>7. below \in SUBSET (0 .. MAXCLIENTS) /\ below # {}
  BY MAXCLIENTSAssumption DEF UsedSlots, Slots
<1>8. Max(below) \in below /\ \A n \in below : Max(below) >= n
  BY <1>7, MaxIsGreatest
<1>9. t.currentMax \in 1 .. MAXCLIENTS
  BY <1>1, <1>8, MAXCLIENTSAssumption DEF UsedSlots, Slots
<1>10. \A c \in Slots : c >= t.currentMax => t.state[c] = "None"
  <2> SUFFICES ASSUME NEW c \in Slots, t.state[c] # "None"
               PROVE  c < t.currentMax
    BY <1>9, MAXCLIENTSAssumption DEF Slots
  <2>1. c \notin D /\ s.state[c] # "None"
    BY <1>1
  <2>2. c < s.currentMax
    BY <1>3, <2>1, MAXCLIENTSAssumption DEF TableBut, Slots
  <2>3. c \in below
    BY <2>1, <2>2 DEF UsedSlots
  <2>4. Max(below) \in Int
    BY <1>7, <1>8
  <2> QED BY <1>1, <1>8, <2>3, <2>4, MAXCLIENTSAssumption DEF Slots
<1>11. t.nClients = Cardinality(Running(t) \ {})
  <2>1. Running(t) \ {} = Running(s) \ D
    BY <1>1 DEF Running
  <2> QED BY <1>1, <2>1 DEF TableBut
<1>12. Connected(t) = Connected(s)
  BY <1>1 DEF Connected
<1>13. \A c \in Slots : t.conn[c] # 0 <=> t.state[c] \in {"Initial", "Running"}
  BY <1>1 DEF TableBut
<1>14. t.mode \in [Slots -> Modes]
  BY <1>1, <1>3 DEF Modes
<1>15. t.state \in [Slots -> {"None", "Initial", "Running", "Retained"}]
  BY <1>1, <1>3
<1>16. Table(t)
  BY <1>1, <1>3, <1>5, <1>6, <1>9, <1>10, <1>11, <1>12, <1>13, <1>14, <1>15 DEF Table, TableBut
<1> QED BY <1>1, <1>2, <1>14, <1>16 DEF Tables, t

LEMMA DestroyKeeps ==
  ASSUME NEW s, NEW c \in Slots, TableBut(s, {c}), Masks(s), Grab(s)
  PROVE  LET t == Destroy(s, c)
         IN  /\ Tables(t) /\ SameLoop(t, s) /\ t.conn = s.conn
             /\ t.state = [d \in Slots |-> IF d = c THEN "None" ELSE s.state[d]]
<1> DEFINE r == [s EXCEPT !.reset = @ \/ (s.state[c] = "Running" /\ s.nClients = 0)]
<1>1. TableBut(r, {c}) /\ SameLoop(r, s) /\ r.conn = s.conn /\ r.state = s.state
  <2>1. /\ DOMAIN r = Fields /\ SameLoop(r, s)
        /\ r.state = s.state /\ r.mode = s.mode /\ r.conn = s.conn
        /\ r.failed = s.failed /\ r.eof = s.eof
        /\ r.waiters = s.waiters /\ r.asleep = s.asleep
        /\ r.nextFree = s.nextFree /\ r.currentMax = s.currentMax /\ r.nClients = s.nClients
    BY DEF TableBut, Fields, SameLoop
  <2> HIDE DEF r
  <2>2. Running(r) = Running(s) /\ Connected(r) = Connected(s)
    BY <2>1 DEF Running, Connected
  <2> QED BY <2>1, <2>2 DEF TableBut
<1>2. Masks(r) /\ Grab(r)
  BY DEF TableBut, Fields, Masks, Grab, Live, Connected
<1> HIDE DEF r
<1>3. Destroy(s, c) = FreeSlots(r, {c})
  BY DEF Destroy, r
<1>4. {c} \in SUBSET Slots
  OBVIOUS
<1> QED BY <1>1, <1>2, <1>3, <1>4, FreeSlotsKeeps DEF SameLoop

\* CloseDownClient leaves the tables in order, and other clients alone.
LEMMA CloseDownKeeps ==
  ASSUME NEW s, Tables(s), NEW c \in Slots, s.state[c] # "None"
  PROVE  LET t == CloseDownClient(s, c)
         IN  /\ Tables(t) /\ SameLoop(t, s)
             /\ t.conn[c] = 0 /\ t.state[c] \in {"None", "Retained"}
             /\ s.mode[c] = "DestroyAll" \/ s.state[c] = "Retained" => t.state[c] = "None"
             /\ \A d \in Slots \ {c} : t.state[d] = s.state[d] /\ t.conn[d] = s.conn[d]
<1>1. /\ s.state \in [Slots -> {"None", "Initial", "Running", "Retained"}]
      /\ TableBut(s, {})
  BY DEF Tables, Table, TableBut
<1>2. CASE s.state[c] = "Retained"
  <2>1. TableBut(s, {c})
    <3>1. Running(s) \ {c} = Running(s) \ {}
      BY <1>2 DEF Running
    <3> QED BY <1>1, <1>2, <3>1 DEF TableBut
  <2>2. CloseDownClient(s, c) = Destroy(s, c)
    BY <1>2 DEF CloseDownClient
  <2>3. s.conn[c] = 0
    BY <1>1, <1>2 DEF TableBut
  <2> DEFINE t == Destroy(s, c)
  <2>4. /\ Tables(t) /\ SameLoop(t, s) /\ t.conn = s.conn
        /\ t.state = [d \in Slots |-> IF d = c THEN "None" ELSE s.state[d]]
    BY <2>1, DestroyKeeps DEF Tables
  <2> HIDE DEF t
  <2> QED BY <2>2, <2>3, <2>4 DEF t
<1>3. CASE s.state[c] # "Retained" /\ s.mode[c] = "DestroyAll"
  <2> DEFINE u == Disconnect(s, c)
  <2>1. s.state[c] \in {"Initial", "Running"}
    BY <1>1, <1>3
  <2>2. /\ TableBut(u, {c}) /\ Masks(u) /\ Grab(u) /\ SameLoop(u, s) /\ u.conn[c] = 0
        /\ \A d \in Slots \ {c} : u.state[d] = s.state[d] /\ u.conn[d] = s.conn[d]
    BY <1>3, <2>1, DisconnectKeeps
  <2>3. CloseDownClient(s, c) = Destroy(u, c)
    BY <1>3 DEF CloseDownClient
  <2> DEFINE t == Destroy(u, c)
  <2> HIDE DEF u
  <2>4. /\ Tables(t) /\ SameLoop(t, u) /\ t.conn = u.conn
        /\ t.state = [d \in Slots |-> IF d = c THEN "None" ELSE u.state[d]]
    BY <2>2, DestroyKeeps
  <2> HIDE DEF t
  <2> QED BY <2>2, <2>3, <2>4 DEF SameLoop, t
<1>4. CASE s.state[c] # "Retained" /\ s.mode[c] # "DestroyAll"
  <2> DEFINE u == Disconnect(s, c)
  <2>1. s.state[c] \in {"Initial", "Running"}
    BY <1>1, <1>4
  <2>2. /\ TableBut(u, {}) /\ Masks(u) /\ Grab(u) /\ SameLoop(u, s) /\ u.conn[c] = 0
        /\ u.state[c] = "Retained"
        /\ \A d \in Slots \ {c} : u.state[d] = s.state[d] /\ u.conn[d] = s.conn[d]
    BY <1>4, <2>1, DisconnectKeeps
  <2>3. CloseDownClient(s, c) = u
    BY <1>4 DEF CloseDownClient
  <2> HIDE DEF u
  <2> QED BY <1>4, <2>2, <2>3 DEF Tables, Table
<1> QED BY <1>2, <1>3, <1>4

LEMMA RetainedKeeps ==
  ASSUME NEW s, Tables(s)
  PROVE  LET t == CloseDownRetainedResources(s)
         IN  Tables(t) /\ SameLoop(t, s) /\ t.conn = s.conn
<1> DEFINE D == {c \in Slots : /\ c < s.currentMax /\ s.state[c] = "Retained"
                               /\ s.mode[c] = "RetainTemporary"}
<1>1. Running(s) \ D = Running(s) \ {}
  BY DEF Running
<1>2. TableBut(s, D)
  BY <1>1 DEF Tables, Table, TableBut
<1>3. D \in SUBSET Slots
  OBVIOUS
<1>4. CloseDownRetainedResources(s) = FreeSlots(s, D)
  BY DEF CloseDownRetainedResources
<1> HIDE DEF D
<1>5. LET t == FreeSlots(s, D)
      IN  Tables(t) /\ SameLoop(t, s) /\ t.conn = s.conn
  BY <1>2, <1>3, FreeSlotsKeeps DEF Tables
<1> QED BY <1>4, <1>5

-----------------------------------------------------------------------------
\* The other procedures.

SameTable(t, s) ==
  /\ DOMAIN t = Fields
  /\ t.state = s.state /\ t.mode = s.mode /\ t.conn = s.conn
  /\ t.failed = s.failed /\ t.eof = s.eof /\ t.waiters = s.waiters /\ t.asleep = s.asleep
  /\ t.nextFree = s.nextFree /\ t.currentMax = s.currentMax /\ t.nClients = s.nClients

SameMasks(t, s) ==
  /\ t.trans = s.trans /\ t.all = s.all /\ t.input = s.input /\ t.impervious = s.impervious
  /\ t.saved = s.saved /\ t.savedInput = s.savedInput /\ t.grabbed = s.grabbed

SameGrab(t, s) == t.grabState = s.grabState /\ t.grabClient = s.grabClient

LEMMA SameTableKeeps ==
  ASSUME NEW s, NEW t, Table(s), SameTable(t, s)
  PROVE  Table(t)
<1>1. Running(t) = Running(s) /\ Connected(t) = Connected(s)
  BY DEF SameTable, Running, Connected
<1> QED BY <1>1 DEF SameTable, Table, TableBut

LEMMA SameMasksKeeps ==
  ASSUME NEW s, NEW t, Masks(s), Grab(s), SameMasks(t, s), SameGrab(t, s), t.conn = s.conn
  PROVE  Masks(t) /\ Grab(t)
BY DEF SameMasks, SameGrab, Masks, Grab, Live, Connected

LEMMA SameAll ==
  ASSUME NEW s, NEW t, Tables(s), SameTable(t, s), SameMasks(t, s), SameGrab(t, s)
  PROVE  Tables(t)
BY SameTableKeeps, SameMasksKeeps DEF Tables, SameTable

LEMMA LiveConnection ==
  ASSUME NEW s, Tables(s), NEW c \in Slots, s.conn[c] # 0
  PROVE  /\ s.conn[c] \in Live(s) /\ s.conn[c] \in Fds /\ s.trans[s.conn[c]] = c
         /\ s.state[c] \in {"Initial", "Running"} /\ c # 0
<1>1. c # 0
  BY MAXCLIENTSAssumption DEF Slots
<1>2. s.conn[c] \in Fds /\ s.state[c] \in {"Initial", "Running"}
  BY DEF Tables, Table, TableBut
<1>3. s.trans[s.conn[c]] = c
  BY DEF Tables, Masks, Connected
<1> QED BY <1>1, <1>2, <1>3 DEF Live

\* The kernel gives out a descriptor that is some failed client's still: that
\* client is closed down first, and then it is nobody's.
LEMMA DescriptorIsFree ==
  ASSUME NEW s, Tables(s), NEW f \in Fds
  PROVE  LET old == s.trans[f]
             u == IF old = 0 THEN s ELSE CloseDownClient(s, old)
         IN  /\ Tables(u) /\ SameLoop(u, s) /\ u.trans[f] = 0
             /\ old # 0 => old \in Slots /\ s.state[old] # "None"
<1> DEFINE old == s.trans[f]
           u == CloseDownClient(s, old)
<1>1. CASE old = 0
  BY <1>1 DEF SameLoop
<1>2. CASE old # 0
  <2>1. old \in Slots /\ s.conn[old] = f /\ f # 0
    BY <1>2, MAXCLIENTSAssumption DEF Tables, Masks, Live, Fds
  <2> HIDE DEF old
  <2>2. s.state[old] # "None"
    BY <2>1, LiveConnection
  <2>3. /\ Tables(u) /\ SameLoop(u, s) /\ u.conn[old] = 0
        /\ \A d \in Slots \ {old} : u.conn[d] = s.conn[d]
    BY <2>1, <2>2, CloseDownKeeps
  <2> HIDE DEF u
  <2>4. \A d \in Slots : u.conn[d] # f
    <3>1. \A d \in Slots : s.conn[d] = f => d = old
      BY <2>1 DEF Tables, Masks, Connected, old
    <3> QED BY <2>1, <2>3, <3>1
  <2>5. u.trans[f] = 0
    BY <2>3, <2>4 DEF Tables, Masks, Live
  <2> QED BY <1>2, <2>1, <2>2, <2>3, <2>5 DEF u, old
<1> QED BY <1>1, <1>2

LEMMA AllocKeeps ==
  ASSUME NEW s, Tables(s), NEW f \in Fds, s.trans[f] = 0
  PROVE  LET t == AllocNewConnection(s, f)
         IN  Tables(t) /\ SameLoop(t, s)
<1> DEFINE t == AllocNewConnection(s, f)
           i == s.nextFree
           taken == UsedSlots(s) \cup {i}
           rest == {n \in i .. MAXCLIENTS : n \notin taken}
<1>0. /\ DOMAIN s = Fields
      /\ s.state \in [Slots -> {"None", "Initial", "Running", "Retained"}]
      /\ s.mode \in [Slots -> Modes]
      /\ s.conn \in [Slots -> Fds \cup {0}]
      /\ i \in 1 .. MAXCLIENTS /\ s.currentMax \in 1 .. MAXCLIENTS
      /\ s.nClients = Cardinality(Running(s) \ {})
  BY DEF Tables, Table, TableBut
<1>1. CASE i = MAXCLIENTS
  BY <1>1 DEF AllocNewConnection, SameLoop
<1>2. CASE i # MAXCLIENTS
  <2>1. i \in Slots /\ s.state[i] = "None" /\ s.conn[i] = 0
    BY <1>2, <1>0, MAXCLIENTSAssumption DEF Tables, Table, TableBut, Slots
  <2>2. /\ DOMAIN t = Fields /\ SameLoop(t, s)
        /\ t.state = [s.state EXCEPT ![i] = "Initial"]
        /\ t.mode = [s.mode EXCEPT ![i] = "DestroyAll"]
        /\ t.conn = [s.conn EXCEPT ![i] = f]
        /\ t.trans = [s.trans EXCEPT ![f] = i]
        /\ t.failed = s.failed /\ t.eof = s.eof /\ t.waiters = s.waiters /\ t.asleep = s.asleep
        /\ t.nClients = s.nClients
        /\ t.currentMax = IF i = s.currentMax THEN s.currentMax + 1 ELSE s.currentMax
        /\ t.nextFree = Min(rest)
        /\ t.input = s.input \ {f} /\ t.impervious = s.impervious
        /\ t.savedInput = s.savedInput
        /\ t.saved = IF s.grabbed # 0 THEN s.saved \cup {f} ELSE s.saved
        /\ t.all = IF s.grabbed = 0 THEN s.all \cup {f} ELSE s.all
        /\ t.grabbed = s.grabbed /\ SameGrab(t, s)
    <3>1. t = [s EXCEPT !.state[i] = "Initial", !.mode[i] = "DestroyAll", !.priority[i] = 0,
                        !.conn[i] = f, !.trans[f] = i,
                        !.buf[i] = 0, !.sock[i] = 0, !.input = @ \ {f},
                        !.currentMax = IF i = @ THEN @ + 1 ELSE @,
                        !.nextFree = Min(rest),
                        !.saved = IF s.grabbed # 0 THEN @ \cup {f} ELSE @,
                        !.all = IF s.grabbed = 0 THEN @ \cup {f} ELSE @]
      BY <1>2 DEF AllocNewConnection
    <3> HIDE DEF t, rest
    <3>2. /\ DOMAIN t = Fields /\ SameLoop(t, s)
          /\ t.state = [s.state EXCEPT ![i] = "Initial"]
          /\ t.mode = [s.mode EXCEPT ![i] = "DestroyAll"]
          /\ t.conn = [s.conn EXCEPT ![i] = f]
          /\ t.trans = [s.trans EXCEPT ![f] = i]
      BY <1>0, <3>1 DEF Fields, SameLoop
    <3>3. /\ t.failed = s.failed /\ t.eof = s.eof /\ t.waiters = s.waiters /\ t.asleep = s.asleep
          /\ t.nClients = s.nClients
          /\ t.currentMax = IF i = s.currentMax THEN s.currentMax + 1 ELSE s.currentMax
          /\ t.nextFree = Min(rest)
      BY <1>0, <3>1 DEF Fields
    <3>4. /\ t.input = s.input \ {f} /\ t.impervious = s.impervious
          /\ t.savedInput = s.savedInput
          /\ t.saved = IF s.grabbed # 0 THEN s.saved \cup {f} ELSE s.saved
          /\ t.all = IF s.grabbed = 0 THEN s.all \cup {f} ELSE s.all
          /\ t.grabbed = s.grabbed /\ SameGrab(t, s)
      BY <1>0, <3>1 DEF Fields, SameGrab
    <3> QED BY <3>2, <3>3, <3>4 DEF rest
  <2> HIDE DEF t
  <2>3. Grab(t)
    BY <1>0, <2>1, <2>2 DEF Tables, Grab, SameGrab, Slots
  <2>4. Masks(t)
    <3>1. t.trans \in [Fds -> Slots \cup {0}] /\ Live(t) = Live(s) \cup {f}
      BY <2>1, <2>2 DEF Tables, Masks, Live, Slots
    <3>2. \A d \in Connected(t) : t.trans[t.conn[d]] = d
      <4>1. \A d \in Slots : d # i /\ s.conn[d] # 0 => s.conn[d] # f
        BY <2>1 DEF Tables, Masks, Connected, Slots
      <4> QED BY <1>0, <2>1, <2>2, <4>1 DEF Tables, Masks, Connected
    <3>3. \A g \in Live(t) : t.conn[t.trans[g]] = g
      <4>1. \A g \in Live(s) : g # f /\ s.trans[g] # i
        BY <2>1, MAXCLIENTSAssumption DEF Tables, Masks, Live, Fds
      <4>2. \A g \in Live(s) : s.trans[g] \in Slots
        BY DEF Tables, Masks, Live
      <4> QED BY <1>0, <2>1, <2>2, <3>1, <4>1, <4>2 DEF Tables, Masks, Live
    <3>4. /\ t.all \subseteq Live(t) /\ t.input \subseteq Live(t)
          /\ t.impervious \subseteq Live(t)
          /\ t.saved \subseteq Live(t) /\ t.savedInput \subseteq Live(t)
          /\ t.grabbed = 0 => t.saved = {} /\ t.savedInput = {}
      BY <2>2, <3>1 DEF Tables, Masks
    <3> QED BY <3>1, <3>2, <3>3, <3>4 DEF Masks
  <2>5. t.nextFree \in rest /\ \A n \in rest : t.nextFree <= n
    <3>1. MAXCLIENTS \in rest
      BY <1>0, <1>2, MAXCLIENTSAssumption DEF UsedSlots, Slots
    <3>2. rest \in SUBSET Nat
      BY <1>0, MAXCLIENTSAssumption
    <3> HIDE DEF rest
    <3> QED BY <2>2, <3>1, <3>2, MinIsLeast
  <2>6. t.nextFree \in i .. MAXCLIENTS /\ t.nextFree \notin taken
    BY <2>5
  <2>7. /\ t.nextFree \in 1 .. MAXCLIENTS
        /\ t.nextFree < MAXCLIENTS => t.state[t.nextFree] = "None"
    <3>1. t.nextFree < MAXCLIENTS => t.nextFree \in Slots
      BY <1>0, <2>6, MAXCLIENTSAssumption DEF Slots
    <3>2. t.nextFree \in 1 .. MAXCLIENTS
      BY <1>0, <2>6, MAXCLIENTSAssumption
    <3> QED BY <1>0, <2>2, <2>6, <3>1, <3>2 DEF UsedSlots
  <2>8. \A c \in Slots : c < t.nextFree => t.state[c] # "None"
    <3> SUFFICES ASSUME NEW c \in Slots, c < t.nextFree
                 PROVE  t.state[c] # "None"
      OBVIOUS
    <3>1. c \in Int /\ t.nextFree \in Int /\ i \in Int
      BY <1>0, <2>7, MAXCLIENTSAssumption DEF Slots
    <3>2. CASE c < i
      BY <1>0, <2>1, <2>2, <3>2 DEF Tables, Table, TableBut
    <3>3. CASE c = i
      BY <1>0, <2>1, <2>2, <3>3
    <3>4. CASE c > i
      <4>1. c \in i .. MAXCLIENTS
        BY <1>0, <3>1, <3>4, MAXCLIENTSAssumption DEF Slots
      <4>2. c \in taken
        BY <2>5, <3>1, <4>1
      <4> QED BY <1>0, <2>1, <2>2, <3>1, <3>4, <4>2 DEF UsedSlots
    <3> QED BY <3>1, <3>2, <3>3, <3>4
  <2>9. i <= s.currentMax
    <3>1. CASE s.currentMax \in Slots
      BY <1>0, <3>1, MAXCLIENTSAssumption DEF Tables, Table, TableBut, Slots
    <3>2. CASE s.currentMax \notin Slots
      BY <1>0, <3>2, MAXCLIENTSAssumption DEF Slots
    <3> QED BY <3>1, <3>2
  <2>10. /\ t.currentMax \in 1 .. MAXCLIENTS
         /\ \A c \in Slots : c >= t.currentMax => t.state[c] = "None"
    <3>1. t.currentMax \in 1 .. MAXCLIENTS
      BY <1>0, <1>2, <2>2, MAXCLIENTSAssumption
    <3>2. ASSUME NEW c \in Slots, c >= t.currentMax
          PROVE  t.state[c] = "None"
      <4>1. c # i /\ c >= s.currentMax
        BY <1>0, <2>2, <2>9, <3>2, MAXCLIENTSAssumption DEF Slots
      <4> QED BY <1>0, <2>2, <4>1 DEF Tables, Table, TableBut
    <3> QED BY <3>1, <3>2
  <2>11. t.nClients = Cardinality(Running(t) \ {})
    <3>1. Running(t) = Running(s)
      BY <1>0, <2>1, <2>2 DEF Running
    <3> QED BY <1>0, <2>2, <3>1
  <2>12. \A c \in Slots : t.conn[c] # 0 <=> t.state[c] \in {"Initial", "Running"}
    <3>1. f # 0
      BY MAXCLIENTSAssumption DEF Fds
    <3> QED BY <1>0, <2>1, <2>2, <3>1 DEF Tables, Table, TableBut
  <2>13. t.failed \cup t.eof \cup t.waiters \cup t.asleep \subseteq Connected(t)
    BY <1>0, <2>1, <2>2, <2>12 DEF Tables, Table, TableBut, Connected
  <2>14. /\ t.state \in [Slots -> {"None", "Initial", "Running", "Retained"}]
         /\ t.mode \in [Slots -> Modes] /\ t.conn \in [Slots -> Fds \cup {0}]
    BY <1>0, <2>1, <2>2 DEF Modes
  <2>15. Table(t)
    BY <2>2, <2>7, <2>8, <2>10, <2>11, <2>12, <2>13, <2>14 DEF Table, TableBut
  <2> QED BY <2>2, <2>3, <2>4, <2>15 DEF Tables, t
<1> QED BY <1>1, <1>2

\* Who is being served in the middle of a step.
Serving(s) == s.phase = "serve" /\ s.cur \in Slots /\ s.conn[s.cur] # 0

LEMMA ServingLoops ==
  ASSUME NEW s, Serving(s) \/ (s.phase \in {"wait", "serve", "crashed"} /\ s.cur = 0)
  PROVE  Loops(s)
BY DEF Serving, Loops

LEMMA FinishKeeps ==
  ASSUME NEW s, Tables(s), Serving(s)
  PROVE  Tables(Finish(s)) /\ Loops(Finish(s))
<1>1. CASE s.cur \notin s.failed
  BY <1>1, ServingLoops DEF Finish
<1>2. CASE s.cur \in s.failed
  <2> DEFINE t == CloseDownClient(s, s.cur)
             u == [t EXCEPT !.cur = 0]
  <2>1. Tables(t) /\ SameLoop(t, s)
    <3>1. s.state[s.cur] # "None"
      BY LiveConnection DEF Serving
    <3> QED BY <3>1, CloseDownKeeps DEF Serving
  <2> HIDE DEF t
  <2>2. SameTable(u, t) /\ SameMasks(u, t) /\ SameGrab(u, t) /\ u.cur = 0 /\ u.phase = t.phase
    BY <2>1 DEF Tables, Table, TableBut, Fields, SameTable, SameMasks, SameGrab
  <2>3. Finish(s) = u
    BY <1>2 DEF Finish, t
  <2> HIDE DEF u
  <2>4. Tables(u)
    BY <2>1, <2>2, SameAll
  <2>5. Loops(u)
    BY <2>1, <2>2, ServingLoops DEF SameLoop, Serving
  <2> QED BY <2>3, <2>4, <2>5
<1> QED BY <1>1, <1>2

LEMMA ReadKeeps ==
  ASSUME NEW s, Tables(s), Serving(s)
  PROVE  LET t == ReadRequestFromClient(s)
         IN  /\ Tables(t) /\ Serving(t) /\ SameTable(t, s) /\ SameGrab(t, s) /\ SameLoop(t, s)
             /\ t.grabbed = s.grabbed
<1> DEFINE t == ReadRequestFromClient(s)
<1>1. /\ SameTable(t, s) /\ SameGrab(t, s) /\ SameLoop(t, s)
      /\ t.trans = s.trans /\ t.all = s.all /\ t.impervious = s.impervious
      /\ t.saved = s.saved /\ t.savedInput = s.savedInput /\ t.grabbed = s.grabbed
      /\ t.input \subseteq s.input \cup {s.conn[s.cur]}
  BY DEF Tables, Table, TableBut, Fields, SameTable, SameGrab, SameLoop,
         ReadRequestFromClient, Keep
<1>2. s.conn[s.cur] \in Live(s)
  BY LiveConnection DEF Serving
<1> HIDE DEF t
<1>3. Table(t)
  BY <1>1, SameTableKeeps DEF Tables
<1>4. Masks(t) /\ Grab(t)
  BY <1>1, <1>2 DEF Tables, SameTable, SameGrab, Masks, Grab, Live, Connected
<1> QED BY <1>1, <1>3, <1>4 DEF Tables, Serving, SameTable, SameLoop, t

LEMMA WakeupKeeps ==
  ASSUME NEW s, Tables(s), NEW c \in Slots, s.conn[c] # 0
  PROVE  LET t == AttendClient([s EXCEPT !.asleep = @ \ {c}], c)
         IN  Tables(t) /\ SameLoop(t, s)
<1> DEFINE w == [s EXCEPT !.asleep = @ \ {c}]
           t == AttendClient(w, c)
<1>1. /\ DOMAIN w = Fields
      /\ w.state = s.state /\ w.mode = s.mode /\ w.conn = s.conn
      /\ w.failed = s.failed /\ w.eof = s.eof /\ w.waiters = s.waiters
      /\ w.asleep = s.asleep \ {c}
      /\ w.nextFree = s.nextFree /\ w.currentMax = s.currentMax /\ w.nClients = s.nClients
      /\ SameMasks(w, s) /\ SameGrab(w, s) /\ SameLoop(w, s)
  BY DEF Tables, Table, TableBut, Fields, SameMasks, SameGrab, SameLoop
<1> HIDE DEF w
<1>2. Masks(w) /\ Grab(w)
  BY <1>1, SameMasksKeeps DEF Tables
<1>3. w.conn[c] \in Fds /\ w.trans[w.conn[c]] = c
  BY <1>1, LiveConnection DEF SameMasks
<1>4. Running(w) = Running(s) /\ Connected(w) = Connected(s)
  BY <1>1 DEF Running, Connected
<1>5. Table(w)
  BY <1>1, <1>4 DEF Tables, Table, TableBut
<1>6. SameTable(t, w) /\ Masks(t) /\ Grab(t) /\ SameLoop(t, w)
  BY <1>1, <1>2, <1>3, AttendKeeps DEF SameTable
<1> HIDE DEF t
<1> QED BY <1>1, <1>5, <1>6, SameTableKeeps DEF Tables, SameLoop, t, w

LEMMA IgnoreKeeps ==
  ASSUME NEW s, Tables(s), NEW c \in Slots
  PROVE  LET t == IgnoreClient(s, c)
         IN  Tables(t) /\ SameTable(t, s) /\ SameLoop(t, s)
<1> DEFINE t == IgnoreClient(s, c)
           f == s.conn[c]
<1>1. /\ SameTable(t, s) /\ SameGrab(t, s) /\ SameLoop(t, s)
      /\ t.trans = s.trans /\ t.impervious = s.impervious /\ t.grabbed = s.grabbed
      /\ t.all \subseteq s.all /\ t.input \subseteq s.input
      /\ t.saved \subseteq s.saved /\ t.savedInput \subseteq s.savedInput
  BY DEF Tables, Table, TableBut, Fields, SameTable, SameGrab, SameLoop, IgnoreClient
<1> HIDE DEF t
<1>2. Table(t)
  BY <1>1, SameTableKeeps DEF Tables
<1>3. Masks(t) /\ Grab(t)
  BY <1>1 DEF Tables, SameTable, SameGrab, Masks, Grab, Live, Connected
<1> QED BY <1>1, <1>2, <1>3 DEF Tables, t

LEMMA ControlKeeps ==
  ASSUME NEW s, Tables(s), NEW c \in Slots, s.conn[c] # 0
  PROVE  /\ LET t == MakeClientGrabImpervious(s, c)
            IN  Tables(t) /\ SameTable(t, s) /\ SameLoop(t, s)
         /\ LET t == MakeClientGrabPervious(s, c)
            IN  Tables(t) /\ SameTable(t, s) /\ SameLoop(t, s)
<1>1. s.conn[c] \in Live(s)
  BY LiveConnection
<1>2. ASSUME NEW t, SameTable(t, s), SameGrab(t, s), t.trans = s.trans, t.grabbed = s.grabbed,
             t.impervious \subseteq s.impervious \cup {s.conn[c]},
             t.all \subseteq s.all, t.input \subseteq s.input, t.saved = s.saved,
             t.savedInput \subseteq s.savedInput \cup {s.conn[c]},
             s.grabbed = 0 => t.savedInput = s.savedInput
      PROVE  Tables(t)
  <2>1. Table(t)
    BY <1>2, SameTableKeeps DEF Tables
  <2>2. Masks(t) /\ Grab(t)
    BY <1>1, <1>2 DEF Tables, SameTable, SameGrab, Masks, Grab, Live, Connected
  <2> QED BY <2>1, <2>2 DEF Tables
<1>3. LET t == MakeClientGrabImpervious(s, c)
      IN  Tables(t) /\ SameTable(t, s) /\ SameLoop(t, s)
  <2> DEFINE t == MakeClientGrabImpervious(s, c)
  <2>1. /\ SameTable(t, s) /\ SameGrab(t, s) /\ SameLoop(t, s)
        /\ t.trans = s.trans /\ t.grabbed = s.grabbed
        /\ t.impervious = s.impervious \cup {s.conn[c]}
        /\ t.all = s.all /\ t.input = s.input
        /\ t.saved = s.saved /\ t.savedInput = s.savedInput
    BY DEF Tables, Table, TableBut, Fields, SameTable, SameGrab, SameLoop,
           MakeClientGrabImpervious
  <2> HIDE DEF t
  <2> QED BY <1>2, <2>1 DEF t
<1>4. LET t == MakeClientGrabPervious(s, c)
      IN  Tables(t) /\ SameTable(t, s) /\ SameLoop(t, s)
  <2> DEFINE t == MakeClientGrabPervious(s, c)
  <2>1. /\ SameTable(t, s) /\ SameGrab(t, s) /\ SameLoop(t, s)
        /\ t.trans = s.trans /\ t.grabbed = s.grabbed
        /\ t.impervious \subseteq s.impervious
        /\ t.all \subseteq s.all /\ t.input \subseteq s.input
        /\ t.saved = s.saved /\ t.savedInput \subseteq s.savedInput \cup {s.conn[c]}
        /\ s.grabbed = 0 => t.savedInput = s.savedInput
    BY DEF Tables, Table, TableBut, Fields, SameTable, SameGrab, SameLoop,
           MakeClientGrabPervious
  <2> HIDE DEF t
  <2> QED BY <1>2, <2>1 DEF t
<1> QED BY <1>3, <1>4

LEMMA UngrabServerKeeps ==
  ASSUME NEW s, Tables(s)
  PROVE  LET t == UngrabServer(s)
         IN  Tables(t) /\ SameLoop(t, s) /\ t.conn = s.conn
<1> DEFINE t == UngrabServer(s)
<1>1. /\ DOMAIN t = Fields
      /\ Masks(t) /\ Grab(t) /\ SameLoop(t, s) /\ t.grabbed = 0
      /\ t.state = s.state /\ t.mode = s.mode /\ t.conn = s.conn
      /\ t.failed = s.failed /\ t.eof = s.eof
      /\ t.waiters \subseteq s.waiters /\ t.asleep = s.asleep
      /\ t.nextFree = s.nextFree /\ t.currentMax = s.currentMax
      /\ t.nClients = s.nClients /\ t.trans = s.trans
  BY UngrabKeeps DEF Tables, Table
<1> HIDE DEF t
<1>2. Running(t) = Running(s) /\ Connected(t) = Connected(s)
  BY <1>1 DEF Running, Connected
<1>3. Table(t)
  BY <1>1, <1>2 DEF Tables, Table, TableBut
<1> QED BY <1>1, <1>3 DEF Tables, t

LEMMA GrabKeeps ==
  ASSUME NEW s, Tables(s), NEW c \in Slots, s.conn[c] # 0,
         s.grabState = "None" \/ s.grabClient = c
  PROVE  LET t == [OnlyListenToOneClient(s, c) EXCEPT !.grabState = "Kickout",
                                                      !.grabClient = c]
         IN  Tables(t) /\ SameTable(t, s) /\ SameLoop(t, s)
<1> DEFINE l == OnlyListenToOneClient(s, c)
           t == [l EXCEPT !.grabState = "Kickout", !.grabClient = c]
           f == s.conn[c]
<1>1. f \in Live(s) /\ c # 0
  BY LiveConnection
<1>2. /\ SameTable(l, s) /\ SameLoop(l, s)
      /\ l.trans = s.trans /\ l.impervious = s.impervious
      /\ s.grabbed # 0 => /\ l.all = s.all /\ l.input = s.input /\ l.saved = s.saved
                          /\ l.savedInput = s.savedInput /\ l.grabbed = s.grabbed
      /\ s.grabbed = 0 => /\ l.all \subseteq s.all \cup {f} /\ l.input \subseteq s.input
                          /\ l.saved = s.all /\ l.savedInput \subseteq s.input
                          /\ l.grabbed = c
  BY DEF Tables, Table, TableBut, Fields, SameTable, SameLoop, OnlyListenToOneClient
<1> HIDE DEF l
<1>3. /\ SameTable(t, s) /\ SameLoop(t, s)
      /\ t.trans = l.trans /\ t.impervious = l.impervious
      /\ t.all = l.all /\ t.input = l.input /\ t.saved = l.saved
      /\ t.savedInput = l.savedInput /\ t.grabbed = l.grabbed
      /\ t.grabState = "Kickout" /\ t.grabClient = c
  BY <1>2 DEF Fields, SameTable, SameLoop
<1> HIDE DEF t, f
<1>4. t.grabbed = c
  BY <1>2, <1>3 DEF Tables, Grab
<1>5. Grab(t)
  BY <1>1, <1>3, <1>4 DEF Grab, SameTable
<1>6. Masks(t)
  BY <1>1, <1>2, <1>3, <1>4 DEF Tables, SameTable, Masks, Live, Connected
<1>7. Table(t)
  BY <1>3, SameTableKeeps DEF Tables
<1> QED BY <1>3, <1>5, <1>6, <1>7 DEF Tables, t, l

LEMMA WaitKeeps ==
  ASSUME NEW s, Tables(s), NEW c \in Slots, s.conn[c] # 0
  PROVE  LET t == IgnoreClient([ResetCurrentRequest(s, c) EXCEPT !.waiters = @ \cup {c}], c)
         IN  Tables(t) /\ SameLoop(t, s) /\ t.conn = s.conn
<1> DEFINE r == ResetCurrentRequest(s, c)
           w == [r EXCEPT !.waiters = @ \cup {c}]
           t == IgnoreClient(w, c)
<1>1. s.conn[c] \in Live(s)
  BY LiveConnection
<1>2. /\ SameTable(r, s) /\ SameGrab(r, s) /\ SameLoop(r, s)
      /\ r.trans = s.trans /\ r.impervious = s.impervious /\ r.grabbed = s.grabbed
      /\ r.all = s.all /\ r.saved = s.saved /\ r.savedInput = s.savedInput
      /\ r.input \subseteq s.input \cup {s.conn[c]}
  BY DEF Tables, Table, TableBut, Fields, SameTable, SameGrab, SameLoop, ResetCurrentRequest
<1> HIDE DEF r
<1>3. Table(r) /\ Masks(r) /\ Grab(r)
  <2>1. Table(r)
    BY <1>2, SameTableKeeps DEF Tables
  <2>2. Masks(r) /\ Grab(r)
    BY <1>1, <1>2 DEF Tables, SameTable, SameGrab, Masks, Grab, Live, Connected
  <2> QED BY <2>1, <2>2
<1>4. /\ DOMAIN w = Fields
      /\ w.state = r.state /\ w.mode = r.mode /\ w.conn = r.conn
      /\ w.failed = r.failed /\ w.eof = r.eof /\ w.asleep = r.asleep
      /\ w.waiters = r.waiters \cup {c}
      /\ w.nextFree = r.nextFree /\ w.currentMax = r.currentMax /\ w.nClients = r.nClients
      /\ SameMasks(w, r) /\ SameGrab(w, r) /\ SameLoop(w, r)
  BY <1>2 DEF Fields, SameTable, SameMasks, SameGrab, SameLoop
<1> HIDE DEF w
<1>5. Masks(w) /\ Grab(w)
  BY <1>3, <1>4, SameMasksKeeps
<1>6. Running(w) = Running(r) /\ Connected(w) = Connected(r) /\ c \in Connected(r)
  BY <1>2, <1>4 DEF Running, Connected, SameTable
<1>7. Table(w)
  BY <1>3, <1>4, <1>6 DEF Table, TableBut
<1>8. Tables(t) /\ SameTable(t, w) /\ SameLoop(t, w)
  BY <1>5, <1>7, IgnoreKeeps DEF Tables
<1> HIDE DEF t
<1> QED BY <1>2, <1>4, <1>8 DEF SameTable, SameLoop, t, w, r

LEMMA SleepKeeps ==
  ASSUME NEW s, Tables(s), NEW c \in Slots, s.conn[c] # 0
  PROVE  LET t == IgnoreClient([s EXCEPT !.asleep = @ \cup {c}], c)
         IN  Tables(t) /\ SameLoop(t, s) /\ t.conn = s.conn
<1> DEFINE w == [s EXCEPT !.asleep = @ \cup {c}]
           t == IgnoreClient(w, c)
<1>1. /\ DOMAIN w = Fields
      /\ w.state = s.state /\ w.mode = s.mode /\ w.conn = s.conn
      /\ w.failed = s.failed /\ w.eof = s.eof /\ w.waiters = s.waiters
      /\ w.asleep = s.asleep \cup {c}
      /\ w.nextFree = s.nextFree /\ w.currentMax = s.currentMax /\ w.nClients = s.nClients
      /\ SameMasks(w, s) /\ SameGrab(w, s) /\ SameLoop(w, s)
  BY DEF Tables, Table, TableBut, Fields, SameMasks, SameGrab, SameLoop
<1> HIDE DEF w
<1>2. Masks(w) /\ Grab(w)
  BY <1>1, SameMasksKeeps DEF Tables
<1>3. Running(w) = Running(s) /\ Connected(w) = Connected(s) /\ c \in Connected(s)
  BY <1>1 DEF Running, Connected
<1>4. Table(w)
  BY <1>1, <1>3 DEF Tables, Table, TableBut
<1>5. Tables(t) /\ SameTable(t, w) /\ SameLoop(t, w)
  BY <1>2, <1>4, IgnoreKeeps DEF Tables
<1> HIDE DEF t
<1> QED BY <1>1, <1>5 DEF SameTable, SameLoop, t, w

\* Connection set-up: accepted, the client is counted; refused, its write fails.
LEMMA SetUpKeeps ==
  ASSUME NEW s, Tables(s), NEW c \in Slots, s.conn[c] # 0, s.state[c] = "Initial"
  PROVE  /\ LET t == [s EXCEPT !.state[c] = "Running", !.nClients = @ + 1]
            IN  Tables(t) /\ SameLoop(t, s) /\ t.conn = s.conn
         /\ LET t == [s EXCEPT !.failed = @ \cup {c}]
            IN  Tables(t) /\ SameLoop(t, s) /\ t.conn = s.conn
<1>1. /\ DOMAIN s = Fields
      /\ s.state \in [Slots -> {"None", "Initial", "Running", "Retained"}]
      /\ s.nClients = Cardinality(Running(s) \ {})
  BY DEF Tables, Table, TableBut
<1>2. LET t == [s EXCEPT !.state[c] = "Running", !.nClients = @ + 1]
      IN  Tables(t) /\ SameLoop(t, s) /\ t.conn = s.conn
  <2> DEFINE t == [s EXCEPT !.state[c] = "Running", !.nClients = @ + 1]
  <2>1. /\ DOMAIN t = Fields
        /\ t.state = [s.state EXCEPT ![c] = "Running"]
        /\ t.mode = s.mode /\ t.conn = s.conn
        /\ t.failed = s.failed /\ t.eof = s.eof
        /\ t.waiters = s.waiters /\ t.asleep = s.asleep
        /\ t.nextFree = s.nextFree /\ t.currentMax = s.currentMax
        /\ t.nClients = s.nClients + 1
        /\ SameMasks(t, s) /\ SameGrab(t, s) /\ SameLoop(t, s)
    BY <1>1 DEF Fields, SameMasks, SameGrab, SameLoop
  <2> HIDE DEF t
  <2>2. t.nClients = Cardinality(Running(t) \ {})
    <3>1. /\ Running(t) \ {} = Running(s) \cup {c} /\ c \notin Running(s)
          /\ Running(s) \ {} = Running(s)
      BY <1>1, <2>1 DEF Running
    <3>2. IsFiniteSet(Running(s))
      BY RunningFinite DEF Running
    <3> QED BY <1>1, <2>1, <3>1, <3>2, FS_AddElement
  <2>3. Connected(t) = Connected(s)
    BY <2>1 DEF Connected
  <2>4. Table(t)
    BY <2>1, <2>2, <2>3 DEF Tables, Table, TableBut
  <2>5. Masks(t) /\ Grab(t)
    BY <2>1, SameMasksKeeps DEF Tables
  <2> QED BY <2>1, <2>4, <2>5 DEF Tables, t
<1>3. LET t == [s EXCEPT !.failed = @ \cup {c}]
      IN  Tables(t) /\ SameLoop(t, s) /\ t.conn = s.conn
  <2> DEFINE t == [s EXCEPT !.failed = @ \cup {c}]
  <2>1. /\ DOMAIN t = Fields
        /\ t.state = s.state
        /\ t.mode = s.mode /\ t.conn = s.conn
        /\ t.failed = s.failed \cup {c} /\ t.eof = s.eof
        /\ t.waiters = s.waiters /\ t.asleep = s.asleep
        /\ t.nextFree = s.nextFree /\ t.currentMax = s.currentMax
        /\ t.nClients = s.nClients
        /\ SameMasks(t, s) /\ SameGrab(t, s) /\ SameLoop(t, s)
    BY <1>1 DEF Fields, SameMasks, SameGrab, SameLoop
  <2> HIDE DEF t
  <2>2. Running(t) = Running(s) /\ Connected(t) = Connected(s) /\ c \in Connected(s)
    BY <2>1 DEF Running, Connected
  <2>3. Table(t)
    BY <2>1, <2>2 DEF Tables, Table, TableBut
  <2>4. Masks(t) /\ Grab(t)
    BY <2>1, SameMasksKeeps DEF Tables
  <2> QED BY <2>1, <2>3, <2>4 DEF Tables, t
<1> QED BY <1>2, <1>3

\* SyncSetPriority only touches the priorities and the round.
LEMMA PrioritizeKeeps ==
  ASSUME NEW s, Tables(s), NEW d, NEW p
  PROVE  LET t == Prioritize(s, d, p)
         IN  /\ Tables(t) /\ SameTable(t, s) /\ SameMasks(t, s) /\ SameGrab(t, s) /\ SameLoop(t, s)
             /\ t.state = s.state /\ t.reset = s.reset
             /\ t.buf = s.buf /\ t.sock = s.sock /\ t.ignored = s.ignored
             /\ (t.turn = s.turn /\ t.ready = s.ready) \/ (t.turn = "over" /\ t.ready = {})
<1> DEFINE t == Prioritize(s, d, p)
<1>0. DOMAIN s = Fields
  BY DEF Tables, Table, TableBut
<1>1. CASE s.priority[d] = p
  BY <1>0, <1>1 DEF Prioritize, SameTable, SameMasks, SameGrab, SameLoop
<1>2. CASE s.priority[d] # p
  <2>1. t = [s EXCEPT !.priority[d] = p, !.turn = "over", !.ready = {}]
    BY <1>2 DEF Prioritize
  <2> HIDE DEF t
  <2>2. /\ SameTable(t, s) /\ SameMasks(t, s) /\ SameGrab(t, s) /\ SameLoop(t, s)
        /\ t.state = s.state /\ t.reset = s.reset
        /\ t.buf = s.buf /\ t.sock = s.sock /\ t.ignored = s.ignored
        /\ t.turn = "over" /\ t.ready = {}
    BY <1>0, <2>1 DEF Fields, SameTable, SameMasks, SameGrab, SameLoop
  <2> QED BY <2>2, SameAll DEF t
<1> QED BY <1>1, <1>2

LEMMA ModeKeeps ==
  ASSUME NEW s, Tables(s), NEW c \in Slots, NEW m \in Modes
  PROVE  LET t == [s EXCEPT !.mode[c] = m]
         IN  /\ Tables(t) /\ SameLoop(t, s) /\ t.conn = s.conn
             /\ t.state = s.state /\ t.mode[c] = m
<1> DEFINE t == [s EXCEPT !.mode[c] = m]
<1>1. /\ DOMAIN t = Fields
      /\ t.state = s.state /\ t.mode = [s.mode EXCEPT ![c] = m] /\ t.conn = s.conn
      /\ t.failed = s.failed /\ t.eof = s.eof
      /\ t.waiters = s.waiters /\ t.asleep = s.asleep
      /\ t.nextFree = s.nextFree /\ t.currentMax = s.currentMax /\ t.nClients = s.nClients
      /\ SameMasks(t, s) /\ SameGrab(t, s) /\ SameLoop(t, s)
  BY DEF Tables, Table, TableBut, Fields, SameMasks, SameGrab, SameLoop
<1> HIDE DEF t
<1>2. Masks(t) /\ Grab(t)
  BY <1>1, SameMasksKeeps DEF Tables
<1>3. Running(t) = Running(s) /\ Connected(t) = Connected(s)
  BY <1>1 DEF Running, Connected
<1>4. t.mode \in [Slots -> Modes] /\ t.mode[c] = m
  BY <1>1 DEF Tables, Table, TableBut
<1>5. Table(t)
  BY <1>1, <1>3, <1>4 DEF Tables, Table, TableBut
<1> QED BY <1>1, <1>2, <1>4, <1>5 DEF Tables, t

-----------------------------------------------------------------------------
\* The actions: of peers, ...

LEMMA QuietStep ==
  ASSUME Inv, SameTable(srv', srv), SameMasks(srv', srv), SameGrab(srv', srv),
         SameLoop(srv', srv)
  PROVE  Inv'
<1>1. Tables(srv')
  BY SameAll DEF Inv
<1>2. Loops(srv')
  BY DEF Inv, Loops, SameLoop, SameTable
<1> QED BY <1>1, <1>2 DEF Inv

\* The same, to another place in the loops.
LEMMA ElsewhereStep ==
  ASSUME Inv, SameTable(srv', srv), SameMasks(srv', srv), SameGrab(srv', srv), Loops(srv')
  PROVE  Inv'
BY SameAll DEF Inv

LEMMA PeerStep ==
  ASSUME Inv, Peer
  PROVE  Inv'
<1>0. DOMAIN srv = Fields
  BY DEF Inv, Tables, Table, TableBut
<1>1. CASE Hangup
  BY <1>0, <1>1, QuietStep DEF Hangup, Fields, SameTable, SameMasks, SameGrab, SameLoop
<1>2. ASSUME NEW c \in Slots, Send(c) PROVE Inv'
  BY <1>0, <1>2, QuietStep DEF Send, Fields, SameTable, SameMasks, SameGrab, SameLoop
<1>3. CASE Connect
  BY <1>0, <1>3, QuietStep DEF Connect, Fields, SameTable, SameMasks, SameGrab, SameLoop
<1>4. ASSUME NEW c \in Slots, Close(c) \/ WriteFails(c) PROVE Inv'
  <2>1. c \in Connected(srv)
    BY <1>4 DEF Close, WriteFails, Inv, Tables, Table, TableBut
  <2>2. /\ DOMAIN srv' = Fields
        /\ srv'.state = srv.state /\ srv'.mode = srv.mode /\ srv'.conn = srv.conn
        /\ srv'.failed \subseteq srv.failed \cup {c} /\ srv'.eof \subseteq srv.eof \cup {c}
        /\ srv'.waiters = srv.waiters /\ srv'.asleep = srv.asleep
        /\ srv'.nextFree = srv.nextFree /\ srv'.currentMax = srv.currentMax
        /\ srv'.nClients = srv.nClients
        /\ SameMasks(srv', srv) /\ SameGrab(srv', srv) /\ SameLoop(srv', srv)
    BY <1>0, <1>4 DEF Close, WriteFails, Fields, SameMasks, SameGrab, SameLoop
  <2>3. Running(srv') = Running(srv) /\ Connected(srv') = Connected(srv)
    BY <2>2 DEF Running, Connected
  <2>4. Table(srv')
    BY <2>1, <2>2, <2>3 DEF Inv, Tables, Table, TableBut
  <2>5. Masks(srv') /\ Grab(srv')
    BY <2>2, SameMasksKeeps DEF Inv, Tables
  <2>6. Loops(srv')
    BY <2>2 DEF Inv, Loops, SameLoop
  <2> QED BY <2>4, <2>5, <2>6 DEF Inv, Tables
<1> QED BY <1>1, <1>2, <1>3, <1>4 DEF Peer

\* ... of WaitForSomething, ...

LEMMA WaitStep ==
  ASSUME Inv, Wait
  PROVE  Inv'
<1>0. /\ DOMAIN srv = Fields /\ srv.currentMax \in 1 .. MAXCLIENTS
      /\ srv.cur # 0 => srv.phase = "serve"
  BY DEF Inv, Tables, Table, TableBut, Loops
<1>1. CASE KillStragglers
  <2>1. /\ SameTable(srv', srv) /\ SameMasks(srv', srv) /\ SameGrab(srv', srv)
        /\ srv'.phase = "stragglers" /\ srv'.at = 1 /\ srv'.cur = srv.cur
    BY <1>0, <1>1 DEF KillStragglers, Fields, SameTable, SameMasks, SameGrab
  <2>2. srv.cur = 0
    BY <1>0, <1>1 DEF KillStragglers
  <2> QED BY <2>1, <2>2, ElsewhereStep DEF Loops
<1>2. ASSUME NEW late \in BOOLEAN, Straggler(late) PROVE Inv'
  <2> DEFINE i == srv.at
             t == IF late \/ i \in srv.failed THEN CloseDownClient(srv, i) ELSE srv
  <2>1. /\ srv' = [t EXCEPT !.at = i + 1] /\ srv.phase = "stragglers" /\ i < srv.currentMax
        /\ late => srv.state[i] = "Initial"
    BY <1>2 DEF Straggler
  <2>2. i \in Slots /\ srv.cur = 0
    BY <1>0, <2>1, MAXCLIENTSAssumption DEF Inv, Loops, Slots
  <2>3. Tables(t) /\ SameLoop(t, srv)
    <3>1. CASE late \/ i \in srv.failed
      <4>1. srv.state[i] # "None"
        BY <2>1, <3>1, LiveConnection DEF Inv, Tables, Table, TableBut, Connected
      <4> QED BY <2>2, <3>1, <4>1, CloseDownKeeps DEF Inv
    <3>2. CASE ~ (late \/ i \in srv.failed)
      BY <3>2 DEF Inv, SameLoop
    <3> QED BY <3>1, <3>2
  <2> HIDE DEF t
  <2>4. /\ SameTable(srv', t) /\ SameMasks(srv', t) /\ SameGrab(srv', t)
        /\ srv'.phase = "stragglers" /\ srv'.at = i + 1 /\ srv'.cur = 0
    BY <2>1, <2>2, <2>3 DEF Tables, Table, TableBut, Fields, SameTable, SameMasks, SameGrab,
                            SameLoop
  <2>5. Tables(srv')
    BY <2>3, <2>4, SameAll
  <2>6. i + 1 \in Nat \ {0}
    BY <2>2, MAXCLIENTSAssumption DEF Slots
  <2>7. Loops(srv')
    BY <2>4, <2>6 DEF Loops
  <2> QED BY <2>5, <2>7 DEF Inv
<1>3. CASE EstablishNewConnections
  <2> DEFINE free == (Fds \cup {MAXCLIENTS}) \ FdsOf(Connected(srv) \ srv.failed)
             f == Min(free)
             t == [srv EXCEPT !.phase = "wait", !.at = 0, !.calling = FALSE]
             old == IF f \in Fds THEN t.trans[f] ELSE 0
             u == IF old = 0 THEN t ELSE CloseDownClient(t, old)
  <2>1. f \in free
    <3>1. Fds \subseteq Nat /\ MAXCLIENTS \in Nat /\ MAXCLIENTS \notin Fds
      BY MAXCLIENTSAssumption DEF Fds
    <3>2. FdsOf(Connected(srv) \ srv.failed) \subseteq Fds
      BY LiveConnection DEF Inv, FdsOf, Connected
    <3>3. free \in SUBSET Nat /\ free # {}
      BY <3>1, <3>2
    <3> QED BY <3>3, MinIsLeast
  <2>2. srv' = IF f \notin Fds THEN t ELSE AllocNewConnection(u, f)
    BY <1>3 DEF EstablishNewConnections
  <2>3. /\ SameTable(t, srv) /\ SameMasks(t, srv) /\ SameGrab(t, srv)
        /\ t.phase = "wait" /\ t.cur = 0
    <3>1. srv.cur = 0
      BY <1>0, <1>3 DEF EstablishNewConnections
    <3> QED BY <1>0, <3>1 DEF Fields, SameTable, SameMasks, SameGrab
  <2> HIDE DEF f, free, t
  <2>4. Tables(t)
    BY <2>3, SameAll DEF Inv
  <2>5. CASE f \notin Fds
    BY <2>2, <2>3, <2>4, <2>5, ServingLoops DEF Inv
  <2>6. CASE f \in Fds
    <3>1. Tables(u) /\ SameLoop(u, t) /\ u.trans[f] = 0
      BY <2>4, <2>6, DescriptorIsFree
    <3> HIDE DEF u, old
    <3>2. Tables(srv') /\ SameLoop(srv', u)
      BY <2>2, <2>6, <3>1, AllocKeeps
    <3> QED BY <2>3, <3>1, <3>2, ServingLoops DEF Inv, SameLoop
  <2> QED BY <2>5, <2>6
<1>4. CASE Serve
  <2>1. /\ SameTable(srv', srv) /\ SameMasks(srv', srv) /\ SameGrab(srv', srv)
        /\ srv'.phase = "serve" /\ srv'.cur = srv.cur /\ srv.phase = "wait"
    BY <1>0, <1>4 DEF Serve, Waiting, Fields, SameTable, SameMasks, SameGrab
  <2> QED BY <1>0, <2>1, ElsewhereStep DEF Loops
<1>5. ASSUME NEW c \in Slots, ClientWakeup(c) PROVE Inv'
  <2>1. srv.conn[c] # 0
    BY <1>5 DEF ClientWakeup, Inv, Tables, Table, TableBut, Connected
  <2>2. Tables(srv') /\ SameLoop(srv', srv)
    BY <1>5, <2>1, WakeupKeeps DEF ClientWakeup, Inv
  <2>3. srv.phase = "wait"
    BY <1>5 DEF ClientWakeup
  <2> QED BY <1>0, <2>2, <2>3, ServingLoops DEF Inv, SameLoop
<1>6. ASSUME NEW c \in Slots, CheckConnections(c) PROVE Inv'
  <2>1. srv.state[c] # "None"
    BY <1>6, LiveConnection DEF CheckConnections, Inv, Tables, Table, TableBut, Connected
  <2>2. Tables(srv') /\ SameLoop(srv', srv)
    BY <1>6, <2>1, CloseDownKeeps DEF CheckConnections, Inv
  <2>3. srv.phase = "wait"
    BY <1>6 DEF CheckConnections, Selects, Waiting
  <2> QED BY <1>0, <2>2, <2>3, ServingLoops DEF Inv, SameLoop
<1> QED BY <1>1, <1>2, <1>3, <1>4, <1>5, <1>6 DEF Wait

\* ... of a round of Dispatch, ...

LEMMA RoundStep ==
  ASSUME Inv, (\E c \in Slots : NextClient(c)) \/ EndRound \/ EndTurn \/ NoRequest
  PROVE  Inv'
<1>0. /\ DOMAIN srv = Fields
      /\ srv.state \in [Slots -> {"None", "Initial", "Running", "Retained"}]
      /\ srv.cur # 0 => Serving(srv)
  BY DEF Inv, Tables, Table, TableBut, Loops, Serving
<1>1. ASSUME NEW c \in Slots, NextClient(c) PROVE Inv'
  <2> DEFINE t == [srv EXCEPT !.ready = @ \ {c}]
  <2>1. srv.phase = "serve" /\ srv.cur = 0
    BY <1>1 DEF NextClient
  <2>2. /\ SameTable(t, srv) /\ SameMasks(t, srv) /\ SameGrab(t, srv)
        /\ t.phase = "serve" /\ t.cur = 0
    BY <1>0, <2>1 DEF Fields, SameTable, SameMasks, SameGrab
  <2>3. CASE srv.state[c] = "None"
    <3>1. srv' = t
      BY <1>1, <2>3 DEF NextClient
    <3> QED BY <2>2, <3>1, ElsewhereStep, ServingLoops
  <2>4. CASE srv.state[c] # "None" /\ srv.grabState = "Kickout"
    <3>1. srv' = [srv EXCEPT !.grabState = "Active", !.ready = {}]
      BY <1>1, <2>4 DEF NextClient
    <3>2. /\ SameTable(srv', srv) /\ SameMasks(srv', srv) /\ SameLoop(srv', srv)
          /\ srv'.grabState = "Active" /\ srv'.grabClient = srv.grabClient
      BY <1>0, <3>1 DEF Fields, SameTable, SameMasks, SameLoop
    <3>3. Table(srv')
      BY <3>2, SameTableKeeps DEF Inv, Tables
    <3>4. Masks(srv') /\ Grab(srv')
      BY <2>4, <3>2 DEF Inv, Tables, SameTable, SameMasks, Masks, Grab, Live, Connected
    <3>5. Loops(srv')
      BY <2>1, <3>2, ServingLoops DEF SameLoop
    <3> QED BY <3>3, <3>4, <3>5 DEF Inv, Tables
  <2>5. CASE srv.state[c] = "Retained" /\ srv.grabState # "Kickout"
    <3>1. srv' = [t EXCEPT !.phase = "crashed"]
      BY <1>1, <2>5 DEF NextClient
    <3>2. /\ SameTable(srv', srv) /\ SameMasks(srv', srv) /\ SameGrab(srv', srv)
          /\ srv'.phase = "crashed" /\ srv'.cur = 0
      BY <2>2, <3>1 DEF Fields, SameTable, SameMasks, SameGrab
    <3> QED BY <3>2, ElsewhereStep, ServingLoops
  <2>6. CASE srv.state[c] \in {"Initial", "Running"} /\ srv.grabState # "Kickout"
    <3>1. srv' = [t EXCEPT !.cur = c, !.turn = "new"]
      BY <1>1, <2>6 DEF NextClient
    <3>2. /\ SameTable(srv', srv) /\ SameMasks(srv', srv) /\ SameGrab(srv', srv)
          /\ srv'.phase = "serve" /\ srv'.cur = c
      BY <2>2, <3>1 DEF Fields, SameTable, SameMasks, SameGrab
    <3>3. srv'.conn[c] # 0
      BY <2>6, <3>2 DEF Inv, Tables, Table, TableBut, SameTable
    <3> QED BY <3>2, <3>3, ElsewhereStep, ServingLoops DEF Serving
  <2> QED BY <1>0, <2>3, <2>4, <2>5, <2>6
<1>2. CASE EndRound \/ EndTurn
  <2>1. CASE EndRound
    <3>1. /\ SameTable(srv', srv) /\ SameMasks(srv', srv) /\ SameGrab(srv', srv)
          /\ srv'.phase = "wait" /\ srv'.cur = 0
      BY <1>0, <2>1 DEF EndRound, Fields, SameTable, SameMasks, SameGrab
    <3> QED BY <3>1, ElsewhereStep, ServingLoops
  <2>2. CASE EndTurn
    <3>1. /\ SameTable(srv', srv) /\ SameMasks(srv', srv) /\ SameGrab(srv', srv)
          /\ srv'.phase = "serve" /\ srv'.cur = 0
      BY <1>0, <2>2 DEF EndTurn, Fields, SameTable, SameMasks, SameGrab
    <3> QED BY <3>1, ElsewhereStep, ServingLoops
  <2> QED BY <1>2, <2>1, <2>2
<1>3. CASE NoRequest
  <2>1. Serving(srv)
    BY <1>0, <1>3 DEF NoRequest
  <2>2. CASE srv.cur \in srv.eof
    <3> DEFINE t == CloseDownClient(srv, srv.cur)
    <3>1. srv.state[srv.cur] # "None"
      BY <2>1, LiveConnection DEF Inv, Serving
    <3>2. Tables(t) /\ SameLoop(t, srv)
      BY <2>1, <3>1, CloseDownKeeps DEF Inv, Serving
    <3>3. srv' = [t EXCEPT !.cur = 0]
      BY <1>3, <2>2 DEF NoRequest
    <3> HIDE DEF t
    <3>4. /\ SameTable(srv', t) /\ SameMasks(srv', t) /\ SameGrab(srv', t)
          /\ srv'.phase = "serve" /\ srv'.cur = 0
      BY <2>1, <3>2, <3>3 DEF Tables, Table, TableBut, Fields, SameTable, SameMasks, SameGrab,
                              SameLoop, Serving
    <3> QED BY <3>2, <3>4, SameAll, ServingLoops DEF Inv
  <2>3. CASE srv.cur \notin srv.eof
    <3>1. /\ SameTable(srv', srv) /\ SameGrab(srv', srv)
          /\ srv'.phase = srv.phase /\ srv'.cur = 0
          /\ srv'.trans = srv.trans /\ srv'.all = srv.all /\ srv'.impervious = srv.impervious
          /\ srv'.saved = srv.saved /\ srv'.savedInput = srv.savedInput
          /\ srv'.grabbed = srv.grabbed /\ srv'.input \subseteq srv.input
      BY <1>0, <1>3, <2>3 DEF NoRequest, Fields, SameTable, SameGrab
    <3>2. Table(srv')
      BY <3>1, SameTableKeeps DEF Inv, Tables
    <3>3. Masks(srv') /\ Grab(srv')
      BY <3>1 DEF Inv, Tables, SameTable, SameGrab, Masks, Grab, Live, Connected
    <3>4. Loops(srv')
      BY <2>1, <3>1, ServingLoops DEF Serving
    <3> QED BY <3>2, <3>3, <3>4 DEF Inv, Tables
  <2> QED BY <2>2, <2>3
<1> QED BY <1>1, <1>2, <1>3

\* A request is executed when a state that keeps the tables is finished.
LEMMA RequestEnds ==
  ASSUME NEW t, Tables(t), SameLoop(t, srv), Serving(srv), t.conn[srv.cur] # 0,
         srv' = Finish(t)
  PROVE  Inv'
BY FinishKeeps DEF Inv, Serving, SameLoop

LEMMA SetupStep ==
  ASSUME Inv, NEW accepted \in BOOLEAN, Setup(accepted)
  PROVE  Inv'
<1> DEFINE c == srv.cur
           s == ReadRequestFromClient(srv)
           t == IF accepted
                THEN [s EXCEPT !.state[c] = "Running", !.nClients = @ + 1]
                ELSE [s EXCEPT !.failed = @ \cup {c}]
<1>1. Serving(srv) /\ srv.state[c] = "Initial" /\ srv' = Finish(t)
  BY DEF Setup, CanRead, Inv, Loops, Serving
<1>2. /\ Tables(s) /\ SameLoop(s, srv) /\ s.conn[c] # 0 /\ s.state[c] = "Initial"
      /\ c \in Slots
  BY <1>1, ReadKeeps DEF Inv, Serving, SameTable
<1> HIDE DEF s, c
<1>3. Tables(t) /\ SameLoop(t, s) /\ t.conn = s.conn
  BY <1>2, SetUpKeeps
<1> HIDE DEF t
<1> QED BY <1>1, <1>2, <1>3, RequestEnds DEF SameLoop, c

LEMMA RequestStep ==
  ASSUME Inv, Execute
  PROVE  Inv'
<1> DEFINE c == srv.cur
           s == ReadRequestFromClient(srv)
<1>1. ASSUME NEW r, Request(r)
      PROVE  /\ Serving(srv) /\ Tables(s) /\ SameLoop(s, srv)
             /\ c \in Slots /\ s.conn[c] # 0 /\ s.cur = c
  <2>1. Serving(srv)
    BY <1>1 DEF Request, CanRead, Inv, Loops, Serving
  <2> QED BY <2>1, ReadKeeps DEF Inv, Serving, SameTable, SameLoop
<1>2. ASSUME NEW t, NEW r, Request(r), Tables(t), SameLoop(t, s), t.conn = s.conn,
             srv' = Finish(t)
      PROVE  Inv'
  <2>1. SameLoop(t, srv) /\ t.conn[srv.cur] # 0 /\ Serving(srv)
    BY <1>1, <1>2 DEF SameLoop
  <2> QED BY <1>2, <2>1, RequestEnds
<1> HIDE DEF s
<1>3. CASE \E accepted \in BOOLEAN : Setup(accepted)
  BY <1>3, SetupStep
<1>4. CASE Ordinary
  <2>1. Request("other") /\ srv' = Finish(s)
    BY <1>4 DEF Ordinary, s
  <2> QED BY <1>1, <1>2, <2>1 DEF SameLoop
<1>5. CASE ProcGrabServer
  <2> DEFINE w == IgnoreClient([ResetCurrentRequest(s, c) EXCEPT !.waiters = @ \cup {c}], c)
             g == [OnlyListenToOneClient(s, c) EXCEPT !.grabState = "Kickout",
                                                      !.grabClient = c]
  <2>1. /\ Request("grab")
        /\ srv' = Finish(IF s.grabState # "None" /\ s.grabClient # c THEN w ELSE g)
    BY <1>5 DEF ProcGrabServer, s
  <2>2. Tables(s) /\ c \in Slots /\ s.conn[c] # 0
    BY <1>1, <2>1
  <2> HIDE DEF c
  <2>3. CASE s.grabState # "None" /\ s.grabClient # c
    <3>1. Tables(w) /\ SameLoop(w, s) /\ w.conn = s.conn
      BY <2>2, WaitKeeps
    <3>2. srv' = Finish(w)
      BY <2>1, <2>3
    <3> HIDE DEF w
    <3> QED BY <1>2, <2>1, <3>1, <3>2
  <2>4. CASE ~ (s.grabState # "None" /\ s.grabClient # c)
    <3>1. Tables(g) /\ SameLoop(g, s) /\ g.conn = s.conn
      BY <2>2, <2>4, GrabKeeps DEF SameTable
    <3>2. srv' = Finish(g)
      BY <2>1, <2>4
    <3> HIDE DEF g
    <3> QED BY <1>2, <2>1, <3>1, <3>2
  <2> QED BY <2>3, <2>4
<1>6. CASE ProcUngrabServer
  <2>1. Request("ungrab") /\ srv' = Finish(UngrabServer(s))
    BY <1>6 DEF ProcUngrabServer, s
  <2> QED BY <1>1, <1>2, <2>1, UngrabServerKeeps
<1>7. ASSUME NEW m \in Modes, ProcChangeCloseDownMode(m) PROVE Inv'
  <2> DEFINE t == [s EXCEPT !.mode[c] = m]
  <2>1. Request("mode") /\ srv' = Finish(t)
    BY <1>7 DEF ProcChangeCloseDownMode, s
  <2>2. Tables(s) /\ c \in Slots
    BY <1>1, <2>1
  <2> HIDE DEF c
  <2>3. Tables(t) /\ SameLoop(t, s) /\ t.conn = s.conn
    BY <2>2, ModeKeeps
  <2> HIDE DEF t
  <2> QED BY <1>2, <2>1, <2>3
<1>8. ASSUME NEW d \in Slots, ProcKillClient(d) PROVE Inv'
  <2> DEFINE t == CloseDownClient(s, d)
             u == [t EXCEPT !.cur = 0]
  <2>1. /\ Request("kill") /\ srv.state[d] \in {"Running", "Retained"}
        /\ srv' = IF t.turn = "over" \/ d = c THEN u ELSE Finish(t)
    BY <1>8 DEF ProcKillClient, s
  <2>2. /\ Serving(srv) /\ Tables(s) /\ SameLoop(s, srv)
        /\ c \in Slots /\ s.conn[c] # 0 /\ s.cur = c
    BY <1>1, <2>1
  <2>3. s.state[d] # "None"
    <3>1. s.state = srv.state
      BY <2>2, ReadKeeps DEF Inv, SameTable, s
    <3> QED BY <2>1, <3>1
  <2>4. /\ Tables(t) /\ SameLoop(t, s)
        /\ \A e \in Slots \ {d} : t.conn[e] = s.conn[e]
    BY <2>2, <2>3, CloseDownKeeps
  <2> HIDE DEF t
  <2>5. CASE t.turn = "over" \/ d = c
    <3>1. /\ SameTable(u, t) /\ SameMasks(u, t) /\ SameGrab(u, t)
          /\ u.phase = "serve" /\ u.cur = 0
      BY <2>2, <2>4 DEF Tables, Table, TableBut, Fields, SameTable, SameMasks, SameGrab,
                        SameLoop, Serving
    <3> QED BY <2>1, <2>4, <2>5, <3>1, SameAll, ServingLoops DEF Inv
  <2>6. CASE ~ (t.turn = "over" \/ d = c)
    <3>1. t.conn[c] # 0 /\ SameLoop(t, srv)
      BY <2>2, <2>4, <2>6 DEF SameLoop
    <3> QED BY <2>1, <2>2, <2>4, <2>6, <3>1, RequestEnds
  <2> QED BY <2>5, <2>6
<1>9. CASE KillTemporary
  <2>1. Request("killTemporary") /\ srv' = Finish(CloseDownRetainedResources(s))
    BY <1>9 DEF KillTemporary, s
  <2> QED BY <1>1, <1>2, <2>1, RetainedKeeps
<1>10. ASSUME NEW i \in BOOLEAN, GrabControl(i) PROVE Inv'
  <2>1. /\ Request(IF i THEN "impervious" ELSE "pervious")
        /\ \/ srv' = Finish(MakeClientGrabImpervious(s, c))
           \/ srv' = Finish(MakeClientGrabPervious(s, c))
    BY <1>10 DEF GrabControl, s
  <2>2. /\ LET t == MakeClientGrabImpervious(s, c)
           IN  Tables(t) /\ SameTable(t, s) /\ SameLoop(t, s)
        /\ LET t == MakeClientGrabPervious(s, c)
           IN  Tables(t) /\ SameTable(t, s) /\ SameLoop(t, s)
    BY <1>1, <2>1, ControlKeeps
  <2> QED BY <1>2, <2>1, <2>2 DEF SameTable
<1>11. CASE ClientSleep
  <2>1. /\ Request("sleep")
        /\ srv' = Finish(IgnoreClient([s EXCEPT !.asleep = @ \cup {c}], c))
    BY <1>11 DEF ClientSleep, s
  <2> QED BY <1>1, <1>2, <2>1, SleepKeeps
<1>12. ASSUME NEW d \in Slots, NEW p \in Priorities, ProcSyncSetPriority(d, p) PROVE Inv'
  <2> DEFINE t == Prioritize(s, d, p)
  <2>1. Request("priority") /\ srv' = Finish(t)
    BY <1>12 DEF ProcSyncSetPriority, s
  <2>2. Tables(t) /\ SameLoop(t, s) /\ t.conn = s.conn
    BY <1>1, <2>1, PrioritizeKeeps DEF SameTable
  <2> HIDE DEF t
  <2> QED BY <1>2, <2>1, <2>2
<1> QED BY <1>3, <1>4, <1>5, <1>6, <1>7, <1>8, <1>9, <1>10, <1>11, <1>12 DEF Execute

\* ... and of the reset.

LEMMA ResetStep ==
  ASSUME Inv, Reset
  PROVE  Inv'
<1>0. /\ DOMAIN srv = Fields /\ srv.currentMax \in 1 .. MAXCLIENTS
      /\ srv.state \in [Slots -> {"None", "Initial", "Running", "Retained"}]
      /\ srv.cur # 0 => srv.phase = "serve"
  BY DEF Inv, Tables, Table, TableBut, Loops
<1>1. CASE EndDispatch
  <2>1. /\ SameTable(srv', srv) /\ SameMasks(srv', srv) /\ SameGrab(srv', srv)
        /\ srv'.phase = "kill" /\ srv'.at = 1 /\ srv'.cur = 0
    BY <1>0, <1>1 DEF EndDispatch, Fields, SameTable, SameMasks, SameGrab
  <2>2. Loops(srv')
    BY <2>1, MAXCLIENTSAssumption DEF Loops, Slots
  <2> QED BY <2>1, <2>2, ElsewhereStep
<1>2. CASE KillAllClients
  <2> DEFINE i == srv.at
             m == [srv EXCEPT !.mode[i] = "DestroyAll"]
             t == IF srv.state[i] = "None" THEN srv ELSE CloseDownClient(m, i)
  <2>1. srv.phase = "kill" /\ i < srv.currentMax /\ srv' = [t EXCEPT !.at = i + 1]
    BY <1>2 DEF KillAllClients
  <2>2. /\ i \in Slots /\ srv.cur = 0
        /\ \A c \in Slots : c < i => srv.state[c] = "None"
    BY <1>0, <2>1, MAXCLIENTSAssumption DEF Inv, Loops, Slots
  <2>3. /\ Tables(t) /\ SameLoop(t, srv) /\ t.state[i] = "None"
        /\ \A c \in Slots \ {i} : t.state[c] = srv.state[c]
    <3>1. CASE srv.state[i] = "None"
      BY <3>1 DEF Inv, SameLoop
    <3>2. CASE srv.state[i] # "None"
      <4>1. /\ Tables(m) /\ SameLoop(m, srv)
            /\ m.state = srv.state /\ m.mode[i] = "DestroyAll"
        BY <2>2, ModeKeeps DEF Inv, Modes
      <4> HIDE DEF m, i
      <4>2. /\ Tables(CloseDownClient(m, i)) /\ SameLoop(CloseDownClient(m, i), m)
            /\ CloseDownClient(m, i).state[i] = "None"
            /\ \A c \in Slots \ {i} : CloseDownClient(m, i).state[c] = m.state[c]
        BY <2>2, <3>2, <4>1, CloseDownKeeps
      <4> QED BY <3>2, <4>1, <4>2 DEF SameLoop
    <3> QED BY <3>1, <3>2
  <2> HIDE DEF t, i
  <2>4. /\ SameTable(srv', t) /\ SameMasks(srv', t) /\ SameGrab(srv', t)
        /\ srv'.phase = "kill" /\ srv'.at = i + 1 /\ srv'.cur = 0
    BY <2>1, <2>2, <2>3 DEF Tables, Table, TableBut, Fields, SameTable, SameMasks, SameGrab,
                            SameLoop
  <2>5. \A c \in Slots : c < i + 1 => srv'.state[c] = "None"
    BY <2>2, <2>3, <2>4, MAXCLIENTSAssumption DEF Slots, SameTable
  <2>6. i + 1 \in Nat \ {0}
    BY <2>2, MAXCLIENTSAssumption DEF Slots
  <2>7. Loops(srv')
    BY <2>4, <2>5, <2>6 DEF Loops
  <2> QED BY <2>3, <2>4, <2>7, SameAll DEF Inv
<1>3. CASE NextGeneration
  <2>1. srv.phase = "kill" /\ srv.at >= srv.currentMax /\ srv.cur = 0
    BY <1>0, <1>3 DEF NextGeneration
  <2>2. \A c \in Slots : srv.state[c] = "None"
    <3> SUFFICES ASSUME NEW c \in Slots PROVE srv.state[c] = "None"
      OBVIOUS
    <3>1. srv.at \in Nat
      BY <2>1 DEF Inv, Loops
    <3>2. CASE c < srv.at
      BY <2>1, <3>2 DEF Inv, Loops
    <3>3. CASE c >= srv.currentMax
      BY <3>3 DEF Inv, Tables, Table, TableBut
    <3> QED BY <1>0, <2>1, <3>1, <3>2, <3>3, MAXCLIENTSAssumption DEF Slots
  <2>3. /\ DOMAIN srv' = Fields
        /\ srv'.state = srv.state /\ srv'.mode = srv.mode /\ srv'.conn = srv.conn
        /\ srv'.failed = srv.failed /\ srv'.eof = srv.eof
        /\ srv'.waiters = srv.waiters /\ srv'.asleep = srv.asleep
        /\ srv'.nextFree = 1 /\ srv'.currentMax = 1 /\ srv'.nClients = 0
        /\ SameMasks(srv', srv) /\ SameGrab(srv', srv)
        /\ srv'.phase = "wait" /\ srv'.cur = 0
    BY <1>0, <1>3, <2>1 DEF NextGeneration, Fields, SameMasks, SameGrab
  <2>4. Running(srv') \ {} = {} /\ Connected(srv') = Connected(srv)
    BY <2>2, <2>3 DEF Running, Connected
  <2>5. srv'.nClients = Cardinality(Running(srv') \ {})
    BY <2>3, <2>4, FS_EmptySet
  <2>6. Table(srv')
    BY <2>2, <2>3, <2>4, <2>5, MAXCLIENTSAssumption DEF Inv, Tables, Table, TableBut, Slots
  <2>7. Masks(srv') /\ Grab(srv')
    BY <2>3, SameMasksKeeps DEF Inv, Tables
  <2> QED BY <2>3, <2>6, <2>7, ServingLoops DEF Inv, Tables
<1> QED BY <1>1, <1>2, <1>3 DEF Reset

-----------------------------------------------------------------------------
LEMMA InitInv == Init => Inv
<1> SUFFICES ASSUME Init PROVE Inv
  OBVIOUS
<1>1. /\ DOMAIN srv = Fields
      /\ srv.state = [c \in Slots |-> "None"] /\ srv.mode = [c \in Slots |-> "DestroyAll"]
      /\ srv.conn = [c \in Slots |-> 0]
      /\ srv.failed = {} /\ srv.eof = {} /\ srv.waiters = {} /\ srv.asleep = {}
      /\ srv.nextFree = 1 /\ srv.currentMax = 1 /\ srv.nClients = 0
      /\ srv.trans = [f \in Fds |-> 0] /\ srv.all = {} /\ srv.input = {}
      /\ srv.impervious = {} /\ srv.saved = {} /\ srv.savedInput = {}
      /\ srv.grabbed = 0 /\ srv.grabState = "None"
      /\ srv.phase = "wait" /\ srv.cur = 0
  BY DEF Init, Fields
<1>2. Running(srv) \ {} = {} /\ Connected(srv) = {} /\ Live(srv) = {}
  BY <1>1 DEF Running, Connected, Live
<1>3. srv.nClients = Cardinality(Running(srv) \ {})
  BY <1>1, <1>2, FS_EmptySet
<1>4. Table(srv)
  BY <1>1, <1>2, <1>3, MAXCLIENTSAssumption DEF Table, TableBut, Slots, Modes
<1>5. Masks(srv) /\ Grab(srv)
  BY <1>1, <1>2 DEF Masks, Grab
<1> QED BY <1>1, <1>4, <1>5, ServingLoops DEF Inv, Tables

LEMMA NextInv ==
  ASSUME Inv, [Next]_srv
  PROVE  Inv'
<1>1. CASE UNCHANGED srv
  BY <1>1 DEF Inv, Tables, Loops
<1>2. CASE Peer
  BY <1>2, PeerStep
<1>3. CASE Wait
  BY <1>3, WaitStep
<1>4. CASE Round
  BY <1>4, RoundStep, RequestStep DEF Round
<1>5. CASE Reset
  BY <1>5, ResetStep
<1> QED BY <1>1, <1>2, <1>3, <1>4, <1>5 DEF Next

\* The tables are in order after every step of the server and of its clients.
THEOREM TablesInOrder == Spec => []Inv
<1>1. Inv /\ [Next]_srv => Inv'
  BY NextInv
<1> QED BY <1>1, InitInv, PTL DEF Spec

\* nClients is the number of clients that are connected and through their
\* set-up, whatever became of the others: CloseDownClient decrements it exactly
\* for those ProcEstablishConnection counted.
THEOREM CountAgrees == Spec => []CountIsRight
<1>1. Inv => CountIsRight
  <2> SUFFICES ASSUME Inv PROVE CountIsRight
    OBVIOUS
  <2>1. Running(srv) \ {} = Running(srv)
    OBVIOUS
  <2> QED BY <2>1 DEF Inv, Tables, Table, TableBut, CountIsRight
<1> QED BY <1>1, TablesInOrder, PTL

\* No mask of connection.c ever has a descriptor that is no client's, and the
\* translation is the inverse of the clients' own descriptors.
THEOREM MasksStayLive == Spec => []MasksAreLive
<1>1. Inv => MasksAreLive
  <2> SUFFICES ASSUME Inv PROVE MasksAreLive
    OBVIOUS
  <2>1. \A c \in Connected(srv) : srv.trans[srv.conn[c]] = c
    BY DEF Inv, Tables, Masks
  <2>2. ASSUME NEW f \in Fds
        PROVE  \/ srv.trans[f] # 0 /\ srv.conn[srv.trans[f]] = f
               \/ /\ srv.trans[f] = 0
                  /\ f \notin srv.all \cup srv.input \cup srv.impervious
                  /\ f \notin srv.saved \cup srv.savedInput
    BY DEF Inv, Tables, Masks, Live
  <2> QED BY <2>1, <2>2 DEF MasksAreLive
<1> QED BY <1>1, TablesInOrder, PTL

\* dispatch.c and connection.c agree whether the server is grabbed and by whom,
\* and the owner of the grab is connected.
THEOREM GrabsAgree == Spec => []GrabAgrees
<1>1. Inv => GrabAgrees
  BY DEF Inv, Tables, Grab, GrabAgrees
<1> QED BY <1>1, TablesInOrder, PTL

-----------------------------------------------------------------------------
\* The reset.  A client that is being set up has nothing in its buffer.
UnreadBut(s, D) ==
  DOMAIN s.buf = Slots /\ \A c \in Slots \ D : s.state[c] = "Initial" => s.buf[c] = 0
Unread(s) == UnreadBut(s, {})
Gone(s, c) == s.state[c] \notin {"Running", "Retained"}

\* What closing clients down may do: the server is to reset exactly if the last
\* of those that run went and left nothing.
Ends(t, s) ==
  /\ Unread(s) => Unread(t)
  /\ s.reset => t.reset
  /\ Running(t) \subseteq Running(s)
  /\ t.reset => s.reset \/ (Running(t) = {} /\ \E c \in Running(s) : Gone(t, c))
  /\ Running(s) # {} /\ Running(t) = {} /\ (\A c \in Running(s) : Gone(t, c)) => t.reset

\* What is not about closing down.
Quiet(t, s) ==
  /\ Unread(s) => Unread(t)
  /\ t.state = s.state /\ t.reset = s.reset

LEMMA QuietEnds ==
  ASSUME NEW r, NEW s, NEW t, NEW u, Quiet(s, r), Ends(t, s), Quiet(u, t)
  PROVE  Ends(u, r)
<1>1. Running(s) = Running(r) /\ Running(u) = Running(t)
  BY DEF Quiet, Running
<1> QED BY <1>1 DEF Quiet, Ends, Gone

LEMMA NothingEnds ==
  ASSUME NEW s, NEW t, Quiet(t, s)
  PROVE  Ends(t, s)
<1>1. Running(t) = Running(s)
  BY DEF Quiet, Running
<1> QED BY <1>1 DEF Quiet, Ends, Gone

\* Two are closed down in a step, and somebody runs in between.
LEMMA EndsTwice ==
  ASSUME NEW s, NEW t, NEW u, Ends(t, s), Ends(u, t), Running(t) # {}
  PROVE  Ends(u, s)
BY DEF Ends

LEMMA UngrabQuiet ==
  ASSUME NEW s, DOMAIN s = Fields
  PROVE  LET t == UngrabServer(s)
         IN  /\ DOMAIN t = Fields /\ t.buf = s.buf
             /\ t.state = s.state /\ t.reset = s.reset
<1> DEFINE l == ListenToAllClients(s)
           t == [l EXCEPT !.grabState = "None", !.grabClient = 0]
           w == Min(s.waiters)
           u == [t EXCEPT !.waiters = @ \ {w}]
<1>1. DOMAIN l = Fields /\ l.buf = s.buf /\ l.state = s.state /\ l.reset = s.reset
  BY DEF ListenToAllClients, Fields
<1> HIDE DEF l, w
<1>2. DOMAIN t = Fields /\ t.buf = s.buf /\ t.state = s.state /\ t.reset = s.reset
  BY <1>1 DEF Fields
<1> HIDE DEF t
<1>3. DOMAIN u = Fields /\ u.buf = s.buf /\ u.state = s.state /\ u.reset = s.reset
  BY <1>2 DEF Fields
<1> HIDE DEF u
<1>4. UngrabServer(s) = IF s.waiters = {} THEN t ELSE AttendClient(u, w)
  BY DEF UngrabServer, l, t, u, w
<1>5. LET a == AttendClient(u, w)
      IN  DOMAIN a = Fields /\ a.buf = s.buf /\ a.state = s.state /\ a.reset = s.reset
  BY <1>3 DEF AttendClient, Fields
<1> QED BY <1>2, <1>4, <1>5

LEMMA DisconnectQuiet ==
  ASSUME NEW s, Tables(s), NEW c \in Slots
  PROVE  LET u == Disconnect(s, c)
         IN  /\ UnreadBut(s, {c}) => Unread(u)
             /\ u.reset = s.reset
             /\ u.state = IF s.mode[c] = "DestroyAll" THEN s.state
                          ELSE [s.state EXCEPT ![c] = "Retained"]
<1> DEFINE t == IF s.grabState # "None" /\ s.grabClient = c THEN UngrabServer(s) ELSE s
           w == [t EXCEPT !.waiters = @ \ {c}, !.asleep = @ \ {c}]
           v == CloseDownConnection(w, c)
           u == Disconnect(s, c)
<1>1. DOMAIN s = Fields /\ s.state \in [Slots -> {"None", "Initial", "Running", "Retained"}]
  BY DEF Tables, Table, TableBut
<1>2. DOMAIN t = Fields /\ t.buf = s.buf /\ t.state = s.state /\ t.reset = s.reset
  BY <1>1, UngrabQuiet
<1>3. u = [v EXCEPT !.nClients = IF s.state[c] = "Initial" THEN @ ELSE @ - 1,
                    !.state[c] = IF s.mode[c] = "DestroyAll" THEN @ ELSE "Retained"]
  BY DEF Disconnect
<1> HIDE DEF t
<1>4. DOMAIN w = Fields /\ w.buf = s.buf /\ w.state = s.state /\ w.reset = s.reset
  BY <1>2 DEF Fields
<1> HIDE DEF w
<1>5. /\ DOMAIN v = Fields /\ v.buf = [s.buf EXCEPT ![c] = 0]
      /\ v.state = s.state /\ v.reset = s.reset
  <2>1. v.buf = [w.buf EXCEPT ![c] = 0]
    BY <1>4 DEF CloseDownConnection, Fields
  <2>2. DOMAIN v = Fields /\ v.state = w.state /\ v.reset = w.reset
    BY <1>4 DEF CloseDownConnection, Fields
  <2> QED BY <1>4, <2>1, <2>2
<1> HIDE DEF v, u
<1>6. /\ u.buf = v.buf /\ u.reset = v.reset
      /\ u.state = [v.state EXCEPT ![c] = IF s.mode[c] = "DestroyAll" THEN @ ELSE "Retained"]
  BY <1>3, <1>5 DEF Fields
<1>7. u.state = IF s.mode[c] = "DestroyAll" THEN s.state
                ELSE [s.state EXCEPT ![c] = "Retained"]
  BY <1>1, <1>5, <1>6
<1>8. UnreadBut(s, {c}) => Unread(u)
  BY <1>1, <1>5, <1>6, <1>7 DEF Unread, UnreadBut
<1> QED BY <1>5, <1>6, <1>7, <1>8 DEF u

LEMMA FreeQuiet ==
  ASSUME NEW s, DOMAIN s = Fields, DOMAIN s.state = Slots, NEW D \in SUBSET Slots
  PROVE  LET t == FreeSlots(s, D)
         IN  /\ t.buf = s.buf /\ t.reset = s.reset
             /\ t.state = [c \in Slots |-> IF c \in D THEN "None" ELSE s.state[c]]
             /\ Unread(s) => Unread(t)
<1> DEFINE t == FreeSlots(s, D)
<1>1. /\ t.buf = s.buf /\ t.reset = s.reset
      /\ t.state = [c \in Slots |-> IF c \in D THEN "None" ELSE s.state[c]]
  BY DEF FreeSlots, Fields
<1> HIDE DEF t
<1>2. Unread(s) => Unread(t)
  BY <1>1 DEF Unread, UnreadBut
<1> QED BY <1>1, <1>2 DEF t

\* Of one client that is closed down.
LEMMA CloseDownEnds ==
  ASSUME NEW s, Tables(s), NEW c \in Slots, s.state[c] # "None"
  PROVE  /\ Ends(CloseDownClient(s, c), s)
         /\ UnreadBut(s, {c}) => Unread(CloseDownClient(s, c))
<1>0. Unread(s) => UnreadBut(s, {c})
  BY DEF Unread, UnreadBut
<1>1. /\ DOMAIN s = Fields
      /\ s.state \in [Slots -> {"None", "Initial", "Running", "Retained"}]
  BY DEF Tables, Table, TableBut
<1>2. ASSUME NEW u, DOMAIN u = Fields, u.state = s.state, u.reset = s.reset,
             UnreadBut(s, {c}) => Unread(u),
             s.state[c] = "Running" => (u.nClients = 0 <=> Running(s) = {c})
      PROVE  /\ Ends(Destroy(u, c), s)
             /\ UnreadBut(s, {c}) => Unread(Destroy(u, c))
  <2> DEFINE r == [u EXCEPT !.reset = @ \/ (u.state[c] = "Running" /\ u.nClients = 0)]
             t == FreeSlots(r, {c})
  <2>1. DOMAIN r = Fields /\ r.buf = u.buf /\ r.state = s.state
    BY <1>2 DEF Fields
  <2>2. r.reset <=> s.reset \/ (s.state[c] = "Running" /\ Running(s) = {c})
    <3>1. r.reset = (u.reset \/ (u.state[c] = "Running" /\ u.nClients = 0))
      BY <1>2 DEF Fields
    <3> QED BY <1>2, <3>1
  <2>3. UnreadBut(s, {c}) => Unread(r)
    BY <1>2, <2>1 DEF Unread, UnreadBut
  <2> HIDE DEF r
  <2>4. /\ t.reset = r.reset /\ (Unread(r) => Unread(t))
        /\ t.state = [d \in Slots |-> IF d \in {c} THEN "None" ELSE r.state[d]]
    BY <1>1, <2>1, FreeQuiet
  <2>5. Destroy(u, c) = t
    BY DEF Destroy, r
  <2> HIDE DEF t
  <2>6. Running(t) = Running(s) \ {c}
    BY <1>1, <2>1, <2>4 DEF Running
  <2>7. c \in Running(s) <=> s.state[c] = "Running"
    BY DEF Running
  <2>8. \A d \in Running(s) : Gone(t, d) <=> d = c
    BY <1>1, <2>1, <2>4 DEF Running, Gone
  <2>9. UnreadBut(s, {c}) => Unread(t)
    BY <2>3, <2>4
  <2>10. Ends(t, s)
    BY <1>0, <2>2, <2>4, <2>6, <2>7, <2>8, <2>9 DEF Ends
  <2> QED BY <2>5, <2>9, <2>10
<1>3. CASE s.state[c] = "Retained"
  <2>1. CloseDownClient(s, c) = Destroy(s, c)
    BY <1>3 DEF CloseDownClient
  <2>2. UnreadBut(s, {c}) => Unread(s)
    BY <1>3 DEF Unread, UnreadBut
  <2>3. s.state[c] # "Running"
    BY <1>3
  <2> QED BY <1>1, <1>2, <2>1, <2>2, <2>3
<1>4. CASE s.state[c] # "Retained" /\ s.mode[c] = "DestroyAll"
  <2> DEFINE u == Disconnect(s, c)
  <2>1. s.state[c] \in {"Initial", "Running"}
    BY <1>1, <1>4
  <2>2. TableBut(u, {c})
    BY <1>4, <2>1, DisconnectKeeps
  <2>3. (UnreadBut(s, {c}) => Unread(u)) /\ u.reset = s.reset /\ u.state = s.state
    BY <1>4, DisconnectQuiet
  <2>4. CloseDownClient(s, c) = Destroy(u, c)
    BY <1>4 DEF CloseDownClient
  <2> HIDE DEF u
  <2>5. s.state[c] = "Running" => (u.nClients = 0 <=> Running(s) = {c})
    <3>1. u.nClients = Cardinality(Running(u) \ {c}) /\ Running(u) = Running(s)
      BY <2>2, <2>3 DEF TableBut, Running
    <3>2. u.nClients = 0 <=> Running(s) \ {c} = {}
      BY <3>1, RunningFinite, FS_EmptySet
    <3>3. s.state[c] = "Running" => c \in Running(s)
      BY DEF Running
    <3> QED BY <3>2, <3>3
  <2>6. DOMAIN u = Fields
    BY <2>2 DEF TableBut
  <2> QED BY <1>2, <2>3, <2>4, <2>5, <2>6
<1>5. CASE s.state[c] # "Retained" /\ s.mode[c] # "DestroyAll"
  <2> DEFINE u == Disconnect(s, c)
  <2>1. /\ UnreadBut(s, {c}) => Unread(u)
        /\ u.reset = s.reset /\ u.state = [s.state EXCEPT ![c] = "Retained"]
    BY <1>5, DisconnectQuiet
  <2>2. CloseDownClient(s, c) = u
    BY <1>5 DEF CloseDownClient
  <2> HIDE DEF u
  <2>3. Running(u) = Running(s) \ {c} /\ ~ Gone(u, c)
    BY <1>1, <2>1 DEF Running, Gone
  <2>4. Running(s) # {} /\ Running(u) = {} => c \in Running(s)
    BY <2>3
  <2> QED BY <1>0, <2>1, <2>2, <2>3, <2>4 DEF Ends
<1> QED BY <1>3, <1>4, <1>5

LEMMA RetainedEnds ==
  ASSUME NEW s, Tables(s)
  PROVE  LET t == CloseDownRetainedResources(s)
         IN  Ends(t, s) /\ Running(t) = Running(s)
<1> DEFINE D == {c \in Slots : /\ c < s.currentMax /\ s.state[c] = "Retained"
                               /\ s.mode[c] = "RetainTemporary"}
           t == FreeSlots(s, D)
<1>1. /\ DOMAIN s = Fields
      /\ s.state \in [Slots -> {"None", "Initial", "Running", "Retained"}]
  BY DEF Tables, Table, TableBut
<1>2. \A c \in D : s.state[c] = "Retained"
  OBVIOUS
<1>3. CloseDownRetainedResources(s) = t
  BY DEF CloseDownRetainedResources
<1>4. D \in SUBSET Slots
  OBVIOUS
<1> HIDE DEF D
<1>5. /\ t.reset = s.reset /\ (Unread(s) => Unread(t))
      /\ t.state = [c \in Slots |-> IF c \in D THEN "None" ELSE s.state[c]]
  BY <1>1, <1>4, FreeQuiet
<1> HIDE DEF t
<1>6. Running(t) = Running(s)
  BY <1>1, <1>2, <1>5 DEF Running
<1>7. Ends(t, s)
  BY <1>5, <1>6 DEF Ends
<1> QED BY <1>3, <1>6, <1>7 DEF t

LEMMA FinishEnds ==
  ASSUME NEW s, Tables(s), Serving(s)
  PROVE  /\ Ends(Finish(s), s) /\ Finish(s).phase = s.phase
         /\ s.cur \in s.failed /\ UnreadBut(s, {s.cur}) => Unread(Finish(s))
<1> DEFINE t == CloseDownClient(s, s.cur)
           u == [t EXCEPT !.cur = 0]
<1>1. CASE s.cur \in s.failed
  <2>1. s.state[s.cur] # "None" /\ s.cur \in Slots
    BY LiveConnection DEF Serving
  <2>2. Ends(t, s) /\ Tables(t) /\ t.phase = s.phase /\ (UnreadBut(s, {s.cur}) => Unread(t))
    BY <2>1, CloseDownEnds, CloseDownKeeps DEF SameLoop
  <2> HIDE DEF t
  <2>3. DOMAIN t = Fields
    BY <2>2 DEF Tables, Table, TableBut
  <2>4. Quiet(u, t) /\ u.phase = t.phase
    BY <2>3 DEF Fields, Quiet, Unread, UnreadBut
  <2>5. Quiet(s, s)
    BY DEF Quiet
  <2>6. Finish(s) = u
    BY <1>1 DEF Finish, t
  <2> HIDE DEF u
  <2>7. Ends(u, s)
    BY <2>2, <2>4, <2>5, QuietEnds
  <2>8. UnreadBut(s, {s.cur}) => Unread(u)
    BY <2>2, <2>4 DEF Quiet
  <2> QED BY <2>2, <2>4, <2>6, <2>7, <2>8
<1>2. CASE s.cur \notin s.failed
  <2>1. Finish(s) = s /\ Quiet(s, s)
    BY <1>2 DEF Finish, Quiet
  <2> QED BY <1>2, <2>1, NothingEnds
<1> QED BY <1>1, <1>2

\* Reading a request.
LEMMA ReadQuiet ==
  ASSUME NEW s, Tables(s), Serving(s)
  PROVE  LET t == ReadRequestFromClient(s)
         IN  /\ t.state = s.state /\ t.reset = s.reset
             /\ s.state[s.cur] = "Running" => Quiet(t, s)
<1> DEFINE t == ReadRequestFromClient(s)
           got == IF s.buf[s.cur] > 0 THEN s.buf[s.cur] ELSE s.sock[s.cur]
<1>1. DOMAIN s = Fields
  BY DEF Tables, Table, TableBut
<1>2. t.state = s.state /\ t.reset = s.reset
  BY <1>1 DEF ReadRequestFromClient, Fields
<1>3. t.buf = [s.buf EXCEPT ![s.cur] = got - 1]
  BY <1>1 DEF ReadRequestFromClient, Fields
<1> HIDE DEF t, got
<1>4. s.state[s.cur] = "Running" => Quiet(t, s)
  BY <1>2, <1>3 DEF Quiet, Unread, UnreadBut
<1> QED BY <1>2, <1>4 DEF t

-----------------------------------------------------------------------------
\* The steps.
ResetInv == Inv /\ Unread(srv) /\ (srv.phase = "kill" => srv.reset)

LastStep ==
  ~srv.reset /\ srv.state # srv'.state =>
    /\ srv'.reset => LastGoes /\ \E c \in Running(srv) : Destroyed(c)
    /\ LastGoes /\ (\A c \in Running(srv) : Destroyed(c)) => srv'.reset

Left == LastStep /\ Unread(srv') /\ (srv'.phase = "kill" => srv'.reset)

LEMMA EndsLeft ==
  ASSUME ResetInv, Ends(srv', srv), srv'.phase = "kill" => srv.phase = "kill"
  PROVE  Left
BY DEF ResetInv, Ends, Left, LastStep, LastGoes, Destroyed, Gone

LEMMA QuietLeft ==
  ASSUME ResetInv, Quiet(srv', srv), srv'.phase = "kill" => srv.phase = "kill"
  PROVE  Left
BY NothingEnds, EndsLeft

LEMMA PeerLeft ==
  ASSUME ResetInv, Peer
  PROVE  Left
<1>1. DOMAIN srv = Fields
  BY DEF ResetInv, Inv, Tables, Table, TableBut
<1>2. srv'.state = srv.state /\ srv'.buf = srv.buf /\ srv'.phase = srv.phase
  BY <1>1 DEF Peer, Connect, Send, Close, WriteFails, Hangup, Fields
<1>3. srv.reset => srv'.reset
  BY <1>1 DEF Peer, Connect, Send, Close, WriteFails, Hangup, Fields
<1> QED BY <1>2, <1>3 DEF ResetInv, Left, LastStep, Unread, UnreadBut

\* A client that is accepted has a slot that was free.
LEMMA AllocEnds ==
  ASSUME NEW s, NEW t, NEW f, Tables(t), Ends(t, s)
  PROVE  Ends(AllocNewConnection(t, f), s)
<1> DEFINE i == t.nextFree
           u == AllocNewConnection(t, f)
<1>1. /\ DOMAIN t = Fields /\ i \in 1 .. MAXCLIENTS
      /\ t.state \in [Slots -> {"None", "Initial", "Running", "Retained"}]
      /\ i < MAXCLIENTS => t.state[i] = "None"
  BY DEF Tables, Table, TableBut
<1>2. CASE i = MAXCLIENTS
  BY <1>2 DEF AllocNewConnection
<1>3. CASE i # MAXCLIENTS
  <2>1. i \in Slots /\ t.state[i] = "None"
    BY <1>1, <1>3, MAXCLIENTSAssumption DEF Slots
  <2> HIDE DEF i
  <2>2. /\ u.state = [t.state EXCEPT ![i] = "Initial"] /\ u.reset = t.reset
        /\ u.buf = [t.buf EXCEPT ![i] = 0]
    BY <1>1, <1>3 DEF AllocNewConnection, Fields, i
  <2> HIDE DEF u
  <2>3. Running(u) = Running(t)
    BY <1>1, <2>1, <2>2 DEF Running
  <2>4. \A c \in Slots : Gone(u, c) <=> Gone(t, c)
    BY <1>1, <2>1, <2>2 DEF Gone
  <2>5. Unread(t) => Unread(u)
    BY <1>1, <2>1, <2>2 DEF Unread, UnreadBut
  <2>6. Running(s) \subseteq Slots
    BY DEF Running
  <2>7. (\A c \in Running(s) : Gone(u, c)) <=> \A c \in Running(s) : Gone(t, c)
    BY <2>4, <2>6
  <2>8. (\E c \in Running(s) : Gone(u, c)) <=> \E c \in Running(s) : Gone(t, c)
    BY <2>4, <2>6
  <2>9. Ends(u, s)
    BY <2>2, <2>3, <2>5, <2>7, <2>8 DEF Ends
  <2> QED BY <2>9 DEF u
<1> QED BY <1>2, <1>3

LEMMA WaitLeft ==
  ASSUME ResetInv, Wait
  PROVE  Left
<1>0. /\ DOMAIN srv = Fields /\ srv.currentMax \in 1 .. MAXCLIENTS /\ Tables(srv)
  BY DEF ResetInv, Inv, Tables, Table, TableBut
<1>1. CASE KillStragglers \/ Serve
  <2>1. /\ srv'.state = srv.state /\ srv'.buf = srv.buf /\ srv'.reset = srv.reset
        /\ srv'.phase # "kill"
    <3>1. \/ srv' = [srv EXCEPT !.phase = "stragglers", !.at = 1]
          \/ \E R : srv' = [srv EXCEPT !.phase = "serve", !.ready = R]
      BY <1>1, Zenon DEF KillStragglers, Serve
    <3> QED BY <1>0, <3>1 DEF Fields
  <2> QED BY <2>1, QuietLeft DEF Quiet, Unread, UnreadBut
<1>2. ASSUME NEW late \in BOOLEAN, Straggler(late) PROVE Left
  <2> DEFINE i == srv.at
             t == IF late \/ i \in srv.failed THEN CloseDownClient(srv, i) ELSE srv
  <2>1. /\ srv' = [t EXCEPT !.at = i + 1] /\ srv.phase = "stragglers" /\ i < srv.currentMax
        /\ late => srv.state[i] = "Initial"
    BY <1>2 DEF Straggler
  <2>2. i \in Slots
    BY <1>0, <2>1, MAXCLIENTSAssumption DEF ResetInv, Inv, Loops, Slots
  <2>3. Tables(t) /\ t.phase = srv.phase /\ Ends(t, srv)
    <3>1. CASE late \/ i \in srv.failed
      <4>1. srv.state[i] # "None"
        BY <1>0, <2>1, <3>1, LiveConnection DEF Tables, Table, TableBut, Connected
      <4> QED BY <1>0, <2>2, <3>1, <4>1, CloseDownKeeps, CloseDownEnds DEF SameLoop
    <3>2. CASE ~ (late \/ i \in srv.failed)
      BY <1>0, <3>2, NothingEnds DEF Quiet
    <3> QED BY <3>1, <3>2
  <2> HIDE DEF t
  <2>4. srv'.phase = t.phase /\ Quiet(srv', t)
    BY <2>1, <2>3 DEF Tables, Table, TableBut, Fields, Quiet, Unread, UnreadBut
  <2>5. Quiet(srv, srv)
    BY DEF Quiet
  <2>6. Ends(srv', srv)
    BY <2>3, <2>4, <2>5, QuietEnds
  <2> QED BY <2>3, <2>4, <2>6, EndsLeft
<1>3. CASE EstablishNewConnections
  <2> DEFINE free == (Fds \cup {MAXCLIENTS}) \ FdsOf(Connected(srv) \ srv.failed)
             f == Min(free)
             t == [srv EXCEPT !.phase = "wait", !.at = 0, !.calling = FALSE]
             old == IF f \in Fds THEN t.trans[f] ELSE 0
             u == IF old = 0 THEN t ELSE CloseDownClient(t, old)
  <2>1. srv' = IF f \notin Fds THEN t ELSE AllocNewConnection(u, f)
    BY <1>3 DEF EstablishNewConnections
  <2>2. /\ SameTable(t, srv) /\ SameMasks(t, srv) /\ SameGrab(t, srv)
        /\ t.phase = "wait" /\ Quiet(t, srv)
    BY <1>0 DEF Fields, SameTable, SameMasks, SameGrab, Quiet, Unread, UnreadBut
  <2> HIDE DEF f, free, t
  <2>3. Tables(t)
    BY <1>0, <2>2, SameAll
  <2>4. CASE f \notin Fds
    BY <2>1, <2>2, <2>4, QuietLeft
  <2>5. CASE f \in Fds
    <3>1. /\ Tables(u) /\ SameLoop(u, t) /\ u.trans[f] = 0
          /\ old # 0 => old \in Slots /\ t.state[old] # "None"
      BY <2>3, <2>5, DescriptorIsFree
    <3>2. Ends(u, t)
      <4>1. CASE old = 0
        BY <4>1, NothingEnds DEF Quiet
      <4>2. CASE old # 0
        BY <2>3, <3>1, <4>2, CloseDownEnds
      <4> QED BY <4>1, <4>2
    <3> HIDE DEF u, old
    <3>3. Quiet(u, u)
      BY DEF Quiet
    <3>4. Ends(u, srv)
      BY <2>2, <3>2, <3>3, QuietEnds
    <3>5. Ends(srv', srv)
      BY <2>1, <2>5, <3>1, <3>4, AllocEnds
    <3>6. srv'.phase = "wait"
      BY <2>1, <2>2, <2>5, <3>1, AllocKeeps DEF SameLoop
    <3> QED BY <3>5, <3>6, EndsLeft
  <2> QED BY <2>4, <2>5
<1>4. ASSUME NEW c \in Slots, ClientWakeup(c) PROVE Left
  <2> DEFINE w == [srv EXCEPT !.asleep = @ \ {c}]
  <2>1. /\ DOMAIN w = Fields /\ w.state = srv.state /\ w.buf = srv.buf
        /\ w.reset = srv.reset /\ w.phase = srv.phase
    BY <1>0 DEF Fields
  <2>2. srv' = AttendClient(w, c)
    BY <1>4 DEF ClientWakeup
  <2> HIDE DEF w
  <2>3. /\ srv'.state = srv.state /\ srv'.buf = srv.buf /\ srv'.reset = srv.reset
        /\ srv'.phase = srv.phase
    BY <2>1, <2>2 DEF AttendClient, Fields
  <2> QED BY <2>3, QuietLeft DEF Quiet, Unread, UnreadBut
<1>5. ASSUME NEW c \in Slots, CheckConnections(c) PROVE Left
  <2>1. srv.state[c] # "None"
    BY <1>0, <1>5, LiveConnection DEF CheckConnections, Tables, Table, TableBut, Connected
  <2>2. srv' = CloseDownClient(srv, c)
    BY <1>5 DEF CheckConnections
  <2>3. Ends(srv', srv) /\ srv'.phase = srv.phase
    BY <1>0, <2>1, <2>2, CloseDownKeeps, CloseDownEnds DEF SameLoop
  <2> QED BY <2>3, EndsLeft
<1> QED BY <1>1, <1>2, <1>3, <1>4, <1>5 DEF Wait

LEMMA RoundLeft ==
  ASSUME ResetInv, (\E c \in Slots : NextClient(c)) \/ EndRound \/ EndTurn \/ NoRequest
  PROVE  Left
<1>0. /\ DOMAIN srv = Fields /\ Tables(srv)
      /\ srv.cur # 0 => Serving(srv)
      /\ srv.state \in [Slots -> {"None", "Initial", "Running", "Retained"}]
  BY DEF ResetInv, Inv, Tables, Table, TableBut, Loops, Serving
<1>1. CASE (\E c \in Slots : NextClient(c)) \/ EndRound \/ EndTurn
  <2>1. /\ srv'.state = srv.state /\ srv'.buf = srv.buf /\ srv'.reset = srv.reset
        /\ srv'.phase # "kill"
    <3>1. ASSUME NEW c \in Slots, NextClient(c)
          PROVE  /\ srv'.state = srv.state /\ srv'.buf = srv.buf /\ srv'.reset = srv.reset
                 /\ srv'.phase # "kill"
      <4> DEFINE t == [srv EXCEPT !.ready = @ \ {c}]
      <4>1. srv.phase = "serve"
        BY <3>1 DEF NextClient
      <4>2. \/ srv' = t
            \/ srv' = [srv EXCEPT !.grabState = "Active", !.ready = {}]
            \/ srv' = [t EXCEPT !.phase = "crashed"]
            \/ srv' = [t EXCEPT !.cur = c, !.turn = "new"]
        BY <1>0, <3>1 DEF NextClient
      <4>3. /\ DOMAIN t = Fields /\ t.state = srv.state /\ t.buf = srv.buf
            /\ t.reset = srv.reset /\ t.phase = srv.phase
        BY <1>0 DEF Fields
      <4> HIDE DEF t
      <4>4. CASE srv' = t
        BY <4>1, <4>3, <4>4
      <4>5. CASE srv' = [srv EXCEPT !.grabState = "Active", !.ready = {}]
        BY <1>0, <4>1, <4>5 DEF Fields
      <4>6. CASE srv' = [t EXCEPT !.phase = "crashed"]
        BY <4>3, <4>6 DEF Fields
      <4>7. CASE srv' = [t EXCEPT !.cur = c, !.turn = "new"]
        BY <4>1, <4>3, <4>7 DEF Fields
      <4> QED BY <4>2, <4>4, <4>5, <4>6, <4>7
    <3>2. CASE EndRound
      <4>1. srv' = [srv EXCEPT !.phase = "wait", !.ready = {}]
        BY <3>2 DEF EndRound
      <4> QED BY <1>0, <4>1 DEF Fields
    <3>3. CASE EndTurn
      <4>1. srv' = [srv EXCEPT !.cur = 0] /\ srv.phase = "serve"
        BY <3>3 DEF EndTurn
      <4> QED BY <1>0, <4>1 DEF Fields
    <3> QED BY <1>1, <3>1, <3>2, <3>3
  <2> QED BY <2>1, QuietLeft DEF Quiet, Unread, UnreadBut
<1>2. CASE NoRequest
  <2>1. Serving(srv)
    BY <1>0, <1>2 DEF NoRequest
  <2>2. CASE srv.cur \in srv.eof
    <3> DEFINE t == CloseDownClient(srv, srv.cur)
    <3>1. srv.state[srv.cur] # "None" /\ srv.cur \in Slots
      BY <1>0, <2>1, LiveConnection DEF Serving
    <3>2. Tables(t) /\ t.phase = srv.phase /\ Ends(t, srv)
      BY <1>0, <3>1, CloseDownKeeps, CloseDownEnds DEF SameLoop
    <3>3. srv' = [t EXCEPT !.cur = 0]
      BY <1>2, <2>2 DEF NoRequest
    <3> HIDE DEF t
    <3>4. srv'.phase = t.phase /\ Quiet(srv', t)
      BY <3>2, <3>3 DEF Tables, Table, TableBut, Fields, Quiet, Unread, UnreadBut
    <3>5. Quiet(srv, srv)
      BY DEF Quiet
    <3>6. Ends(srv', srv)
      BY <3>2, <3>4, <3>5, QuietEnds
    <3> QED BY <3>2, <3>4, <3>6, EndsLeft
  <2>3. CASE srv.cur \notin srv.eof
    <3>1. /\ srv'.state = srv.state /\ srv'.buf = srv.buf /\ srv'.reset = srv.reset
          /\ srv'.phase = srv.phase
      BY <1>0, <1>2, <2>3 DEF NoRequest, Fields
    <3> QED BY <3>1, QuietLeft DEF Quiet, Unread, UnreadBut
  <2> QED BY <2>2, <2>3
<1> QED BY <1>1, <1>2

\* A client is accepted only with its first request, so its descriptor has not
\* failed and it is not closed down in the step that counts it.
LEMMA SetupLeft ==
  ASSUME ResetInv, NEW accepted \in BOOLEAN, Setup(accepted)
  PROVE  Left
<1> DEFINE c == srv.cur
           s == ReadRequestFromClient(srv)
           t == IF accepted
                THEN [s EXCEPT !.state[c] = "Running", !.nClients = @ + 1]
                ELSE [s EXCEPT !.failed = @ \cup {c}]
<1>0. /\ Tables(srv) /\ srv.state \in [Slots -> {"None", "Initial", "Running", "Retained"}]
      /\ Unread(srv)
  BY DEF ResetInv, Inv, Tables, Table, TableBut
<1>1. /\ Serving(srv) /\ c \in Slots /\ srv.state[c] = "Initial" /\ srv' = Finish(t)
      /\ srv.buf[c] > 0 \/ c \notin srv.failed
  BY DEF Setup, CanRead, ResetInv, Inv, Loops, Serving
<1>2. c \notin srv.failed
  BY <1>0, <1>1 DEF Unread, UnreadBut
<1>3. /\ Tables(s) /\ SameLoop(s, srv) /\ s.conn[c] # 0 /\ s.failed = srv.failed
      /\ s.state = srv.state /\ s.reset = srv.reset
  BY <1>0, <1>1, ReadKeeps, ReadQuiet DEF Serving, SameTable
<1>4. UnreadBut(s, {c})
  <2> DEFINE got == IF srv.buf[c] > 0 THEN srv.buf[c] ELSE srv.sock[c]
  <2>1. s.buf = [srv.buf EXCEPT ![c] = got - 1]
    BY <1>0 DEF ReadRequestFromClient, Fields, Tables, Table, TableBut
  <2> HIDE DEF got, s
  <2> QED BY <1>0, <1>3, <2>1 DEF Unread, UnreadBut
<1> HIDE DEF s, c
<1>5. Tables(t) /\ SameLoop(t, s) /\ t.conn = s.conn
  BY <1>1, <1>3, SetUpKeeps
<1>6. DOMAIN s = Fields
  BY <1>3 DEF Tables, Table, TableBut
<1>7. c = srv.cur /\ t.cur = c /\ Serving(t) /\ t.phase = srv.phase
  BY <1>1, <1>3, <1>5 DEF c, Serving, SameLoop
<1>8. CASE accepted
  <2>1. /\ t.state = [srv.state EXCEPT ![c] = "Running"] /\ t.reset = srv.reset
        /\ t.buf = s.buf /\ t.failed = srv.failed
    BY <1>3, <1>6, <1>8 DEF Fields
  <2> HIDE DEF t
  <2>2. srv' = t
    BY <1>1, <1>2, <1>7, <2>1 DEF Finish
  <2>3. Unread(t)
    BY <1>0, <1>1, <1>3, <1>4, <2>1 DEF Unread, UnreadBut
  <2>4. c \in Running(srv')
    BY <1>0, <1>1, <2>1, <2>2 DEF Running
  <2>5. LastStep
    BY <2>1, <2>2, <2>4 DEF LastStep, LastGoes, Running
  <2> QED BY <1>7, <2>1, <2>2, <2>3, <2>5 DEF Left, ResetInv
<1>9. CASE ~accepted
  <2>1. t.state = srv.state /\ t.reset = srv.reset /\ t.buf = s.buf /\ c \in t.failed
    BY <1>3, <1>6, <1>9 DEF Fields
  <2> HIDE DEF t
  <2>2. UnreadBut(t, {c})
    BY <1>3, <1>4, <2>1 DEF UnreadBut
  <2>3. Ends(srv', t) /\ srv'.phase = t.phase /\ Unread(srv')
    BY <1>1, <1>5, <1>7, <2>1, <2>2, FinishEnds
  <2>4. Running(t) = Running(srv)
    BY <2>1 DEF Running
  <2>5. LastStep
    BY <2>1, <2>3, <2>4 DEF Ends, LastStep, LastGoes, Destroyed, Gone
  <2> QED BY <1>7, <2>1, <2>3, <2>5 DEF Left, ResetInv, Ends
<1> QED BY <1>8, <1>9

LEMMA RequestLeft ==
  ASSUME ResetInv, Execute
  PROVE  Left
<1> DEFINE c == srv.cur
           s == ReadRequestFromClient(srv)
<1>0. Tables(srv)
  BY DEF ResetInv, Inv
<1>1. ASSUME NEW r, Request(r)
      PROVE  /\ Serving(srv) /\ Tables(s) /\ SameLoop(s, srv) /\ DOMAIN s = Fields
             /\ c \in Slots /\ s.conn[c] # 0 /\ s.cur = c
             /\ s.state[c] = "Running" /\ Quiet(s, srv)
  <2>1. Serving(srv) /\ srv.state[c] = "Running"
    BY <1>1 DEF Request, CanRead, ResetInv, Inv, Loops, Serving
  <2>2. Tables(s) /\ SameLoop(s, srv) /\ SameTable(s, srv) /\ Quiet(s, srv)
    BY <1>0, <2>1, ReadKeeps, ReadQuiet
  <2> QED BY <2>1, <2>2 DEF Serving, SameTable, SameLoop, Tables, Table, TableBut
<1>2. ASSUME NEW t, NEW r, Request(r), Tables(t), SameLoop(t, s), t.conn[c] # 0,
             Ends(t, s), Running(t) # {}, srv' = Finish(t)
      PROVE  Left
  <2>1. Serving(t) /\ t.phase = srv.phase
    BY <1>1, <1>2 DEF SameLoop, Serving
  <2>2. Ends(srv', t) /\ srv'.phase = t.phase
    BY <1>2, <2>1, FinishEnds
  <2>3. Ends(srv', s)
    BY <1>2, <2>2, EndsTwice
  <2>4. Quiet(srv', srv') /\ Quiet(s, srv)
    BY <1>1, <1>2 DEF Quiet
  <2>5. Ends(srv', srv)
    BY <2>3, <2>4, QuietEnds
  <2> QED BY <2>1, <2>2, <2>5, EndsLeft
<1>3. ASSUME NEW t, NEW r, Request(r), Tables(t), SameLoop(t, s), t.conn[c] # 0,
             t.state = s.state, t.reset = s.reset, t.buf = s.buf, srv' = Finish(t)
      PROVE  Left
  <2>1. Ends(t, s)
    BY <1>3, NothingEnds DEF Quiet, Unread, UnreadBut
  <2>2. c \in Running(t)
    BY <1>1, <1>3 DEF Running
  <2> QED BY <1>2, <1>3, <2>1, <2>2
<1> HIDE DEF s
<1>4. CASE \E accepted \in BOOLEAN : Setup(accepted)
  BY <1>4, SetupLeft
<1>5. CASE Ordinary
  <2>1. Request("other") /\ srv' = Finish(s)
    BY <1>5 DEF Ordinary, s
  <2> QED BY <1>1, <1>3, <2>1 DEF SameLoop
<1>6. CASE ProcGrabServer
  <2> DEFINE x == ResetCurrentRequest(s, c)
             y == [x EXCEPT !.waiters = @ \cup {c}]
             w == IgnoreClient(y, c)
             l == OnlyListenToOneClient(s, c)
             g == [l EXCEPT !.grabState = "Kickout", !.grabClient = c]
  <2>1. /\ Request("grab")
        /\ srv' = Finish(IF s.grabState # "None" /\ s.grabClient # c THEN w ELSE g)
    BY <1>6 DEF ProcGrabServer, s
  <2>2. DOMAIN s = Fields /\ Tables(s) /\ c \in Slots /\ s.conn[c] # 0 /\ s.state[c] = "Running"
    BY <1>1, <2>1
  <2>3. CASE s.grabState # "None" /\ s.grabClient # c
    <3>1. Tables(w) /\ SameLoop(w, s) /\ w.conn = s.conn
      BY <2>2, WaitKeeps
    <3>2. /\ DOMAIN x = Fields /\ x.state = s.state /\ x.reset = s.reset
          /\ x.buf = [s.buf EXCEPT ![c] = @ + 1]
      BY <2>2 DEF ResetCurrentRequest, Fields
    <3> HIDE DEF x
    <3>3. DOMAIN y = Fields /\ y.state = s.state /\ y.reset = s.reset /\ y.buf = x.buf
      BY <3>2 DEF Fields
    <3> HIDE DEF y
    <3>4. w.state = s.state /\ w.reset = s.reset /\ w.buf = y.buf
      BY <3>3 DEF IgnoreClient, Fields
    <3> HIDE DEF w
    <3>5. Quiet(w, s)
      BY <2>2, <3>2, <3>3, <3>4 DEF Quiet, Unread, UnreadBut
    <3>6. c \in Running(w) /\ Ends(w, s)
      BY <2>2, <3>4, <3>5, NothingEnds DEF Running
    <3>7. srv' = Finish(w)
      BY <2>1, <2>3
    <3> QED BY <1>2, <2>1, <2>2, <3>1, <3>6, <3>7
  <2>4. CASE ~ (s.grabState # "None" /\ s.grabClient # c)
    <3>1. Tables(g) /\ SameTable(g, s) /\ SameLoop(g, s)
      BY <2>2, <2>4, GrabKeeps
    <3>2. DOMAIN l = Fields /\ l.state = s.state /\ l.reset = s.reset /\ l.buf = s.buf
      BY <2>2 DEF OnlyListenToOneClient, Fields
    <3> HIDE DEF l
    <3>3. g.state = s.state /\ g.reset = s.reset /\ g.buf = s.buf
      BY <3>2 DEF Fields
    <3>4. srv' = Finish(g)
      BY <2>1, <2>4
    <3> HIDE DEF g, w
    <3>5. g.conn[c] # 0
      BY <2>2, <3>1 DEF SameTable
    <3> QED BY <1>3, <2>1, <3>1, <3>3, <3>4, <3>5
  <2> QED BY <2>3, <2>4
<1>7. CASE ProcUngrabServer
  <2> DEFINE t == UngrabServer(s)
  <2>1. Request("ungrab") /\ srv' = Finish(t)
    BY <1>7 DEF ProcUngrabServer, s
  <2>2. Tables(t) /\ SameLoop(t, s) /\ t.conn = s.conn
    BY <1>1, <2>1, UngrabServerKeeps
  <2>3. t.state = s.state /\ t.reset = s.reset /\ t.buf = s.buf
    BY <1>1, <2>1, UngrabQuiet
  <2> HIDE DEF t
  <2> QED BY <1>1, <1>3, <2>1, <2>2, <2>3
<1>8. ASSUME NEW m \in Modes, ProcChangeCloseDownMode(m) PROVE Left
  <2> DEFINE t == [s EXCEPT !.mode[c] = m]
  <2>1. Request("mode") /\ srv' = Finish(t)
    BY <1>8 DEF ProcChangeCloseDownMode, s
  <2>2. Tables(t) /\ SameLoop(t, s) /\ t.conn = s.conn
    BY <1>1, <2>1, ModeKeeps
  <2>3. t.state = s.state /\ t.reset = s.reset /\ t.buf = s.buf
    BY <1>1, <2>1 DEF Fields
  <2> HIDE DEF t
  <2> QED BY <1>1, <1>3, <2>1, <2>2, <2>3
<1>9. ASSUME NEW d \in Slots, ProcKillClient(d) PROVE Left
  <2> DEFINE t == CloseDownClient(s, d)
  <2>1. /\ Request("kill") /\ srv.state[d] \in {"Running", "Retained"}
        /\ srv' = IF t.turn = "over" \/ d = c THEN [t EXCEPT !.cur = 0] ELSE Finish(t)
    BY <1>9 DEF ProcKillClient, s
  <2>2. s.state[d] # "None"
    BY <1>1, <2>1 DEF Quiet
  <2>3. /\ Tables(t) /\ SameLoop(t, s) /\ Ends(t, s)
        /\ \A e \in Slots \ {d} : t.state[e] = s.state[e] /\ t.conn[e] = s.conn[e]
    <3>1. Tables(s)
      BY <1>1, <2>1
    <3>2. /\ Tables(t) /\ SameLoop(t, s)
          /\ \A e \in Slots \ {d} : t.state[e] = s.state[e] /\ t.conn[e] = s.conn[e]
      BY <2>2, <3>1, CloseDownKeeps
    <3>3. Ends(t, s)
      BY <2>2, <3>1, CloseDownEnds
    <3> QED BY <3>2, <3>3
  <2> HIDE DEF t
  <2>4. CASE t.turn = "over" \/ d = c
    <3>1. srv'.phase = t.phase /\ Quiet(srv', t)
      BY <2>1, <2>3, <2>4 DEF Tables, Table, TableBut, Fields, Quiet, Unread, UnreadBut
    <3>2. Ends(srv', srv)
      BY <1>1, <2>1, <2>3, <3>1, QuietEnds
    <3>3. srv'.phase = srv.phase
      BY <1>1, <2>1, <2>3, <3>1 DEF SameLoop
    <3> QED BY <3>2, <3>3, EndsLeft
  <2>5. CASE ~ (t.turn = "over" \/ d = c)
    <3>1. t.conn[c] # 0 /\ c \in Running(t)
      BY <1>1, <2>1, <2>3, <2>5 DEF Running
    <3>2. srv' = Finish(t)
      BY <2>1, <2>5
    <3> QED BY <1>2, <2>1, <2>3, <3>1, <3>2
  <2> QED BY <2>4, <2>5
<1>10. CASE KillTemporary
  <2> DEFINE t == CloseDownRetainedResources(s)
  <2>1. Request("killTemporary") /\ srv' = Finish(t)
    BY <1>10 DEF KillTemporary, s
  <2>2. Tables(t) /\ SameLoop(t, s) /\ t.conn = s.conn
    BY <1>1, <2>1, RetainedKeeps
  <2>3. Ends(t, s) /\ Running(t) = Running(s)
    BY <1>1, <2>1, RetainedEnds
  <2> HIDE DEF t
  <2>4. c \in Running(t)
    BY <1>1, <2>1, <2>3 DEF Running
  <2> QED BY <1>1, <1>2, <2>1, <2>2, <2>3, <2>4
<1>11. ASSUME NEW i \in BOOLEAN, GrabControl(i) PROVE Left
  <2> DEFINE t == IF i THEN MakeClientGrabImpervious(s, c) ELSE MakeClientGrabPervious(s, c)
             r == IF i THEN "impervious" ELSE "pervious"
  <2>1. Request(r) /\ srv' = Finish(t)
    BY <1>11 DEF GrabControl, s
  <2>2. Tables(t) /\ SameTable(t, s) /\ SameLoop(t, s)
    BY <1>1, <2>1, ControlKeeps
  <2>3. DOMAIN s = Fields
    BY <1>1, <2>1
  <2>4. t.state = s.state /\ t.reset = s.reset /\ t.buf = s.buf
    BY <2>3 DEF MakeClientGrabImpervious, MakeClientGrabPervious, Fields
  <2> HIDE DEF t, r
  <2>5. t.conn[c] # 0
    BY <1>1, <2>1, <2>2 DEF SameTable
  <2> QED BY <1>3, <2>1, <2>2, <2>4, <2>5
<1>12. CASE ClientSleep
  <2> DEFINE w == [s EXCEPT !.asleep = @ \cup {c}]
             t == IgnoreClient(w, c)
  <2>1. Request("sleep") /\ srv' = Finish(t)
    BY <1>12 DEF ClientSleep, s
  <2>2. Tables(t) /\ SameLoop(t, s) /\ t.conn = s.conn
    BY <1>1, <2>1, SleepKeeps
  <2>3. DOMAIN s = Fields
    BY <1>1, <2>1
  <2>4. DOMAIN w = Fields /\ w.state = s.state /\ w.reset = s.reset /\ w.buf = s.buf
    BY <2>3 DEF Fields
  <2> HIDE DEF w
  <2>5. t.state = s.state /\ t.reset = s.reset /\ t.buf = s.buf
    BY <2>4 DEF IgnoreClient, Fields
  <2> HIDE DEF t
  <2> QED BY <1>1, <1>3, <2>1, <2>2, <2>5
<1>13. ASSUME NEW d \in Slots, NEW p \in Priorities, ProcSyncSetPriority(d, p) PROVE Left
  <2> DEFINE t == Prioritize(s, d, p)
  <2>1. Request("priority") /\ srv' = Finish(t)
    BY <1>13 DEF ProcSyncSetPriority, s
  <2>2. /\ Tables(t) /\ SameLoop(t, s) /\ SameTable(t, s)
        /\ t.state = s.state /\ t.reset = s.reset /\ t.buf = s.buf
    BY <1>1, <2>1, PrioritizeKeeps
  <2> HIDE DEF t
  <2>3. t.conn[c] # 0
    BY <1>1, <2>1, <2>2 DEF SameTable
  <2> QED BY <1>3, <2>1, <2>2, <2>3
<1> QED BY <1>4, <1>5, <1>6, <1>7, <1>8, <1>9, <1>10, <1>11, <1>12, <1>13 DEF Execute

LEMMA ResetLeft ==
  ASSUME ResetInv, Reset
  PROVE  Left
<1>0. /\ DOMAIN srv = Fields /\ srv.currentMax \in 1 .. MAXCLIENTS /\ Tables(srv)
  BY DEF ResetInv, Inv, Tables, Table, TableBut
<1>1. CASE EndDispatch \/ NextGeneration
  <2>1. /\ srv'.state = srv.state /\ srv'.buf = srv.buf
        /\ srv'.phase = "kill" => srv'.reset
    BY <1>0, <1>1 DEF EndDispatch, NextGeneration, Fields
  <2> QED BY <2>1 DEF Left, LastStep, ResetInv, Unread, UnreadBut
<1>2. CASE KillAllClients
  <2> DEFINE i == srv.at
             m == [srv EXCEPT !.mode[i] = "DestroyAll"]
             t == IF srv.state[i] = "None" THEN srv ELSE CloseDownClient(m, i)
  <2>1. srv' = [t EXCEPT !.at = i + 1] /\ srv.phase = "kill" /\ i < srv.currentMax
    BY <1>2 DEF KillAllClients
  <2>2. i \in Slots
    BY <1>0, <2>1, MAXCLIENTSAssumption DEF ResetInv, Inv, Loops, Slots
  <2>3. srv.reset
    BY <2>1 DEF ResetInv
  <2>4. DOMAIN t = Fields /\ t.reset /\ Unread(t)
    <3>1. CASE srv.state[i] = "None"
      BY <1>0, <2>3, <3>1 DEF ResetInv
    <3>2. CASE srv.state[i] # "None"
      <4>1. Tables(m) /\ m.state = srv.state
        BY <1>0, <2>2, ModeKeeps DEF Modes
      <4>2. m.reset = srv.reset /\ m.buf = srv.buf
        BY <1>0 DEF Fields
      <4> HIDE DEF m
      <4>3. Unread(m)
        BY <4>1, <4>2 DEF ResetInv, Unread, UnreadBut
      <4>4. t = CloseDownClient(m, i)
        BY <3>2
      <4> HIDE DEF t
      <4>5. Tables(t) /\ Ends(t, m)
        BY <2>2, <3>2, <4>1, <4>4, CloseDownKeeps, CloseDownEnds
      <4> QED BY <2>3, <4>2, <4>3, <4>5 DEF Tables, Table, TableBut, Ends
    <3> QED BY <3>1, <3>2
  <2> HIDE DEF t
  <2>5. srv'.reset = t.reset /\ srv'.buf = t.buf /\ srv'.state = t.state
    BY <2>1, <2>4 DEF Fields
  <2> QED BY <2>3, <2>4, <2>5 DEF Left, LastStep, Unread, UnreadBut
<1> QED BY <1>1, <1>2 DEF Reset

\* Closing clients down makes the server reset only when the last client that got
\* through its set-up goes and one of those who went left nothing, and always when
\* each left nothing: connections being set up, clients retained before and slots
\* given out again in the same step do not count.
THEOREM ResetsWithTheLast == Spec => ResetsWithLast
<1>1. Init => ResetInv
  <2> SUFFICES ASSUME Init PROVE ResetInv
    OBVIOUS
  <2>1. /\ srv.buf = [c \in Slots |-> 0] /\ srv.phase = "wait"
    BY DEF Init
  <2> QED BY <2>1, InitInv DEF ResetInv, Unread, UnreadBut
<1>2. ResetInv /\ [Next]_srv => ResetInv' /\ [LastStep]_srv
  <2> SUFFICES ASSUME ResetInv, [Next]_srv PROVE ResetInv' /\ [LastStep]_srv
    OBVIOUS
  <2>1. Inv'
    BY NextInv DEF ResetInv
  <2>2. CASE UNCHANGED srv
    BY <2>1, <2>2 DEF ResetInv, Unread, UnreadBut
  <2>3. CASE Next
    <3>1. Left
      BY <2>3, PeerLeft, WaitLeft, RoundLeft, RequestLeft, ResetLeft DEF Next, Round
    <3> QED BY <2>1, <3>1 DEF Left, ResetInv, Unread, UnreadBut
  <2> QED BY <2>2, <2>3
<1>3. [LastStep]_srv <=> [ ~srv.reset /\ srv.state # srv'.state =>
        /\ srv'.reset => LastGoes /\ \E c \in Running(srv) : Destroyed(c)
        /\ LastGoes /\ (\A c \in Running(srv) : Destroyed(c)) => srv'.reset ]_srv
  BY DEF LastStep
<1> QED BY <1>1, <1>2, <1>3, PTL DEF Spec, ResetsWithLast
=============================================================================
