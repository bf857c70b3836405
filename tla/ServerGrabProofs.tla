---------------------------- MODULE ServerGrabProofs ----------------------------
(***************************************************************************)
(* More proofs about ServerClients, for every instance: while the server   *)
(* is grabbed only its owner and clients impervious to grabs are served;   *)
(* as long as no client becomes pervious again, nobody who neither sleeps  *)
(* nor waits is out of the masks, and no whole request is left in a buffer *)
(* that nobody will look at.                                               *)
(***************************************************************************)
EXTENDS ServerClientsProofs

HeardIn(s, c) == s.grabbed \in {0, c} \/ s.conn[c] \in s.impervious

\* During a grab the live masks have the owner and impervious clients only.
Shut(s) == s.grabbed # 0 => s.all \cup s.input \subseteq s.impervious \cup {s.conn[s.grabbed]}

\* Everybody is in the mask that will be read, unless somebody becomes pervious.
Remembered(s) ==
  \A c \in Connected(s) \ (s.asleep \cup s.waiters) :
    s.conn[c] \in IF HeardIn(s, c) THEN s.all ELSE s.saved
Simple(s) == "pervious" \notin Requests => Remembered(s)

\* The round: everybody who will be served, or may read on, is heard.
RoundHeard(s) ==
  s.phase = "serve" =>
    /\ s.cur \in Slots \cup {0} /\ s.cur \notin s.ready /\ s.ready \subseteq Slots
    /\ s.cur # 0 /\ s.turn # "over" /\ s.conn[s.cur] # 0 => HeardIn(s, s.cur)
    /\ s.grabState # "Kickout" => \A c \in s.ready : s.conn[c] # 0 => HeardIn(s, c)

Heeds(s) == Shut(s) /\ Simple(s) /\ RoundHeard(s)

HeedInv == Inv /\ Heeds(srv)

\* Nobody is shut out who is connected and was heard, nor served instead.
NobodyShutOut(t, s) ==
  /\ \A c \in Slots : t.conn[c] # 0 => s.conn[c] # 0 /\ (HeardIn(s, c) => HeardIn(t, c))
  /\ t.ready = s.ready /\ t.cur = s.cur /\ t.phase = s.phase
  /\ t.grabState # s.grabState => t.grabState = "None"
  /\ s.turn = "over" => t.turn = "over"

\* What these are about.
KeptMasks(t, s) ==
  t.conn = s.conn /\ SameMasks(t, s) /\ t.asleep = s.asleep /\ t.waiters = s.waiters
KeptRound(t, s) ==
  /\ t.ready = s.ready /\ t.cur = s.cur /\ t.phase = s.phase /\ t.grabState = s.grabState
  /\ t.turn = s.turn
Kept(t, s) == KeptMasks(t, s) /\ KeptRound(t, s)

LEMMA KeptMasksGood ==
  ASSUME NEW s, NEW t, Shut(s), Simple(s), KeptMasks(t, s)
  PROVE  Shut(t) /\ Simple(t)
BY DEF KeptMasks, SameMasks, Shut, Simple, Remembered, HeardIn, Connected

LEMMA KeptGood ==
  ASSUME NEW s, NEW t, Shut(s), Simple(s), Kept(t, s)
  PROVE  Shut(t) /\ Simple(t) /\ NobodyShutOut(t, s)
BY KeptMasksGood DEF Kept, KeptMasks, KeptRound, SameMasks, NobodyShutOut, HeardIn

LEMMA RoundGood ==
  ASSUME NEW s, NEW t, RoundHeard(s), NobodyShutOut(t, s), Grab(t)
  PROVE  RoundHeard(t)
<1>1. t.grabState = "None" => \A c \in Slots : HeardIn(t, c)
  BY DEF Grab, HeardIn
<1> QED BY <1>1 DEF RoundHeard, NobodyShutOut

-----------------------------------------------------------------------------
\* The procedures.

LEMMA UngrabGood ==
  ASSUME NEW s, Tables(s), Shut(s), Simple(s)
  PROVE  LET t == UngrabServer(s)
         IN  Shut(t) /\ Simple(t) /\ NobodyShutOut(t, s) /\ t.grabbed = 0
<1> DEFINE l == ListenToAllClients(s)
           t == [l EXCEPT !.grabState = "None", !.grabClient = 0]
           w == Min(s.waiters)
           u == [t EXCEPT !.waiters = @ \ {w}]
           r == UngrabServer(s)
<1>0. DOMAIN s = Fields /\ (s.grabbed = 0 => s.grabState = "None")
  BY DEF Tables, Table, TableBut, Grab
<1>1. /\ DOMAIN t = Fields /\ t.grabbed = 0 /\ t.grabState = "None"
      /\ t.conn = s.conn /\ t.asleep = s.asleep /\ t.waiters = s.waiters
      /\ t.impervious = s.impervious /\ s.all \subseteq t.all
      /\ s.grabbed # 0 => s.saved \subseteq t.all
      /\ t.ready = s.ready /\ t.cur = s.cur /\ t.phase = s.phase /\ t.turn = s.turn
  BY <1>0 DEF ListenToAllClients, Fields
<1> HIDE DEF t
<1>2. CASE s.waiters = {}
  <2>1. r = t
    BY <1>2 DEF UngrabServer, t
  <2>2. Remembered(s) => Remembered(t)
    BY <1>1 DEF Remembered, HeardIn, Connected
  <2> QED BY <1>1, <2>1, <2>2 DEF Shut, Simple, NobodyShutOut, HeardIn
<1>3. CASE s.waiters # {}
  <2>1. s.waiters \in SUBSET Nat /\ s.waiters \subseteq Slots
    BY MAXCLIENTSAssumption DEF Tables, Table, TableBut, Connected, Slots
  <2>2. w \in Slots
    BY <1>3, <2>1, MinIsLeast
  <2>3. r = AttendClient(u, w)
    BY <1>3 DEF UngrabServer, t
  <2> HIDE DEF w
  <2>4. /\ DOMAIN u = Fields /\ u.grabbed = 0 /\ u.grabState = "None"
        /\ u.conn = s.conn /\ u.asleep = s.asleep /\ u.waiters = s.waiters \ {w}
        /\ u.impervious = s.impervious /\ u.all = t.all
        /\ u.ready = s.ready /\ u.cur = s.cur /\ u.phase = s.phase /\ u.turn = s.turn
    BY <1>1 DEF Fields
  <2> HIDE DEF u, r
  <2>5. /\ r.grabbed = 0 /\ r.grabState = "None"
        /\ r.conn = s.conn /\ r.asleep = s.asleep /\ r.waiters = s.waiters \ {w}
        /\ r.impervious = s.impervious /\ r.all = t.all \cup {s.conn[w]}
        /\ r.ready = s.ready /\ r.cur = s.cur /\ r.phase = s.phase /\ r.turn = s.turn
    BY <2>3, <2>4 DEF AttendClient, Fields
  <2>6. Remembered(s) => Remembered(r)
    BY <1>1, <2>5 DEF Remembered, HeardIn, Connected
  <2> QED BY <2>5, <2>6 DEF Shut, Simple, NobodyShutOut, HeardIn, r
<1> QED BY <1>2, <1>3

LEMMA CutGood ==
  ASSUME NEW s, Tables(s), Shut(s), Simple(s), NEW c \in Slots, s.conn[c] # 0, s.grabbed # c
  PROVE  LET t == CloseDownConnection([s EXCEPT !.waiters = @ \ {c}, !.asleep = @ \ {c}], c)
         IN  Shut(t) /\ Simple(t) /\ NobodyShutOut(t, s) /\ t.turn = s.turn
<1> DEFINE w == [s EXCEPT !.waiters = @ \ {c}, !.asleep = @ \ {c}]
           t == CloseDownConnection(w, c)
           f == s.conn[c]
<1>1. /\ DOMAIN w = Fields
      /\ w.conn = s.conn /\ w.waiters = s.waiters \ {c} /\ w.asleep = s.asleep \ {c}
      /\ SameMasks(w, s)
      /\ w.ready = s.ready /\ w.cur = s.cur /\ w.phase = s.phase
      /\ w.grabState = s.grabState /\ w.turn = s.turn
  BY DEF Tables, Table, TableBut, Fields, SameMasks
<1> HIDE DEF w
<1>2. /\ t.conn = [s.conn EXCEPT ![c] = 0]
      /\ t.waiters = s.waiters \ {c} /\ t.asleep = s.asleep \ {c}
      /\ t.grabbed = s.grabbed
      /\ t.all = s.all \ {f} /\ t.input = s.input \ {f} /\ t.impervious = s.impervious \ {f}
      /\ t.saved = IF s.grabbed # 0 THEN s.saved \ {f} ELSE s.saved
      /\ t.ready = s.ready /\ t.cur = s.cur /\ t.phase = s.phase
      /\ t.grabState = s.grabState /\ t.turn = s.turn
  BY <1>1 DEF CloseDownConnection, Fields, SameMasks
<1> HIDE DEF t
<1>3. /\ s.conn \in [Slots -> Fds \cup {0}] /\ s.grabbed \in Slots \cup {0}
      /\ \A d \in Slots \ {c} : s.conn[d] # 0 => s.conn[d] # f
  BY DEF Tables, Table, TableBut, Masks, Grab, Connected
<1>4. Shut(t)
  <2> SUFFICES ASSUME t.grabbed # 0
               PROVE  t.all \cup t.input \subseteq t.impervious \cup {t.conn[t.grabbed]}
    BY DEF Shut
  <2>1. t.conn[t.grabbed] = s.conn[s.grabbed]
    BY <1>2, <1>3
  <2> QED BY <1>2, <2>1 DEF Shut
<1>5. Simple(t)
  <2>1. Remembered(s) => Remembered(t)
    <3> SUFFICES ASSUME Remembered(s),
                        NEW d \in Connected(t) \ (t.asleep \cup t.waiters)
                 PROVE  t.conn[d] \in IF HeardIn(t, d) THEN t.all ELSE t.saved
      BY DEF Remembered
    <3>1. d \in Slots /\ d # c /\ t.conn[d] = s.conn[d] /\ s.conn[d] # 0 /\ s.conn[d] # f
      BY <1>2, <1>3 DEF Connected
    <3>2. s.conn[d] \in IF HeardIn(s, d) THEN s.all ELSE s.saved
      BY <1>2, <3>1 DEF Remembered, HeardIn, Connected
    <3> QED BY <1>2, <3>1, <3>2 DEF HeardIn
  <2> QED BY <1>2, <2>1 DEF Simple
<1>6. NobodyShutOut(t, s)
  <2>1. ASSUME NEW d \in Slots, t.conn[d] # 0
        PROVE  s.conn[d] # 0 /\ (HeardIn(s, d) => HeardIn(t, d))
    <3>1. d # c /\ t.conn[d] = s.conn[d] /\ s.conn[d] # f
      BY <1>2, <1>3, <2>1
    <3> QED BY <1>2, <2>1, <3>1 DEF HeardIn
  <2> QED BY <1>2, <2>1 DEF NobodyShutOut
<1> QED BY <1>2, <1>4, <1>5, <1>6 DEF t, w

LEMMA DisconnectGood ==
  ASSUME NEW s, Tables(s), Shut(s), Simple(s), NEW c \in Slots,
         s.state[c] \in {"Initial", "Running"}
  PROVE  LET t == Disconnect(s, c)
         IN  Shut(t) /\ Simple(t) /\ NobodyShutOut(t, s)
<1> DEFINE t == IF s.grabState # "None" /\ s.grabClient = c THEN UngrabServer(s) ELSE s
           v == CloseDownConnection([t EXCEPT !.waiters = @ \ {c}, !.asleep = @ \ {c}], c)
           u == Disconnect(s, c)
<1>1. s.conn[c] # 0 /\ c # 0
  BY MAXCLIENTSAssumption DEF Tables, Table, TableBut, Slots
<1>2. /\ Tables(t) /\ Shut(t) /\ Simple(t) /\ NobodyShutOut(t, s)
      /\ t.grabbed # c /\ t.conn = s.conn
  <2>1. CASE s.grabState # "None" /\ s.grabClient = c
    BY <1>1, <2>1, UngrabGood, UngrabServerKeeps
  <2>2. CASE ~ (s.grabState # "None" /\ s.grabClient = c)
    BY <1>1, <2>2 DEF Tables, Grab, NobodyShutOut
  <2> QED BY <2>1, <2>2
<1> HIDE DEF t
<1>3. Shut(v) /\ Simple(v) /\ NobodyShutOut(v, t)
  BY <1>1, <1>2, CutGood
<1>4. DOMAIN v = Fields
  <2>1. Table(t) /\ Masks(t) /\ Grab(t) /\ t.conn[c] # 0 /\ t.grabbed # c
    BY <1>1, <1>2 DEF Tables
  <2> QED BY <2>1, CutKeeps
<1>5. u = [v EXCEPT !.nClients = IF s.state[c] = "Initial" THEN @ ELSE @ - 1,
                    !.state[c] = IF s.mode[c] = "DestroyAll" THEN @ ELSE "Retained"]
  BY DEF Disconnect, t
<1> HIDE DEF v, u
<1>6. Kept(u, v)
  BY <1>4, <1>5 DEF Kept, KeptMasks, KeptRound, Fields, SameMasks
<1>7. Shut(u) /\ Simple(u) /\ NobodyShutOut(u, v)
  BY <1>3, <1>6, KeptGood
<1>8. NobodyShutOut(u, s)
  BY <1>2, <1>3, <1>6, <1>7 DEF NobodyShutOut, Kept, KeptRound
<1> QED BY <1>7, <1>8 DEF u

LEMMA FreeSlotsGood ==
  ASSUME NEW s, NEW D, DOMAIN s = Fields, Shut(s), Simple(s)
  PROVE  LET t == FreeSlots(s, D)
         IN  Shut(t) /\ Simple(t) /\ NobodyShutOut(t, s)
<1> DEFINE t == FreeSlots(s, D)
<1>1. Kept(t, s)
  BY DEF Kept, KeptMasks, KeptRound, Fields, SameMasks, FreeSlots
<1> HIDE DEF t
<1> QED BY <1>1, KeptGood DEF t

LEMMA DestroyGood ==
  ASSUME NEW s, NEW c \in Slots, DOMAIN s = Fields, Shut(s), Simple(s)
  PROVE  LET t == Destroy(s, c)
         IN  Shut(t) /\ Simple(t) /\ NobodyShutOut(t, s)
<1> DEFINE r == [s EXCEPT !.reset = @ \/ (s.state[c] = "Running" /\ s.nClients = 0)]
           t == FreeSlots(r, {c})
<1>1. DOMAIN r = Fields /\ Kept(r, s)
  BY DEF Kept, KeptMasks, KeptRound, Fields, SameMasks
<1>2. Destroy(s, c) = t
  BY DEF Destroy
<1> HIDE DEF r
<1>3. Shut(r) /\ Simple(r) /\ NobodyShutOut(r, s)
  BY <1>1, KeptGood
<1>4. Shut(t) /\ Simple(t) /\ NobodyShutOut(t, r)
  BY <1>1, <1>3, FreeSlotsGood
<1> HIDE DEF t
<1>5. NobodyShutOut(t, s)
  BY <1>1, <1>3, <1>4 DEF NobodyShutOut, Kept, KeptRound
<1> QED BY <1>2, <1>4, <1>5

LEMMA CloseDownGood ==
  ASSUME NEW s, Tables(s), Shut(s), Simple(s), NEW c \in Slots, s.state[c] # "None"
  PROVE  LET t == CloseDownClient(s, c)
         IN  Shut(t) /\ Simple(t) /\ NobodyShutOut(t, s)
<1>1. DOMAIN s = Fields /\ s.state \in [Slots -> {"None", "Initial", "Running", "Retained"}]
  BY DEF Tables, Table, TableBut
<1>2. CASE s.state[c] = "Retained"
  BY <1>1, <1>2, DestroyGood DEF CloseDownClient
<1>3. CASE s.state[c] # "Retained"
  <2> DEFINE u == Disconnect(s, c)
             t == Destroy(u, c)
  <2>1. s.state[c] \in {"Initial", "Running"}
    BY <1>1, <1>3
  <2>2. Shut(u) /\ Simple(u) /\ NobodyShutOut(u, s) /\ DOMAIN u = Fields
    BY <2>1, DisconnectGood, DisconnectKeeps DEF TableBut
  <2> HIDE DEF u
  <2>3. Shut(t) /\ Simple(t) /\ NobodyShutOut(t, u)
    BY <2>2, DestroyGood
  <2> HIDE DEF t
  <2>4. NobodyShutOut(t, s)
    BY <2>2, <2>3 DEF NobodyShutOut
  <2>5. CloseDownClient(s, c) = IF s.mode[c] = "DestroyAll" THEN t ELSE u
    BY <1>3 DEF CloseDownClient, t, u
  <2> QED BY <2>2, <2>3, <2>4, <2>5
<1> QED BY <1>2, <1>3

LEMMA AllocGood ==
  ASSUME NEW s, Tables(s), Shut(s), Simple(s), NEW f \in Fds, s.trans[f] = 0
  PROVE  LET t == AllocNewConnection(s, f)
         IN  Shut(t) /\ Simple(t)
<1> DEFINE t == AllocNewConnection(s, f)
           i == s.nextFree
<1>1. CASE i = MAXCLIENTS
  BY <1>1 DEF AllocNewConnection
<1>2. CASE i # MAXCLIENTS
  <2>1. /\ DOMAIN s = Fields /\ s.conn \in [Slots -> Fds \cup {0}]
        /\ i \in Slots /\ s.conn[i] = 0 /\ s.grabbed # i /\ s.grabbed \in Slots \cup {0}
    BY <1>2, MAXCLIENTSAssumption DEF Tables, Table, TableBut, Grab, Slots
  <2>2. /\ t.conn = [s.conn EXCEPT ![i] = f]
        /\ t.waiters = s.waiters /\ t.asleep = s.asleep
        /\ t.input = s.input \ {f} /\ t.impervious = s.impervious
        /\ t.saved = IF s.grabbed # 0 THEN s.saved \cup {f} ELSE s.saved
        /\ t.all = IF s.grabbed = 0 THEN s.all \cup {f} ELSE s.all
        /\ t.grabbed = s.grabbed
    BY <1>2, <2>1 DEF AllocNewConnection, Fields
  <2> HIDE DEF t, i
  <2>3. Shut(t)
    BY <2>1, <2>2 DEF Shut
  <2>4. f \notin s.impervious
    BY DEF Tables, Masks, Live
  <2>5. Remembered(s) => Remembered(t)
    BY <2>1, <2>2, <2>4 DEF Remembered, HeardIn, Connected
  <2> QED BY <2>2, <2>3, <2>5 DEF Simple, t
<1> QED BY <1>1, <1>2

LEMMA WakeupGood ==
  ASSUME NEW s, Tables(s), Shut(s), Simple(s), NEW c \in Slots, s.conn[c] # 0
  PROVE  LET t == AttendClient([s EXCEPT !.asleep = @ \ {c}], c)
         IN  Shut(t) /\ Simple(t)
<1> DEFINE w == [s EXCEPT !.asleep = @ \ {c}]
           t == AttendClient(w, c)
           f == s.conn[c]
           live == s.grabbed \in {0, c} \/ f \in s.impervious
<1>1. /\ DOMAIN w = Fields /\ w.conn = s.conn /\ SameMasks(w, s)
      /\ w.waiters = s.waiters /\ w.asleep = s.asleep \ {c}
  BY DEF Tables, Table, TableBut, Fields, SameMasks
<1> HIDE DEF w
<1>2. /\ t.conn = s.conn /\ t.grabbed = s.grabbed /\ t.impervious = s.impervious
      /\ t.waiters = s.waiters /\ t.asleep = s.asleep \ {c}
      /\ t.all = IF live THEN s.all \cup {f} ELSE s.all
      /\ t.input \subseteq IF live THEN s.input \cup {f} ELSE s.input
      /\ t.saved = IF live THEN s.saved ELSE s.saved \cup {f}
  BY <1>1 DEF AttendClient, Fields, SameMasks
<1> HIDE DEF t
<1>3. Shut(t)
  BY <1>2 DEF Shut
<1>4. Remembered(s) => Remembered(t)
  BY <1>2 DEF Remembered, HeardIn, Connected
<1> QED BY <1>2, <1>3, <1>4 DEF Simple, t, w

\* Of a client that is on its way to sleep, or waits for the server.
LEMMA IgnoreGood ==
  ASSUME NEW s, Tables(s), Shut(s), Simple(s), NEW c \in s.asleep \cup s.waiters
  PROVE  LET t == IgnoreClient(s, c)
         IN  /\ Shut(t) /\ Simple(t) /\ NobodyShutOut(t, s) /\ t.turn = "over"
<1> DEFINE t == IgnoreClient(s, c)
           f == s.conn[c]
<1>1. DOMAIN s = Fields /\ c \in Slots /\ s.conn[c] # 0
  BY DEF Tables, Table, TableBut, Connected
<1>2. /\ t.conn = s.conn /\ t.grabbed = s.grabbed /\ t.impervious = s.impervious
      /\ t.waiters = s.waiters /\ t.asleep = s.asleep
      /\ t.all \in {s.all, s.all \ {f}} /\ t.input \subseteq s.input
      /\ t.saved \in {s.saved, s.saved \ {f}}
      /\ t.ready = s.ready /\ t.cur = s.cur /\ t.phase = s.phase
      /\ t.grabState = s.grabState /\ t.turn = "over"
  BY <1>1 DEF IgnoreClient, Fields
<1>3. \A d \in Slots \ {c} : s.conn[d] # 0 => s.conn[d] # f
  BY <1>1 DEF Tables, Masks, Connected
<1> HIDE DEF t
<1>4. Shut(t)
  BY <1>2 DEF Shut
<1>5. Remembered(s) => Remembered(t)
  <2> SUFFICES ASSUME Remembered(s),
                      NEW d \in Connected(t) \ (t.asleep \cup t.waiters)
               PROVE  t.conn[d] \in IF HeardIn(t, d) THEN t.all ELSE t.saved
    BY DEF Remembered
  <2>1. d \in Slots /\ d # c /\ s.conn[d] # f
    BY <1>2, <1>3 DEF Connected
  <2>2. s.conn[d] \in IF HeardIn(s, d) THEN s.all ELSE s.saved
    BY <1>2 DEF Remembered, HeardIn, Connected
  <2> QED BY <1>2, <2>1, <2>2 DEF HeardIn
<1> QED BY <1>2, <1>4, <1>5 DEF Simple, NobodyShutOut, HeardIn, t

LEMMA SleepGood ==
  ASSUME NEW s, Tables(s), Shut(s), Simple(s), NEW c \in Slots, s.conn[c] # 0
  PROVE  LET t == IgnoreClient([s EXCEPT !.asleep = @ \cup {c}], c)
         IN  Shut(t) /\ Simple(t) /\ NobodyShutOut(t, s)
<1> DEFINE w == [s EXCEPT !.asleep = @ \cup {c}]
           t == IgnoreClient(w, c)
<1>1. /\ DOMAIN w = Fields
      /\ w.state = s.state /\ w.mode = s.mode /\ w.conn = s.conn
      /\ w.failed = s.failed /\ w.eof = s.eof /\ w.waiters = s.waiters
      /\ w.asleep = s.asleep \cup {c}
      /\ w.nextFree = s.nextFree /\ w.currentMax = s.currentMax /\ w.nClients = s.nClients
      /\ SameMasks(w, s) /\ SameGrab(w, s) /\ SameLoop(w, s) /\ KeptRound(w, s)
  BY DEF Tables, Table, TableBut, Fields, SameMasks, SameGrab, SameLoop, KeptRound
<1> HIDE DEF w
<1>2. Running(w) = Running(s) /\ Connected(w) = Connected(s) /\ c \in Connected(s)
  BY <1>1 DEF Running, Connected
<1>3. Tables(w)
  <2>1. Masks(w) /\ Grab(w)
    BY <1>1, SameMasksKeeps DEF Tables
  <2>2. Table(w)
    BY <1>1, <1>2 DEF Tables, Table, TableBut
  <2> QED BY <2>1, <2>2 DEF Tables
<1>4. Shut(w) /\ Simple(w)
  BY <1>1, <1>2 DEF Shut, Simple, Remembered, HeardIn, SameMasks
<1>5. Shut(t) /\ Simple(t) /\ NobodyShutOut(t, w)
  BY <1>1, <1>3, <1>4, IgnoreGood
<1> HIDE DEF t
<1> QED BY <1>1, <1>5 DEF NobodyShutOut, KeptRound, HeardIn, SameMasks, t, w

LEMMA AwaitGood ==
  ASSUME NEW s, Tables(s), Shut(s), Simple(s), NEW c \in Slots, s.conn[c] # 0
  PROVE  LET t == IgnoreClient([ResetCurrentRequest(s, c) EXCEPT !.waiters = @ \cup {c}], c)
         IN  Shut(t) /\ Simple(t) /\ NobodyShutOut(t, s)
<1> DEFINE r == ResetCurrentRequest(s, c)
           w == [r EXCEPT !.waiters = @ \cup {c}]
           t == IgnoreClient(w, c)
           f == s.conn[c]
<1>1. /\ SameTable(r, s) /\ SameGrab(r, s) /\ SameLoop(r, s)
      /\ r.trans = s.trans /\ r.impervious = s.impervious /\ r.grabbed = s.grabbed
      /\ r.all = s.all /\ r.saved = s.saved /\ r.savedInput = s.savedInput
      /\ r.input \subseteq s.input \cup (s.all \cap {f}) /\ r.ready = s.ready /\ r.turn = "over"
  BY DEF Tables, Table, TableBut, Fields, SameTable, SameGrab, SameLoop, ResetCurrentRequest
<1> HIDE DEF r
<1>2. /\ DOMAIN w = Fields
      /\ w.state = r.state /\ w.mode = r.mode /\ w.conn = r.conn
      /\ w.failed = r.failed /\ w.eof = r.eof /\ w.asleep = r.asleep
      /\ w.waiters = r.waiters \cup {c}
      /\ w.nextFree = r.nextFree /\ w.currentMax = r.currentMax /\ w.nClients = r.nClients
      /\ SameMasks(w, r) /\ SameGrab(w, r) /\ SameLoop(w, r) /\ w.ready = r.ready
      /\ w.turn = "over"
  BY <1>1 DEF Fields, SameTable, SameMasks, SameGrab, SameLoop
<1> HIDE DEF w
<1>3. /\ Running(w) = Running(s) /\ Connected(w) = Connected(s) /\ c \in Connected(s)
      /\ s.all \subseteq Live(s)
  BY <1>1, <1>2 DEF Running, Connected, SameTable, Tables, Masks
<1>4. Tables(w)
  <2>1. Table(w)
    BY <1>1, <1>2, <1>3 DEF Tables, Table, TableBut, SameTable
  <2>2. Masks(w) /\ Grab(w)
    BY <1>1, <1>2, <1>3 DEF Tables, SameTable, SameGrab, SameMasks, Masks, Grab, Live, Connected
  <2> QED BY <2>1, <2>2 DEF Tables
<1>5. Shut(w)
  BY <1>1, <1>2 DEF Shut, SameMasks, SameTable
<1>6. Simple(w)
  BY <1>1, <1>2, <1>3 DEF Simple, Remembered, HeardIn, SameMasks, SameTable
<1>7. Shut(t) /\ Simple(t) /\ NobodyShutOut(t, w) /\ t.turn = "over"
  BY <1>2, <1>4, <1>5, <1>6, IgnoreGood
<1> HIDE DEF t
<1> QED BY <1>1, <1>2, <1>7 DEF NobodyShutOut, HeardIn, SameTable, SameMasks, SameGrab, SameLoop,
                                t, w, r

LEMMA GrabGood ==
  ASSUME NEW s, Tables(s), Shut(s), Simple(s), RoundHeard(s), Serving(s),
         s.grabState = "None" \/ s.grabClient = s.cur
  PROVE  LET t == [OnlyListenToOneClient(s, s.cur) EXCEPT !.grabState = "Kickout",
                                                          !.grabClient = s.cur]
         IN  Shut(t) /\ Simple(t) /\ RoundHeard(t)
<1> DEFINE c == s.cur
           f == s.conn[c]
           t == [OnlyListenToOneClient(s, c) EXCEPT !.grabState = "Kickout", !.grabClient = c]
<1>1. DOMAIN s = Fields /\ c \in Slots /\ c # 0
  BY MAXCLIENTSAssumption DEF Tables, Table, TableBut, Serving, Slots
<1>2. /\ t.conn = s.conn /\ t.impervious = s.impervious
      /\ t.waiters = s.waiters /\ t.asleep = s.asleep
      /\ t.ready = s.ready /\ t.cur = c /\ t.phase = s.phase /\ t.grabState = "Kickout"
      /\ s.grabbed # 0 => /\ t.all = s.all /\ t.input = s.input /\ t.saved = s.saved
                          /\ t.grabbed = s.grabbed
      /\ s.grabbed = 0 => /\ t.all = (s.all \cap s.impervious) \cup {f}
                          /\ t.input \subseteq s.impervious \cup {f}
                          /\ t.saved = s.all /\ t.grabbed = c
  BY <1>1 DEF OnlyListenToOneClient, Fields
<1>3. t.grabbed = c
  BY <1>2 DEF Tables, Grab
<1> HIDE DEF t, c
<1>4. Shut(t)
  BY <1>1, <1>2, <1>3 DEF Shut
<1>5. Remembered(s) => Remembered(t)
  BY <1>1, <1>2, <1>3 DEF Remembered, HeardIn, Connected
<1>6. RoundHeard(t)
  BY <1>2, <1>3 DEF RoundHeard, HeardIn, c
<1> QED BY <1>2, <1>4, <1>5, <1>6 DEF Simple, t, c

LEMMA ControlGood ==
  ASSUME NEW s, Tables(s), Shut(s), Simple(s), RoundHeard(s), Serving(s), HeardIn(s, s.cur)
  PROVE  /\ LET t == MakeClientGrabImpervious(s, s.cur)
            IN  Shut(t) /\ Simple(t) /\ RoundHeard(t)
         /\ LET t == MakeClientGrabPervious(s, s.cur)
            IN  Shut(t) /\ RoundHeard(t)
<1> DEFINE c == s.cur
           f == s.conn[c]
           t == MakeClientGrabImpervious(s, c)
           u == MakeClientGrabPervious(s, c)
<1>1. /\ DOMAIN s = Fields /\ c \in Slots /\ f # 0 /\ s.phase = "serve"
      /\ \A d \in Slots \ {c} : s.conn[d] # 0 => s.conn[d] # f
  BY DEF Tables, Table, TableBut, Masks, Connected, Serving
<1>2. /\ t.conn = s.conn /\ t.grabbed = s.grabbed /\ t.impervious = s.impervious \cup {f}
      /\ t.all = s.all /\ t.input = s.input /\ t.saved = s.saved
      /\ t.asleep = s.asleep /\ t.waiters = s.waiters
      /\ t.ready = s.ready /\ t.cur = c /\ t.phase = s.phase /\ t.grabState = s.grabState
      /\ t.turn = s.turn
  BY <1>1 DEF MakeClientGrabImpervious, Fields
<1>3. /\ u.conn = s.conn /\ u.grabbed = s.grabbed /\ u.impervious = s.impervious \ {f}
      /\ s.grabbed \in {0, c} => u.all = s.all /\ u.input = s.input
      /\ s.grabbed \notin {0, c} => u.all = s.all \ {f} /\ u.input = s.input \ {f}
      /\ u.ready = s.ready /\ u.cur = c /\ u.phase = s.phase /\ u.grabState = s.grabState
      /\ u.turn = IF s.grabbed \in {0, c} THEN s.turn ELSE "over"
  BY <1>1 DEF MakeClientGrabPervious, Fields
<1> HIDE DEF t, u, c
<1>4. Shut(t) /\ Shut(u)
  BY <1>2, <1>3 DEF Shut
<1>5. RoundHeard(t)
  BY <1>1, <1>2 DEF RoundHeard, HeardIn, c
<1>6. RoundHeard(u)
  <2>1. c \in Slots /\ c \notin s.ready /\ s.ready \subseteq Slots
    BY <1>1 DEF RoundHeard, c
  <2>2. u.turn # "over" => HeardIn(u, c)
    BY <1>3 DEF HeardIn
  <2>3. ASSUME u.grabState # "Kickout", NEW d \in u.ready, u.conn[d] # 0
        PROVE  HeardIn(u, d)
    <3>1. d \in Slots \ {c} /\ s.conn[d] # f
      BY <1>1, <1>3, <2>1, <2>3
    <3>2. HeardIn(s, d)
      BY <1>1, <1>3, <2>3 DEF RoundHeard
    <3> QED BY <1>3, <3>1, <3>2 DEF HeardIn
  <2> QED BY <1>3, <2>1, <2>2, <2>3 DEF RoundHeard
<1>7. Remembered(s) => Remembered(t)
  BY <1>1, <1>2 DEF Remembered, HeardIn, Connected, c
<1> QED BY <1>4, <1>5, <1>6, <1>7 DEF Simple, t, u, c

LEMMA ReadGood ==
  ASSUME NEW s, Tables(s), Shut(s), Simple(s), RoundHeard(s), Serving(s), s.turn # "over"
  PROVE  LET t == ReadRequestFromClient(s)
         IN  /\ Shut(t) /\ Simple(t) /\ RoundHeard(t) /\ HeardIn(t, t.cur)
<1> DEFINE t == ReadRequestFromClient(s)
           f == s.conn[s.cur]
<1>1. /\ t.conn = s.conn /\ t.grabbed = s.grabbed /\ t.impervious = s.impervious
      /\ t.all = s.all /\ t.saved = s.saved
      /\ t.asleep = s.asleep /\ t.waiters = s.waiters
      /\ t.input \subseteq s.input \cup {f}
      /\ t.ready = s.ready /\ t.cur = s.cur /\ t.phase = s.phase /\ t.grabState = s.grabState
  BY DEF Tables, Table, TableBut, Fields, ReadRequestFromClient, Keep
<1> HIDE DEF t
<1>2. s.cur \in Slots /\ s.cur # 0 /\ HeardIn(s, s.cur)
  BY MAXCLIENTSAssumption DEF RoundHeard, Serving, Slots
<1>3. Shut(t)
  BY <1>1, <1>2 DEF Shut, HeardIn
<1>4. Remembered(s) => Remembered(t)
  BY <1>1 DEF Remembered, HeardIn, Connected
<1>5. RoundHeard(t) /\ HeardIn(t, t.cur)
  BY <1>1, <1>2 DEF RoundHeard, HeardIn
<1> QED BY <1>1, <1>3, <1>4, <1>5 DEF Simple, t

LEMMA FinishGood ==
  ASSUME NEW s, Tables(s), Shut(s), Simple(s), RoundHeard(s), Serving(s)
  PROVE  Shut(Finish(s)) /\ Simple(Finish(s)) /\ RoundHeard(Finish(s))
<1>1. CASE s.cur \notin s.failed
  BY <1>1 DEF Finish
<1>2. CASE s.cur \in s.failed
  <2> DEFINE t == CloseDownClient(s, s.cur)
             u == [t EXCEPT !.cur = 0]
  <2>1. s.state[s.cur] # "None"
    BY LiveConnection DEF Serving
  <2>2. /\ Tables(t) /\ Shut(t) /\ Simple(t) /\ NobodyShutOut(t, s)
    BY <2>1, CloseDownKeeps, CloseDownGood DEF Serving
  <2> HIDE DEF t
  <2>3. RoundHeard(t)
    BY <2>2, RoundGood DEF Tables
  <2>4. /\ KeptMasks(u, t) /\ u.ready = t.ready /\ u.cur = 0 /\ u.phase = t.phase
        /\ u.grabState = t.grabState
    BY <2>2 DEF Tables, Table, TableBut, Fields, KeptMasks, SameMasks
  <2>5. Finish(s) = u
    BY <1>2 DEF Finish, t
  <2> HIDE DEF u
  <2>6. Shut(u) /\ Simple(u)
    BY <2>2, <2>4, KeptMasksGood
  <2>7. 0 \notin Slots
    BY MAXCLIENTSAssumption DEF Slots
  <2>8. RoundHeard(u)
    BY <2>3, <2>4, <2>7 DEF RoundHeard, HeardIn, KeptMasks, SameMasks
  <2> QED BY <2>5, <2>6, <2>8
<1> QED BY <1>1, <1>2

-----------------------------------------------------------------------------
\* The actions.

LEMMA ElsewhereGood ==
  ASSUME NEW s, NEW t, Shut(s), Simple(s), KeptMasks(t, s), t.phase # "serve"
  PROVE  Heeds(t)
BY KeptMasksGood DEF Heeds, RoundHeard

LEMMA PeerGood ==
  ASSUME HeedInv, Peer
  PROVE  Heeds(srv')
<1>0. DOMAIN srv = Fields /\ Shut(srv) /\ Simple(srv) /\ RoundHeard(srv)
  BY DEF HeedInv, Heeds, Inv, Tables, Table, TableBut
<1>1. /\ KeptMasks(srv', srv)
      /\ srv'.ready = srv.ready /\ srv'.cur = srv.cur /\ srv'.phase = srv.phase
      /\ srv'.grabState = srv.grabState /\ srv'.turn \in {srv.turn, "over"}
  <2>1. CASE Hangup
    BY <1>0, <2>1 DEF Hangup, Fields, KeptMasks, SameMasks
  <2>2. CASE Connect
    BY <1>0, <2>2 DEF Connect, Fields, KeptMasks, SameMasks
  <2>3. ASSUME NEW c \in Slots, Send(c) \/ Close(c) \/ WriteFails(c)
        PROVE  /\ KeptMasks(srv', srv)
               /\ srv'.ready = srv.ready /\ srv'.cur = srv.cur /\ srv'.phase = srv.phase
               /\ srv'.grabState = srv.grabState /\ srv'.turn \in {srv.turn, "over"}
    BY <1>0, <2>3 DEF Send, Close, WriteFails, Fields, KeptMasks, SameMasks
  <2> QED BY <2>1, <2>2, <2>3 DEF Peer
<1>2. RoundHeard(srv')
  BY <1>0, <1>1 DEF RoundHeard, HeardIn, KeptMasks, SameMasks
<1> QED BY <1>0, <1>1, <1>2, KeptMasksGood DEF Heeds

LEMMA ServeGood ==
  ASSUME HeedInv, Serve
  PROVE  Heeds(srv')
<1>1. /\ DOMAIN srv = Fields /\ Shut(srv) /\ Simple(srv) /\ srv.cur = 0
      /\ Masks(srv) /\ Grab(srv)
  BY DEF HeedInv, Heeds, Inv, Loops, Tables, Table, TableBut, Serve, Waiting
<1>2. PICK R \in SUBSET (srv.all \cup srv.input) :
        srv' = [srv EXCEPT !.phase = "serve", !.ready = {srv.trans[f] : f \in R}]
  <2> DEFINE live == {c \in Connected(srv) : srv.sock[c] > 0 \/ c \in srv.eof}
             readable == IF srv.dumb /\ srv.input # {} THEN srv.input
                         ELSE (FdsOf(live) \cup srv.input) \cap srv.all
             clients == HighestPriority({srv.trans[f] : f \in readable}, srv)
  <2>1. readable \subseteq srv.all \cup srv.input
    OBVIOUS
  <2>2. \E Q \in IF srv.dumb THEN {clients} ELSE {{c} : c \in clients} :
          srv' = [srv EXCEPT !.phase = "serve", !.ready = Q]
    BY DEF Serve
  <2> HIDE DEF readable
  <2>6. clients \subseteq {srv.trans[f] : f \in readable}
    BY DEF HighestPriority
  <2> HIDE DEF clients
  <2>3. PICK Q : /\ Q = clients \/ \E c \in clients : Q = {c}
                 /\ srv' = [srv EXCEPT !.phase = "serve", !.ready = Q]
    BY <2>2
  <2>4. CASE Q = clients
    <3> DEFINE G == {f \in readable : srv.trans[f] \in clients}
    <3>1. Q = {srv.trans[f] : f \in G} /\ G \in SUBSET (srv.all \cup srv.input)
      BY <2>1, <2>4, <2>6
    <3> QED BY <2>3, <3>1
  <2>5. CASE \E c \in clients : Q = {c}
    <3>1. PICK f \in readable : Q = {srv.trans[f]}
      BY <2>5, <2>6
    <3>2. Q = {srv.trans[g] : g \in {f}} /\ {f} \in SUBSET (srv.all \cup srv.input)
      BY <2>1, <3>1
    <3> QED BY <2>3, <3>2
  <2> QED BY <2>3, <2>4, <2>5
<1>3. /\ KeptMasks(srv', srv)
      /\ srv'.ready = {srv.trans[f] : f \in R} /\ srv'.cur = 0 /\ srv'.phase = "serve"
      /\ srv'.grabState = srv.grabState
  BY <1>1, <1>2 DEF Fields, KeptMasks, SameMasks
<1>4. ASSUME NEW f \in R
      PROVE  srv.trans[f] \in Slots /\ HeardIn(srv, srv.trans[f])
  <2>1. f \in Live(srv) /\ srv.trans[f] \in Slots /\ srv.conn[srv.trans[f]] = f
    BY <1>1, <1>2 DEF Masks, Live
  <2>2. CASE srv.grabbed = 0
    BY <2>1, <2>2 DEF HeardIn
  <2>3. CASE srv.grabbed # 0
    <3>1. f \in srv.impervious \/ f = srv.conn[srv.grabbed]
      BY <1>1, <1>2, <2>3 DEF Shut
    <3>2. srv.trans[srv.conn[srv.grabbed]] = srv.grabbed
      BY <1>1, <2>3 DEF Masks, Grab, Connected
    <3> QED BY <2>1, <3>1, <3>2 DEF HeardIn
  <2> QED BY <2>2, <2>3
<1>5. 0 \notin Slots
  BY MAXCLIENTSAssumption DEF Slots
<1>6. RoundHeard(srv')
  BY <1>3, <1>4, <1>5 DEF RoundHeard, HeardIn, KeptMasks, SameMasks
<1> QED BY <1>1, <1>3, <1>6, KeptMasksGood DEF Heeds

LEMMA WaitGood ==
  ASSUME HeedInv, Wait
  PROVE  Heeds(srv')
<1>0. /\ DOMAIN srv = Fields /\ srv.currentMax \in 1 .. MAXCLIENTS
      /\ Tables(srv) /\ Loops(srv) /\ Shut(srv) /\ Simple(srv)
  BY DEF HeedInv, Heeds, Inv, Tables, Table, TableBut
<1>1. CASE KillStragglers
  <2>1. KeptMasks(srv', srv) /\ srv'.phase = "stragglers"
    BY <1>0, <1>1 DEF KillStragglers, Fields, KeptMasks, SameMasks
  <2> QED BY <1>0, <2>1, ElsewhereGood
<1>2. ASSUME NEW late \in BOOLEAN, Straggler(late) PROVE Heeds(srv')
  <2> DEFINE i == srv.at
             t == IF late \/ i \in srv.failed THEN CloseDownClient(srv, i) ELSE srv
  <2>1. /\ srv' = [t EXCEPT !.at = i + 1] /\ srv.phase = "stragglers" /\ i < srv.currentMax
        /\ late => srv.state[i] = "Initial"
    BY <1>2 DEF Straggler
  <2>2. i \in Slots
    BY <1>0, <2>1, MAXCLIENTSAssumption DEF Loops, Slots
  <2>3. Shut(t) /\ Simple(t) /\ DOMAIN t = Fields /\ t.phase = "stragglers"
    <3>1. CASE late \/ i \in srv.failed
      <4>1. srv.state[i] # "None"
        BY <1>0, <2>1, <3>1, LiveConnection DEF Tables, Table, TableBut, Connected
      <4>2. /\ Tables(CloseDownClient(srv, i)) /\ SameLoop(CloseDownClient(srv, i), srv)
            /\ Shut(CloseDownClient(srv, i)) /\ Simple(CloseDownClient(srv, i))
        BY <1>0, <2>2, <4>1, CloseDownKeeps, CloseDownGood
      <4> QED BY <2>1, <3>1, <4>2 DEF Tables, Table, TableBut, SameLoop
    <3>2. CASE ~ (late \/ i \in srv.failed)
      BY <1>0, <2>1, <3>2
    <3> QED BY <3>1, <3>2
  <2> HIDE DEF t
  <2>4. KeptMasks(srv', t) /\ srv'.phase = "stragglers"
    BY <2>1, <2>3 DEF Fields, KeptMasks, SameMasks
  <2> QED BY <2>3, <2>4, ElsewhereGood
<1>3. CASE EstablishNewConnections
  <2> DEFINE f == Min((Fds \cup {MAXCLIENTS}) \ FdsOf(Connected(srv) \ srv.failed))
             t == [srv EXCEPT !.phase = "wait", !.at = 0, !.calling = FALSE]
             u == IF t.trans[f] = 0 THEN t ELSE CloseDownClient(t, t.trans[f])
  <2>1. srv' = IF f \notin Fds THEN t ELSE AllocNewConnection(u, f)
    BY <1>3 DEF EstablishNewConnections
  <2>2. /\ SameTable(t, srv) /\ SameMasks(t, srv) /\ SameGrab(t, srv)
        /\ KeptMasks(t, srv) /\ t.phase = "wait"
    BY <1>0 DEF Fields, SameTable, SameMasks, SameGrab, KeptMasks
  <2> HIDE DEF f, t
  <2>3. Tables(t) /\ Shut(t) /\ Simple(t)
    BY <1>0, <2>2, SameAll, KeptMasksGood
  <2>4. CASE f \notin Fds
    BY <2>1, <2>2, <2>3, <2>4 DEF Heeds, RoundHeard
  <2>5. CASE f \in Fds
    <3>1. /\ Tables(u) /\ SameLoop(u, t) /\ u.trans[f] = 0
          /\ t.trans[f] # 0 => t.trans[f] \in Slots /\ t.state[t.trans[f]] # "None"
      BY <2>3, <2>5, DescriptorIsFree
    <3>2. Shut(u) /\ Simple(u)
      BY <2>3, <3>1, CloseDownGood
    <3> HIDE DEF u
    <3>3. Shut(srv') /\ Simple(srv') /\ SameLoop(srv', u)
      BY <2>1, <2>5, <3>1, <3>2, AllocKeeps, AllocGood
    <3> QED BY <2>2, <3>1, <3>3 DEF Heeds, RoundHeard, SameLoop
  <2> QED BY <2>4, <2>5
<1>4. CASE Serve
  BY <1>4, ServeGood
<1>5. ASSUME NEW c \in Slots, ClientWakeup(c) PROVE Heeds(srv')
  <2>1. srv.conn[c] # 0
    BY <1>0, <1>5 DEF ClientWakeup, Tables, Table, TableBut, Connected
  <2>2. Shut(srv') /\ Simple(srv') /\ SameLoop(srv', srv) /\ srv.phase = "wait"
    BY <1>0, <1>5, <2>1, WakeupKeeps, WakeupGood DEF ClientWakeup
  <2> QED BY <2>2 DEF Heeds, RoundHeard, SameLoop
<1>6. ASSUME NEW c \in Slots, CheckConnections(c) PROVE Heeds(srv')
  <2>1. srv.state[c] # "None"
    BY <1>0, <1>6, LiveConnection DEF CheckConnections, Tables, Table, TableBut, Connected
  <2>2. Shut(srv') /\ Simple(srv') /\ SameLoop(srv', srv) /\ srv.phase = "wait"
    BY <1>0, <1>6, <2>1, CloseDownKeeps, CloseDownGood DEF CheckConnections, Selects, Waiting
  <2> QED BY <2>2 DEF Heeds, RoundHeard, SameLoop
<1> QED BY <1>1, <1>2, <1>3, <1>4, <1>5, <1>6 DEF Wait

LEMMA RoundStepGood ==
  ASSUME HeedInv, (\E c \in Slots : NextClient(c)) \/ EndRound \/ EndTurn \/ NoRequest
  PROVE  Heeds(srv')
<1>0. /\ DOMAIN srv = Fields
      /\ srv.state \in [Slots -> {"None", "Initial", "Running", "Retained"}]
      /\ Tables(srv) /\ Loops(srv) /\ Shut(srv) /\ Simple(srv) /\ RoundHeard(srv)
      /\ 0 \notin Slots
  BY MAXCLIENTSAssumption DEF HeedInv, Heeds, Inv, Tables, Table, TableBut, Slots
<1>1. ASSUME NEW t, KeptMasks(t, srv), srv.phase = "serve", t.phase = "serve", t.cur = 0,
             t.ready \subseteq srv.ready, t.grabState = srv.grabState \/ t.ready = {}
      PROVE  Heeds(t)
  <2>1. RoundHeard(t)
    BY <1>0, <1>1 DEF RoundHeard, HeardIn, KeptMasks, SameMasks
  <2> QED BY <1>0, <1>1, <2>1, KeptMasksGood DEF Heeds
<1>2. ASSUME NEW c \in Slots, NextClient(c) PROVE Heeds(srv')
  <2> DEFINE t == [srv EXCEPT !.ready = @ \ {c}]
  <2>1. srv.phase = "serve" /\ srv.cur = 0 /\ c \in srv.ready
    BY <1>2 DEF NextClient
  <2>2. /\ KeptMasks(t, srv) /\ t.phase = "serve" /\ t.cur = 0
        /\ t.ready = srv.ready \ {c} /\ t.grabState = srv.grabState /\ DOMAIN t = Fields
    BY <1>0, <2>1 DEF Fields, KeptMasks, SameMasks
  <2>3. CASE srv.state[c] = "None"
    <3>1. srv' = t
      BY <1>2, <2>3 DEF NextClient
    <3> QED BY <1>1, <2>1, <2>2, <3>1
  <2>4. CASE srv.state[c] # "None" /\ srv.grabState = "Kickout"
    <3>1. srv' = [srv EXCEPT !.grabState = "Active", !.ready = {}]
      BY <1>2, <2>4 DEF NextClient
    <3>2. /\ KeptMasks(srv', srv) /\ srv'.phase = "serve" /\ srv'.cur = 0
          /\ srv'.ready = {}
      BY <1>0, <2>1, <3>1 DEF Fields, KeptMasks, SameMasks
    <3> QED BY <1>1, <2>1, <3>2
  <2>5. CASE srv.state[c] = "Retained" /\ srv.grabState # "Kickout"
    <3>1. srv' = [t EXCEPT !.phase = "crashed"]
      BY <1>2, <2>5 DEF NextClient
    <3> HIDE DEF t
    <3>2. KeptMasks(srv', srv) /\ srv'.phase = "crashed"
      BY <2>2, <3>1 DEF Fields, KeptMasks, SameMasks
    <3> QED BY <1>0, <3>2, ElsewhereGood
  <2>6. CASE srv.state[c] \in {"Initial", "Running"} /\ srv.grabState # "Kickout"
    <3>1. srv' = [t EXCEPT !.cur = c, !.turn = "new"]
      BY <1>2, <2>6 DEF NextClient
    <3> HIDE DEF t
    <3>2. /\ KeptMasks(srv', srv) /\ srv'.phase = "serve" /\ srv'.cur = c
          /\ srv'.ready = srv.ready \ {c} /\ srv'.grabState = srv.grabState
      BY <2>2, <3>1 DEF Fields, KeptMasks, SameMasks
    <3>3. srv.conn[c] # 0
      BY <1>0, <2>6 DEF Tables, Table, TableBut
    <3>4. RoundHeard(srv')
      BY <1>0, <2>1, <2>6, <3>2, <3>3 DEF RoundHeard, HeardIn, KeptMasks, SameMasks
    <3> QED BY <1>0, <3>2, <3>4, KeptMasksGood DEF Heeds
  <2> QED BY <1>0, <2>3, <2>4, <2>5, <2>6
<1>3. CASE EndRound
  <2>1. KeptMasks(srv', srv) /\ srv'.phase = "wait"
    BY <1>0, <1>3 DEF EndRound, Fields, KeptMasks, SameMasks
  <2> QED BY <1>0, <2>1, ElsewhereGood
<1>4. CASE EndTurn
  <2>1. /\ KeptMasks(srv', srv) /\ srv'.phase = "serve" /\ srv'.cur = 0
        /\ srv'.ready = srv.ready /\ srv'.grabState = srv.grabState /\ srv.phase = "serve"
    BY <1>0, <1>4 DEF EndTurn, Fields, KeptMasks, SameMasks
  <2> QED BY <1>1, <2>1
<1>5. CASE NoRequest
  <2>1. Serving(srv)
    BY <1>0, <1>5 DEF NoRequest, Loops, Serving
  <2>2. CASE srv.cur \in srv.eof
    <3> DEFINE t == CloseDownClient(srv, srv.cur)
    <3>1. srv.state[srv.cur] # "None"
      BY <1>0, <2>1, LiveConnection DEF Serving
    <3>2. Tables(t) /\ Shut(t) /\ Simple(t) /\ NobodyShutOut(t, srv)
      BY <1>0, <2>1, <3>1, CloseDownKeeps, CloseDownGood DEF Serving
    <3>3. srv' = [t EXCEPT !.cur = 0]
      BY <1>5, <2>2 DEF NoRequest
    <3> HIDE DEF t
    <3>4. RoundHeard(t)
      BY <1>0, <3>2, RoundGood DEF Tables
    <3>5. /\ KeptMasks(srv', t) /\ srv'.ready = t.ready /\ srv'.cur = 0
          /\ srv'.phase = t.phase /\ srv'.grabState = t.grabState
      BY <3>2, <3>3 DEF Tables, Table, TableBut, Fields, KeptMasks, SameMasks
    <3>6. RoundHeard(srv')
      BY <1>0, <3>4, <3>5 DEF RoundHeard, HeardIn, KeptMasks, SameMasks
    <3> QED BY <3>2, <3>5, <3>6, KeptMasksGood DEF Heeds
  <2>3. CASE srv.cur \notin srv.eof
    <3>1. /\ srv'.conn = srv.conn /\ srv'.asleep = srv.asleep /\ srv'.waiters = srv.waiters
          /\ srv'.all = srv.all /\ srv'.impervious = srv.impervious
          /\ srv'.saved = srv.saved /\ srv'.grabbed = srv.grabbed
          /\ srv'.input \subseteq srv.input
          /\ srv'.ready = srv.ready /\ srv'.cur = 0
          /\ srv'.phase = srv.phase /\ srv'.grabState = srv.grabState
      BY <1>0, <1>5, <2>3 DEF NoRequest, Fields
    <3>2. Shut(srv') /\ Simple(srv')
      BY <1>0, <3>1 DEF Shut, Simple, Remembered, HeardIn, Connected
    <3>3. RoundHeard(srv')
      BY <1>0, <3>1 DEF RoundHeard, HeardIn
    <3> QED BY <3>2, <3>3 DEF Heeds
  <2> QED BY <2>2, <2>3
<1> QED BY <1>2, <1>3, <1>4, <1>5

LEMMA RequestGood ==
  ASSUME HeedInv, Execute
  PROVE  Heeds(srv')
<1> DEFINE c == srv.cur
           s == ReadRequestFromClient(srv)
<1>0. /\ DOMAIN srv = Fields /\ Tables(srv) /\ Loops(srv)
      /\ Shut(srv) /\ Simple(srv) /\ RoundHeard(srv)
  BY DEF HeedInv, Heeds, Inv, Tables, Table, TableBut
<1>1. ASSUME CanRead
      PROVE  /\ Tables(s) /\ Serving(s) /\ SameTable(s, srv) /\ s.cur = c
             /\ c \in Slots /\ s.conn[c] # 0
             /\ Shut(s) /\ Simple(s) /\ RoundHeard(s) /\ HeardIn(s, s.cur)
  <2>1. Serving(srv) /\ srv.turn # "over"
    BY <1>0, <1>1 DEF CanRead, Loops, Serving
  <2> QED BY <1>0, <2>1, ReadKeeps, ReadGood DEF Serving, SameTable, SameLoop
<1> HIDE DEF s
\* A request ends in Finish of a state t that is good if s is.
<1>2. ASSUME NEW t, CanRead, Tables(t), SameLoop(t, s), t.conn[c] # 0,
             Shut(t), Simple(t), RoundHeard(t), srv' = Finish(t)
      PROVE  Heeds(srv')
  <2>1. Serving(t)
    BY <1>1, <1>2 DEF Serving, SameLoop
  <2> QED BY <1>2, <2>1, FinishGood DEF Heeds
<1>3. ASSUME NEW t, CanRead, Tables(t), SameLoop(t, s), t.conn = s.conn,
             Shut(t), Simple(t), NobodyShutOut(t, s), srv' = Finish(t)
      PROVE  Heeds(srv')
  <2>1. RoundHeard(t) /\ t.conn[c] # 0
    BY <1>1, <1>3, RoundGood DEF Tables
  <2> QED BY <1>2, <1>3, <2>1
<1>4. ASSUME NEW t, CanRead, Tables(t), Kept(t, s), srv' = Finish(t)
      PROVE  Heeds(srv')
  <2>1. /\ Shut(t) /\ Simple(t) /\ NobodyShutOut(t, s)
    BY <1>1, <1>4, KeptGood
  <2>2. RoundHeard(t) /\ t.conn[c] # 0 /\ Serving(t)
    BY <1>1, <1>4, <2>1, RoundGood DEF Tables, Kept, KeptMasks, KeptRound, Serving
  <2> QED BY <1>4, <2>1, <2>2, FinishGood DEF Heeds
<1>5. ASSUME NEW accepted \in BOOLEAN, Setup(accepted) PROVE Heeds(srv')
  <2> DEFINE t == IF accepted
                  THEN [s EXCEPT !.state[c] = "Running", !.nClients = @ + 1]
                  ELSE [s EXCEPT !.failed = @ \cup {c}]
  <2>1. CanRead /\ srv.state[c] = "Initial" /\ srv' = Finish(t)
    BY <1>5 DEF Setup, s
  <2>2. /\ Tables(s) /\ c \in Slots /\ s.conn[c] # 0 /\ s.state[c] = "Initial"
        /\ DOMAIN s = Fields
    BY <1>1, <2>1 DEF SameTable
  <2> HIDE DEF c
  <2>3. Tables(t) /\ Kept(t, s)
    <3>1. Tables(t)
      BY <2>2, SetUpKeeps
    <3>2. Kept(t, s)
      BY <2>2 DEF Kept, KeptMasks, KeptRound, Fields, SameMasks
    <3> QED BY <3>1, <3>2
  <2> HIDE DEF t
  <2> QED BY <1>4, <2>1, <2>3
<1>6. CASE Ordinary
  <2>1. CanRead /\ srv' = Finish(s)
    BY <1>6 DEF Ordinary, Request, s
  <2>2. Kept(s, s)
    BY DEF Kept, KeptMasks, KeptRound, SameMasks
  <2> QED BY <1>1, <1>4, <2>1, <2>2
<1>7. CASE ProcGrabServer
  <2> DEFINE w == IgnoreClient([ResetCurrentRequest(s, c) EXCEPT !.waiters = @ \cup {c}], c)
             g == [OnlyListenToOneClient(s, s.cur) EXCEPT !.grabState = "Kickout",
                                                          !.grabClient = s.cur]
  <2>1. /\ CanRead
        /\ srv' = Finish(IF s.grabState # "None" /\ s.grabClient # c THEN w ELSE g)
    <3>1. CanRead
      BY <1>7 DEF ProcGrabServer, Request
    <3>2. s.cur = c
      BY <1>1, <3>1
    <3> QED BY <1>7, <3>1, <3>2 DEF ProcGrabServer, s
  <2>2. /\ Tables(s) /\ Serving(s) /\ c \in Slots /\ s.conn[c] # 0 /\ s.cur = c
        /\ Shut(s) /\ Simple(s) /\ RoundHeard(s)
    BY <1>1, <2>1
  <2> HIDE DEF c
  <2>3. CASE s.grabState # "None" /\ s.grabClient # c
    <3>1. Tables(w) /\ SameLoop(w, s) /\ w.conn = s.conn
      BY <2>2, WaitKeeps
    <3>2. Shut(w) /\ Simple(w) /\ NobodyShutOut(w, s)
      BY <2>2, AwaitGood
    <3>3. srv' = Finish(w)
      BY <2>1, <2>3
    <3> HIDE DEF w
    <3> QED BY <1>3, <2>1, <3>1, <3>2, <3>3
  <2>4. CASE ~ (s.grabState # "None" /\ s.grabClient # c)
    <3>1. s.grabState = "None" \/ s.grabClient = s.cur
      BY <2>2, <2>4
    <3>2. Tables(g) /\ SameTable(g, s) /\ SameLoop(g, s)
      BY <2>2, <3>1, GrabKeeps DEF Serving
    <3>3. Shut(g) /\ Simple(g) /\ RoundHeard(g)
      BY <2>2, <3>1, GrabGood
    <3>4. srv' = Finish(g)
      BY <2>1, <2>4
    <3> HIDE DEF g
    <3>5. g.conn[c] # 0
      BY <2>2, <3>2 DEF SameTable
    <3> QED BY <1>2, <2>1, <3>2, <3>3, <3>4, <3>5
  <2> QED BY <2>3, <2>4
<1>8. CASE ProcUngrabServer
  <2>1. CanRead /\ srv' = Finish(UngrabServer(s))
    BY <1>8 DEF ProcUngrabServer, Request, s
  <2>2. /\ Tables(UngrabServer(s)) /\ SameLoop(UngrabServer(s), s)
        /\ UngrabServer(s).conn = s.conn
        /\ Shut(UngrabServer(s)) /\ Simple(UngrabServer(s))
        /\ NobodyShutOut(UngrabServer(s), s)
    BY <1>1, <2>1, UngrabServerKeeps, UngrabGood
  <2> QED BY <1>3, <2>1, <2>2
<1>9. ASSUME NEW m \in Modes, ProcChangeCloseDownMode(m) PROVE Heeds(srv')
  <2> DEFINE t == [s EXCEPT !.mode[c] = m]
  <2>1. CanRead /\ srv' = Finish(t)
    BY <1>9 DEF ProcChangeCloseDownMode, Request, s
  <2>2. Tables(s) /\ c \in Slots /\ DOMAIN s = Fields
    BY <1>1, <2>1 DEF SameTable
  <2> HIDE DEF c
  <2>3. Tables(t)
    BY <2>2, ModeKeeps
  <2>4. Kept(t, s)
    BY <2>2 DEF Kept, KeptMasks, KeptRound, Fields, SameMasks
  <2> HIDE DEF t
  <2> QED BY <1>4, <2>1, <2>3, <2>4
<1>10. ASSUME NEW d \in Slots, ProcKillClient(d) PROVE Heeds(srv')
  <2> DEFINE t == CloseDownClient(s, d)
             u == [t EXCEPT !.cur = 0]
  <2>1. /\ CanRead /\ srv.state[d] \in {"Running", "Retained"}
        /\ srv' = IF t.turn = "over" \/ d = c THEN u ELSE Finish(t)
    BY <1>10 DEF ProcKillClient, Request, s
  <2>2. /\ Tables(s) /\ Serving(s) /\ s.cur = c /\ c \in Slots /\ s.conn[c] # 0
        /\ Shut(s) /\ Simple(s) /\ RoundHeard(s) /\ s.state[d] # "None"
    BY <1>1, <2>1 DEF SameTable
  <2>3. /\ Tables(t) /\ SameLoop(t, s) /\ Shut(t) /\ Simple(t) /\ NobodyShutOut(t, s)
        /\ \A e \in Slots \ {d} : t.conn[e] = s.conn[e]
    BY <2>2, CloseDownKeeps, CloseDownGood
  <2> HIDE DEF t
  <2>4. RoundHeard(t)
    BY <2>2, <2>3, RoundGood DEF Tables
  <2>5. CASE t.turn = "over" \/ d = c
    <3>1. /\ KeptMasks(u, t) /\ u.ready = t.ready /\ u.cur = 0 /\ u.phase = t.phase
          /\ u.grabState = t.grabState
      BY <2>3 DEF Tables, Table, TableBut, Fields, KeptMasks, SameMasks
    <3>2. 0 \notin Slots
      BY MAXCLIENTSAssumption DEF Slots
    <3>3. RoundHeard(u)
      BY <2>4, <3>1, <3>2 DEF RoundHeard, HeardIn, KeptMasks, SameMasks
    <3>4. srv' = u
      BY <2>1, <2>5
    <3> HIDE DEF u
    <3> QED BY <2>3, <3>1, <3>3, <3>4, KeptMasksGood DEF Heeds
  <2>6. CASE ~ (t.turn = "over" \/ d = c)
    <3>1. t.conn[c] # 0 /\ srv' = Finish(t)
      BY <2>1, <2>2, <2>3, <2>6
    <3> QED BY <1>2, <2>1, <2>3, <2>4, <3>1
  <2> QED BY <2>5, <2>6
<1>11. CASE KillTemporary
  <2> DEFINE t == CloseDownRetainedResources(s)
  <2>1. CanRead /\ srv' = Finish(t)
    BY <1>11 DEF KillTemporary, Request, s
  <2>2. Tables(s) /\ Shut(s) /\ Simple(s) /\ DOMAIN s = Fields
    BY <1>1, <2>1 DEF SameTable
  <2>3. Tables(t) /\ SameLoop(t, s) /\ t.conn = s.conn
    BY <2>2, RetainedKeeps
  <2>4. Shut(t) /\ Simple(t) /\ NobodyShutOut(t, s)
    BY <2>2, FreeSlotsGood DEF CloseDownRetainedResources
  <2> HIDE DEF t
  <2> QED BY <1>3, <2>1, <2>3, <2>4
<1>12. ASSUME NEW i \in BOOLEAN, GrabControl(i) PROVE Heeds(srv')
  <2> DEFINE t == IF i THEN MakeClientGrabImpervious(s, s.cur)
                  ELSE MakeClientGrabPervious(s, s.cur)
  <2>1. CanRead /\ (~i => "pervious" \in Requests)
    BY <1>12 DEF GrabControl, Request
  <2>2. srv' = Finish(t)
    <3>1. s.cur = c
      BY <1>1, <2>1
    <3> QED BY <1>12, <3>1 DEF GrabControl, s
  <2>3. /\ Tables(s) /\ Serving(s) /\ Shut(s) /\ Simple(s) /\ RoundHeard(s)
        /\ HeardIn(s, s.cur) /\ s.cur = c /\ s.conn[c] # 0
    BY <1>1, <2>1
  <2>4. Tables(t) /\ SameTable(t, s) /\ SameLoop(t, s)
    BY <2>3, ControlKeeps DEF Serving
  <2>5. Shut(t) /\ (i => Simple(t)) /\ RoundHeard(t)
    BY <2>3, ControlGood
  <2> HIDE DEF t
  <2>6. Simple(t) /\ t.conn[c] # 0
    BY <2>1, <2>3, <2>4, <2>5 DEF Simple, SameTable
  <2> QED BY <1>2, <2>1, <2>2, <2>4, <2>5, <2>6
<1>13. CASE ClientSleep
  <2> DEFINE t == IgnoreClient([s EXCEPT !.asleep = @ \cup {c}], c)
  <2>1. CanRead /\ srv' = Finish(t)
    BY <1>13 DEF ClientSleep, Request, s
  <2>2. Tables(s) /\ Shut(s) /\ Simple(s) /\ c \in Slots /\ s.conn[c] # 0
    BY <1>1, <2>1
  <2> HIDE DEF c
  <2>3. Tables(t) /\ SameLoop(t, s) /\ t.conn = s.conn
    BY <2>2, SleepKeeps
  <2>4. Shut(t) /\ Simple(t) /\ NobodyShutOut(t, s)
    BY <2>2, SleepGood
  <2> HIDE DEF t
  <2> QED BY <1>3, <2>1, <2>3, <2>4
<1>14. ASSUME NEW d \in Slots, NEW p \in Priorities, ProcSyncSetPriority(d, p) PROVE Heeds(srv')
  <2> DEFINE t == Prioritize(s, d, p)
  <2>1. CanRead /\ srv' = Finish(t)
    BY <1>14 DEF ProcSyncSetPriority, Request, s
  <2>2. /\ Tables(t) /\ SameTable(t, s) /\ SameMasks(t, s) /\ SameGrab(t, s) /\ SameLoop(t, s)
        /\ (t.turn = s.turn /\ t.ready = s.ready) \/ (t.turn = "over" /\ t.ready = {})
    BY <1>1, <2>1, PrioritizeKeeps
  <2> HIDE DEF t
  <2>3. Shut(t) /\ Simple(t)
    BY <1>1, <2>1, <2>2, KeptMasksGood DEF KeptMasks, SameTable
  <2>4. RoundHeard(t) /\ t.conn[c] # 0
    BY <1>1, <2>1, <2>2 DEF RoundHeard, HeardIn, SameTable, SameMasks, SameGrab, SameLoop
  <2> QED BY <1>2, <2>1, <2>2, <2>3, <2>4
<1> QED BY <1>5, <1>6, <1>7, <1>8, <1>9, <1>10, <1>11, <1>12, <1>13, <1>14 DEF Execute

LEMMA ResetGood ==
  ASSUME HeedInv, Reset
  PROVE  Heeds(srv')
<1>0. /\ DOMAIN srv = Fields /\ srv.currentMax \in 1 .. MAXCLIENTS
      /\ Tables(srv) /\ Loops(srv) /\ Shut(srv) /\ Simple(srv)
  BY DEF HeedInv, Heeds, Inv, Tables, Table, TableBut
<1>1. CASE EndDispatch
  <2>1. KeptMasks(srv', srv) /\ srv'.phase = "kill"
    BY <1>0, <1>1 DEF EndDispatch, Fields, KeptMasks, SameMasks
  <2> QED BY <1>0, <2>1, ElsewhereGood
<1>2. CASE KillAllClients
  <2> DEFINE i == srv.at
             m == [srv EXCEPT !.mode[i] = "DestroyAll"]
             t == IF srv.state[i] = "None" THEN srv ELSE CloseDownClient(m, i)
  <2>1. srv.phase = "kill" /\ i < srv.currentMax /\ srv' = [t EXCEPT !.at = i + 1]
    BY <1>2 DEF KillAllClients
  <2>2. i \in Slots
    BY <1>0, <2>1, MAXCLIENTSAssumption DEF Loops, Slots
  <2> HIDE DEF i
  <2>3. Shut(t) /\ Simple(t) /\ DOMAIN t = Fields /\ t.phase = "kill"
    <3>1. CASE srv.state[i] = "None"
      BY <1>0, <2>1, <3>1
    <3>2. CASE srv.state[i] # "None"
      <4>1. Tables(m) /\ SameLoop(m, srv) /\ m.state = srv.state
        BY <1>0, <2>2, ModeKeeps DEF Modes
      <4>2. KeptMasks(m, srv)
        BY <1>0 DEF Fields, KeptMasks, SameMasks
      <4> HIDE DEF m
      <4>3. Shut(m) /\ Simple(m)
        BY <1>0, <4>2, KeptMasksGood
      <4>4. /\ Tables(CloseDownClient(m, i)) /\ SameLoop(CloseDownClient(m, i), m)
            /\ Shut(CloseDownClient(m, i)) /\ Simple(CloseDownClient(m, i))
        BY <2>2, <3>2, <4>1, <4>3, CloseDownKeeps, CloseDownGood
      <4> QED BY <2>1, <3>2, <4>1, <4>4 DEF Tables, Table, TableBut, SameLoop
    <3> QED BY <3>1, <3>2
  <2> HIDE DEF t
  <2>4. KeptMasks(srv', t) /\ srv'.phase = "kill"
    BY <2>1, <2>3 DEF Fields, KeptMasks, SameMasks
  <2> QED BY <2>3, <2>4, ElsewhereGood
<1>3. CASE NextGeneration
  <2>1. KeptMasks(srv', srv) /\ srv'.phase = "wait"
    BY <1>0, <1>3 DEF NextGeneration, Fields, KeptMasks, SameMasks
  <2> QED BY <1>0, <2>1, ElsewhereGood
<1> QED BY <1>1, <1>2, <1>3 DEF Reset

-----------------------------------------------------------------------------
\* The server listens to nobody it should not, and to everybody else.
THEOREM GrabsAreHeeded == Spec => []HeedInv
<1>1. Init => HeedInv
  <2> SUFFICES ASSUME Init PROVE HeedInv
    OBVIOUS
  <2>1. /\ srv.conn = [c \in Slots |-> 0] /\ srv.impervious = {} /\ srv.grabbed = 0
        /\ srv.phase = "wait"
    BY DEF Init
  <2>2. Heeds(srv)
    BY <2>1 DEF Heeds, Shut, Simple, Remembered, RoundHeard, Connected
  <2> QED BY <2>2, InitInv DEF HeedInv
<1>2. HeedInv /\ [Next]_srv => HeedInv'
  <2> SUFFICES ASSUME HeedInv, [Next]_srv PROVE HeedInv'
    OBVIOUS
  <2>1. Inv'
    BY NextInv DEF HeedInv
  <2>2. CASE UNCHANGED srv
    BY <2>2 DEF HeedInv, Inv, Tables, Loops, Heeds
  <2>3. ASSUME Peer PROVE Heeds(srv')
    BY <2>3, PeerGood
  <2>4. ASSUME Wait PROVE Heeds(srv')
    BY <2>4, WaitGood
  <2>5. ASSUME Round PROVE Heeds(srv')
    BY <2>5, RoundStepGood, RequestGood DEF Round
  <2>6. ASSUME Reset PROVE Heeds(srv')
    BY <2>6, ResetGood
  <2>7. Next => Heeds(srv')
    BY <2>3, <2>4, <2>5, <2>6 DEF Next
  <2> QED BY <2>1, <2>2, <2>7 DEF HeedInv
<1> QED BY <1>1, <1>2, PTL DEF Spec

\* While the server is grabbed nobody's requests are executed but its owner's
\* and those of clients impervious to grabs, whatever round was under way when
\* it was grabbed, and whoever died or was killed since.
THEOREM GrabsExclude == Spec => []GrabExcludes
<1>1. HeedInv => GrabExcludes
  BY DEF HeedInv, Heeds, Inv, Loops, RoundHeard, HeardIn, GrabExcludes, Heard
<1> QED BY <1>1, GrabsAreHeeded, PTL

\* As long as no client becomes pervious again, a client that neither sleeps nor
\* waits for the server is in the mask select() is called with, or in the one
\* the end of the grab puts back.
THEOREM NobodyIsForgotten ==
  ASSUME "pervious" \notin Requests
  PROVE  Spec => []NobodyForgotten
<1>1. HeedInv => NobodyForgotten
  BY DEF HeedInv, Heeds, Simple, Remembered, HeardIn, NobodyForgotten, Heard, Silent
<1> QED BY <1>1, GrabsAreHeeded, PTL

-----------------------------------------------------------------------------
\* Input: which mask shows that c has more in its buffer.
Where(s, c) == IF HeardIn(s, c) THEN s.input ELSE s.savedInput

Queues(s) == s.buf \in [Slots -> Nat] /\ s.sock \in [Slots -> Nat]

\* Who has input in a buffer is listened to, ...
InputListened(s) == s.input \subseteq s.all /\ s.savedInput \subseteq s.saved

\* ... and whoever has requests there is known to have them: AttendClient goes
\* by IgnoredClientsWithInput.
Noticed(s) ==
  \A c \in Connected(s) :
    s.buf[c] > 0 => \/ s.conn[c] \in Where(s, c)
                    \/ c \in s.asleep \cup s.waiters /\ s.conn[c] \in s.ignored

Minds(s) == Queues(s) /\ InputListened(s) /\ Noticed(s)

\* Whoever is served is listened to, or will be once the grab is over that
\* ends this round.
Listened(s) == s.all \cup (IF s.grabState = "Kickout" THEN s.saved ELSE {})
RoundListened(s) ==
  s.phase = "serve" =>
    /\ s.cur # 0 /\ s.turn # "over" /\ s.conn[s.cur] # 0 => s.conn[s.cur] \in s.all
    /\ \A c \in s.ready : s.conn[c] # 0 => s.conn[c] \in Listened(s)

MindInv == HeedInv /\ Minds(srv) /\ RoundListened(srv)

\* Nobody but D is dropped from the masks who stays connected.
NobodyDropped(t, s, D) ==
  \A c \in Slots \ D :
    t.conn[c] # 0 => /\ t.conn[c] = s.conn[c]
                     /\ s.conn[c] \in s.all => s.conn[c] \in t.all
                     /\ s.conn[c] \in Listened(s) => s.conn[c] \in Listened(t)

KeptInput(t, s) ==
  KeptMasks(t, s) /\ t.buf = s.buf /\ t.sock = s.sock /\ t.ignored = s.ignored

LEMMA KeptMinds ==
  ASSUME NEW s, NEW t, Minds(s), KeptInput(t, s)
  PROVE  Minds(t)
BY DEF KeptInput, KeptMasks, SameMasks, Minds, Queues, InputListened, Noticed, Where, HeardIn,
       Connected

LEMMA KeptListened ==
  ASSUME NEW s, NEW t, KeptMasks(t, s), t.grabState = s.grabState
  PROVE  NobodyDropped(t, s, {})
BY DEF KeptMasks, SameMasks, NobodyDropped, Listened

LEMMA RoundMinds ==
  ASSUME NEW s, NEW t, RoundHeard(s), RoundListened(s), NobodyDropped(t, s, {}),
         t.ready = s.ready, t.cur = s.cur, t.phase = s.phase,
         s.turn = "over" => t.turn = "over"
  PROVE  RoundListened(t)
BY DEF RoundHeard, RoundListened, NobodyDropped

-----------------------------------------------------------------------------
\* The procedures, once more.

\* Who is attended has slept or waited, and has just been woken.
LEMMA AttendMinds ==
  ASSUME NEW s, NEW w, Minds(s), NEW c \in Slots, s.conn[c] # 0,
         DOMAIN w = Fields, w.conn = s.conn, w.buf = s.buf, w.sock = s.sock,
         SameMasks(w, s), w.ignored = s.ignored, w.grabState = s.grabState,
         s.asleep \cup s.waiters \subseteq w.asleep \cup w.waiters \cup {c}
  PROVE  LET t == AttendClient(w, c)
         IN  Minds(t) /\ NobodyDropped(t, s, {})
<1> DEFINE t == AttendClient(w, c)
           f == s.conn[c]
           live == HeardIn(s, c)
           more(set) == IF f \in s.ignored THEN set \cup {f} ELSE set
<1>1. /\ t.conn = s.conn /\ t.grabbed = s.grabbed /\ t.impervious = s.impervious
      /\ t.waiters = w.waiters /\ t.asleep = w.asleep /\ t.buf = s.buf /\ t.sock = s.sock
      /\ t.ignored = s.ignored /\ t.grabState = s.grabState
      /\ t.all = IF live THEN s.all \cup {f} ELSE s.all
      /\ t.input = IF live THEN more(s.input) ELSE s.input
      /\ t.saved = IF live THEN s.saved ELSE s.saved \cup {f}
      /\ t.savedInput = IF live THEN s.savedInput ELSE more(s.savedInput)
  BY DEF AttendClient, Fields, SameMasks, HeardIn
<1> HIDE DEF t
<1>2. Queues(t) /\ InputListened(t)
  BY <1>1 DEF Minds, Queues, InputListened
<1>3. Noticed(t)
  <2> SUFFICES ASSUME NEW d \in Connected(t), t.buf[d] > 0
               PROVE  \/ t.conn[d] \in Where(t, d)
                      \/ d \in t.asleep \cup t.waiters /\ t.conn[d] \in t.ignored
    BY DEF Noticed
  <2>1. /\ d \in Slots /\ s.conn[d] # 0
        /\ \/ s.conn[d] \in Where(s, d)
           \/ d \in s.asleep \cup s.waiters /\ s.conn[d] \in s.ignored
    BY <1>1 DEF Minds, Noticed, Connected
  <2>2. HeardIn(t, d) <=> HeardIn(s, d)
    BY <1>1 DEF HeardIn
  <2>3. s.conn[d] \in Where(s, d) => t.conn[d] \in Where(t, d)
    BY <1>1, <2>2 DEF Where
  <2>4. CASE d = c
    BY <1>1, <2>1, <2>2, <2>3, <2>4 DEF Where
  <2>5. CASE d # c
    BY <1>1, <2>1, <2>3, <2>5
  <2> QED BY <2>4, <2>5
<1>4. NobodyDropped(t, s, {})
  BY <1>1 DEF NobodyDropped, Listened
<1> QED BY <1>2, <1>3, <1>4 DEF Minds, t

LEMMA ListenMinds ==
  ASSUME NEW s, Tables(s), Minds(s)
  PROVE  LET t == [ListenToAllClients(s) EXCEPT !.grabState = "None", !.grabClient = 0]
         IN  Minds(t) /\ NobodyDropped(t, s, {})
<1> DEFINE t == [ListenToAllClients(s) EXCEPT !.grabState = "None", !.grabClient = 0]
<1>0. /\ DOMAIN s = Fields /\ (s.grabbed = 0 => s.saved = {} /\ s.savedInput = {})
  BY DEF Tables, Table, TableBut, Masks
<1>1. /\ t.conn = s.conn /\ t.asleep = s.asleep /\ t.waiters = s.waiters
      /\ t.buf = s.buf /\ t.sock = s.sock /\ t.ignored = s.ignored
      /\ t.grabbed = 0 /\ t.grabState = "None"
      /\ t.all = s.all \cup s.saved /\ t.input = s.input \cup s.savedInput
      /\ t.saved = {} /\ t.savedInput = {}
  BY <1>0 DEF ListenToAllClients, Fields
<1> HIDE DEF t
<1>2. Queues(t) /\ InputListened(t)
  BY <1>1 DEF Minds, Queues, InputListened
<1>3. Noticed(t)
  BY <1>1 DEF Minds, Noticed, Where, HeardIn, Connected
<1>4. NobodyDropped(t, s, {})
  BY <1>1 DEF NobodyDropped, Listened
<1> QED BY <1>2, <1>3, <1>4 DEF Minds, t

LEMMA UngrabMinds ==
  ASSUME NEW s, Tables(s), Minds(s)
  PROVE  LET t == UngrabServer(s)
         IN  Minds(t) /\ NobodyDropped(t, s, {})
<1> DEFINE t == [ListenToAllClients(s) EXCEPT !.grabState = "None", !.grabClient = 0]
           w == Min(s.waiters)
           u == [t EXCEPT !.waiters = @ \ {w}]
           r == AttendClient(u, w)
<1>1. /\ UngrabServer(s) = IF s.waiters = {} THEN t ELSE r
  BY DEF UngrabServer
<1>2. Minds(t) /\ NobodyDropped(t, s, {})
  BY ListenMinds
<1>3. ASSUME s.waiters # {}
      PROVE  Minds(r) /\ NobodyDropped(r, t, {})
  <2>1. s.waiters \in SUBSET Nat /\ s.waiters \subseteq Connected(s) /\ s.waiters \subseteq Slots
    BY MAXCLIENTSAssumption DEF Tables, Table, TableBut, Connected, Slots
  <2>2. w \in s.waiters
    BY <1>3, <2>1, MinIsLeast
  <2> HIDE DEF w
  <2>3. /\ DOMAIN t = Fields /\ t.conn = s.conn /\ t.waiters = s.waiters
    BY DEF Tables, Table, TableBut, ListenToAllClients, Fields
  <2> HIDE DEF t
  <2>5. /\ DOMAIN u = Fields /\ u.conn = t.conn /\ u.buf = t.buf /\ u.sock = t.sock
        /\ SameMasks(u, t) /\ u.ignored = t.ignored /\ u.grabState = t.grabState
        /\ u.asleep = t.asleep /\ u.waiters = t.waiters \ {w}
    BY <2>3 DEF Fields, SameMasks
  <2> HIDE DEF u
  <2>6. w \in Slots /\ t.conn[w] # 0
    BY <2>1, <2>2, <2>3 DEF Connected
  <2>7. t.asleep \cup t.waiters \subseteq u.asleep \cup u.waiters \cup {w}
    BY <2>5
  <2> QED BY <1>2, <2>5, <2>6, <2>7, AttendMinds
<1> HIDE DEF t, r
<1>4. NobodyDropped(r, t, {}) => NobodyDropped(r, s, {})
  BY <1>2 DEF NobodyDropped
<1> QED BY <1>1, <1>2, <1>3, <1>4

LEMMA CutMinds ==
  ASSUME NEW s, Tables(s), Minds(s), NEW c \in Slots, s.conn[c] # 0, s.grabbed # c
  PROVE  LET t == CloseDownConnection([s EXCEPT !.waiters = @ \ {c}, !.asleep = @ \ {c}], c)
         IN  Minds(t) /\ NobodyDropped(t, s, {})
<1> DEFINE w == [s EXCEPT !.waiters = @ \ {c}, !.asleep = @ \ {c}]
           t == CloseDownConnection(w, c)
           f == s.conn[c]
           cut(set) == IF s.grabbed # 0 THEN set \ {f} ELSE set
<1>1. /\ DOMAIN w = Fields
      /\ w.conn = s.conn /\ w.waiters = s.waiters \ {c} /\ w.asleep = s.asleep \ {c}
      /\ SameMasks(w, s) /\ w.buf = s.buf /\ w.sock = s.sock /\ w.ignored = s.ignored
      /\ w.grabState = s.grabState
  BY DEF Tables, Table, TableBut, Fields, SameMasks
<1> HIDE DEF w
<1>2. /\ t.conn = [s.conn EXCEPT ![c] = 0]
      /\ t.waiters = s.waiters \ {c} /\ t.asleep = s.asleep \ {c}
      /\ t.grabbed = s.grabbed /\ t.grabState = s.grabState /\ t.ignored = s.ignored
      /\ t.all = s.all \ {f} /\ t.input = s.input \ {f} /\ t.impervious = s.impervious \ {f}
      /\ t.saved = cut(s.saved) /\ t.savedInput = cut(s.savedInput)
      /\ t.buf = [s.buf EXCEPT ![c] = 0] /\ t.sock = [s.sock EXCEPT ![c] = 0]
  BY <1>1 DEF CloseDownConnection, Fields, SameMasks
<1> HIDE DEF t
<1>3. /\ s.conn \in [Slots -> Fds \cup {0}]
      /\ \A d \in Slots \ {c} : s.conn[d] # 0 => s.conn[d] # f
  BY DEF Tables, Table, TableBut, Masks, Connected
<1>4. Queues(t) /\ InputListened(t)
  BY <1>2 DEF Minds, Queues, InputListened
<1>5. \A d \in Slots : t.conn[d] # 0 =>
        d # c /\ t.conn[d] = s.conn[d] /\ s.conn[d] # f /\ t.buf[d] = s.buf[d]
  BY <1>2, <1>3 DEF Minds, Queues
<1>6. Noticed(t)
  <2> SUFFICES ASSUME NEW d \in Connected(t), t.buf[d] > 0
               PROVE  \/ t.conn[d] \in Where(t, d)
                      \/ d \in t.asleep \cup t.waiters /\ t.conn[d] \in t.ignored
    BY DEF Noticed
  <2>1. /\ d \in Slots /\ d # c /\ t.conn[d] = s.conn[d] /\ s.conn[d] # f /\ s.conn[d] # 0
        /\ \/ s.conn[d] \in Where(s, d)
           \/ d \in s.asleep \cup s.waiters /\ s.conn[d] \in s.ignored
    BY <1>5 DEF Minds, Noticed, Connected
  <2>2. s.conn[d] \in Where(s, d) => t.conn[d] \in Where(t, d)
    BY <1>2, <2>1 DEF Where, HeardIn
  <2> QED BY <1>2, <2>1, <2>2
<1>7. NobodyDropped(t, s, {})
  BY <1>2, <1>5 DEF NobodyDropped, Listened
<1> QED BY <1>4, <1>6, <1>7 DEF Minds, t, w

LEMMA DisconnectMinds ==
  ASSUME NEW s, Tables(s), Minds(s), NEW c \in Slots,
         s.state[c] \in {"Initial", "Running"}
  PROVE  LET t == Disconnect(s, c)
         IN  Minds(t) /\ NobodyDropped(t, s, {})
<1> DEFINE t == IF s.grabState # "None" /\ s.grabClient = c THEN UngrabServer(s) ELSE s
           v == CloseDownConnection([t EXCEPT !.waiters = @ \ {c}, !.asleep = @ \ {c}], c)
           u == Disconnect(s, c)
<1>1. s.conn[c] # 0 /\ c # 0
  BY MAXCLIENTSAssumption DEF Tables, Table, TableBut, Slots
<1>2. /\ Tables(t) /\ Minds(t) /\ NobodyDropped(t, s, {})
      /\ t.grabbed # c /\ t.conn = s.conn
  <2>1. CASE s.grabState # "None" /\ s.grabClient = c
    <3>1. UngrabServer(s).grabbed = 0
      BY UngrabKeeps DEF Tables, Table
    <3> QED BY <1>1, <2>1, <3>1, UngrabMinds, UngrabServerKeeps
  <2>2. CASE ~ (s.grabState # "None" /\ s.grabClient = c)
    BY <1>1, <2>2 DEF Tables, Grab, NobodyDropped
  <2> QED BY <2>1, <2>2
<1> HIDE DEF t
<1>3. Minds(v) /\ NobodyDropped(v, t, {})
  BY <1>1, <1>2, CutMinds
<1>4. DOMAIN v = Fields
  <2>1. Table(t) /\ Masks(t) /\ Grab(t) /\ t.conn[c] # 0 /\ t.grabbed # c
    BY <1>1, <1>2 DEF Tables
  <2> QED BY <2>1, CutKeeps
<1>5. u = [v EXCEPT !.nClients = IF s.state[c] = "Initial" THEN @ ELSE @ - 1,
                    !.state[c] = IF s.mode[c] = "DestroyAll" THEN @ ELSE "Retained"]
  BY DEF Disconnect, t
<1> HIDE DEF v, u
<1>6. KeptInput(u, v) /\ u.grabState = v.grabState
  BY <1>4, <1>5 DEF KeptInput, KeptMasks, Fields, SameMasks
<1>7. Minds(u) /\ NobodyDropped(u, v, {})
  BY <1>3, <1>6, KeptMinds, KeptListened DEF KeptInput
<1>8. NobodyDropped(u, s, {})
  BY <1>2, <1>3, <1>7 DEF NobodyDropped
<1> QED BY <1>7, <1>8 DEF u

LEMMA FreeSlotsMinds ==
  ASSUME NEW s, NEW D, DOMAIN s = Fields, Minds(s)
  PROVE  LET t == FreeSlots(s, D)
         IN  Minds(t) /\ NobodyDropped(t, s, {})
<1> DEFINE t == FreeSlots(s, D)
<1>1. KeptInput(t, s) /\ t.grabState = s.grabState
  BY DEF KeptInput, KeptMasks, Fields, SameMasks, FreeSlots
<1> HIDE DEF t
<1> QED BY <1>1, KeptMinds, KeptListened DEF t, KeptInput

LEMMA DestroyMinds ==
  ASSUME NEW s, NEW c \in Slots, DOMAIN s = Fields, Minds(s)
  PROVE  LET t == Destroy(s, c)
         IN  Minds(t) /\ NobodyDropped(t, s, {})
<1> DEFINE r == [s EXCEPT !.reset = @ \/ (s.state[c] = "Running" /\ s.nClients = 0)]
           t == FreeSlots(r, {c})
<1>1. DOMAIN r = Fields /\ KeptInput(r, s) /\ r.grabState = s.grabState
  BY DEF KeptInput, KeptMasks, Fields, SameMasks
<1>2. Destroy(s, c) = t
  BY DEF Destroy
<1> HIDE DEF r
<1>3. Minds(r) /\ NobodyDropped(r, s, {})
  BY <1>1, KeptMinds, KeptListened DEF KeptInput
<1>4. Minds(t) /\ NobodyDropped(t, r, {})
  BY <1>1, <1>3, FreeSlotsMinds
<1> HIDE DEF t
<1>5. NobodyDropped(t, s, {})
  BY <1>3, <1>4 DEF NobodyDropped
<1> QED BY <1>2, <1>4, <1>5

LEMMA CloseDownMinds ==
  ASSUME NEW s, Tables(s), Minds(s), NEW c \in Slots, s.state[c] # "None"
  PROVE  LET t == CloseDownClient(s, c)
         IN  Minds(t) /\ NobodyDropped(t, s, {})
<1>1. DOMAIN s = Fields /\ s.state \in [Slots -> {"None", "Initial", "Running", "Retained"}]
  BY DEF Tables, Table, TableBut
<1>2. CASE s.state[c] = "Retained"
  BY <1>1, <1>2, DestroyMinds DEF CloseDownClient
<1>3. CASE s.state[c] # "Retained"
  <2> DEFINE u == Disconnect(s, c)
             t == Destroy(u, c)
  <2>1. s.state[c] \in {"Initial", "Running"}
    BY <1>1, <1>3
  <2>2. Minds(u) /\ NobodyDropped(u, s, {}) /\ DOMAIN u = Fields
    BY <2>1, DisconnectMinds, DisconnectKeeps DEF TableBut
  <2> HIDE DEF u
  <2>3. Minds(t) /\ NobodyDropped(t, u, {})
    BY <2>2, DestroyMinds
  <2> HIDE DEF t
  <2>4. NobodyDropped(t, s, {})
    BY <2>2, <2>3 DEF NobodyDropped
  <2>5. CloseDownClient(s, c) = IF s.mode[c] = "DestroyAll" THEN t ELSE u
    BY <1>3 DEF CloseDownClient, t, u
  <2> QED BY <2>2, <2>3, <2>4, <2>5
<1> QED BY <1>2, <1>3

LEMMA AllocMinds ==
  ASSUME NEW s, Tables(s), Minds(s), NEW f \in Fds, s.trans[f] = 0
  PROVE  Minds(AllocNewConnection(s, f))
<1> DEFINE t == AllocNewConnection(s, f)
           i == s.nextFree
<1>1. CASE i = MAXCLIENTS
  BY <1>1 DEF AllocNewConnection
<1>2. CASE i # MAXCLIENTS
  <2>1. /\ DOMAIN s = Fields /\ s.conn \in [Slots -> Fds \cup {0}]
        /\ i \in Slots /\ s.conn[i] = 0 /\ s.grabbed # i /\ s.grabbed \in Slots \cup {0}
    BY <1>2, MAXCLIENTSAssumption DEF Tables, Table, TableBut, Grab, Slots
  <2>2. /\ t.conn = [s.conn EXCEPT ![i] = f]
        /\ t.waiters = s.waiters /\ t.asleep = s.asleep /\ t.ignored = s.ignored
        /\ t.input = s.input \ {f} /\ t.impervious = s.impervious
        /\ t.saved = IF s.grabbed # 0 THEN s.saved \cup {f} ELSE s.saved
        /\ t.all = IF s.grabbed = 0 THEN s.all \cup {f} ELSE s.all
        /\ t.savedInput = s.savedInput /\ t.grabbed = s.grabbed
        /\ t.buf = [s.buf EXCEPT ![i] = 0] /\ t.sock = [s.sock EXCEPT ![i] = 0]
    BY <1>2, <2>1 DEF AllocNewConnection, Fields
  <2> HIDE DEF t, i
  <2>3. Queues(t) /\ InputListened(t)
    <3>1. Queues(t)
      BY <2>1, <2>2 DEF Minds, Queues
    <3>2. InputListened(t)
      BY <2>2 DEF Minds, InputListened
    <3> QED BY <3>1, <3>2
  <2>4. \A d \in Slots \ {i} : s.conn[d] # f
    <3>1. f # 0 /\ 0 \notin Slots
      BY MAXCLIENTSAssumption DEF Fds, Slots
    <3> QED BY <3>1 DEF Tables, Masks, Connected
  <2>5. Noticed(t)
    <3> SUFFICES ASSUME NEW d \in Connected(t), t.buf[d] > 0
                 PROVE  \/ t.conn[d] \in Where(t, d)
                        \/ d \in t.asleep \cup t.waiters /\ t.conn[d] \in t.ignored
      BY DEF Noticed
    <3>1. d \in Slots /\ d # i
      BY <2>1, <2>2 DEF Connected, Minds, Queues
    <3>2. /\ t.conn[d] = s.conn[d] /\ t.buf[d] = s.buf[d] /\ s.conn[d] # f
          /\ d \in Connected(s)
      BY <2>1, <2>2, <2>4, <3>1 DEF Connected, Minds, Queues
    <3>3. \/ s.conn[d] \in Where(s, d)
          \/ d \in s.asleep \cup s.waiters /\ s.conn[d] \in s.ignored
      BY <3>2 DEF Minds, Noticed
    <3> QED BY <2>2, <3>2, <3>3 DEF Where, HeardIn
  <2> QED BY <2>3, <2>5 DEF Minds, t
<1> QED BY <1>1, <1>2

LEMMA WakeupMinds ==
  ASSUME NEW s, Tables(s), Minds(s), NEW c \in Slots, s.conn[c] # 0
  PROVE  Minds(AttendClient([s EXCEPT !.asleep = @ \ {c}], c))
<1> DEFINE w == [s EXCEPT !.asleep = @ \ {c}]
<1>1. /\ DOMAIN w = Fields /\ w.conn = s.conn /\ w.buf = s.buf /\ w.sock = s.sock
      /\ SameMasks(w, s) /\ w.ignored = s.ignored /\ w.grabState = s.grabState
      /\ w.asleep = s.asleep \ {c} /\ w.waiters = s.waiters
  BY DEF Tables, Table, TableBut, Fields, SameMasks
<1>2. s.asleep \cup s.waiters \subseteq w.asleep \cup w.waiters \cup {c}
  BY <1>1
<1> HIDE DEF w
<1>3. Minds(AttendClient(w, c))
  BY <1>1, <1>2, AttendMinds
<1> QED BY <1>3 DEF w

\* Of a client that is on its way to sleep, or waits for the server, and has
\* been listened to.
LEMMA IgnoreMinds ==
  ASSUME NEW s, Tables(s), Minds(s), NEW c \in s.asleep \cup s.waiters,
         s.conn[c] \in s.all, s.buf[c] > 0 => s.conn[c] \in s.input
  PROVE  LET t == IgnoreClient(s, c)
         IN  /\ Minds(t) /\ NobodyDropped(t, s, {c}) /\ t.turn = "over"
<1> DEFINE t == IgnoreClient(s, c)
           f == s.conn[c]
<1>1. DOMAIN s = Fields /\ c \in Slots /\ s.conn[c] # 0
  BY DEF Tables, Table, TableBut, Connected
<1>2. /\ t.conn = s.conn /\ t.grabbed = s.grabbed /\ t.impervious = s.impervious
      /\ t.waiters = s.waiters /\ t.asleep = s.asleep /\ t.buf = s.buf /\ t.sock = s.sock
      /\ t.grabState = s.grabState /\ t.turn = "over"
      /\ t.all = s.all \ {f} /\ t.input = s.input \ {f}
      /\ t.saved = s.saved /\ t.savedInput = s.savedInput
      /\ t.ignored = IF f \in s.input THEN s.ignored \cup {f} ELSE s.ignored \ {f}
  BY <1>1 DEF IgnoreClient, Keep, Fields
<1>3. \A d \in Slots \ {c} : s.conn[d] # 0 => s.conn[d] # f
  BY <1>1 DEF Tables, Masks, Connected
<1> HIDE DEF t
<1>4. Queues(t) /\ InputListened(t)
  BY <1>2 DEF Minds, Queues, InputListened
<1>5. Noticed(t)
  <2> SUFFICES ASSUME NEW d \in Connected(t), t.buf[d] > 0
               PROVE  \/ t.conn[d] \in Where(t, d)
                      \/ d \in t.asleep \cup t.waiters /\ t.conn[d] \in t.ignored
    BY DEF Noticed
  <2>1. CASE d = c
    BY <1>2, <2>1
  <2>2. CASE d # c
    <3>1. d \in Connected(s) /\ s.conn[d] # f
      BY <1>2, <1>3, <2>2 DEF Connected
    <3>2. \/ s.conn[d] \in Where(s, d)
          \/ d \in s.asleep \cup s.waiters /\ s.conn[d] \in s.ignored
      BY <1>2, <3>1 DEF Minds, Noticed
    <3> QED BY <1>2, <3>1, <3>2 DEF Where, HeardIn
  <2> QED BY <2>1, <2>2
<1>6. NobodyDropped(t, s, {c})
  BY <1>2, <1>3 DEF NobodyDropped, Listened
<1> QED BY <1>2, <1>4, <1>5, <1>6 DEF Minds, t

LEMMA SleepMinds ==
  ASSUME NEW s, Tables(s), Minds(s), NEW c \in Slots, s.conn[c] # 0,
         s.conn[c] \in s.all, s.buf[c] > 0 => s.conn[c] \in s.input
  PROVE  LET t == IgnoreClient([s EXCEPT !.asleep = @ \cup {c}], c)
         IN  Minds(t) /\ NobodyDropped(t, s, {c}) /\ t.turn = "over"
<1> DEFINE w == [s EXCEPT !.asleep = @ \cup {c}]
           t == IgnoreClient(w, c)
<1>1. /\ DOMAIN w = Fields
      /\ w.state = s.state /\ w.mode = s.mode /\ w.conn = s.conn
      /\ w.failed = s.failed /\ w.eof = s.eof /\ w.waiters = s.waiters
      /\ w.asleep = s.asleep \cup {c}
      /\ w.nextFree = s.nextFree /\ w.currentMax = s.currentMax /\ w.nClients = s.nClients
      /\ SameMasks(w, s) /\ SameGrab(w, s)
      /\ w.buf = s.buf /\ w.sock = s.sock /\ w.ignored = s.ignored
  BY DEF Tables, Table, TableBut, Fields, SameMasks, SameGrab
<1> HIDE DEF w
<1>2. Running(w) = Running(s) /\ Connected(w) = Connected(s) /\ c \in Connected(s)
  BY <1>1 DEF Running, Connected
<1>3. Tables(w)
  <2>1. Masks(w) /\ Grab(w)
    BY <1>1, SameMasksKeeps DEF Tables
  <2>2. Table(w)
    BY <1>1, <1>2 DEF Tables, Table, TableBut
  <2> QED BY <2>1, <2>2 DEF Tables
<1>4. Minds(w)
  BY <1>1, <1>2 DEF Minds, Queues, InputListened, Noticed, Where, HeardIn, SameMasks
<1>5. w.conn[c] \in w.all /\ (w.buf[c] > 0 => w.conn[c] \in w.input) /\ c \in w.asleep
  BY <1>1 DEF SameMasks
<1>6. Minds(t) /\ NobodyDropped(t, w, {c}) /\ t.turn = "over"
  BY <1>3, <1>4, <1>5, IgnoreMinds
<1> HIDE DEF t
<1>7. NobodyDropped(t, s, {c})
  BY <1>1, <1>6 DEF NobodyDropped, Listened, SameMasks, SameGrab
<1> QED BY <1>6, <1>7 DEF t, w

LEMMA AwaitMinds ==
  ASSUME NEW s, Tables(s), Minds(s), NEW c \in Slots, s.conn[c] # 0,
         s.conn[c] \in s.all, HeardIn(s, c)
  PROVE  LET t == IgnoreClient([ResetCurrentRequest(s, c) EXCEPT !.waiters = @ \cup {c}], c)
         IN  Minds(t) /\ NobodyDropped(t, s, {c}) /\ t.turn = "over"
<1> DEFINE r == ResetCurrentRequest(s, c)
           w == [r EXCEPT !.waiters = @ \cup {c}]
           t == IgnoreClient(w, c)
           f == s.conn[c]
<1>1. /\ SameTable(r, s) /\ SameGrab(r, s)
      /\ r.trans = s.trans /\ r.impervious = s.impervious /\ r.grabbed = s.grabbed
      /\ r.all = s.all /\ r.saved = s.saved /\ r.savedInput = s.savedInput
      /\ r.input = s.input \cup {f} /\ r.ignored = s.ignored
      /\ r.buf = [s.buf EXCEPT ![c] = @ + 1] /\ r.sock = s.sock
  BY DEF Tables, Table, TableBut, Fields, SameTable, SameGrab, ResetCurrentRequest
<1> HIDE DEF r
<1>2. /\ DOMAIN w = Fields
      /\ w.state = r.state /\ w.mode = r.mode /\ w.conn = r.conn
      /\ w.failed = r.failed /\ w.eof = r.eof /\ w.asleep = r.asleep
      /\ w.waiters = r.waiters \cup {c}
      /\ w.nextFree = r.nextFree /\ w.currentMax = r.currentMax /\ w.nClients = r.nClients
      /\ SameMasks(w, r) /\ SameGrab(w, r)
      /\ w.buf = r.buf /\ w.sock = r.sock /\ w.ignored = r.ignored
  BY <1>1 DEF Fields, SameTable, SameMasks, SameGrab
<1> HIDE DEF w
<1>3. /\ Running(w) = Running(s) /\ Connected(w) = Connected(s) /\ c \in Connected(s)
      /\ s.all \subseteq Live(s)
  BY <1>1, <1>2 DEF Running, Connected, SameTable, Tables, Masks
<1>4. Tables(w)
  <2>1. Table(w)
    BY <1>1, <1>2, <1>3 DEF Tables, Table, TableBut, SameTable
  <2>2. Masks(w) /\ Grab(w)
    BY <1>1, <1>2, <1>3 DEF Tables, SameTable, SameGrab, SameMasks, Masks, Grab, Live, Connected
  <2> QED BY <2>1, <2>2 DEF Tables
<1>5. Minds(w)
  <2>1. Queues(w)
    BY <1>1, <1>2 DEF Minds, Queues
  <2>2. InputListened(w)
    BY <1>1, <1>2 DEF Minds, InputListened, SameMasks
  <2>3. Noticed(w)
    <3> SUFFICES ASSUME NEW d \in Connected(s), w.buf[d] > 0
                 PROVE  \/ w.conn[d] \in Where(w, d)
                        \/ d \in w.asleep \cup w.waiters /\ w.conn[d] \in w.ignored
      BY <1>3 DEF Noticed
    <3>1. /\ w.conn = s.conn /\ w.input = s.input \cup {f} /\ w.savedInput = s.savedInput
          /\ w.ignored = s.ignored /\ w.asleep = s.asleep /\ s.waiters \subseteq w.waiters
          /\ HeardIn(w, d) <=> HeardIn(s, d)
      BY <1>1, <1>2 DEF SameMasks, SameTable, HeardIn
    <3>2. CASE d = c
      BY <3>1, <3>2 DEF Where
    <3>3. CASE d # c
      <4>1. d \in Slots /\ w.buf[d] = s.buf[d]
        BY <1>1, <1>2, <3>3 DEF Minds, Queues, Connected
      <4>2. \/ s.conn[d] \in Where(s, d)
            \/ d \in s.asleep \cup s.waiters /\ s.conn[d] \in s.ignored
        BY <4>1 DEF Minds, Noticed
      <4> QED BY <3>1, <4>2 DEF Where
    <3> QED BY <3>2, <3>3
  <2> QED BY <2>1, <2>2, <2>3 DEF Minds
<1>6. w.conn[c] \in w.all /\ w.conn[c] \in w.input /\ c \in w.waiters
  BY <1>1, <1>2 DEF SameMasks, SameTable
<1>7. Minds(t) /\ NobodyDropped(t, w, {c}) /\ t.turn = "over"
  BY <1>4, <1>5, <1>6, IgnoreMinds
<1> HIDE DEF t
<1>8. NobodyDropped(t, s, {c})
  BY <1>1, <1>2, <1>7 DEF NobodyDropped, Listened, SameMasks, SameGrab, SameTable
<1> QED BY <1>7, <1>8 DEF t, w, r

LEMMA GrabMinds ==
  ASSUME NEW s, Tables(s), Minds(s), RoundListened(s), Serving(s), s.conn[s.cur] \in s.all,
         s.grabState = "None" \/ s.grabClient = s.cur
  PROVE  LET t == [OnlyListenToOneClient(s, s.cur) EXCEPT !.grabState = "Kickout",
                                                          !.grabClient = s.cur]
         IN  Minds(t) /\ RoundListened(t)
<1> DEFINE c == s.cur
           f == s.conn[c]
           t == [OnlyListenToOneClient(s, c) EXCEPT !.grabState = "Kickout", !.grabClient = c]
<1>1. DOMAIN s = Fields /\ c \in Slots /\ c # 0 /\ s.phase = "serve"
  BY MAXCLIENTSAssumption DEF Tables, Table, TableBut, Serving, Slots
<1>2. /\ t.conn = s.conn /\ t.impervious = s.impervious
      /\ t.waiters = s.waiters /\ t.asleep = s.asleep /\ t.ignored = s.ignored
      /\ t.buf = s.buf /\ t.sock = s.sock
      /\ t.ready = s.ready /\ t.cur = c /\ t.phase = s.phase /\ t.grabState = "Kickout"
      /\ s.grabbed # 0 => /\ t.all = s.all /\ t.input = s.input /\ t.saved = s.saved
                          /\ t.savedInput = s.savedInput /\ t.grabbed = s.grabbed
      /\ s.grabbed = 0 => /\ t.all = (s.all \cap s.impervious) \cup {f}
                          /\ t.input = s.input \cap (s.impervious \cup {f})
                          /\ t.savedInput = s.input \ (s.impervious \cup {f})
                          /\ t.saved = s.all /\ t.grabbed = c
  BY <1>1 DEF OnlyListenToOneClient, Fields
<1> HIDE DEF t
<1>3. Queues(t) /\ InputListened(t)
  BY <1>2 DEF Minds, Queues, InputListened
<1>4. Noticed(t)
  <2>1. CASE s.grabbed # 0
    BY <1>2, <2>1 DEF Minds, Noticed, Where, HeardIn, Connected
  <2>2. CASE s.grabbed = 0
    <3> SUFFICES ASSUME NEW d \in Connected(t), t.buf[d] > 0
                 PROVE  \/ t.conn[d] \in Where(t, d)
                        \/ d \in t.asleep \cup t.waiters /\ t.conn[d] \in t.ignored
      BY DEF Noticed
    <3>1. /\ d \in Slots /\ d # 0
          /\ \/ s.conn[d] \in s.input
             \/ d \in s.asleep \cup s.waiters /\ s.conn[d] \in s.ignored
      BY <1>1, <1>2, <2>2, MAXCLIENTSAssumption
         DEF Minds, Noticed, Where, HeardIn, Connected, Slots
    <3>2. d # c => s.conn[d] # f
      BY <1>1, <1>2, <3>1 DEF Tables, Masks, Connected, Serving
    <3> QED BY <1>1, <1>2, <2>2, <3>1, <3>2 DEF Where, HeardIn
  <2> QED BY <2>1, <2>2
<1>5. RoundListened(t)
  <2>1. f \in t.all
    BY <1>2
  <2>2. ASSUME NEW d \in s.ready, s.conn[d] # 0
        PROVE  s.conn[d] \in t.all \cup t.saved
    <3>1. s.conn[d] \in Listened(s)
      BY <1>1, <2>2 DEF RoundListened
    <3>2. CASE s.grabbed = 0
      BY <1>2, <3>1, <3>2 DEF Listened, Tables, Masks
    <3>3. CASE s.grabbed # 0
      BY <1>2, <3>1, <3>3 DEF Listened
    <3> QED BY <3>2, <3>3
  <2> QED BY <1>2, <2>1, <2>2 DEF RoundListened, Listened
<1> QED BY <1>3, <1>4, <1>5 DEF Minds, t, c

LEMMA ImperviousMinds ==
  ASSUME NEW s, Tables(s), Minds(s), RoundListened(s), Serving(s), HeardIn(s, s.cur)
  PROVE  LET t == MakeClientGrabImpervious(s, s.cur)
         IN  Minds(t) /\ RoundListened(t)
<1> DEFINE c == s.cur
           f == s.conn[c]
           t == MakeClientGrabImpervious(s, c)
<1>1. /\ DOMAIN s = Fields /\ c \in Slots /\ f # 0
      /\ \A d \in Slots \ {c} : s.conn[d] # 0 => s.conn[d] # f
  BY DEF Tables, Table, TableBut, Masks, Connected, Serving
<1>2. /\ t.conn = s.conn /\ t.grabbed = s.grabbed /\ t.impervious = s.impervious \cup {f}
      /\ t.all = s.all /\ t.input = s.input /\ t.saved = s.saved
      /\ t.savedInput = s.savedInput /\ t.ignored = s.ignored
      /\ t.asleep = s.asleep /\ t.waiters = s.waiters /\ t.buf = s.buf /\ t.sock = s.sock
      /\ t.ready = s.ready /\ t.cur = c /\ t.phase = s.phase /\ t.grabState = s.grabState
      /\ t.turn = s.turn
  BY <1>1 DEF MakeClientGrabImpervious, Fields
<1> HIDE DEF t, c
<1>3. \A d \in Connected(s) : HeardIn(t, d) <=> HeardIn(s, d)
  BY <1>1, <1>2 DEF HeardIn, Connected, c
<1>4. Minds(t)
  BY <1>2, <1>3 DEF Minds, Queues, InputListened, Noticed, Where, Connected
<1>5. RoundListened(t)
  BY <1>2 DEF RoundListened, Listened, c
<1> QED BY <1>4, <1>5 DEF t, c

LEMMA ReadMinds ==
  ASSUME NEW s, Tables(s), Minds(s), RoundListened(s), Serving(s), s.turn # "over",
         HeardIn(s, s.cur), s.buf[s.cur] > 0 \/ s.sock[s.cur] > 0
  PROVE  LET t == ReadRequestFromClient(s)
         IN  /\ Minds(t) /\ RoundListened(t)
             /\ t.conn[t.cur] \in t.all
             /\ t.buf[t.cur] > 0 => t.conn[t.cur] \in t.input
<1> DEFINE c == s.cur
           f == s.conn[c]
           t == ReadRequestFromClient(s)
           got == IF s.buf[c] > 0 THEN s.buf[c] ELSE s.sock[c]
<1>1. /\ t.conn = s.conn /\ t.grabbed = s.grabbed /\ t.impervious = s.impervious
      /\ t.all = s.all /\ t.saved = s.saved /\ t.savedInput = s.savedInput
      /\ t.asleep = s.asleep /\ t.waiters = s.waiters /\ t.ignored = s.ignored
      /\ t.input = IF got > 1 THEN s.input \cup {f} ELSE s.input \ {f}
      /\ t.buf = [s.buf EXCEPT ![c] = got - 1]
      /\ t.sock = [s.sock EXCEPT ![c] = IF s.buf[c] > 0 THEN @ ELSE 0]
      /\ t.ready = s.ready /\ t.cur = c /\ t.phase = s.phase /\ t.grabState = s.grabState
  BY DEF Tables, Table, TableBut, Fields, ReadRequestFromClient, Keep
<1> HIDE DEF t
<1>2. /\ c \in Slots /\ c # 0 /\ f # 0 /\ f \in s.all
      /\ \A d \in Slots \ {c} : s.conn[d] # 0 => s.conn[d] # f
  BY MAXCLIENTSAssumption DEF RoundListened, Serving, Slots, Tables, Masks, Connected
<1>3. got \in Nat /\ got > 0
  BY <1>2 DEF Minds, Queues
<1> HIDE DEF got, c
<1>4. Queues(t)
  BY <1>1, <1>2, <1>3 DEF Minds, Queues
<1>5. InputListened(t)
  BY <1>1, <1>2 DEF Minds, InputListened
<1>6. t.buf[c] > 0 => f \in t.input
  BY <1>1, <1>2, <1>3 DEF Minds, Queues
<1>7. Noticed(t)
  <2> SUFFICES ASSUME NEW d \in Connected(t), t.buf[d] > 0
               PROVE  \/ t.conn[d] \in Where(t, d)
                      \/ d \in t.asleep \cup t.waiters /\ t.conn[d] \in t.ignored
    BY DEF Noticed
  <2>1. HeardIn(t, d) <=> HeardIn(s, d)
    BY <1>1 DEF HeardIn
  <2>2. CASE d = c
    BY <1>1, <1>6, <2>1, <2>2 DEF Where, c
  <2>3. CASE d # c
    <3>1. d \in Connected(s) /\ d \in Slots /\ s.conn[d] # f /\ t.buf[d] = s.buf[d]
      BY <1>1, <1>2, <2>3 DEF Connected, Minds, Queues
    <3>2. \/ s.conn[d] \in Where(s, d)
          \/ d \in s.asleep \cup s.waiters /\ s.conn[d] \in s.ignored
      BY <3>1 DEF Minds, Noticed
    <3> QED BY <1>1, <2>1, <3>1, <3>2 DEF Where
  <2> QED BY <2>2, <2>3
<1>8. RoundListened(t)
  BY <1>1, <1>2 DEF RoundListened, Listened
<1> QED BY <1>1, <1>2, <1>4, <1>5, <1>6, <1>7, <1>8 DEF Minds, t, c

LEMMA FinishMinds ==
  ASSUME NEW s, Tables(s), Minds(s), RoundHeard(s), RoundListened(s), Serving(s),
         Shut(s), Simple(s)
  PROVE  Minds(Finish(s)) /\ RoundListened(Finish(s))
<1>1. CASE s.cur \notin s.failed
  BY <1>1 DEF Finish
<1>2. CASE s.cur \in s.failed
  <2> DEFINE t == CloseDownClient(s, s.cur)
             u == [t EXCEPT !.cur = 0]
  <2>1. s.state[s.cur] # "None"
    BY LiveConnection DEF Serving
  <2>2. /\ Tables(t) /\ Minds(t) /\ NobodyDropped(t, s, {}) /\ NobodyShutOut(t, s)
    BY <2>1, CloseDownKeeps, CloseDownMinds, CloseDownGood DEF Serving
  <2> HIDE DEF t
  <2>3. RoundListened(t)
    BY <2>2, RoundMinds DEF NobodyShutOut
  <2>4. /\ KeptInput(u, t) /\ u.ready = t.ready /\ u.cur = 0 /\ u.phase = t.phase
        /\ u.grabState = t.grabState
    BY <2>2 DEF Tables, Table, TableBut, Fields, KeptInput, KeptMasks, SameMasks
  <2>5. Finish(s) = u
    BY <1>2 DEF Finish, t
  <2> HIDE DEF u
  <2>6. Minds(u)
    BY <2>2, <2>4, KeptMinds
  <2>7. RoundListened(u)
    BY <2>3, <2>4 DEF RoundListened, Listened, KeptInput, KeptMasks, SameMasks
  <2> QED BY <2>5, <2>6, <2>7
<1> QED BY <1>1, <1>2

-----------------------------------------------------------------------------
\* The actions, once more.

LEMMA ElsewhereMinds ==
  ASSUME NEW s, NEW t, Minds(s), KeptInput(t, s), t.phase # "serve"
  PROVE  Minds(t) /\ RoundListened(t)
BY KeptMinds DEF RoundListened

LEMMA PeerMinds ==
  ASSUME MindInv, Peer
  PROVE  Minds(srv') /\ RoundListened(srv')
<1>0. DOMAIN srv = Fields /\ Minds(srv) /\ RoundListened(srv) /\ 0 \notin Slots
  BY MAXCLIENTSAssumption DEF MindInv, HeedInv, Inv, Tables, Table, TableBut, Slots
<1>1. /\ KeptMasks(srv', srv) /\ srv'.buf = srv.buf /\ srv'.ignored = srv.ignored
      /\ srv'.sock \in [Slots -> Nat]
      /\ srv'.ready = srv.ready /\ srv'.cur = srv.cur /\ srv'.phase = srv.phase
      /\ srv'.grabState = srv.grabState /\ srv'.turn \in {srv.turn, "over"}
  <2>1. CASE Hangup
    BY <1>0, <2>1 DEF Hangup, Fields, KeptMasks, SameMasks, Minds, Queues
  <2>2. CASE Connect
    BY <1>0, <2>2 DEF Connect, Fields, KeptMasks, SameMasks, Minds, Queues
  <2>3. ASSUME NEW c \in Slots, Send(c)
        PROVE  /\ KeptMasks(srv', srv) /\ srv'.buf = srv.buf /\ srv'.ignored = srv.ignored
               /\ srv'.sock \in [Slots -> Nat]
               /\ srv'.ready = srv.ready /\ srv'.cur = srv.cur /\ srv'.phase = srv.phase
               /\ srv'.grabState = srv.grabState /\ srv'.turn = srv.turn
    BY <1>0, <2>3 DEF Send, Fields, KeptMasks, SameMasks, Minds, Queues
  <2>4. ASSUME NEW c \in Slots, Close(c) \/ WriteFails(c)
        PROVE  /\ KeptMasks(srv', srv) /\ srv'.buf = srv.buf /\ srv'.ignored = srv.ignored
               /\ srv'.sock \in [Slots -> Nat]
               /\ srv'.ready = srv.ready /\ srv'.cur = srv.cur /\ srv'.phase = srv.phase
               /\ srv'.grabState = srv.grabState /\ srv'.turn = srv.turn
    BY <1>0, <2>4 DEF Close, WriteFails, Fields, KeptMasks, SameMasks, Minds, Queues
  <2> QED BY <2>1, <2>2, <2>3, <2>4 DEF Peer
<1>2. Minds(srv')
  BY <1>0, <1>1 DEF KeptMasks, SameMasks, Minds, Queues, InputListened, Noticed, Where, HeardIn,
                    Connected
<1>3. RoundListened(srv')
  BY <1>0, <1>1 DEF RoundListened, Listened, KeptMasks, SameMasks
<1> QED BY <1>2, <1>3

LEMMA ServeMinds ==
  ASSUME MindInv, Serve
  PROVE  Minds(srv') /\ RoundListened(srv')
<1>1. /\ DOMAIN srv = Fields /\ Minds(srv) /\ srv.cur = 0 /\ Masks(srv)
  BY DEF MindInv, HeedInv, Inv, Loops, Tables, Table, TableBut, Serve, Waiting
<1> DEFINE live == {c \in Connected(srv) : srv.sock[c] > 0 \/ c \in srv.eof}
           readable == IF srv.dumb /\ srv.input # {} THEN srv.input
                       ELSE (FdsOf(live) \cup srv.input) \cap srv.all
           clients == HighestPriority({srv.trans[f] : f \in readable}, srv)
<1>2. readable \subseteq srv.all
  BY <1>1 DEF Minds, InputListened
<1>3. \E Q \in IF srv.dumb THEN {clients} ELSE {{c} : c \in clients} :
        srv' = [srv EXCEPT !.phase = "serve", !.ready = Q]
  BY DEF Serve
<1> HIDE DEF readable
<1>8. clients \subseteq {srv.trans[f] : f \in readable}
  BY DEF HighestPriority
<1> HIDE DEF clients
<1>4. PICK Q \in SUBSET clients : srv' = [srv EXCEPT !.phase = "serve", !.ready = Q]
  <2>1. CASE srv.dumb
    BY <1>3, <2>1
  <2>2. CASE ~srv.dumb
    BY <1>3, <2>2
  <2> QED BY <2>1, <2>2
<1>5. /\ KeptInput(srv', srv)
      /\ srv'.ready = Q /\ srv'.cur = 0 /\ srv'.phase = "serve"
      /\ srv'.grabState = srv.grabState
  BY <1>1, <1>4 DEF Fields, KeptInput, KeptMasks, SameMasks
<1>6. ASSUME NEW c \in Q
      PROVE  srv.conn[c] \in srv.all
  <2>1. PICK f \in readable : c = srv.trans[f]
    BY <1>4, <1>8
  <2>2. f \in Live(srv) /\ srv.conn[srv.trans[f]] = f
    BY <1>1, <1>2 DEF Masks, Live
  <2> QED BY <1>2, <2>1, <2>2
<1>7. RoundListened(srv')
  BY <1>5, <1>6 DEF RoundListened, Listened, KeptInput, KeptMasks, SameMasks
<1> QED BY <1>1, <1>5, <1>7, KeptMinds

LEMMA WaitMinds ==
  ASSUME MindInv, Wait
  PROVE  Minds(srv') /\ RoundListened(srv')
<1>0. /\ DOMAIN srv = Fields /\ srv.currentMax \in 1 .. MAXCLIENTS
      /\ Tables(srv) /\ Loops(srv) /\ Minds(srv)
  BY DEF MindInv, HeedInv, Inv, Tables, Table, TableBut
<1>1. CASE KillStragglers
  <2>1. KeptInput(srv', srv) /\ srv'.phase = "stragglers"
    BY <1>0, <1>1 DEF KillStragglers, Fields, KeptInput, KeptMasks, SameMasks
  <2> QED BY <1>0, <2>1, ElsewhereMinds
<1>2. ASSUME NEW late \in BOOLEAN, Straggler(late) PROVE Minds(srv') /\ RoundListened(srv')
  <2> DEFINE i == srv.at
             t == IF late \/ i \in srv.failed THEN CloseDownClient(srv, i) ELSE srv
  <2>1. /\ srv' = [t EXCEPT !.at = i + 1] /\ srv.phase = "stragglers" /\ i < srv.currentMax
        /\ late => srv.state[i] = "Initial"
    BY <1>2 DEF Straggler
  <2>2. i \in Slots
    BY <1>0, <2>1, MAXCLIENTSAssumption DEF Loops, Slots
  <2>3. Minds(t) /\ DOMAIN t = Fields /\ t.phase = "stragglers"
    <3>1. CASE late \/ i \in srv.failed
      <4>1. srv.state[i] # "None"
        BY <1>0, <2>1, <3>1, LiveConnection DEF Tables, Table, TableBut, Connected
      <4>2. /\ Tables(CloseDownClient(srv, i)) /\ SameLoop(CloseDownClient(srv, i), srv)
            /\ Minds(CloseDownClient(srv, i))
        BY <1>0, <2>2, <4>1, CloseDownKeeps, CloseDownMinds
      <4> QED BY <2>1, <3>1, <4>2 DEF Tables, Table, TableBut, SameLoop
    <3>2. CASE ~ (late \/ i \in srv.failed)
      BY <1>0, <2>1, <3>2
    <3> QED BY <3>1, <3>2
  <2> HIDE DEF t
  <2>4. KeptInput(srv', t) /\ srv'.phase = "stragglers"
    BY <2>1, <2>3 DEF Fields, KeptInput, KeptMasks, SameMasks
  <2> QED BY <2>3, <2>4, ElsewhereMinds
<1>3. CASE EstablishNewConnections
  <2> DEFINE f == Min((Fds \cup {MAXCLIENTS}) \ FdsOf(Connected(srv) \ srv.failed))
             t == [srv EXCEPT !.phase = "wait", !.at = 0, !.calling = FALSE]
             u == IF t.trans[f] = 0 THEN t ELSE CloseDownClient(t, t.trans[f])
  <2>1. srv' = IF f \notin Fds THEN t ELSE AllocNewConnection(u, f)
    BY <1>3 DEF EstablishNewConnections
  <2>2. /\ SameTable(t, srv) /\ SameMasks(t, srv) /\ SameGrab(t, srv)
        /\ KeptInput(t, srv) /\ t.phase = "wait"
    BY <1>0 DEF Fields, SameTable, SameMasks, SameGrab, KeptInput, KeptMasks
  <2> HIDE DEF f, t
  <2>3. Tables(t) /\ Minds(t)
    BY <1>0, <2>2, SameAll, KeptMinds
  <2>4. CASE f \notin Fds
    BY <2>1, <2>2, <2>3, <2>4 DEF RoundListened
  <2>5. CASE f \in Fds
    <3>1. /\ Tables(u) /\ SameLoop(u, t) /\ u.trans[f] = 0
          /\ t.trans[f] # 0 => t.trans[f] \in Slots /\ t.state[t.trans[f]] # "None"
      BY <2>3, <2>5, DescriptorIsFree
    <3>2. Minds(u)
      BY <2>3, <3>1, CloseDownMinds
    <3> HIDE DEF u
    <3>3. Minds(srv') /\ SameLoop(srv', u)
      BY <2>1, <2>5, <3>1, <3>2, AllocKeeps, AllocMinds
    <3> QED BY <2>2, <3>1, <3>3 DEF RoundListened, SameLoop
  <2> QED BY <2>4, <2>5
<1>4. CASE Serve
  BY <1>4, ServeMinds
<1>5. ASSUME NEW c \in Slots, ClientWakeup(c) PROVE Minds(srv') /\ RoundListened(srv')
  <2>1. srv.conn[c] # 0
    BY <1>0, <1>5 DEF ClientWakeup, Tables, Table, TableBut, Connected
  <2>2. Minds(srv') /\ SameLoop(srv', srv) /\ srv.phase = "wait"
    BY <1>0, <1>5, <2>1, WakeupKeeps, WakeupMinds DEF ClientWakeup
  <2> QED BY <2>2 DEF RoundListened, SameLoop
<1>6. ASSUME NEW c \in Slots, CheckConnections(c) PROVE Minds(srv') /\ RoundListened(srv')
  <2>1. srv.state[c] # "None"
    BY <1>0, <1>6, LiveConnection DEF CheckConnections, Tables, Table, TableBut, Connected
  <2>2. Minds(srv') /\ SameLoop(srv', srv) /\ srv.phase = "wait"
    BY <1>0, <1>6, <2>1, CloseDownKeeps, CloseDownMinds DEF CheckConnections, Selects, Waiting
  <2> QED BY <2>2 DEF RoundListened, SameLoop
<1> QED BY <1>1, <1>2, <1>3, <1>4, <1>5, <1>6 DEF Wait

LEMMA RoundStepMinds ==
  ASSUME MindInv, (\E c \in Slots : NextClient(c)) \/ EndRound \/ EndTurn \/ NoRequest
  PROVE  Minds(srv') /\ RoundListened(srv')
<1>0. /\ DOMAIN srv = Fields
      /\ srv.state \in [Slots -> {"None", "Initial", "Running", "Retained"}]
      /\ Tables(srv) /\ Loops(srv) /\ Minds(srv) /\ RoundListened(srv)
      /\ Shut(srv) /\ Simple(srv) /\ RoundHeard(srv)
      /\ 0 \notin Slots
  BY MAXCLIENTSAssumption DEF MindInv, HeedInv, Heeds, Inv, Tables, Table, TableBut, Slots
<1>1. ASSUME NEW t, KeptInput(t, srv), srv.phase = "serve", t.phase = "serve", t.cur = 0,
             t.ready \subseteq srv.ready, t.grabState = srv.grabState \/ t.ready = {}
      PROVE  Minds(t) /\ RoundListened(t)
  <2>1. RoundListened(t)
    BY <1>0, <1>1 DEF RoundListened, Listened, KeptInput, KeptMasks, SameMasks
  <2> QED BY <1>0, <1>1, <2>1, KeptMinds
<1>2. ASSUME NEW c \in Slots, NextClient(c) PROVE Minds(srv') /\ RoundListened(srv')
  <2> DEFINE t == [srv EXCEPT !.ready = @ \ {c}]
  <2>1. srv.phase = "serve" /\ srv.cur = 0 /\ c \in srv.ready
    BY <1>2 DEF NextClient
  <2>2. /\ KeptInput(t, srv) /\ t.phase = "serve" /\ t.cur = 0
        /\ t.ready = srv.ready \ {c} /\ t.grabState = srv.grabState /\ DOMAIN t = Fields
    BY <1>0, <2>1 DEF Fields, KeptInput, KeptMasks, SameMasks
  <2>3. CASE srv.state[c] = "None"
    <3>1. srv' = t
      BY <1>2, <2>3 DEF NextClient
    <3> QED BY <1>1, <2>1, <2>2, <3>1
  <2>4. CASE srv.state[c] # "None" /\ srv.grabState = "Kickout"
    <3>1. srv' = [srv EXCEPT !.grabState = "Active", !.ready = {}]
      BY <1>2, <2>4 DEF NextClient
    <3>2. /\ KeptInput(srv', srv) /\ srv'.phase = "serve" /\ srv'.cur = 0
          /\ srv'.ready = {}
      BY <1>0, <2>1, <3>1 DEF Fields, KeptInput, KeptMasks, SameMasks
    <3> QED BY <1>1, <2>1, <3>2
  <2>5. CASE srv.state[c] = "Retained" /\ srv.grabState # "Kickout"
    <3>1. srv' = [t EXCEPT !.phase = "crashed"]
      BY <1>2, <2>5 DEF NextClient
    <3> HIDE DEF t
    <3>2. KeptInput(srv', srv) /\ srv'.phase = "crashed"
      BY <2>2, <3>1 DEF Fields, KeptInput, KeptMasks, SameMasks
    <3> QED BY <1>0, <3>2, ElsewhereMinds
  <2>6. CASE srv.state[c] \in {"Initial", "Running"} /\ srv.grabState # "Kickout"
    <3>1. srv' = [t EXCEPT !.cur = c, !.turn = "new"]
      BY <1>2, <2>6 DEF NextClient
    <3> HIDE DEF t
    <3>2. /\ KeptInput(srv', srv) /\ srv'.phase = "serve" /\ srv'.cur = c
          /\ srv'.ready = srv.ready \ {c} /\ srv'.grabState = srv.grabState
      BY <2>2, <3>1 DEF Fields, KeptInput, KeptMasks, SameMasks
    <3>3. RoundListened(srv')
      BY <1>0, <2>1, <2>6, <3>2 DEF RoundListened, Listened, KeptInput, KeptMasks, SameMasks
    <3> QED BY <1>0, <3>2, <3>3, KeptMinds
  <2> QED BY <1>0, <2>3, <2>4, <2>5, <2>6
<1>3. CASE EndRound
  <2>1. KeptInput(srv', srv) /\ srv'.phase = "wait"
    BY <1>0, <1>3 DEF EndRound, Fields, KeptInput, KeptMasks, SameMasks
  <2> QED BY <1>0, <2>1, ElsewhereMinds
<1>4. CASE EndTurn
  <2>1. /\ KeptInput(srv', srv) /\ srv'.phase = "serve" /\ srv'.cur = 0
        /\ srv'.ready = srv.ready /\ srv'.grabState = srv.grabState /\ srv.phase = "serve"
    BY <1>0, <1>4 DEF EndTurn, Fields, KeptInput, KeptMasks, SameMasks
  <2> QED BY <1>1, <2>1
<1>5. CASE NoRequest
  <2>1. Serving(srv)
    BY <1>0, <1>5 DEF NoRequest, Loops, Serving
  <2>2. CASE srv.cur \in srv.eof
    <3> DEFINE t == CloseDownClient(srv, srv.cur)
    <3>1. srv.state[srv.cur] # "None"
      BY <1>0, <2>1, LiveConnection DEF Serving
    <3>2. Tables(t) /\ Minds(t) /\ NobodyDropped(t, srv, {}) /\ NobodyShutOut(t, srv)
      BY <1>0, <2>1, <3>1, CloseDownKeeps, CloseDownMinds, CloseDownGood DEF Serving
    <3>3. srv' = [t EXCEPT !.cur = 0]
      BY <1>5, <2>2 DEF NoRequest
    <3> HIDE DEF t
    <3>4. RoundListened(t)
      BY <1>0, <3>2, RoundMinds DEF NobodyShutOut
    <3>5. /\ KeptInput(srv', t) /\ srv'.ready = t.ready /\ srv'.cur = 0
          /\ srv'.phase = t.phase /\ srv'.grabState = t.grabState
      BY <3>2, <3>3 DEF Tables, Table, TableBut, Fields, KeptInput, KeptMasks, SameMasks
    <3>6. RoundListened(srv')
      BY <3>4, <3>5 DEF RoundListened, Listened, KeptInput, KeptMasks, SameMasks
    <3> QED BY <3>2, <3>5, <3>6, KeptMinds
  <2>3. CASE srv.cur \notin srv.eof
    <3> DEFINE c == srv.cur
               f == srv.conn[c]
    <3>1. /\ srv'.conn = srv.conn /\ srv'.asleep = srv.asleep /\ srv'.waiters = srv.waiters
          /\ srv'.all = srv.all /\ srv'.impervious = srv.impervious
          /\ srv'.saved = srv.saved /\ srv'.grabbed = srv.grabbed
          /\ srv'.savedInput = srv.savedInput /\ srv'.ignored = srv.ignored
          /\ srv'.buf = srv.buf /\ srv'.sock = srv.sock
          /\ srv'.input = srv.input \ {f} /\ srv.buf[c] = 0
          /\ srv'.ready = srv.ready /\ srv'.cur = 0
          /\ srv'.phase = srv.phase /\ srv'.grabState = srv.grabState
      BY <1>0, <1>5, <2>3 DEF NoRequest, Fields
    <3>2. \A d \in Slots \ {c} : srv.conn[d] # 0 => srv.conn[d] # f
      BY <1>0, <2>1 DEF Tables, Masks, Connected, Serving
    <3> HIDE DEF c
    <3>3. Minds(srv')
      BY <1>0, <3>1, <3>2 DEF Minds, Queues, InputListened, Noticed, Where, HeardIn, Connected
    <3>4. RoundListened(srv')
      BY <1>0, <3>1 DEF RoundListened, Listened
    <3> QED BY <3>3, <3>4
  <2> QED BY <2>2, <2>3
<1> QED BY <1>2, <1>3, <1>4, <1>5

LEMMA RequestMinds ==
  ASSUME MindInv, Execute, "pervious" \notin Requests
  PROVE  Minds(srv') /\ RoundListened(srv')
<1> DEFINE c == srv.cur
           s == ReadRequestFromClient(srv)
<1>0. /\ DOMAIN srv = Fields /\ Tables(srv) /\ Loops(srv) /\ Minds(srv) /\ RoundListened(srv)
      /\ Shut(srv) /\ Simple(srv) /\ RoundHeard(srv)
  BY DEF MindInv, HeedInv, Heeds, Inv, Tables, Table, TableBut
<1>1. ASSUME CanRead
      PROVE  /\ Tables(s) /\ Serving(s) /\ SameTable(s, srv) /\ s.cur = c
             /\ c \in Slots /\ c # 0 /\ s.conn[c] # 0
             /\ Shut(s) /\ Simple(s) /\ RoundHeard(s) /\ HeardIn(s, c)
             /\ Minds(s) /\ RoundListened(s) /\ s.conn[c] \in s.all
             /\ s.buf[c] > 0 => s.conn[c] \in s.input
  <2>1. Serving(srv) /\ srv.turn # "over"
    BY <1>0, <1>1 DEF CanRead, Loops, Serving
  <2>2. srv.buf[srv.cur] > 0 \/ srv.sock[srv.cur] > 0
    BY <1>1 DEF CanRead
  <2>3. HeardIn(srv, srv.cur)
    BY <1>0, <1>1, <2>1 DEF RoundHeard, Serving, CanRead
  <2>4. Tables(s) /\ Serving(s) /\ SameTable(s, srv) /\ s.cur = c
    BY <1>0, <2>1, ReadKeeps DEF SameLoop
  <2>5. Shut(s) /\ Simple(s) /\ RoundHeard(s) /\ HeardIn(s, s.cur)
    BY <1>0, <2>1, ReadGood
  <2>6. /\ Minds(s) /\ RoundListened(s) /\ s.conn[s.cur] \in s.all
        /\ s.buf[s.cur] > 0 => s.conn[s.cur] \in s.input
    BY <1>0, <2>1, <2>2, <2>3, ReadMinds
  <2>7. c # 0
    BY <1>1 DEF CanRead
  <2> QED BY <2>4, <2>5, <2>6, <2>7 DEF Serving
<1> HIDE DEF s
\* A request ends in Finish of a state t.
<1>2. ASSUME NEW t, CanRead, Tables(t), SameLoop(t, s), t.conn[c] # 0,
             Shut(t), Simple(t), RoundHeard(t), Minds(t), RoundListened(t), srv' = Finish(t)
      PROVE  Minds(srv') /\ RoundListened(srv')
  <2>1. Serving(t)
    BY <1>1, <1>2 DEF Serving, SameLoop
  <2> QED BY <1>2, <2>1, FinishMinds
<1>3. ASSUME NEW t, CanRead, Tables(t), SameLoop(t, s), t.conn = s.conn,
             Shut(t), Simple(t), NobodyShutOut(t, s),
             Minds(t), NobodyDropped(t, s, {c}), t.turn = "over" \/ NobodyDropped(t, s, {}),
             srv' = Finish(t)
      PROVE  Minds(srv') /\ RoundListened(srv')
  <2>1. RoundHeard(t) /\ t.conn[c] # 0
    BY <1>1, <1>3, RoundGood DEF Tables
  <2>2. c \notin s.ready /\ s.ready \subseteq Slots /\ s.phase = "serve"
    BY <1>1, <1>3 DEF RoundHeard, Serving
  <2>3. RoundListened(t)
    BY <1>1, <1>3, <2>2 DEF RoundListened, NobodyDropped, NobodyShutOut
  <2> QED BY <1>2, <1>3, <2>1, <2>3
<1>4. ASSUME NEW t, CanRead, Tables(t), Kept(t, s), KeptInput(t, s), srv' = Finish(t)
      PROVE  Minds(srv') /\ RoundListened(srv')
  <2>1. /\ Shut(t) /\ Simple(t) /\ NobodyShutOut(t, s) /\ Minds(t) /\ NobodyDropped(t, s, {})
    BY <1>1, <1>4, KeptGood, KeptMinds, KeptListened DEF Kept, KeptRound
  <2>2. RoundHeard(t) /\ t.conn[c] # 0 /\ Serving(t)
    BY <1>1, <1>4, <2>1, RoundGood DEF Tables, Kept, KeptMasks, KeptRound, Serving
  <2>3. RoundListened(t)
    BY <1>1, <1>4, <2>1, RoundMinds DEF NobodyShutOut
  <2> QED BY <1>4, <2>1, <2>2, <2>3, FinishMinds
<1>5. ASSUME NEW accepted \in BOOLEAN, Setup(accepted) PROVE Minds(srv') /\ RoundListened(srv')
  <2> DEFINE t == IF accepted
                  THEN [s EXCEPT !.state[c] = "Running", !.nClients = @ + 1]
                  ELSE [s EXCEPT !.failed = @ \cup {c}]
  <2>1. CanRead /\ srv.state[c] = "Initial" /\ srv' = Finish(t)
    BY <1>5 DEF Setup, s
  <2>2. /\ Tables(s) /\ c \in Slots /\ s.conn[c] # 0 /\ s.state[c] = "Initial"
        /\ DOMAIN s = Fields
    BY <1>1, <2>1 DEF SameTable
  <2> HIDE DEF c
  <2>3. Tables(t)
    BY <2>2, SetUpKeeps
  <2>4. Kept(t, s) /\ KeptInput(t, s)
    BY <2>2 DEF Kept, KeptInput, KeptMasks, KeptRound, Fields, SameMasks
  <2> HIDE DEF t
  <2> QED BY <1>4, <2>1, <2>3, <2>4
<1>6. CASE Ordinary
  <2>1. CanRead /\ srv' = Finish(s)
    BY <1>6 DEF Ordinary, Request, s
  <2>2. Kept(s, s) /\ KeptInput(s, s)
    BY DEF Kept, KeptInput, KeptMasks, KeptRound, SameMasks
  <2> QED BY <1>1, <1>4, <2>1, <2>2
<1>7. CASE ProcGrabServer
  <2> DEFINE w == IgnoreClient([ResetCurrentRequest(s, c) EXCEPT !.waiters = @ \cup {c}], c)
             g == [OnlyListenToOneClient(s, s.cur) EXCEPT !.grabState = "Kickout",
                                                          !.grabClient = s.cur]
  <2>1. /\ CanRead
        /\ srv' = Finish(IF s.grabState # "None" /\ s.grabClient # c THEN w ELSE g)
    <3>1. CanRead
      BY <1>7 DEF ProcGrabServer, Request
    <3>2. s.cur = c
      BY <1>1, <3>1
    <3> QED BY <1>7, <3>1, <3>2 DEF ProcGrabServer, s
  <2>2. /\ Tables(s) /\ Serving(s) /\ c \in Slots /\ s.conn[c] # 0 /\ s.cur = c
        /\ Shut(s) /\ Simple(s) /\ RoundHeard(s) /\ HeardIn(s, c)
        /\ Minds(s) /\ RoundListened(s) /\ s.conn[c] \in s.all
    BY <1>1, <2>1
  <2> HIDE DEF c
  <2>3. CASE s.grabState # "None" /\ s.grabClient # c
    <3>1. Tables(w) /\ SameLoop(w, s) /\ w.conn = s.conn
      BY <2>2, WaitKeeps
    <3>2. Shut(w) /\ Simple(w) /\ NobodyShutOut(w, s)
      BY <2>2, AwaitGood
    <3>3. Minds(w) /\ NobodyDropped(w, s, {c}) /\ w.turn = "over"
      BY <2>2, AwaitMinds
    <3>4. srv' = Finish(w)
      BY <2>1, <2>3
    <3> HIDE DEF w
    <3> QED BY <1>3, <2>1, <3>1, <3>2, <3>3, <3>4
  <2>4. CASE ~ (s.grabState # "None" /\ s.grabClient # c)
    <3>1. s.grabState = "None" \/ s.grabClient = s.cur
      BY <2>2, <2>4
    <3>2. Tables(g) /\ SameTable(g, s) /\ SameLoop(g, s)
      BY <2>2, <3>1, GrabKeeps DEF Serving
    <3>3. Shut(g) /\ Simple(g) /\ RoundHeard(g)
      BY <2>2, <3>1, GrabGood
    <3>4. Minds(g) /\ RoundListened(g)
      BY <2>2, <3>1, GrabMinds
    <3>5. srv' = Finish(g)
      BY <2>1, <2>4
    <3> HIDE DEF g
    <3>6. g.conn[c] # 0
      BY <2>2, <3>2 DEF SameTable
    <3> QED BY <1>2, <2>1, <3>2, <3>3, <3>4, <3>5, <3>6
  <2> QED BY <2>3, <2>4
<1>8. CASE ProcUngrabServer
  <2> DEFINE t == UngrabServer(s)
  <2>1. CanRead /\ srv' = Finish(t)
    BY <1>8 DEF ProcUngrabServer, Request, s
  <2>2. /\ Tables(t) /\ SameLoop(t, s) /\ t.conn = s.conn
        /\ Shut(t) /\ Simple(t) /\ NobodyShutOut(t, s)
        /\ Minds(t) /\ NobodyDropped(t, s, {})
    BY <1>1, <2>1, UngrabServerKeeps, UngrabGood, UngrabMinds
  <2> HIDE DEF t
  <2>3. NobodyDropped(t, s, {c})
    BY <2>2 DEF NobodyDropped
  <2> QED BY <1>3, <2>1, <2>2, <2>3
<1>9. ASSUME NEW m \in Modes, ProcChangeCloseDownMode(m)
      PROVE  Minds(srv') /\ RoundListened(srv')
  <2> DEFINE t == [s EXCEPT !.mode[c] = m]
  <2>1. CanRead /\ srv' = Finish(t)
    BY <1>9 DEF ProcChangeCloseDownMode, Request, s
  <2>2. Tables(s) /\ c \in Slots /\ DOMAIN s = Fields
    BY <1>1, <2>1 DEF SameTable
  <2> HIDE DEF c
  <2>3. Tables(t)
    BY <2>2, ModeKeeps
  <2>4. Kept(t, s) /\ KeptInput(t, s)
    BY <2>2 DEF Kept, KeptInput, KeptMasks, KeptRound, Fields, SameMasks
  <2> HIDE DEF t
  <2> QED BY <1>4, <2>1, <2>3, <2>4
<1>10. ASSUME NEW d \in Slots, ProcKillClient(d) PROVE Minds(srv') /\ RoundListened(srv')
  <2> DEFINE t == CloseDownClient(s, d)
             u == [t EXCEPT !.cur = 0]
  <2>1. /\ CanRead /\ srv.state[d] \in {"Running", "Retained"}
        /\ srv' = IF t.turn = "over" \/ d = c THEN u ELSE Finish(t)
    BY <1>10 DEF ProcKillClient, Request, s
  <2>2. /\ Tables(s) /\ Serving(s) /\ s.cur = c /\ c \in Slots /\ s.conn[c] # 0
        /\ Shut(s) /\ Simple(s) /\ RoundHeard(s) /\ s.state[d] # "None"
        /\ Minds(s) /\ RoundListened(s)
    BY <1>1, <2>1 DEF SameTable
  <2>3. /\ Tables(t) /\ SameLoop(t, s) /\ Shut(t) /\ Simple(t) /\ NobodyShutOut(t, s)
        /\ \A e \in Slots \ {d} : t.conn[e] = s.conn[e]
        /\ Minds(t) /\ NobodyDropped(t, s, {})
    BY <2>2, CloseDownKeeps, CloseDownGood, CloseDownMinds
  <2> HIDE DEF t
  <2>4. RoundHeard(t) /\ RoundListened(t)
    BY <2>2, <2>3, RoundGood, RoundMinds DEF Tables, NobodyShutOut
  <2>5. CASE t.turn = "over" \/ d = c
    <3>1. /\ KeptInput(u, t) /\ u.ready = t.ready /\ u.cur = 0 /\ u.phase = t.phase
          /\ u.grabState = t.grabState
      BY <2>3 DEF Tables, Table, TableBut, Fields, KeptInput, KeptMasks, SameMasks
    <3>2. RoundListened(u)
      BY <2>4, <3>1 DEF RoundListened, Listened, KeptInput, KeptMasks, SameMasks
    <3>3. srv' = u
      BY <2>1, <2>5
    <3> HIDE DEF u
    <3> QED BY <2>3, <3>1, <3>2, <3>3, KeptMinds
  <2>6. CASE ~ (t.turn = "over" \/ d = c)
    <3>1. t.conn[c] # 0 /\ srv' = Finish(t)
      BY <2>1, <2>2, <2>3, <2>6
    <3> QED BY <1>2, <2>1, <2>3, <2>4, <3>1
  <2> QED BY <2>5, <2>6
<1>11. CASE KillTemporary
  <2> DEFINE t == CloseDownRetainedResources(s)
  <2>1. CanRead /\ srv' = Finish(t)
    BY <1>11 DEF KillTemporary, Request, s
  <2>2. Tables(s) /\ Shut(s) /\ Simple(s) /\ DOMAIN s = Fields /\ Minds(s)
    BY <1>1, <2>1 DEF SameTable
  <2>3. Tables(t) /\ SameLoop(t, s) /\ t.conn = s.conn
    BY <2>2, RetainedKeeps
  <2>4. /\ Shut(t) /\ Simple(t) /\ NobodyShutOut(t, s)
        /\ Minds(t) /\ NobodyDropped(t, s, {})
    BY <2>2, FreeSlotsGood, FreeSlotsMinds DEF CloseDownRetainedResources
  <2> HIDE DEF t
  <2>5. NobodyDropped(t, s, {c})
    BY <2>4 DEF NobodyDropped
  <2> QED BY <1>3, <2>1, <2>3, <2>4, <2>5
<1>12. ASSUME NEW i \in BOOLEAN, GrabControl(i) PROVE Minds(srv') /\ RoundListened(srv')
  <2> DEFINE t == MakeClientGrabImpervious(s, s.cur)
  <2>1. CanRead /\ i
    BY <1>12 DEF GrabControl, Request
  <2>2. srv' = Finish(t)
    <3>1. s.cur = c
      BY <1>1, <2>1
    <3> QED BY <1>12, <2>1, <3>1 DEF GrabControl, s
  <2>3. /\ Tables(s) /\ Serving(s) /\ Shut(s) /\ Simple(s) /\ RoundHeard(s)
        /\ HeardIn(s, s.cur) /\ s.cur = c /\ s.conn[c] # 0 /\ Minds(s) /\ RoundListened(s)
    BY <1>1, <2>1
  <2>4. Tables(t) /\ SameTable(t, s) /\ SameLoop(t, s)
    BY <2>3, ControlKeeps DEF Serving
  <2>5. Shut(t) /\ Simple(t) /\ RoundHeard(t)
    BY <2>3, ControlGood
  <2>6. Minds(t) /\ RoundListened(t)
    BY <2>3, ImperviousMinds
  <2> HIDE DEF t
  <2>7. t.conn[c] # 0
    BY <2>3, <2>4 DEF SameTable
  <2> QED BY <1>2, <2>1, <2>2, <2>4, <2>5, <2>6, <2>7
<1>13. CASE ClientSleep
  <2> DEFINE t == IgnoreClient([s EXCEPT !.asleep = @ \cup {c}], c)
  <2>1. CanRead /\ srv' = Finish(t)
    BY <1>13 DEF ClientSleep, Request, s
  <2>2. /\ Tables(s) /\ Shut(s) /\ Simple(s) /\ c \in Slots /\ s.conn[c] # 0
        /\ Minds(s) /\ s.conn[c] \in s.all /\ (s.buf[c] > 0 => s.conn[c] \in s.input)
    BY <1>1, <2>1
  <2> HIDE DEF c
  <2>3. Tables(t) /\ SameLoop(t, s) /\ t.conn = s.conn
    BY <2>2, SleepKeeps
  <2>4. Shut(t) /\ Simple(t) /\ NobodyShutOut(t, s)
    BY <2>2, SleepGood
  <2>5. Minds(t) /\ NobodyDropped(t, s, {c}) /\ t.turn = "over"
    BY <2>2, SleepMinds
  <2> HIDE DEF t
  <2> QED BY <1>3, <2>1, <2>3, <2>4, <2>5
<1>14. ASSUME NEW d \in Slots, NEW p \in Priorities, ProcSyncSetPriority(d, p)
       PROVE  Minds(srv') /\ RoundListened(srv')
  <2> DEFINE t == Prioritize(s, d, p)
  <2>1. CanRead /\ srv' = Finish(t)
    BY <1>14 DEF ProcSyncSetPriority, Request, s
  <2>2. /\ Tables(t) /\ SameTable(t, s) /\ SameMasks(t, s) /\ SameGrab(t, s) /\ SameLoop(t, s)
        /\ t.buf = s.buf /\ t.sock = s.sock /\ t.ignored = s.ignored
        /\ (t.turn = s.turn /\ t.ready = s.ready) \/ (t.turn = "over" /\ t.ready = {})
    BY <1>1, <2>1, PrioritizeKeeps
  <2> HIDE DEF t
  <2>3. KeptMasks(t, s)
    BY <2>2 DEF KeptMasks, SameTable
  <2>4. Shut(t) /\ Simple(t) /\ Minds(t)
    BY <1>1, <2>1, <2>2, <2>3, KeptMasksGood, KeptMinds DEF KeptInput
  <2>5. RoundHeard(t) /\ t.conn[c] # 0
    BY <1>1, <2>1, <2>2 DEF RoundHeard, HeardIn, SameTable, SameMasks, SameGrab, SameLoop
  <2>6. RoundListened(t)
    BY <1>1, <2>1, <2>2 DEF RoundListened, Listened, SameTable, SameMasks, SameGrab, SameLoop
  <2> QED BY <1>2, <2>1, <2>2, <2>4, <2>5, <2>6
<1> QED BY <1>5, <1>6, <1>7, <1>8, <1>9, <1>10, <1>11, <1>12, <1>13, <1>14 DEF Execute

LEMMA ResetMinds ==
  ASSUME MindInv, Reset
  PROVE  Minds(srv') /\ RoundListened(srv')
<1>0. /\ DOMAIN srv = Fields /\ srv.currentMax \in 1 .. MAXCLIENTS
      /\ Tables(srv) /\ Loops(srv) /\ Minds(srv)
  BY DEF MindInv, HeedInv, Inv, Tables, Table, TableBut
<1>1. CASE EndDispatch
  <2>1. KeptInput(srv', srv) /\ srv'.phase = "kill"
    BY <1>0, <1>1 DEF EndDispatch, Fields, KeptInput, KeptMasks, SameMasks
  <2> QED BY <1>0, <2>1, ElsewhereMinds
<1>2. CASE KillAllClients
  <2> DEFINE i == srv.at
             m == [srv EXCEPT !.mode[i] = "DestroyAll"]
             t == IF srv.state[i] = "None" THEN srv ELSE CloseDownClient(m, i)
  <2>1. srv.phase = "kill" /\ i < srv.currentMax /\ srv' = [t EXCEPT !.at = i + 1]
    BY <1>2 DEF KillAllClients
  <2>2. i \in Slots
    BY <1>0, <2>1, MAXCLIENTSAssumption DEF Loops, Slots
  <2> HIDE DEF i
  <2>3. Minds(t) /\ DOMAIN t = Fields /\ t.phase = "kill"
    <3>1. CASE srv.state[i] = "None"
      BY <1>0, <2>1, <3>1
    <3>2. CASE srv.state[i] # "None"
      <4>1. Tables(m) /\ SameLoop(m, srv) /\ m.state = srv.state
        BY <1>0, <2>2, ModeKeeps DEF Modes
      <4>2. KeptInput(m, srv)
        BY <1>0 DEF Fields, KeptInput, KeptMasks, SameMasks
      <4> HIDE DEF m
      <4>3. Minds(m)
        BY <1>0, <4>2, KeptMinds
      <4>4. /\ Tables(CloseDownClient(m, i)) /\ SameLoop(CloseDownClient(m, i), m)
            /\ Minds(CloseDownClient(m, i))
        BY <2>2, <3>2, <4>1, <4>3, CloseDownKeeps, CloseDownMinds
      <4> QED BY <2>1, <3>2, <4>1, <4>4 DEF Tables, Table, TableBut, SameLoop
    <3> QED BY <3>1, <3>2
  <2> HIDE DEF t
  <2>4. KeptInput(srv', t) /\ srv'.phase = "kill"
    BY <2>1, <2>3 DEF Fields, KeptInput, KeptMasks, SameMasks
  <2> QED BY <2>3, <2>4, ElsewhereMinds
<1>3. CASE NextGeneration
  <2>1. KeptInput(srv', srv) /\ srv'.phase = "wait"
    BY <1>0, <1>3 DEF NextGeneration, Fields, KeptInput, KeptMasks, SameMasks
  <2> QED BY <1>0, <2>1, ElsewhereMinds
<1> QED BY <1>1, <1>2, <1>3 DEF Reset

LEMMA InitMinds == Init => MindInv
<1> SUFFICES ASSUME Init PROVE MindInv
  OBVIOUS
<1>1. /\ srv.conn = [c \in Slots |-> 0] /\ srv.impervious = {} /\ srv.grabbed = 0
      /\ srv.buf = [c \in Slots |-> 0] /\ srv.sock = [c \in Slots |-> 0]
      /\ srv.input = {} /\ srv.savedInput = {} /\ srv.phase = "wait"
  BY DEF Init
<1>2. Heeds(srv)
  BY <1>1 DEF Heeds, Shut, Simple, Remembered, HeardIn, RoundHeard, Connected
<1>3. Minds(srv) /\ RoundListened(srv)
  BY <1>1 DEF Minds, Queues, InputListened, Noticed, Where, Connected, RoundListened
<1> QED BY <1>2, <1>3, InitInv DEF MindInv, HeedInv

\* As long as no client becomes pervious to grabs again: no whole request is
\* left in the buffer of a client that neither sleeps nor waits for the server
\* and that is in neither the mask of those with input nor the one that the end
\* of the grab puts back, however often grabs, sleep and closing down have moved
\* descriptors from one mask to another.
THEOREM NoInputIsHidden ==
  ASSUME "pervious" \notin Requests
  PROVE  Spec => []NoHiddenInput
<1>1. MindInv /\ [Next]_srv /\ HeedInv' => MindInv'
  <2> SUFFICES ASSUME MindInv, [Next]_srv, HeedInv' PROVE MindInv'
    OBVIOUS
  <2>1. CASE UNCHANGED srv
    BY <2>1 DEF MindInv
  <2>2. ASSUME Peer PROVE Minds(srv') /\ RoundListened(srv')
    BY <2>2, PeerMinds
  <2>3. ASSUME Wait PROVE Minds(srv') /\ RoundListened(srv')
    BY <2>3, WaitMinds
  <2>4. ASSUME Round PROVE Minds(srv') /\ RoundListened(srv')
    BY <2>4, RoundStepMinds, RequestMinds DEF Round
  <2>5. ASSUME Reset PROVE Minds(srv') /\ RoundListened(srv')
    BY <2>5, ResetMinds
  <2>6. Next => Minds(srv') /\ RoundListened(srv')
    BY <2>2, <2>3, <2>4, <2>5 DEF Next
  <2> QED BY <2>1, <2>6 DEF MindInv
<1>2. MindInv => NoHiddenInput
  BY DEF MindInv, Minds, Noticed, Where, NoHiddenInput, HeardIn, Heard, Silent
<1> QED BY <1>1, <1>2, InitMinds, GrabsAreHeeded, PTL DEF Spec

=============================================================================
