---------------------------- MODULE ServerClients ----------------------------
(***************************************************************************)
(* The clients of the server: how they connect, are scheduled, grab the    *)
(* server, sleep, disconnect and are retained, and how the server resets.  *)
(* dix/dispatch.c keeps the client table, os/connection.c the input masks, *)
(* os/WaitFor.c chooses who is ready and dix/dixutils.c puts to sleep.     *)
(*                                                                         *)
(* The handlers call one another, so each C procedure is an operator from  *)
(* the state to the state it leaves, and the state is one record, srv.     *)
(* An input mask is a set of file descriptors.  SavedAllSockets and        *)
(* AllSockets differ from SavedAllClients and AllClients by descriptors    *)
(* that are no clients' and are not kept.  Requests have no contents: what *)
(* a request is, is chosen when it is executed.  A client's connection     *)
(* set-up is one request.  Output is only the write that fails.            *)
(***************************************************************************)
EXTENDS FiniteSetsExt, Integers

CONSTANTS
  MAXCLIENTS,   \* slots of clients[], the server's own slot 0 included
  MaxPending,   \* bound: whole requests a client may have outstanding
  Priorities,   \* what SyncSetPriority may set a client's priority to
  Requests      \* which requests this instance's clients send

ASSUME MAXCLIENTSAssumption == MAXCLIENTS \in Nat /\ MAXCLIENTS > 1
ASSUME MaxPendingAssumption == MaxPending \in Nat \ {0}
ASSUME PrioritiesAssumption == Priorities \subseteq Int
ASSUME RequestsAssumption ==
  Requests \subseteq {"other", "grab", "ungrab", "mode", "kill", "killTemporary",
                      "impervious", "pervious", "sleep", "priority"}

Slots == 1 .. MAXCLIENTS - 1
Fds == 1 .. MAXCLIENTS - 1
Modes == {"DestroyAll", "RetainPermanent", "RetainTemporary"}

VARIABLE srv

ServerState ==
  [ \* a client, dix.h and os.h
    state      : [Slots -> {"None", "Initial", "Running", "Retained"}],
    mode       : [Slots -> Modes],         \* closeDownMode
    priority   : [Slots -> Priorities \cup {0}],
    conn       : [Slots -> Fds \cup {0}],  \* osPrivate->fd, 0: osPrivate is NULL
    failed     : SUBSET Slots,             \* noClientException, descriptor closed
    again      : SUBSET Slots,             \* the next request is GrabServer, again
    buf        : [Slots -> 0 .. MaxPending],  \* whole requests in the input buffer
    sock       : [Slots -> 0 .. MaxPending],  \* requests still in the socket
    eof        : SUBSET Slots,             \* the peer has closed
    \* dix
    nClients   : Int,
    nextFree   : 1 .. MAXCLIENTS,          \* nextFreeClientID
    currentMax : 1 .. MAXCLIENTS,          \* currentMaxClients
    grabState  : {"None", "Kickout", "Active"},
    grabClient : Slots \cup {0},
    waiters    : SUBSET Slots,             \* grabWaiters
    asleep     : SUBSET Slots,             \* sleepQueue
    reset      : BOOLEAN,                  \* dispatchException
    \* os
    trans      : [Fds -> Slots \cup {0}],  \* ConnectionTranslation
    all        : SUBSET Fds,               \* AllClients
    input      : SUBSET Fds,               \* ClientsWithInput
    saved      : SUBSET Fds,               \* SavedAllClients
    savedInput : SUBSET Fds,               \* SavedClientsWithInput
    ignored    : SUBSET Fds,               \* IgnoredClientsWithInput
    impervious : SUBSET Fds,               \* GrabImperviousClients
    grabbed    : Slots \cup {0},           \* GrabInProgress
    \* Dispatch
    dumb       : BOOLEAN,                  \* SmartScheduleDisable
    phase      : {"wait", "stragglers", "serve", "kill", "crashed"},
    at         : 0 .. MAXCLIENTS,          \* index of a loop over clients[]
    ready      : SUBSET Slots,             \* clientReady
    cur        : Slots \cup {0},           \* requestingClient
    turn       : {"new", "begun", "over"}, \* begun: has read a request; over: isItTimeToYield
    calling    : BOOLEAN ]                 \* a connection waits to be accepted

Connected(s) == {c \in Slots : s.conn[c] # 0}
Running(s) == {c \in Slots : s.state[c] = "Running"}
UsedSlots(s) == {c \in Slots : s.state[c] # "None"}

-----------------------------------------------------------------------------
(* Input masks, os/connection.c.                                           *)

Keep(set, f, cond) == IF cond THEN set \cup {f} ELSE set \ {f}

IgnoreClient(s, c) ==
  LET f == s.conn[c]
  IN  IF s.grabbed = 0 \/ f \in s.all
      THEN [s EXCEPT !.ignored = Keep(@, f, f \in s.input),
                     !.input = @ \ {f}, !.all = @ \ {f}, !.turn = "over"]
      ELSE [s EXCEPT !.ignored = Keep(@, f, f \in s.savedInput),
                     !.savedInput = @ \ {f}, !.saved = @ \ {f}, !.turn = "over"]

\* mutant: forgets that somebody else may have grabbed the server
AttendClientAtOnce(s, c) ==
  LET f == s.conn[c]
  IN  [s EXCEPT !.all = @ \cup {f},
                !.input = IF f \in s.ignored THEN @ \cup {f} ELSE @]

\* mutant: does not look at IgnoredClientsWithInput
AttendClientNoInput(s, c) ==
  LET f == s.conn[c]
  IN  IF s.grabbed \in {0, c} \/ f \in s.impervious
      THEN [s EXCEPT !.all = @ \cup {f}]
      ELSE [s EXCEPT !.saved = @ \cup {f}]

AttendClient(s, c) ==
  LET f == s.conn[c]
      heard(set) == IF f \in s.ignored THEN set \cup {f} ELSE set
  IN  IF s.grabbed \in {0, c} \/ f \in s.impervious
      THEN [s EXCEPT !.all = @ \cup {f}, !.input = heard(@)]
      ELSE [s EXCEPT !.saved = @ \cup {f}, !.savedInput = heard(@)]

OnlyListenToOneClient(s, c) ==
  LET f == s.conn[c]
  IN  IF s.grabbed # 0 THEN s
      ELSE [s EXCEPT !.input = @ \cap (s.impervious \cup {f}),
                     !.savedInput = s.input \ (s.impervious \cup {f}),
                     !.saved = s.all,
                     !.all = (@ \cap s.impervious) \cup {f},
                     !.grabbed = c]

\* The saved masks are not read again before a grab sets them anew: forgotten.
ListenToAllClients(s) ==
  IF s.grabbed = 0 THEN s
  ELSE [s EXCEPT !.all = @ \cup s.saved, !.input = @ \cup s.savedInput,
                 !.grabbed = 0, !.saved = {}, !.savedInput = {}]

MakeClientGrabImpervious(s, c) ==
  [s EXCEPT !.impervious = @ \cup {s.conn[c]}]

MakeClientGrabPervious(s, c) ==
  LET f == s.conn[c]
      t == [s EXCEPT !.impervious = @ \ {f}]
  IN  IF s.grabbed \in {0, c} THEN t
      ELSE [t EXCEPT !.savedInput = IF f \in s.input THEN @ \cup {f} ELSE @,
                     !.input = @ \ {f}, !.all = @ \ {f}, !.turn = "over"]

\* mutant: the saved masks keep the descriptor
CloseDownConnectionSaved(s, c) ==
  LET f == s.conn[c]
  IN  [s EXCEPT !.trans[f] = 0, !.all = @ \ {f}, !.input = @ \ {f},
                !.impervious = @ \ {f},
                !.conn[c] = 0, !.failed = @ \ {c}, !.eof = @ \ {c},
                !.again = @ \ {c}, !.buf[c] = 0, !.sock[c] = 0]

CloseDownConnection(s, c) ==
  LET f == s.conn[c]
      cut(set) == IF s.grabbed # 0 THEN set \ {f} ELSE set
  IN  [s EXCEPT !.trans[f] = 0, !.all = @ \ {f}, !.input = @ \ {f},
                !.impervious = @ \ {f}, !.saved = cut(@), !.savedInput = cut(@),
                !.conn[c] = 0, !.failed = @ \ {c}, !.eof = @ \ {c},
                !.again = @ \ {c}, !.buf[c] = 0, !.sock[c] = 0]

-----------------------------------------------------------------------------
(* The client table, dix/dispatch.c.                                       *)

\* The word of grabWaiters is scanned from its lowest bit.  grabClient, left
\* as it is, is not read again before it is set.
UngrabServer(s) ==
  LET t == [ListenToAllClients(s) EXCEPT !.grabState = "None", !.grabClient = 0]
      w == Min(s.waiters)
  IN  IF s.waiters = {} THEN t
      ELSE AttendClient([t EXCEPT !.waiters = @ \ {w}], w)

\* mutant: counts clients that never got through their set-up
DisconnectUncounted(s, c) ==
  LET t == IF s.grabState # "None" /\ s.grabClient = c THEN UngrabServer(s) ELSE s
      u == CloseDownConnection([t EXCEPT !.waiters = @ \ {c}, !.asleep = @ \ {c}], c)
  IN  [u EXCEPT !.nClients = @ - 1,
                !.state[c] = IF s.mode[c] = "DestroyAll" THEN @ ELSE "Retained"]

\* mutant: the server stays grabbed when the grabbing client dies
DisconnectGrabbing(s, c) ==
  LET u == CloseDownConnection([s EXCEPT !.waiters = @ \ {c}, !.asleep = @ \ {c}], c)
  IN  [u EXCEPT !.nClients = IF s.state[c] = "Initial" THEN @ ELSE @ - 1,
                !.state[c] = IF s.mode[c] = "DestroyAll" THEN @ ELSE "Retained"]

\* CloseDownClient up to nClients, for a client that is not gone.  A sleeper
\* is taken off the sleep queue by its own work, run as that of a zombie.
Disconnect(s, c) ==
  LET t == IF s.grabState # "None" /\ s.grabClient = c THEN UngrabServer(s) ELSE s
      u == CloseDownConnection([t EXCEPT !.waiters = @ \ {c}, !.asleep = @ \ {c}], c)
  IN  [u EXCEPT !.nClients = IF s.state[c] = "Initial" THEN @ ELSE @ - 1,
                !.state[c] = IF s.mode[c] = "DestroyAll" THEN @ ELSE "Retained"]

\* The end of CloseDownClient: the slots of D are free again.
FreeSlots(s, D) ==
  LET left == UsedSlots(s) \ D
  IN  [s EXCEPT !.state = [c \in Slots |-> IF c \in D THEN "None" ELSE @[c]],
                !.mode = [c \in Slots |-> IF c \in D THEN "DestroyAll" ELSE @[c]],
                !.nextFree = Min(D \cup {@}),
                !.currentMax = 1 + Max({c \in left : c < s.currentMax} \cup {0})]

\* mutant: any client's end makes a server with no clients reset
DestroyResets(s, c) ==
  FreeSlots([s EXCEPT !.reset = @ \/ s.nClients = 0], {c})

Destroy(s, c) ==
  FreeSlots([s EXCEPT !.reset = @ \/ (s.state[c] = "Running" /\ s.nClients = 0)], {c})

CloseDownClient(s, c) ==
  IF s.state[c] = "Retained" THEN Destroy(s, c)
  ELSE IF s.mode[c] = "DestroyAll" THEN Destroy(Disconnect(s, c), c)
  ELSE Disconnect(s, c)

CloseDownRetainedResources(s) ==
  FreeSlots(s, {c \in Slots : /\ c < s.currentMax /\ s.state[c] = "Retained"
                              /\ s.mode[c] = "RetainTemporary"})

\* AllocNewConnection with NextAvailableClient and InitClient: descriptor f
\* becomes a client.  The fake request that starts it is not a whole one.
AllocNewConnection(s, f) ==
  LET i == s.nextFree
      taken == UsedSlots(s) \cup {i}
      join(set, here) == IF here THEN set \cup {f} ELSE set
  IN  IF i = MAXCLIENTS THEN s
      ELSE [s EXCEPT !.state[i] = "Initial", !.mode[i] = "DestroyAll", !.priority[i] = 0,
                     !.conn[i] = f, !.trans[f] = i,
                     !.buf[i] = 0, !.sock[i] = 0, !.input = @ \ {f},
                     !.currentMax = IF i = @ THEN @ + 1 ELSE @,
                     !.nextFree = Min({n \in i .. MAXCLIENTS : n \notin taken}),
                     !.saved = join(@, s.grabbed # 0), !.all = join(@, s.grabbed = 0)]

-----------------------------------------------------------------------------
(* The peers, and the other users of the descriptors.                      *)

\* Somebody calls.
Connect ==
  /\ ~srv.calling
  /\ srv' = [srv EXCEPT !.calling = TRUE]

Send(c) ==
  /\ c \in Connected(srv) \ srv.eof
  /\ srv.buf[c] + srv.sock[c] < MaxPending
  /\ srv' = [srv EXCEPT !.sock[c] = @ + 1]

Close(c) ==
  /\ c \in Connected(srv) \ srv.eof
  /\ srv' = [srv EXCEPT !.eof = @ \cup {c}]

\* FlushClient, of a reply, an event or an error, fails: the descriptor is
\* closed, but it stays in the masks until the client is closed down.
WriteFails(c) ==
  /\ srv.phase \in {"wait", "stragglers", "serve"}
  /\ c \in srv.eof \ srv.failed
  /\ srv' = [srv EXCEPT !.failed = @ \cup {c}]

\* SIGHUP, AutoResetServer.
Hangup ==
  /\ srv.phase # "crashed"
  /\ ~srv.reset
  /\ srv' = [srv EXCEPT !.reset = TRUE, !.turn = "over"]

-----------------------------------------------------------------------------
(* WaitForSomething.                                                       *)

FdsOf(C) == {srv.conn[c] : c \in C}
Waiting == srv.phase = "wait" /\ ~srv.reset

\* A sleeper's work from the work queue calls ClientWakeup.
ClientWakeup(c) ==
  /\ srv.phase = "wait"
  /\ c \in srv.asleep
  /\ srv' = AttendClient([srv EXCEPT !.asleep = @ \ {c}], c)

\* EstablishNewConnections, first half: kill off stragglers.
KillStragglers ==
  /\ srv.phase = "wait"
  /\ srv.calling
  /\ srv' = [srv EXCEPT !.phase = "stragglers", !.at = 1]

Straggler(late) ==
  LET i == srv.at
      next(s) == [s EXCEPT !.at = i + 1]
  IN  /\ srv.phase = "stragglers"
      /\ i < srv.currentMax
      /\ late => srv.state[i] = "Initial"     \* conn_time is not 0
      /\ srv' = IF late \/ i \in srv.failed
                THEN next(CloseDownClient(srv, i)) ELSE next(srv)

\* Second half: accept.  The kernel gives the lowest descriptor not open.
EstablishNewConnections ==
  LET f == Min((Fds \cup {MAXCLIENTS}) \ FdsOf(Connected(srv) \ srv.failed))
      t == [srv EXCEPT !.phase = "wait", !.at = 0, !.calling = FALSE]
      old == IF f \in Fds THEN t.trans[f] ELSE 0
  IN  /\ srv.phase = "stragglers"
      /\ srv.at >= srv.currentMax
      /\ IF f \notin Fds THEN srv' = t
         ELSE \E s \in {IF old = 0 THEN t ELSE CloseDownClient(t, old)} :
                srv' = AllocNewConnection(s, f)

\* select() reports EBADF: CheckConnections closes those whose descriptor is
\* closed, in any order.  Without the smart scheduler select() is not called
\* while ClientsWithInput has members.
Selects == Waiting /\ (srv.dumb => srv.input = {})

CheckConnections(c) ==
  /\ Selects
  /\ c \in srv.failed /\ srv.conn[c] \in srv.all
  /\ srv' = CloseDownClient(srv, c)

\* The clients of C that are returned to dix: those of the highest priority.  (The
\* code finds it for each word of the mask; the descriptors are in one word here.)
HighestPriority(C, s) == {c \in C : \A d \in C : s.priority[d] <= s.priority[c]}

\* select() returns, or is not called, and the ready clients are known.  With
\* the smart scheduler only one of them is served.
Serve ==
  LET live == {c \in Connected(srv) : srv.sock[c] > 0 \/ c \in srv.eof}
      readable == IF srv.dumb /\ srv.input # {} THEN srv.input
                  ELSE (FdsOf(live) \cup srv.input) \cap srv.all
      clients == HighestPriority({srv.trans[f] : f \in readable}, srv)
  IN  /\ Waiting
      /\ Selects => FdsOf(srv.failed) \cap srv.all = {}
      /\ readable # {}
      /\ \E R \in IF srv.dumb THEN {clients} ELSE {{c} : c \in clients} :
           srv' = [srv EXCEPT !.phase = "serve", !.ready = R]

-----------------------------------------------------------------------------
(* Dispatch: one round over the ready clients, in any order.               *)

\* mutant: a round goes on after the grab that was made in it
NextClientNoKickout(c) ==
  LET t == [srv EXCEPT !.ready = @ \ {c}]
  IN  /\ srv.phase = "serve" /\ srv.cur = 0 /\ ~srv.reset
      /\ c \in srv.ready
      /\ srv' = CASE srv.state[c] = "None" -> t
                  [] srv.state[c] = "Retained" -> [t EXCEPT !.phase = "crashed"]
                  [] OTHER -> [t EXCEPT !.cur = c, !.turn = "new"]

\* The crash: clients[] still has the client, but its osPrivate is NULL, and
\* ReadRequestFromClient reads oc->input.
NextClient(c) ==
  LET t == [srv EXCEPT !.ready = @ \ {c}]
  IN  /\ srv.phase = "serve" /\ srv.cur = 0 /\ ~srv.reset
      /\ c \in srv.ready
      /\ srv' = CASE srv.state[c] = "None" -> t
                  [] srv.state[c] # "None" /\ srv.grabState = "Kickout" ->
                       [srv EXCEPT !.grabState = "Active", !.ready = {}]
                  [] srv.state[c] = "Retained" /\ srv.grabState # "Kickout" ->
                       [t EXCEPT !.phase = "crashed"]
                  [] OTHER -> [t EXCEPT !.cur = c, !.turn = "new"]

\* mutant: a round is not given up for the reset
EndRoundOnlyEmpty ==
  /\ srv.phase = "serve" /\ srv.cur = 0
  /\ srv.ready = {}
  /\ srv' = [srv EXCEPT !.phase = "wait", !.ready = {}]

\* mutant: the ready clients are asked for anew after every turn
EndRoundAnyTime ==
  /\ srv.phase = "serve" /\ srv.cur = 0
  /\ srv' = [srv EXCEPT !.phase = "wait", !.ready = {}]

EndRound ==
  /\ srv.phase = "serve" /\ srv.cur = 0
  /\ srv.reset \/ srv.ready = {}
  /\ srv' = [srv EXCEPT !.phase = "wait", !.ready = {}]

\* isItTimeToYield, an error (most break the turn off), or the slice is used up:
\* the smart scheduler's may be before anything has been read.
EndTurn ==
  /\ srv.phase = "serve" /\ srv.cur # 0
  /\ srv.dumb => srv.turn # "new"
  /\ srv' = [srv EXCEPT !.cur = 0]

\* ReadRequestFromClient finds no whole request: nothing to read, or death.
NoRequest ==
  LET c == srv.cur
      f == srv.conn[c]
  IN  /\ srv.phase = "serve" /\ c # 0 /\ srv.turn # "over"
      /\ srv.buf[c] = 0 /\ (srv.sock[c] = 0 \/ c \in srv.failed)
      /\ srv' = IF c \in srv.eof
                THEN [CloseDownClient(srv, c) EXCEPT !.cur = 0]
                ELSE [srv EXCEPT !.cur = 0, !.input = @ \ {f}]

\* ReadRequestFromClient takes a request; the socket is read when the buffer
\* has none.  Without the smart scheduler an empty buffer ends the turn.
CanRead ==
  LET c == srv.cur
  IN  /\ srv.phase = "serve" /\ c # 0 /\ srv.turn # "over"
      /\ srv.buf[c] > 0 \/ (srv.sock[c] > 0 /\ c \notin srv.failed)

ReadRequestFromClient(s) ==
  LET c == s.cur
      f == s.conn[c]
      got == IF s.buf[c] > 0 THEN s.buf[c] ELSE s.sock[c]
  IN  [s EXCEPT !.buf[c] = got - 1, !.sock[c] = IF s.buf[c] > 0 THEN @ ELSE 0,
                !.input = Keep(@, f, got > 1), !.again = @ \ {c},
                !.turn = IF s.dumb /\ got = 1 THEN "over" ELSE "begun"]

\* The request proc returns noClientException.
Finish(s) ==
  IF s.cur \in s.failed THEN [CloseDownClient(s, s.cur) EXCEPT !.cur = 0] ELSE s

\* ResetCurrentRequest.
ResetCurrentRequest(s, c) ==
  LET f == s.conn[c]
      t == [s EXCEPT !.buf[c] = @ + 1, !.again = @ \cup {c}, !.turn = "over"]
  IN  IF f \in s.all THEN [t EXCEPT !.input = @ \cup {f}]
      ELSE [t EXCEPT !.ignored = @ \cup {f}]

\* Request r of the client being served, a Running one.
Request(r) ==
  /\ r \in Requests
  /\ CanRead
  /\ srv.state[srv.cur] = "Running"
  /\ srv.cur \in srv.again => r = "grab"

\* ProcInitialConnection and ProcEstablishConnection.
Setup(accepted) ==
  LET c == srv.cur
      s == ReadRequestFromClient(srv)
  IN  /\ CanRead
      /\ srv.state[c] = "Initial"
      /\ srv' = Finish(IF accepted
                       THEN [s EXCEPT !.state[c] = "Running", !.nClients = @ + 1]
                       ELSE [s EXCEPT !.failed = @ \cup {c}])

Ordinary ==
  /\ Request("other")
  /\ srv' = Finish(ReadRequestFromClient(srv))

ProcGrabServer ==
  LET c == srv.cur
      s == ReadRequestFromClient(srv)
  IN  /\ Request("grab")
      /\ srv' = Finish(
           IF s.grabState # "None" /\ s.grabClient # c
           THEN IgnoreClient([ResetCurrentRequest(s, c) EXCEPT !.waiters = @ \cup {c}], c)
           ELSE [OnlyListenToOneClient(s, c) EXCEPT !.grabState = "Kickout",
                                                    !.grabClient = c])

ProcUngrabServer ==
  /\ Request("ungrab")
  /\ srv' = Finish(UngrabServer(ReadRequestFromClient(srv)))

ProcChangeCloseDownMode(m) ==
  /\ Request("mode")
  /\ srv' = Finish([ReadRequestFromClient(srv) EXCEPT !.mode[srv.cur] = m])

\* Of oneself: yields, and Dispatch does not touch the client again.
ProcKillClient(d) ==
  LET t == CloseDownClient(ReadRequestFromClient(srv), d)
  IN  /\ Request("kill")
      /\ srv.state[d] \in {"Running", "Retained"}
      /\ srv' = IF t.turn = "over" \/ d = srv.cur THEN [t EXCEPT !.cur = 0] ELSE Finish(t)

\* ProcSyncSetPriority: a change makes Dispatch give up the turn and, with
\* DE_PRIORITYCHANGE, the round.
Prioritize(s, d, p) ==
  IF s.priority[d] = p THEN s
  ELSE [s EXCEPT !.priority[d] = p, !.turn = "over", !.ready = {}]

ProcSyncSetPriority(d, p) ==
  /\ Request("priority")
  /\ srv.state[d] \in {"Running", "Retained"}
  /\ srv' = Finish(Prioritize(ReadRequestFromClient(srv), d, p))

KillTemporary ==
  /\ Request("killTemporary")
  /\ srv' = Finish(CloseDownRetainedResources(ReadRequestFromClient(srv)))

\* XTestGrabControl.
GrabControl(impervious) ==
  LET c == srv.cur
      s == ReadRequestFromClient(srv)
  IN  /\ Request(IF impervious THEN "impervious" ELSE "pervious")
      /\ srv' = Finish(IF impervious THEN MakeClientGrabImpervious(s, c)
                       ELSE MakeClientGrabPervious(s, c))

\* A request that sleeps until a font server has answered.
ClientSleep ==
  LET c == srv.cur
      s == ReadRequestFromClient(srv)
  IN  /\ Request("sleep")
      /\ srv' = Finish(IgnoreClient([s EXCEPT !.asleep = @ \cup {c}], c))

-----------------------------------------------------------------------------
(* The reset: KillAllClients, and Dispatch begins again.                   *)

EndDispatch ==
  /\ srv.phase = "wait" /\ srv.reset
  /\ srv' = [srv EXCEPT !.phase = "kill", !.at = 1]

KillAllClients ==
  LET i == srv.at
  IN  /\ srv.phase = "kill" /\ i < srv.currentMax
      /\ srv' = [IF srv.state[i] = "None" THEN srv
                 ELSE CloseDownClient([srv EXCEPT !.mode[i] = "DestroyAll"], i)
                 EXCEPT !.at = i + 1]

\* main's loop comes round and Dispatch starts afresh.
NextGeneration ==
  /\ srv.phase = "kill" /\ srv.at >= srv.currentMax
  /\ srv' = [srv EXCEPT !.phase = "wait", !.at = 0, !.reset = FALSE,
                        !.currentMax = 1, !.nextFree = 1, !.nClients = 0]

-----------------------------------------------------------------------------
Init ==
  \E dumb \in BOOLEAN :
    srv = [state |-> [c \in Slots |-> "None"], mode |-> [c \in Slots |-> "DestroyAll"],
           priority |-> [c \in Slots |-> 0], conn |-> [c \in Slots |-> 0], failed |-> {}, again |-> {},
           buf |-> [c \in Slots |-> 0], sock |-> [c \in Slots |-> 0], eof |-> {},
           nClients |-> 0, nextFree |-> 1, currentMax |-> 1, grabState |-> "None",
           grabClient |-> 0, waiters |-> {}, asleep |-> {}, reset |-> FALSE,
           trans |-> [f \in Fds |-> 0], all |-> {}, input |-> {}, saved |-> {},
           savedInput |-> {}, ignored |-> {}, impervious |-> {}, grabbed |-> 0,
           dumb |-> dumb, phase |-> "wait", at |-> 0, ready |-> {}, cur |-> 0,
           turn |-> "new", calling |-> FALSE]

\* What peers do is seen by WaitForSomething and by reading only: it need not
\* happen within the loops of "stragglers" and "kill".
Peer ==
  \/ srv.phase \in {"wait", "serve"} /\ (Hangup \/ \E c \in Slots : Send(c) \/ Close(c))
  \/ srv.phase = "wait" /\ Connect
  \/ \E c \in Slots : WriteFails(c)

Wait == \/ KillStragglers \/ (\E late \in BOOLEAN : Straggler(late))
        \/ EstablishNewConnections \/ Serve
        \/ \E c \in Slots : ClientWakeup(c) \/ CheckConnections(c)

Execute == \/ (\E accepted \in BOOLEAN : Setup(accepted))
           \/ Ordinary \/ ProcGrabServer \/ ProcUngrabServer
           \/ (\E m \in Modes : ProcChangeCloseDownMode(m))
           \/ (\E d \in Slots : ProcKillClient(d))
           \/ (\E d \in Slots, p \in Priorities : ProcSyncSetPriority(d, p))
           \/ KillTemporary \/ (\E i \in BOOLEAN : GrabControl(i)) \/ ClientSleep

Round == (\E c \in Slots : NextClient(c)) \/ EndRound \/ EndTurn \/ NoRequest \/ Execute

Reset == EndDispatch \/ KillAllClients \/ NextGeneration

Next == Peer \/ Wait \/ Round \/ Reset

Spec == Init /\ [][Next]_srv

\* The server never stops while it has something to do, and a turn ends when
\* its slice is used up, whatever the client sends.  WaitForSomething goes on to
\* select() after each accept, so that calls cannot keep it from what select()
\* reports, nor from seeing dispatchException.
Fairness ==
  /\ WF_srv(Wait \/ Round \/ Reset)
  /\ WF_srv(EndTurn)
  /\ SF_srv(Serve) /\ SF_srv(EndDispatch)
  /\ \A c \in Slots : SF_srv(CheckConnections(c))

FairSpec == Spec /\ Fairness

-----------------------------------------------------------------------------
\* Every field of the state has its type.
TypeOK == srv \in ServerState

\* nClients counts the clients that are connected and through their set-up:
\* CloseDownClient tells from the state alone whether the client was counted.
CountIsRight == srv.nClients = Cardinality(Running(srv))

\* Descriptors and connections correspond one to one, and no mask has a
\* descriptor that is nobody's: not after a client died in the middle of a
\* grab or of its sleep, nor when the kernel gives its descriptor out again.
MasksAreLive ==
  /\ \A c \in Connected(srv) : srv.trans[srv.conn[c]] = c
  /\ \A f \in Fds :
       \/ srv.trans[f] # 0 /\ srv.conn[srv.trans[f]] = f
       \/ /\ srv.trans[f] = 0
          /\ f \notin srv.all \cup srv.input \cup srv.impervious
          /\ f \notin srv.saved \cup srv.savedInput

\* The two records of the server grab, dispatch.c's and connection.c's, agree,
\* and its owner is connected: CloseDownClient ungrabs before it forgets him.
GrabAgrees ==
  /\ srv.grabState = "None" <=> srv.grabbed = 0
  /\ srv.grabbed # 0 => srv.grabClient = srv.grabbed /\ srv.conn[srv.grabbed] # 0

Silent == srv.asleep \cup srv.waiters
Heard(c) == srv.grabbed \in {0, c} \/ srv.conn[c] \in srv.impervious

\* Nobody is forgotten: a client that neither sleeps nor waits is in the mask
\* select() is called with, or in the one that an ungrab puts back.
NobodyForgotten ==
  \A c \in Connected(srv) \ Silent :
    srv.conn[c] \in IF Heard(c) THEN srv.all ELSE srv.saved

\* No whole request lies in a buffer that nobody will look at: select() would
\* not report it, since it has been read from the socket already.
NoHiddenInput ==
  \A c \in Connected(srv) \ Silent :
    srv.buf[c] > 0 => srv.conn[c] \in IF Heard(c) THEN srv.input ELSE srv.savedInput

\* While the server is grabbed nobody's requests are executed but its owner's
\* and those of clients impervious to grabs, the rest of the round in which
\* the grab was made included.
GrabExcludes ==
  srv.cur # 0 /\ srv.turn # "over" => Heard(srv.cur)

\* Closing clients down makes the server reset only when nobody is connected
\* any more and one of those who went left nothing behind, and always when none
\* of them did; connections being set up and clients retained before do not
\* count.  (One step may close two clients, and give a slot out again.)
Destroyed(c) == srv'.state[c] \notin {"Running", "Retained"}
LastGoes == Running(srv) # {} /\ Running(srv)' = {}
ResetsWithLast ==
  [][ ~srv.reset /\ srv.state # srv'.state =>
        /\ srv'.reset => LastGoes /\ \E c \in Running(srv) : Destroyed(c)
        /\ LastGoes /\ (\A c \in Running(srv) : Destroyed(c)) => srv'.reset ]_srv

\* A server that is to be reset gets there: every loop over clients[] ends
\* though CloseDownClient shortens the table under it, and the turns end.
ResetCompletes == srv.reset ~> ~srv.reset \/ srv.phase = "crashed"

\* Without the smart scheduler only priorities can make a client starve.  Once
\* they change no more (each change gives up a round), a client that is listened
\* to and has sent something, or has died, gets its turn, unless clients of a
\* higher priority are ready again and again.
Starving(c) ==
  /\ srv.dumb /\ c \in Connected(srv) /\ srv.conn[c] \in srv.all /\ ~srv.reset
  /\ srv.buf[c] + srv.sock[c] > 0 \/ c \in srv.eof
Outranked(c) ==
  \E d \in Connected(srv) :
    /\ srv.priority[d] > srv.priority[c]
    /\ srv.buf[d] + srv.sock[d] > 0 \/ d \in srv.eof \/ srv.conn[d] \in srv.input
EveryoneServed ==
  <>[][srv'.priority = srv.priority]_srv =>
    \A c \in Slots : Starving(c) ~> srv.cur = c \/ ~Starving(c) \/ Outranked(c)
=============================================================================
