------------------------------- MODULE Xdmcp -------------------------------
\* XDMCP between one X server (os/xdmcp.c) and one display manager (xdm),
\* over datagrams that may be lost, duplicated and overtaken, and the X
\* connections that xdm's session processes open in answer to Manage.
\*
\* The display sends Query, Request, Manage and KeepAlive and repeats each
\* until it is answered; the manager only answers.  "state" is xdmcp.c's state
\* variable; the three ways to look for a manager (query, broadcast, indirect)
\* are one.  A session process ("kid", one for each session id) is forked by
\* StartDisplay and opens its connection whenever it gets to it.
EXTENDS Naturals, FiniteSets

CONSTANTS
  MaxId,             \* bound: session ids that xdm hands out
  MaxKeys,           \* bound: authorization keys that xdm makes
  MaxAnswers, MaxQuestions,  \* bounds: datagrams in flight to the display and to xdm
  MaxInFlight,       \* bound: datagrams in flight in all
  MaxCopies,         \* bound: datagrams delivered once more than they were sent
  MaxCrashes,        \* bound: failures of the manager's host
  XDM_RTX_LIMIT, XDM_KA_RTX_LIMIT

ASSUME BoundsAssumption ==
  /\ MaxId \in Nat /\ MaxKeys \in Nat /\ MaxCopies \in Nat /\ MaxCrashes \in Nat
  /\ MaxAnswers \in Nat /\ MaxQuestions \in Nat /\ MaxInFlight \in Nat
  /\ XDM_RTX_LIMIT \in Nat \ {0} /\ XDM_KA_RTX_LIMIT \in Nat \ {0}

Ids == 1 .. MaxId
Keys == 1 .. MaxKeys
None == 0

VARIABLES
  state, SessionID, timeOutRtx, sessionSocket,
  keys,        \* the server's authorization keys
  resetting,   \* dispatchException holds DE_RESET
  conn,        \* the server's end of the connection of each kid
  proto, protoKey,            \* xdm: the protoDisplay of this display
  active, forked,             \* xdm: its struct display, and whether it has a process
  globalSessionID, lastKey,
  kid, kidKey, signalled,     \* session processes, and those sent SIGTERM
  toDisplay, toManager,       \* datagrams in flight
  copies, crashes

server == <<state, SessionID, timeOutRtx, sessionSocket, keys, resetting>>
xdm == <<proto, protoKey, active, forked, globalSessionID, lastKey>>
processes == <<kid, kidKey, signalled>>
vars == <<server, conn, xdm, processes, toDisplay, toManager, copies, crashes>>

States == {"COLLECT_QUERY", "START_CONNECTION", "AWAIT_REQUEST_RESPONSE",
           "AWAIT_MANAGE_RESPONSE", "RUN_SESSION", "AWAIT_ALIVE_RESPONSE",
           "AWAIT_USER_INPUT"}
Fatal == {"UNWILLING", "DECLINE", "FAILED"}   \* the server has exited, because of it
InSession == {"RUN_SESSION", "AWAIT_ALIVE_RESPONSE"}

Questions == [op : {"QUERY", "REQUEST"}] \cup [op : {"MANAGE", "KEEPALIVE"}, id : Ids]
Answers ==
  [op : {"WILLING", "UNWILLING", "DECLINE"}]
    \cup [op : {"ACCEPT"}, id : Ids, key : Keys]
    \cup [op : {"REFUSE", "FAILED"}, id : Ids]
    \cup [op : {"ALIVE"}, running : BOOLEAN, id : Ids \cup {None}]

TypeOK ==
  /\ state \in States \cup Fatal
  /\ SessionID \in Ids \cup {None}
  /\ timeOutRtx \in 0 .. XDM_RTX_LIMIT
  /\ sessionSocket \in Ids \cup {None}
  /\ keys \subseteq Keys
  /\ resetting \in BOOLEAN
  /\ conn \in [Ids -> {"none", "open", "closed", "half-open"}]
  /\ proto \in Ids \cup {None} /\ protoKey \in Keys \cup {None}
  /\ active \in Ids \cup {None}
  /\ forked \in BOOLEAN
  /\ globalSessionID \in 0 .. MaxId /\ lastKey \in 0 .. MaxKeys
  /\ kid \in [Ids -> {"none", "opening", "open", "openfailed", "exited"}]
  /\ kidKey \in [Ids -> Keys \cup {None}]
  /\ signalled \subseteq Ids
  /\ toDisplay \subseteq Answers /\ toManager \subseteq Questions
  /\ copies \in 0 .. MaxCopies /\ crashes \in 0 .. MaxCrashes

-----------------------------------------------------------------------------
\* The network.  A datagram may be lost, may be read at any later time, and may
\* be read again; one that is sent when the network is full is lost.

Lose ==
  /\ \/ \E m \in toDisplay : toDisplay' = toDisplay \ {m} /\ UNCHANGED toManager
     \/ \E m \in toManager : toManager' = toManager \ {m} /\ UNCHANGED toDisplay
  /\ UNCHANGED <<server, conn, xdm, processes, copies, crashes>>

Sent(network, m, room) ==
  IF /\ Cardinality(network) < room
     /\ Cardinality(toDisplay) + Cardinality(toManager) < MaxInFlight
    THEN network \cup {m} ELSE network

\* m is read and gone, or there is another copy of it.
Read(m, network) ==
  \/ network' = network \ {m} /\ UNCHANGED copies
  \/ UNCHANGED network /\ copies < MaxCopies /\ copies' = copies + 1

-----------------------------------------------------------------------------
\* The display.

Post(m) == toManager' = Sent(toManager, m, MaxQuestions)

\* send_packet: what is sent in a sending state, and the state that waits for
\* the answer.  Only a Request that cannot be written leaves its state alone.
send_query_msg == Post([op |-> "QUERY"]) /\ state' = "COLLECT_QUERY"
send_request_msg ==
  \/ Post([op |-> "REQUEST"]) /\ state' = "AWAIT_REQUEST_RESPONSE"
  \/ state' = "START_CONNECTION" /\ UNCHANGED toManager
send_manage_msg(id) ==
  Post([op |-> "MANAGE", id |-> id]) /\ state' = "AWAIT_MANAGE_RESPONSE"
send_keepalive_msg ==
  Post([op |-> "KEEPALIVE", id |-> SessionID]) /\ state' = "AWAIT_ALIVE_RESPONSE"

Serving == state \notin Fatal /\ ~resetting
Ignored == UNCHANGED <<state, SessionID, resetting, toManager, keys>>
XdmcpFatal(op) == state' = op /\ UNCHANGED <<SessionID, resetting, toManager, keys>>

\* The session is over: the server is to be reset, and asks for a manager at
\* once (XdmcpReset will ask again).
XdmcpDeadSession == send_query_msg /\ resetting' = TRUE /\ UNCHANGED <<SessionID, keys>>

recv_willing_msg ==
  IF state = "COLLECT_QUERY"
    THEN send_request_msg /\ UNCHANGED <<SessionID, resetting, keys>>
    ELSE Ignored

recv_accept_msg(m) ==
  IF state = "AWAIT_REQUEST_RESPONSE"
    THEN /\ keys' = keys \cup {m.key}
         /\ SessionID' = m.id
         /\ send_manage_msg(m.id)
         /\ UNCHANGED resetting
    ELSE Ignored

\* (mutant: the session that is refused is not looked at)
AnyRefusal(m) ==
  IF state = "AWAIT_MANAGE_RESPONSE"
    THEN send_request_msg /\ UNCHANGED <<SessionID, resetting, keys>>
    ELSE Ignored
recv_refuse_msg(m) ==
  IF state = "AWAIT_MANAGE_RESPONSE" /\ m.id = SessionID
    THEN send_request_msg /\ UNCHANGED <<SessionID, resetting, keys>>
    ELSE Ignored

recv_failed_msg(m) ==
  IF state = "AWAIT_MANAGE_RESPONSE" /\ m.id = SessionID THEN XdmcpFatal("FAILED") ELSE Ignored

recv_alive_msg(m) ==
  IF state # "AWAIT_ALIVE_RESPONSE" THEN Ignored
  ELSE IF m.running /\ m.id = SessionID
    THEN state' = "RUN_SESSION" /\ UNCHANGED <<SessionID, resetting, toManager, keys>>
    ELSE XdmcpDeadSession

\* Any datagram resets the count of retransmissions.
receive_packet ==
  /\ Serving
  /\ \E m \in toDisplay :
       /\ Read(m, toDisplay)
       /\ timeOutRtx' = 0
       /\ \/ m.op = "WILLING" /\ recv_willing_msg
          \/ m.op \in {"UNWILLING", "DECLINE"} /\ XdmcpFatal(m.op)
          \/ m.op = "ACCEPT" /\ recv_accept_msg(m)
          \/ m.op = "REFUSE" /\ recv_refuse_msg(m)
          \/ m.op = "FAILED" /\ recv_failed_msg(m)
          \/ m.op = "ALIVE" /\ recv_alive_msg(m)
  /\ UNCHANGED <<sessionSocket, conn, xdm, processes, crashes>>

\* The message of the state timeout() falls back to is sent again.
Resend ==
  /\ CASE state = "COLLECT_QUERY" -> send_query_msg
       [] state \in {"START_CONNECTION", "AWAIT_REQUEST_RESPONSE"} -> send_request_msg
       [] state = "AWAIT_MANAGE_RESPONSE" -> send_manage_msg(SessionID)
       [] state = "AWAIT_ALIVE_RESPONSE" -> send_keepalive_msg
  /\ UNCHANGED <<SessionID, resetting, keys>>

\* (mutant: retransmissions are not counted)
TimeoutUncounted == timeOutRtx' = 0 /\ Resend
timeout ==
  LET rtx == timeOutRtx + 1 IN
  IF state = "AWAIT_ALIVE_RESPONSE" /\ rtx >= XDM_KA_RTX_LIMIT
    THEN XdmcpDeadSession /\ timeOutRtx' = 0
  ELSE IF rtx >= XDM_RTX_LIMIT
    THEN /\ state' = "AWAIT_USER_INPUT" /\ timeOutRtx' = 0
         /\ UNCHANGED <<SessionID, resetting, toManager, keys>>
    ELSE timeOutRtx' = rtx /\ Resend

\* select() ran out of time.  The timer is off while waiting for the user.
TimedOut ==
  /\ Serving /\ state # "AWAIT_USER_INPUT"
  /\ IF state = "RUN_SESSION"
       THEN send_keepalive_msg /\ UNCHANGED <<SessionID, timeOutRtx, resetting, keys>>
       ELSE timeout
  /\ UNCHANGED <<sessionSocket, conn, xdm, processes, toDisplay, copies, crashes>>

\* A key or the mouse moves while the display has given up: restart().
UserInput ==
  /\ Serving /\ state = "AWAIT_USER_INPUT"
  /\ send_query_msg
  /\ timeOutRtx' = 0
  /\ UNCHANGED <<SessionID, resetting, keys, sessionSocket, conn, xdm, processes,
                 toDisplay, copies, crashes>>

\* Whatever connection is authorized first is the session's.
XdmcpOpenDisplay(sock) ==
  IF state = "AWAIT_MANAGE_RESPONSE"
    THEN state' = "RUN_SESSION" /\ sessionSocket' = sock
    ELSE UNCHANGED <<state, sessionSocket>>

\* Nothing is sent: the reset that follows does it.
XdmcpCloseDisplay(sock) == state \in InSession /\ sessionSocket = sock

\* A connection is seen to be closed.  Its client may have been the last one,
\* after which the server resets in any case.
HangUp(c) ==
  /\ Serving /\ conn[c] = "closed"
  /\ conn' = [conn EXCEPT ![c] = "none"]
  /\ \E last \in BOOLEAN : resetting' = (last \/ XdmcpCloseDisplay(c))
  /\ state' = IF XdmcpCloseDisplay(c) THEN "COLLECT_QUERY" ELSE state
  /\ UNCHANGED <<SessionID, timeOutRtx, sessionSocket, keys, xdm, processes,
                 toDisplay, toManager, copies, crashes>>

\* The server resets: SIGHUP asks for it as well.
Hup ==
  /\ Serving /\ resetting' = TRUE
  /\ UNCHANGED <<state, SessionID, timeOutRtx, sessionSocket, keys, conn, xdm,
                 processes, toDisplay, toManager, copies, crashes>>

\* KillAllClients, ResetAuthorization, XdmcpReset.  SessionID and sessionSocket
\* are left as they are, but not read again before they are set: forgotten.
XdmcpReset ==
  /\ resetting /\ state \notin Fatal
  /\ conn' = [c \in Ids |-> "none"]
  /\ keys' = {}
  /\ timeOutRtx' = 0
  /\ resetting' = FALSE
  /\ send_query_msg
  /\ SessionID' = None /\ sessionSocket' = None
  /\ UNCHANGED <<xdm, processes, toDisplay, copies, crashes>>

-----------------------------------------------------------------------------
\* The manager.  Each question has at most one answer.

Ignore(m) == Read(m, toManager) /\ UNCHANGED toDisplay
Answer(m, answer) == Read(m, toManager) /\ toDisplay' = Sent(toDisplay, answer, MaxAnswers)

query_respond(m) ==
  /\ m.op = "QUERY"
  /\ \E op \in {"WILLING", "UNWILLING"} : Answer(m, [op |-> op])
  /\ UNCHANGED <<xdm, processes>>

\* Every Request is given a new authorization key, and the session id of the
\* protoDisplay there is, or a new one.
Accept(id) ==
  /\ lastKey < MaxKeys
  /\ proto' = id
  /\ protoKey' = lastKey + 1
  /\ lastKey' = lastKey + 1

request_respond(m) ==
  /\ m.op = "REQUEST"
  /\ \/ /\ proto # None
        /\ Accept(proto)
        /\ Answer(m, [op |-> "ACCEPT", id |-> proto, key |-> lastKey + 1])
        /\ UNCHANGED globalSessionID
     \/ /\ proto = None /\ globalSessionID < MaxId
        /\ globalSessionID' = globalSessionID + 1
        /\ Accept(globalSessionID + 1)
        /\ Answer(m, [op |-> "ACCEPT", id |-> globalSessionID + 1, key |-> lastKey + 1])
     \/ \* declined before or after a session id was taken for it
        /\ Answer(m, [op |-> "DECLINE"])
        /\ proto' = None /\ protoKey' = None
        /\ \/ UNCHANGED globalSessionID
           \/ proto = None /\ globalSessionID < MaxId
                /\ globalSessionID' = globalSessionID + 1
        /\ UNCHANGED lastKey
  /\ UNCHANGED <<active, forked, processes>>

\* StopDisplay: the process is sent SIGTERM, the display forgotten at once.
Stopped == IF active # None /\ forked THEN signalled \cup {active} ELSE signalled

\* StartDisplay: the process is there, or fork() failed.
StartDisplay(id, key) ==
  /\ active' = id
  /\ \/ /\ forked' = TRUE
        /\ kid' = [kid EXCEPT ![id] = "opening"]
        /\ kidKey' = [kidKey EXCEPT ![id] = key]
     \/ forked' = FALSE /\ UNCHANGED <<kid, kidKey>>

\* (mutant: a repeated Manage is refused)
NeverDuplicate(m) == FALSE
Duplicate(m) == proto = None /\ active = m.id
manage(m) ==
  /\ m.op = "MANAGE"
  /\ \/ /\ proto = m.id
        /\ signalled' = Stopped
        /\ StartDisplay(m.id, protoKey)
        /\ proto' = None /\ protoKey' = None
        /\ Ignore(m)
     \/ /\ proto # m.id
        /\ IF Duplicate(m) THEN Ignore(m) ELSE Answer(m, [op |-> "REFUSE", id |-> m.id])
        /\ UNCHANGED <<proto, protoKey, active, forked, processes>>
  /\ UNCHANGED <<globalSessionID, lastKey>>

\* The display of that session, or else the one of that address: the same.
send_alive(m) ==
  /\ m.op = "KEEPALIVE"
  /\ LET running == active # None /\ forked IN
     Answer(m, [op |-> "ALIVE", running |-> running /\ active = m.id,
                id |-> IF running THEN active ELSE None])
  /\ UNCHANGED <<xdm, processes>>

ProcessRequestSocket ==
  /\ \E m \in toManager :
       query_respond(m) \/ request_respond(m) \/ manage(m) \/ send_alive(m)
  /\ UNCHANGED <<server, conn, crashes>>

\* Another display's Request makes xdm drop protoDisplays that are too old.
TimeoutProtoDisplays ==
  /\ proto # None
  /\ proto' = None /\ protoKey' = None
  /\ UNCHANGED <<server, conn, active, forked, globalSessionID, lastKey,
                 processes, toDisplay, toManager, copies, crashes>>

-----------------------------------------------------------------------------
\* The session processes.

\* WaitForServer: XOpenDisplay, with the key of the session, ...
Connect(c) ==
  /\ kid[c] = "opening" /\ Serving /\ kidKey[c] \in keys
  /\ kid' = [kid EXCEPT ![c] = "open"]
  /\ conn' = [conn EXCEPT ![c] = "open"]
  /\ XdmcpOpenDisplay(c)
  /\ UNCHANGED <<SessionID, timeOutRtx, keys, resetting, xdm, kidKey, signalled,
                 toDisplay, toManager, copies, crashes>>

\* ... which is given up after some attempts,
GiveUp(c) ==
  /\ kid[c] = "opening"
  /\ kid' = [kid EXCEPT ![c] = "openfailed"]
  /\ UNCHANGED <<server, conn, xdm, kidKey, signalled, toDisplay, toManager, copies, crashes>>

Closed(c) ==
  conn' = IF conn[c] = "open" THEN [conn EXCEPT ![c] = "closed"] ELSE conn

\* and the end of the session, or of the process when SIGTERM gets to it.
Exit(c) ==
  /\ \/ kid[c] = "open"
     \/ kid[c] = "opening" /\ c \in signalled
  /\ kid' = [kid EXCEPT ![c] = "exited"]
  /\ Closed(c)
  /\ UNCHANGED <<server, xdm, kidKey, signalled, toDisplay, toManager, copies, crashes>>

\* xdm reaps the process.  It knows only the process of its present display.
WaitForChild(c) ==
  /\ kid[c] \in {"openfailed", "exited"}
  /\ kid' = [kid EXCEPT ![c] = "none"]
  /\ IF active = c /\ forked
       THEN /\ toDisplay' = IF kid[c] = "openfailed"
                              THEN Sent(toDisplay, [op |-> "FAILED", id |-> c], MaxAnswers)
                              ELSE toDisplay
            /\ active' = None /\ forked' = FALSE
       ELSE UNCHANGED <<active, forked, toDisplay>>
  /\ kidKey' = [kidKey EXCEPT ![c] = None] /\ signalled' = signalled \ {c}
  /\ UNCHANGED <<server, conn, proto, protoKey, globalSessionID, lastKey,
                 toManager, copies, crashes>>

\* The manager's host fails and comes back: xdm has forgotten everything (its
\* session ids start anew, at a place that depends on the time of day) and
\* nothing tells the server that the connections are gone, ...
Crash ==
  /\ crashes < MaxCrashes /\ crashes' = crashes + 1
  /\ proto' = None /\ protoKey' = None
  /\ active' = None /\ forked' = FALSE
  /\ kid' = [c \in Ids |-> "none"] /\ kidKey' = [c \in Ids |-> None] /\ signalled' = {}
  /\ conn' = [c \in Ids |-> IF conn[c] = "open" THEN "half-open" ELSE conn[c]]
  /\ UNCHANGED <<server, globalSessionID, lastKey, toDisplay, toManager, copies>>

\* ... unless it happens to write to one of them.
WriteFails(c) ==
  /\ conn[c] = "half-open"
  /\ conn' = [conn EXCEPT ![c] = "closed"]
  /\ UNCHANGED <<server, xdm, processes, toDisplay, toManager, copies, crashes>>

-----------------------------------------------------------------------------
Init ==
  /\ state = "COLLECT_QUERY" /\ toManager = {[op |-> "QUERY"]}   \* XdmcpInit
  /\ SessionID = None /\ timeOutRtx = 0 /\ sessionSocket = None
  /\ keys = {} /\ resetting = FALSE
  /\ conn = [c \in Ids |-> "none"]
  /\ proto = None /\ protoKey = None
  /\ active = None /\ forked = FALSE
  /\ globalSessionID = 0 /\ lastKey = 0
  /\ kid = [c \in Ids |-> "none"] /\ kidKey = [c \in Ids |-> None] /\ signalled = {}
  /\ toDisplay = {}
  /\ copies = 0 /\ crashes = 0

\* Nothing is followed past the end of the server.
Next ==
  /\ state \notin Fatal
  /\ \/ Lose \/ receive_packet \/ TimedOut \/ UserInput \/ Hup \/ XdmcpReset
     \/ ProcessRequestSocket \/ TimeoutProtoDisplays \/ Crash
     \/ \E c \in Ids :
          HangUp(c) \/ Connect(c) \/ GiveUp(c) \/ Exit(c) \/ WaitForChild(c) \/ WriteFails(c)

\* The server is left idle now and then, so that select() does run out of time,
\* and Dispatch returns once dispatchException is set.
Fairness == WF_vars(TimedOut) /\ WF_vars(XdmcpReset)

Spec == Init /\ [][Next]_vars /\ Fairness

-----------------------------------------------------------------------------
\* A late or repeated answer never makes the display throw away a session id
\* that xdm still has on offer (recv_refuse_msg), and never makes the server
\* exit for a session that is on offer or has its process (recv_failed_msg).
\* A session that xdm has started is thrown away in one case only: a late
\* Request has been given a later session id, for which manage() refuses a
\* Manage that is repeated.
DropsNothingLive ==
  /\ /\ state = "AWAIT_MANAGE_RESPONSE"
     /\ state' \in {"START_CONNECTION", "AWAIT_REQUEST_RESPONSE"}
     => SessionID # proto /\ (SessionID = active => SessionID < globalSessionID)
  /\ state' = "FAILED" => SessionID \notin {proto, active}
NothingLiveIsDropped == [][DropsNothingLive]_vars

\* A session whose manager's host has failed ends, although the connection
\* stays open for ever.
HalfOpen == state \in InSession /\ sessionSocket # None /\ conn[sessionSocket] = "half-open"
FailureIsNoticed == HalfOpen ~> ~HalfOpen
=============================================================================
