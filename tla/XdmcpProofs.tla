------------------------------ MODULE XdmcpProofs ------------------------------
(***************************************************************************)
(* Proofs about Xdmcp for every number of session ids, keys, datagrams in  *)
(* flight, copies, crashes and retransmissions: its type invariant, and    *)
(* that a late or repeated answer drops nothing that is alive.             *)
(***************************************************************************)
EXTENDS Xdmcp, TLAPS

Asking == {"AWAIT_MANAGE_RESPONSE"} \cup InSession

\* A session id is known before it is used, and taken from xdm's counter, which
\* only grows: an id that is on offer for the first time is in no datagram.
IdsKnown ==
  /\ SessionID <= globalSessionID /\ proto <= globalSessionID /\ active <= globalSessionID
  /\ \A m \in toManager : m.op = "MANAGE" => m.id <= globalSessionID
  /\ \A m \in toDisplay : m.op \in {"ACCEPT", "REFUSE", "FAILED"} => m.id <= globalSessionID

SessionKnown == state \in Asking => SessionID # None

\* An id is on offer or has its process, not both; the one on offer is the last.
OfferedOrManaged == proto # None => proto # active /\ proto = globalSessionID

\* What a refusal or a failure in flight is about stays refused, or failed: it
\* will not be on offer again, and has a process only if a later id was given.
RefusedForGood ==
  \A m \in toDisplay : /\ m.op = "REFUSE" =>
                            m.id # proto /\ (m.id = active => m.id < globalSessionID)
                       /\ m.op = "FAILED" => m.id \notin {proto, active}

Inv == TypeOK /\ IdsKnown /\ SessionKnown /\ OfferedOrManaged /\ RefusedForGood

-----------------------------------------------------------------------------
\* The display's side.

DisplayOK ==
  /\ state \in States \cup Fatal
  /\ SessionID \in Ids \cup {None} /\ SessionID <= globalSessionID
  /\ SessionKnown
  /\ keys \subseteq Keys /\ resetting \in BOOLEAN
  /\ toManager \subseteq Questions
  /\ \A m \in toManager : m.op = "MANAGE" => m.id <= globalSessionID

LEMMA DisplayInv == Inv => DisplayOK
BY DEF Inv, TypeOK, IdsKnown, DisplayOK

LEMMA PostOK ==
  ASSUME DisplayOK, NEW m \in Questions, m.op = "MANAGE" => m.id <= globalSessionID, Post(m)
  PROVE  /\ toManager' \subseteq Questions
         /\ \A q \in toManager' : q.op = "MANAGE" => q.id <= globalSessionID
BY DEF DisplayOK, Post, Sent

LEMMA QuestionTypes ==
  /\ [op |-> "QUERY"] \in Questions /\ [op |-> "QUERY"].op # "MANAGE"
  /\ [op |-> "REQUEST"] \in Questions /\ [op |-> "REQUEST"].op # "MANAGE"
  /\ \A id \in Ids : /\ [op |-> "MANAGE", id |-> id] \in Questions
                     /\ [op |-> "MANAGE", id |-> id].id = id
                     /\ [op |-> "KEEPALIVE", id |-> id] \in Questions
                     /\ [op |-> "KEEPALIVE", id |-> id].op # "MANAGE"
BY DEF Questions

LEMMA SendOK ==
  ASSUME DisplayOK
  PROVE  LET kept == /\ toManager' \subseteq Questions
                     /\ \A q \in toManager' : q.op = "MANAGE" => q.id <= globalSessionID
         IN  /\ send_query_msg => kept
             /\ send_request_msg => kept
             /\ \A id \in Ids : id <= globalSessionID /\ send_manage_msg(id) => kept
             /\ SessionID # None /\ send_keepalive_msg => kept
<1> DEFINE kept == /\ toManager' \subseteq Questions
                   /\ \A q \in toManager' : q.op = "MANAGE" => q.id <= globalSessionID
<1> DEFINE query == [op |-> "QUERY"]
<1> DEFINE request == [op |-> "REQUEST"]
<1> DEFINE manageOf(id) == [op |-> "MANAGE", id |-> id]
<1> DEFINE keepalive == [op |-> "KEEPALIVE", id |-> SessionID]
<1>1. send_query_msg => kept
  <2>1. query \in Questions /\ query.op # "MANAGE"
    BY QuestionTypes
  <2>2. send_query_msg => Post(query)
    BY DEF send_query_msg
  <2> HIDE DEF query
  <2> QED
    BY <2>1, <2>2, PostOK
<1>2. send_request_msg => kept
  <2>1. request \in Questions /\ request.op # "MANAGE"
    BY QuestionTypes
  <2>2. send_request_msg => Post(request) \/ UNCHANGED toManager
    BY DEF send_request_msg
  <2> HIDE DEF request
  <2>3. CASE Post(request)
    BY <2>1, <2>3, PostOK
  <2>4. CASE UNCHANGED toManager
    BY <2>4 DEF DisplayOK
  <2> QED
    BY <2>2, <2>3, <2>4
<1>3. ASSUME NEW id \in Ids, id <= globalSessionID, send_manage_msg(id)
      PROVE  kept
  <2> DEFINE m == manageOf(id)
  <2>1. m \in Questions /\ m.id <= globalSessionID
    BY <1>3, QuestionTypes
  <2>2. Post(m)
    BY <1>3 DEF send_manage_msg
  <2> HIDE DEF m
  <2> QED
    BY <2>1, <2>2, PostOK
<1>4. SessionID # None /\ send_keepalive_msg => kept
  <2>1. SessionID # None => keepalive \in Questions /\ keepalive.op # "MANAGE"
    BY QuestionTypes DEF DisplayOK
  <2>2. send_keepalive_msg => Post(keepalive)
    BY DEF send_keepalive_msg
  <2> HIDE DEF keepalive
  <2> QED
    BY <2>1, <2>2, PostOK
<1> QED
  BY <1>1, <1>2, <1>3, <1>4

\* Steps that change only what the display keeps.
DisplayStep ==
  /\ DisplayOK'
  /\ timeOutRtx' \in 0 .. XDM_RTX_LIMIT
  /\ sessionSocket' \in Ids \cup {None}
  /\ conn' \in [Ids -> {"none", "open", "closed", "half-open"}]
  /\ toDisplay' \subseteq toDisplay
  /\ copies' \in 0 .. MaxCopies
  /\ UNCHANGED <<xdm, crashes>>

LEMMA DeadSessionOK ==
  ASSUME DisplayOK, XdmcpDeadSession, UNCHANGED globalSessionID
  PROVE  DisplayOK'
<1>1. state' = "COLLECT_QUERY" /\ resetting' = TRUE /\ UNCHANGED <<SessionID, keys>>
  BY DEF XdmcpDeadSession, send_query_msg
<1>2. /\ toManager' \subseteq Questions
      /\ \A q \in toManager' : q.op = "MANAGE" => q.id <= globalSessionID
  BY SendOK DEF XdmcpDeadSession
<1> QED
  BY <1>1, <1>2 DEF DisplayOK, SessionKnown, Asking, InSession, States

LEMMA RequestOK ==
  ASSUME DisplayOK, send_request_msg, UNCHANGED <<SessionID, resetting, keys, globalSessionID>>
  PROVE  DisplayOK'
<1>1. state' \in {"AWAIT_REQUEST_RESPONSE", "START_CONNECTION"}
  BY DEF send_request_msg
<1>2. /\ toManager' \subseteq Questions
      /\ \A q \in toManager' : q.op = "MANAGE" => q.id <= globalSessionID
  BY SendOK
<1> QED
  BY <1>1, <1>2 DEF DisplayOK, SessionKnown, Asking, InSession, States

LEMMA QueryOK ==
  ASSUME DisplayOK, send_query_msg, SessionID' \in {SessionID, None},
         keys' \subseteq keys, resetting' \in BOOLEAN, UNCHANGED globalSessionID,
         globalSessionID \in Nat
  PROVE  DisplayOK'
<1>1. state' = "COLLECT_QUERY"
  BY DEF send_query_msg
<1>2. /\ toManager' \subseteq Questions
      /\ \A q \in toManager' : q.op = "MANAGE" => q.id <= globalSessionID
  BY SendOK
<1>3. SessionID' \in Ids \cup {None} /\ SessionID' <= globalSessionID
  BY DEF DisplayOK, None
<1> QED
  BY <1>1, <1>2, <1>3 DEF DisplayOK, SessionKnown, Asking, InSession, States

LEMMA ManageOK ==
  ASSUME DisplayOK, NEW id \in Ids, id <= globalSessionID, send_manage_msg(id),
         SessionID' = id, keys' \subseteq Keys, UNCHANGED <<resetting, globalSessionID>>
  PROVE  DisplayOK'
<1>1. state' = "AWAIT_MANAGE_RESPONSE"
  BY DEF send_manage_msg
<1>2. /\ toManager' \subseteq Questions
      /\ \A q \in toManager' : q.op = "MANAGE" => q.id <= globalSessionID
  BY SendOK
<1>3. id # None
  BY BoundsAssumption DEF Ids, None
<1> QED
  BY <1>1, <1>2, <1>3 DEF DisplayOK, SessionKnown, States

LEMMA IgnoredOK ==
  ASSUME DisplayOK, Ignored, UNCHANGED globalSessionID
  PROVE  DisplayOK'
BY DEF DisplayOK, Ignored, SessionKnown

LEMMA FatalOK ==
  ASSUME DisplayOK, NEW op \in Fatal, XdmcpFatal(op), UNCHANGED globalSessionID
  PROVE  DisplayOK'
BY DEF DisplayOK, XdmcpFatal, Fatal, SessionKnown, Asking, InSession

LEMMA ReceiveOK == Inv /\ receive_packet => DisplayStep
<1> SUFFICES ASSUME Inv, receive_packet PROVE DisplayStep
  OBVIOUS
<1>1. PICK m \in toDisplay :
        /\ Read(m, toDisplay)
        /\ timeOutRtx' = 0
        /\ \/ m.op = "WILLING" /\ recv_willing_msg
           \/ m.op \in {"UNWILLING", "DECLINE"} /\ XdmcpFatal(m.op)
           \/ m.op = "ACCEPT" /\ recv_accept_msg(m)
           \/ m.op = "REFUSE" /\ recv_refuse_msg(m)
           \/ m.op = "FAILED" /\ recv_failed_msg(m)
           \/ m.op = "ALIVE" /\ recv_alive_msg(m)
  BY DEF receive_packet
<1>2. UNCHANGED <<sessionSocket, conn, xdm, processes, crashes>>
  BY DEF receive_packet
<1>3. DisplayOK /\ UNCHANGED globalSessionID
  BY <1>2, DisplayInv DEF xdm
<1>4. SUFFICES DisplayOK'
  <2>1. toDisplay' \subseteq toDisplay /\ copies' \in 0 .. MaxCopies
    BY <1>1, BoundsAssumption DEF Read, Inv, TypeOK
  <2>2. timeOutRtx' \in 0 .. XDM_RTX_LIMIT
    BY <1>1, BoundsAssumption
  <2> QED
    BY <1>2, <2>1, <2>2 DEF DisplayStep, Inv, TypeOK
<1>5. CASE recv_willing_msg
  BY <1>3, <1>5, RequestOK, IgnoredOK DEF recv_willing_msg
<1>6. CASE m.op \in {"UNWILLING", "DECLINE"} /\ XdmcpFatal(m.op)
  <2>1. m.op \in Fatal
    BY <1>6 DEF Fatal
  <2> QED
    BY <1>3, <1>6, <2>1, FatalOK
<1>7. CASE m.op = "ACCEPT" /\ recv_accept_msg(m)
  <2>1. m \in Answers /\ m.id <= globalSessionID
    BY <1>7 DEF Inv, TypeOK, IdsKnown
  <2>2. m.id \in Ids /\ m.key \in Keys
    BY <1>7, <2>1 DEF Answers
  <2>3. CASE state = "AWAIT_REQUEST_RESPONSE"
    <3>1. /\ keys' = keys \cup {m.key} /\ SessionID' = m.id /\ send_manage_msg(m.id)
          /\ UNCHANGED resetting
      BY <1>7, <2>3 DEF recv_accept_msg
    <3>2. keys' \subseteq Keys
      BY <1>3, <2>2, <3>1 DEF DisplayOK
    <3> QED
      BY <1>3, <2>1, <2>2, <3>1, <3>2, ManageOK
  <2>4. CASE state # "AWAIT_REQUEST_RESPONSE"
    BY <1>3, <1>7, <2>4, IgnoredOK DEF recv_accept_msg
  <2> QED
    BY <2>3, <2>4
<1>8. CASE recv_refuse_msg(m)
  BY <1>3, <1>8, RequestOK, IgnoredOK DEF recv_refuse_msg
<1>9. CASE recv_failed_msg(m)
  <2>1. "FAILED" \in Fatal
    BY DEF Fatal
  <2> QED
    BY <1>3, <1>9, <2>1, FatalOK, IgnoredOK DEF recv_failed_msg
<1>10. CASE recv_alive_msg(m)
  <2>1. CASE state # "AWAIT_ALIVE_RESPONSE"
    BY <1>3, <1>10, <2>1, IgnoredOK DEF recv_alive_msg
  <2>2. CASE /\ state = "AWAIT_ALIVE_RESPONSE" /\ state' = "RUN_SESSION"
             /\ UNCHANGED <<SessionID, resetting, toManager, keys>>
    BY <1>3, <2>2 DEF DisplayOK, SessionKnown, Asking, InSession, States
  <2>3. CASE XdmcpDeadSession
    BY <1>3, <2>3, DeadSessionOK
  <2> QED
    BY <1>10, <2>1, <2>2, <2>3 DEF recv_alive_msg
<1> QED
  BY <1>1, <1>5, <1>6, <1>7, <1>8, <1>9, <1>10

LEMMA TimedOutOK == Inv /\ TimedOut => DisplayStep
<1> SUFFICES ASSUME Inv, TimedOut PROVE DisplayStep
  OBVIOUS
<1>1. UNCHANGED <<sessionSocket, conn, xdm, processes, toDisplay, copies, crashes>>
  BY DEF TimedOut
<1>2. DisplayOK /\ UNCHANGED globalSessionID
  BY <1>1, DisplayInv DEF xdm
<1>3. /\ SessionID \in Ids \cup {None} /\ SessionID <= globalSessionID
      /\ globalSessionID \in Nat /\ keys \subseteq Keys /\ resetting \in BOOLEAN
      /\ timeOutRtx \in 0 .. XDM_RTX_LIMIT
  BY BoundsAssumption DEF Inv, TypeOK, IdsKnown
<1>4. state \in InSession /\ send_keepalive_msg /\ UNCHANGED <<SessionID, resetting, keys>>
        => DisplayOK'
  <2>1. SUFFICES ASSUME state \in InSession, send_keepalive_msg,
                        UNCHANGED <<SessionID, resetting, keys>>
                 PROVE  DisplayOK'
    OBVIOUS
  <2>2. SessionID # None
    BY <1>2, <2>1 DEF DisplayOK, SessionKnown, Asking
  <2>3. /\ toManager' \subseteq Questions
        /\ \A q \in toManager' : q.op = "MANAGE" => q.id <= globalSessionID
    BY <1>2, <2>1, <2>2, SendOK
  <2>4. state' = "AWAIT_ALIVE_RESPONSE"
    BY <2>1 DEF send_keepalive_msg
  <2> QED
    BY <1>2, <2>1, <2>2, <2>3, <2>4 DEF DisplayOK, SessionKnown, States
<1>5. CASE state = "RUN_SESSION"
  <2>1. send_keepalive_msg /\ UNCHANGED <<SessionID, timeOutRtx, resetting, keys>>
    BY <1>5 DEF TimedOut
  <2>2. DisplayOK'
    BY <1>4, <1>5, <2>1 DEF InSession
  <2> QED
    BY <1>1, <1>3, <2>1, <2>2 DEF DisplayStep, Inv, TypeOK
<1>6. CASE state # "RUN_SESSION"
  <2>1. timeout
    BY <1>6 DEF TimedOut
  <2>2. timeOutRtx' \in 0 .. XDM_RTX_LIMIT
    BY <1>3, <2>1, BoundsAssumption DEF timeout
  <2>3. CASE XdmcpDeadSession
    BY <1>1, <1>2, <2>2, <2>3, DeadSessionOK DEF DisplayStep, Inv, TypeOK
  <2>4. CASE state' = "AWAIT_USER_INPUT" /\ UNCHANGED <<SessionID, resetting, toManager, keys>>
    <3>1. DisplayOK'
      BY <1>2, <2>4 DEF DisplayOK, SessionKnown, Asking, InSession, States
    <3> QED
      BY <1>1, <2>2, <3>1 DEF DisplayStep, Inv, TypeOK
  <2>5. CASE Resend
    <3> SUFFICES DisplayOK'
      BY <1>1, <2>2 DEF DisplayStep, Inv, TypeOK
    <3>1. UNCHANGED <<SessionID, resetting, keys>>
      BY <2>5 DEF Resend
    <3>2. state \in States /\ state \notin {"RUN_SESSION", "AWAIT_USER_INPUT"}
      BY <1>2, <1>6 DEF TimedOut, Serving, DisplayOK
    <3>3. CASE state = "COLLECT_QUERY"
      <4>1. send_query_msg
        BY <2>5, <3>3 DEF Resend
      <4> QED
        BY <1>2, <1>3, <3>1, <4>1, QueryOK
    <3>4. CASE state \in {"START_CONNECTION", "AWAIT_REQUEST_RESPONSE"}
      <4>1. send_request_msg
        BY <2>5, <3>4 DEF Resend
      <4> QED
        BY <1>2, <3>1, <4>1, RequestOK
    <3>5. CASE state = "AWAIT_MANAGE_RESPONSE"
      <4>1. send_manage_msg(SessionID)
        BY <2>5, <3>5 DEF Resend
      <4>2. SessionID \in Ids
        BY <1>2, <1>3, <3>5 DEF DisplayOK, SessionKnown, Asking
      <4> QED
        BY <1>2, <1>3, <3>1, <4>1, <4>2, ManageOK
    <3>6. CASE state = "AWAIT_ALIVE_RESPONSE"
      <4>1. send_keepalive_msg
        BY <2>5, <3>6 DEF Resend
      <4> QED
        BY <1>4, <3>1, <3>6, <4>1 DEF InSession
    <3> QED
      BY <3>2, <3>3, <3>4, <3>5, <3>6 DEF States
  <2> QED
    BY <2>1, <2>3, <2>4, <2>5 DEF timeout
<1> QED
  BY <1>5, <1>6

LEMMA DisplayRest ==
  ASSUME Inv,
         UserInput \/ Hup \/ XdmcpReset \/ \E c \in Ids : HangUp(c) \/ WriteFails(c) \/ Connect(c)
  PROVE  DisplayStep
<1>1. /\ DisplayOK /\ globalSessionID \in Nat /\ keys \subseteq Keys
      /\ resetting \in BOOLEAN /\ timeOutRtx \in 0 .. XDM_RTX_LIMIT
      /\ 0 \in 0 .. XDM_RTX_LIMIT
      /\ sessionSocket \in Ids \cup {None} /\ copies \in 0 .. MaxCopies
      /\ conn \in [Ids -> {"none", "open", "closed", "half-open"}]
  BY DisplayInv, BoundsAssumption DEF Inv, TypeOK
<1>2. CASE UserInput
  <2>1. DisplayOK'
    BY <1>1, <1>2, QueryOK DEF UserInput, xdm
  <2> QED
    BY <1>1, <1>2, <2>1 DEF UserInput, DisplayStep
<1>3. CASE Hup
  <2>1. DisplayOK'
    BY <1>1, <1>3 DEF Hup, DisplayOK, SessionKnown, xdm
  <2> QED
    BY <1>1, <1>3, <2>1 DEF Hup, DisplayStep
<1>4. CASE XdmcpReset
  <2>1. DisplayOK'
    BY <1>1, <1>4, QueryOK DEF XdmcpReset, xdm
  <2>2. conn' \in [Ids -> {"none", "open", "closed", "half-open"}]
    BY <1>4 DEF XdmcpReset
  <2> QED
    BY <1>1, <1>4, <2>1, <2>2 DEF XdmcpReset, DisplayStep
<1>5. ASSUME NEW c \in Ids, HangUp(c)
      PROVE  DisplayStep
  <2>1. DisplayOK'
    BY <1>1, <1>5
       DEF HangUp, XdmcpCloseDisplay, DisplayOK, SessionKnown, Asking, InSession, States, xdm
  <2>2. conn' \in [Ids -> {"none", "open", "closed", "half-open"}]
    BY <1>1, <1>5 DEF HangUp
  <2> QED
    BY <1>1, <1>5, <2>1, <2>2 DEF HangUp, DisplayStep
<1>6. ASSUME NEW c \in Ids, WriteFails(c)
      PROVE  DisplayStep
  <2>1. DisplayOK'
    BY <1>1, <1>6 DEF WriteFails, server, xdm, DisplayOK, SessionKnown
  <2>2. conn' \in [Ids -> {"none", "open", "closed", "half-open"}]
    BY <1>1, <1>6 DEF WriteFails
  <2> QED
    BY <1>1, <1>6, <2>1, <2>2 DEF WriteFails, server, DisplayStep
<1>7. ASSUME NEW c \in Ids, Connect(c)
      PROVE  DisplayStep
  <2>1. DisplayOK' /\ sessionSocket' \in Ids \cup {None}
    BY <1>1, <1>7
       DEF Connect, XdmcpOpenDisplay, DisplayOK, SessionKnown, Asking, InSession, States, xdm
  <2>2. conn' \in [Ids -> {"none", "open", "closed", "half-open"}]
    BY <1>1, <1>7 DEF Connect
  <2> QED
    BY <1>1, <1>7, <2>1, <2>2 DEF Connect, DisplayStep
<1> QED
  BY <1>2, <1>3, <1>4, <1>5, <1>6, <1>7

\* The processes are the manager's, but one of them may have connected.
LEMMA DisplayStepInv ==
  ASSUME Inv, DisplayStep,
         kid' \in [Ids -> {"none", "opening", "open", "openfailed", "exited"}],
         kidKey' \in [Ids -> Keys \cup {None}], signalled' \subseteq Ids
  PROVE  Inv'
<1>1. UNCHANGED <<proto, protoKey, active, forked, globalSessionID, lastKey, crashes>>
  BY DEF DisplayStep, xdm
<1>2. toDisplay' \subseteq toDisplay
  BY DEF DisplayStep
<1>3. TypeOK'
  BY <1>1, <1>2 DEF Inv, TypeOK, DisplayStep, DisplayOK
<1>4. IdsKnown'
  BY <1>1, <1>2 DEF Inv, IdsKnown, DisplayStep, DisplayOK
<1>5. SessionKnown'
  BY DEF DisplayStep, DisplayOK
<1>6. OfferedOrManaged' /\ RefusedForGood'
  BY <1>1, <1>2 DEF Inv, OfferedOrManaged, RefusedForGood
<1> QED
  BY <1>3, <1>4, <1>5, <1>6 DEF Inv

-----------------------------------------------------------------------------
\* The manager's side.

\* A datagram that may be on its way to the display while p is on offer, a has
\* its process, and g is the last id that was handed out.
Fits(m, p, a, g) ==
  /\ m \in Answers
  /\ m.op \in {"ACCEPT", "REFUSE", "FAILED"} => m.id <= g
  /\ m.op = "REFUSE" => m.id # p /\ (m.id = a => m.id < g)
  /\ m.op = "FAILED" => m.id \notin {p, a}

XdmOK ==
  /\ proto \in Ids \cup {None} /\ protoKey \in Keys \cup {None}
  /\ active \in Ids \cup {None} /\ forked \in BOOLEAN
  /\ globalSessionID \in 0 .. MaxId /\ lastKey \in 0 .. MaxKeys
  /\ proto <= globalSessionID /\ active <= globalSessionID
  /\ OfferedOrManaged
  /\ \A m \in toDisplay : Fits(m, proto, active, globalSessionID)

ProcessesOK ==
  /\ kid \in [Ids -> {"none", "opening", "open", "openfailed", "exited"}]
  /\ kidKey \in [Ids -> Keys \cup {None}] /\ signalled \subseteq Ids

LEMMA XdmInv == Inv => XdmOK /\ ProcessesOK
BY DEF Inv, TypeOK, IdsKnown, RefusedForGood, XdmOK, Fits, ProcessesOK

LEMMA XdmStepInv ==
  ASSUME Inv, XdmOK', ProcessesOK', UNCHANGED server, globalSessionID <= globalSessionID',
         toManager' \subseteq toManager,
         conn' \in [Ids -> {"none", "open", "closed", "half-open"}],
         copies' \in 0 .. MaxCopies, crashes' \in 0 .. MaxCrashes
  PROVE  Inv'
<1>1. UNCHANGED <<state, SessionID, timeOutRtx, sessionSocket, keys, resetting>>
  BY DEF server
<1>2. \A m \in toDisplay' : Fits(m, proto', active', globalSessionID')
  BY DEF XdmOK
<1>3. TypeOK'
  BY <1>1, <1>2 DEF Inv, TypeOK, XdmOK, ProcessesOK, Fits
<1>4. IdsKnown'
  <2>1. SessionID' <= globalSessionID'
    BY <1>1, <1>3, BoundsAssumption DEF Inv, TypeOK, IdsKnown, Ids, None
  <2>2. \A m \in toManager' : m.op = "MANAGE" => m.id <= globalSessionID'
    <3>1. SUFFICES ASSUME NEW m \in toManager', m.op = "MANAGE"
                   PROVE  m.id <= globalSessionID'
      OBVIOUS
    <3>2. m \in Questions /\ m.id <= globalSessionID
      BY <3>1 DEF Inv, TypeOK, IdsKnown
    <3>3. m.id \in Nat
      BY <3>1, <3>2, BoundsAssumption DEF Questions, Ids
    <3> QED
      BY <1>3, <3>2, <3>3, BoundsAssumption DEF Inv, TypeOK
  <2> QED
    BY <1>2, <2>1, <2>2 DEF IdsKnown, XdmOK, Fits
<1>5. SessionKnown' /\ OfferedOrManaged' /\ RefusedForGood'
  BY <1>1, <1>2 DEF Inv, SessionKnown, XdmOK, RefusedForGood, Fits
<1> QED
  BY <1>3, <1>4, <1>5 DEF Inv

LEMMA ReadOK ==
  ASSUME Inv, NEW m \in toManager, Read(m, toManager)
  PROVE  toManager' \subseteq toManager /\ copies' \in 0 .. MaxCopies
BY BoundsAssumption DEF Read, Inv, TypeOK

LEMMA SentOK ==
  ASSUME NEW net, NEW m, NEW room, NEW p, NEW a, NEW g,
         \A q \in net : Fits(q, p, a, g), Fits(m, p, a, g)
  PROVE  \A q \in Sent(net, m, room) : Fits(q, p, a, g)
BY DEF Sent

\* What may be sent, and remains so when ids are handed out.
LEMMA AnswersFit ==
  ASSUME NEW p, NEW a, NEW g, NEW id \in Ids
  PROVE  /\ \A op \in {"WILLING", "UNWILLING", "DECLINE"} : Fits([op |-> op], p, a, g)
         /\ \A key \in Keys : id <= g => Fits([op |-> "ACCEPT", id |-> id, key |-> key], p, a, g)
         /\ id <= g /\ id # p /\ (id = a => id < g) => Fits([op |-> "REFUSE", id |-> id], p, a, g)
         /\ id <= g /\ id \notin {p, a} => Fits([op |-> "FAILED", id |-> id], p, a, g)
         /\ \A running \in BOOLEAN, of \in Ids \cup {None} :
              Fits([op |-> "ALIVE", running |-> running, id |-> of], p, a, g)
<1>1. /\ \A op \in {"WILLING", "UNWILLING", "DECLINE"} :
           [op |-> op] \in Answers /\ [op |-> op].op = op
      /\ \A key \in Keys : [op |-> "ACCEPT", id |-> id, key |-> key] \in Answers
      /\ [op |-> "REFUSE", id |-> id] \in Answers
      /\ [op |-> "FAILED", id |-> id] \in Answers
      /\ \A running \in BOOLEAN, of \in Ids \cup {None} :
           [op |-> "ALIVE", running |-> running, id |-> of] \in Answers
  BY DEF Answers
<1> QED
  BY <1>1 DEF Fits

LEMMA QueryRespondOK ==
  ASSUME Inv, NEW m \in toManager, query_respond(m)
  PROVE  XdmOK' /\ ProcessesOK' /\ globalSessionID <= globalSessionID'
<1>1. PICK op \in {"WILLING", "UNWILLING"} : Answer(m, [op |-> op])
  BY DEF query_respond
<1>2. /\ UNCHANGED <<proto, protoKey, active, forked, globalSessionID, lastKey>>
      /\ UNCHANGED <<kid, kidKey, signalled>>
  BY DEF query_respond, xdm, processes
<1>3. XdmOK /\ ProcessesOK /\ globalSessionID \in Nat
  BY XdmInv, BoundsAssumption DEF Inv, TypeOK
<1> DEFINE answer == [op |-> op]
<1>4. Fits(answer, proto, active, globalSessionID)
  BY DEF Fits, Answers
<1>5. toDisplay' = Sent(toDisplay, answer, MaxAnswers)
  BY <1>1 DEF Answer
<1> HIDE DEF answer
<1>6. \A q \in toDisplay' : Fits(q, proto, active, globalSessionID)
  BY <1>3, <1>4, <1>5, SentOK DEF XdmOK
<1> QED
  BY <1>2, <1>3, <1>6 DEF XdmOK, ProcessesOK, OfferedOrManaged

LEMMA SendAliveOK ==
  ASSUME Inv, NEW m \in toManager, send_alive(m)
  PROVE  XdmOK' /\ ProcessesOK' /\ globalSessionID <= globalSessionID'
<1> DEFINE running == active # None /\ forked
<1> DEFINE answer == [op |-> "ALIVE", running |-> running /\ active = m.id,
                      id |-> IF running THEN active ELSE None]
<1>1. toDisplay' = Sent(toDisplay, answer, MaxAnswers)
  BY DEF send_alive, Answer
<1>2. /\ UNCHANGED <<proto, protoKey, active, forked, globalSessionID, lastKey>>
      /\ UNCHANGED <<kid, kidKey, signalled>>
  BY DEF send_alive, xdm, processes
<1>3. XdmOK /\ ProcessesOK /\ globalSessionID \in Nat
  BY XdmInv, BoundsAssumption DEF Inv, TypeOK
<1>4. Fits(answer, proto, active, globalSessionID)
  BY <1>3 DEF XdmOK, Fits, Answers
<1> HIDE DEF answer
<1>5. \A q \in toDisplay' : Fits(q, proto, active, globalSessionID)
  BY <1>1, <1>3, <1>4, SentOK DEF XdmOK
<1> QED
  BY <1>2, <1>3, <1>5 DEF XdmOK, ProcessesOK, OfferedOrManaged

\* An id that is offered anew is in no datagram, one that is offered again was
\* refused to nobody.
LEMMA RequestRespondOK ==
  ASSUME Inv, NEW m \in toManager, request_respond(m)
  PROVE  XdmOK' /\ ProcessesOK' /\ globalSessionID <= globalSessionID'
<1>1. /\ UNCHANGED <<active, forked>> /\ UNCHANGED <<kid, kidKey, signalled>>
  BY DEF request_respond, processes
<1>2. XdmOK /\ ProcessesOK /\ globalSessionID \in Nat
  BY XdmInv, BoundsAssumption DEF Inv, TypeOK
<1>3. ProcessesOK'
  BY <1>1, <1>2 DEF ProcessesOK
<1>4. ASSUME NEW id \in Ids, Accept(id), id <= globalSessionID', id = globalSessionID',
             globalSessionID' \in 0 .. MaxId, globalSessionID <= globalSessionID',
             id # active, \A q \in toDisplay : q.op \in {"REFUSE", "FAILED"} => q.id # id,
             Answer(m, [op |-> "ACCEPT", id |-> id, key |-> lastKey + 1])
      PROVE  XdmOK'
  <2> DEFINE answer == [op |-> "ACCEPT", id |-> id, key |-> lastKey + 1]
  <2>1. /\ proto' = id /\ protoKey' = lastKey + 1 /\ lastKey' = lastKey + 1
        /\ lastKey + 1 \in Keys /\ lastKey + 1 \in 0 .. MaxKeys
    BY <1>2, <1>4, BoundsAssumption DEF Accept, XdmOK, Keys
  <2>2. Fits(answer, id, active, globalSessionID')
    BY <1>4, <2>1, AnswersFit
  <2>3. toDisplay' = Sent(toDisplay, answer, MaxAnswers)
    BY <1>4 DEF Answer
  <2> HIDE DEF answer
  <2>4. \A q \in toDisplay : Fits(q, id, active, globalSessionID')
    <3>1. SUFFICES ASSUME NEW q \in toDisplay
                   PROVE  Fits(q, id, active, globalSessionID')
      OBVIOUS
    <3>2. Fits(q, proto, active, globalSessionID)
      BY <1>2 DEF XdmOK
    <3>3. q.op \in {"ACCEPT", "REFUSE", "FAILED"} => q.id \in Nat
      BY <3>2, BoundsAssumption DEF Fits, Answers, Ids
    <3>4. globalSessionID' \in Nat /\ active \in Nat
      BY <1>2, <1>4, BoundsAssumption DEF XdmOK, Ids, None
    <3> QED
      BY <1>2, <1>4, <3>2, <3>3, <3>4 DEF Fits
  <2>5. \A q \in toDisplay' : Fits(q, id, active, globalSessionID')
    BY <2>2, <2>3, <2>4, SentOK
  <2>6. active <= globalSessionID'
    BY <1>2, <1>4, BoundsAssumption DEF XdmOK, Ids, None
  <2> QED
    BY <1>1, <1>2, <1>4, <2>1, <2>5, <2>6 DEF XdmOK, OfferedOrManaged
<1>5. CASE /\ proto # None /\ Accept(proto) /\ UNCHANGED globalSessionID
           /\ Answer(m, [op |-> "ACCEPT", id |-> proto, key |-> lastKey + 1])
  <2>1. proto \in Ids /\ proto # active /\ proto <= globalSessionID /\ proto = globalSessionID
    BY <1>2, <1>5 DEF XdmOK, OfferedOrManaged
  <2>2. \A q \in toDisplay : q.op \in {"REFUSE", "FAILED"} => q.id # proto
    BY <1>2 DEF XdmOK, Fits
  <2> QED
    BY <1>2, <1>3, <1>4, <1>5, <2>1, <2>2 DEF XdmOK
<1>6. CASE /\ proto = None /\ globalSessionID < MaxId
           /\ globalSessionID' = globalSessionID + 1
           /\ Accept(globalSessionID + 1)
           /\ Answer(m, [op |-> "ACCEPT", id |-> globalSessionID + 1, key |-> lastKey + 1])
  <2> DEFINE id == globalSessionID + 1
  <2>1. /\ id \in Ids /\ globalSessionID' = id /\ id \in 0 .. MaxId
        /\ globalSessionID <= id /\ id <= id
    BY <1>2, <1>6, BoundsAssumption DEF Ids
  <2>2. id # active
    BY <1>2, BoundsAssumption DEF XdmOK, Ids, None
  <2>3. \A q \in toDisplay : q.op \in {"REFUSE", "FAILED"} => q.id # id
    <3>1. SUFFICES ASSUME NEW q \in toDisplay, q.op \in {"REFUSE", "FAILED"}
                   PROVE  q.id # id
      OBVIOUS
    <3>2. q.id <= globalSessionID /\ q \in Answers
      BY <1>2, <3>1 DEF XdmOK, Fits
    <3>3. q.id \in Nat
      BY <3>1, <3>2, BoundsAssumption DEF Answers, Ids
    <3> QED
      BY <1>2, <3>2, <3>3
  <2>4. Accept(id) /\ Answer(m, [op |-> "ACCEPT", id |-> id, key |-> lastKey + 1])
    BY <1>6
  <2> HIDE DEF id
  <2> QED
    BY <1>3, <1>4, <2>1, <2>2, <2>3, <2>4
<1>7. CASE /\ Answer(m, [op |-> "DECLINE"])
           /\ proto' = None /\ protoKey' = None
           /\ \/ UNCHANGED globalSessionID
              \/ globalSessionID < MaxId /\ globalSessionID' = globalSessionID + 1
           /\ UNCHANGED lastKey
  <2> DEFINE answer == [op |-> "DECLINE"]
  <2>1. globalSessionID' \in 0 .. MaxId /\ globalSessionID <= globalSessionID'
    BY <1>2, <1>7, BoundsAssumption DEF XdmOK
  <2>2. Fits(answer, None, active, globalSessionID')
    BY DEF Fits, Answers
  <2>3. toDisplay' = Sent(toDisplay, answer, MaxAnswers)
    BY <1>7 DEF Answer
  <2> HIDE DEF answer
  <2>4. \A q \in toDisplay : Fits(q, None, active, globalSessionID')
    <3>1. SUFFICES ASSUME NEW q \in toDisplay
                   PROVE  Fits(q, None, active, globalSessionID')
      OBVIOUS
    <3>2. Fits(q, proto, active, globalSessionID)
      BY <1>2 DEF XdmOK
    <3>3. q.op \in {"ACCEPT", "REFUSE", "FAILED"} => q.id \in Nat /\ q.id # None
      BY <3>2, BoundsAssumption DEF Fits, Answers, Ids, None
    <3>4. globalSessionID' \in Nat /\ active \in Nat
      BY <1>2, <2>1, BoundsAssumption DEF XdmOK, Ids, None
    <3> QED
      BY <1>2, <2>1, <3>2, <3>3, <3>4 DEF Fits
  <2>5. \A q \in toDisplay' : Fits(q, None, active, globalSessionID')
    BY <2>2, <2>3, <2>4, SentOK
  <2>6. active <= globalSessionID' /\ None <= globalSessionID'
    BY <1>2, <2>1, BoundsAssumption DEF XdmOK, Ids, None
  <2> QED
    BY <1>1, <1>2, <1>3, <1>7, <2>1, <2>5, <2>6 DEF XdmOK, OfferedOrManaged
<1> QED
  BY <1>5, <1>6, <1>7 DEF request_respond

\* The offer becomes a process, or is refused for good.
LEMMA ManageOfferOK ==
  ASSUME Inv, NEW m \in toManager, manage(m)
  PROVE  XdmOK' /\ ProcessesOK' /\ globalSessionID <= globalSessionID'
<1>1. m.op = "MANAGE" /\ UNCHANGED <<globalSessionID, lastKey>>
  BY DEF manage
<1>2. XdmOK /\ ProcessesOK /\ globalSessionID \in Nat
  BY XdmInv, BoundsAssumption DEF Inv, TypeOK
<1>3. m.id \in Ids /\ m.id <= globalSessionID
  BY <1>1 DEF Inv, TypeOK, IdsKnown, Questions
<1>4. m.id # None
  BY <1>3 DEF Ids, None
<1>5. CASE /\ proto = m.id /\ signalled' = Stopped /\ StartDisplay(m.id, protoKey)
           /\ proto' = None /\ protoKey' = None /\ Ignore(m)
  <2>1. /\ active' = m.id /\ forked' \in BOOLEAN
        /\ \/ /\ kid' = [kid EXCEPT ![m.id] = "opening"]
              /\ kidKey' = [kidKey EXCEPT ![m.id] = protoKey]
           \/ UNCHANGED <<kid, kidKey>>
    BY <1>5 DEF StartDisplay
  <2>2. ProcessesOK'
    <3>1. signalled' \subseteq Ids
      BY <1>2, <1>5 DEF Stopped, XdmOK, ProcessesOK
    <3>2. protoKey \in Keys \cup {None}
      BY <1>2 DEF XdmOK
    <3> QED
      BY <1>2, <1>3, <2>1, <3>1, <3>2 DEF ProcessesOK
  <2>3. \A q \in toDisplay' : Fits(q, None, m.id, globalSessionID)
    <3>1. SUFFICES ASSUME NEW q \in toDisplay
                   PROVE  Fits(q, None, m.id, globalSessionID)
      BY <1>5 DEF Ignore
    <3>2. Fits(q, m.id, active, globalSessionID)
      BY <1>2, <1>5 DEF XdmOK
    <3>3. q.op \in {"REFUSE", "FAILED"} => q.id # None
      BY <3>2 DEF Fits, Answers, Ids, None
    <3> QED
      BY <3>2, <3>3 DEF Fits
  <2>4. None <= globalSessionID
    BY <1>2 DEF None
  <2> QED
    BY <1>1, <1>2, <1>3, <1>5, <2>1, <2>2, <2>3, <2>4 DEF XdmOK, OfferedOrManaged
<1>6. CASE /\ proto # m.id
           /\ IF Duplicate(m) THEN Ignore(m) ELSE Answer(m, [op |-> "REFUSE", id |-> m.id])
           /\ UNCHANGED <<proto, protoKey, active, forked, processes>>
  <2> DEFINE answer == [op |-> "REFUSE", id |-> m.id]
  <2>1. ASSUME Duplicate(m)
        PROVE  \A q \in toDisplay' : Fits(q, proto, active, globalSessionID)
    BY <1>2, <1>6, <2>1 DEF Ignore, XdmOK
  <2>2. ASSUME ~Duplicate(m)
        PROVE  \A q \in toDisplay' : Fits(q, proto, active, globalSessionID)
    <3>1. m.id = active => m.id < globalSessionID
      <4>1. m.id = active => proto = globalSessionID
        BY <1>2, <2>2 DEF Duplicate, XdmOK, OfferedOrManaged
      <4>2. m.id \in Nat
        BY <1>3, BoundsAssumption DEF Ids
      <4> QED
        BY <1>2, <1>3, <1>6, <4>1, <4>2
    <3>2. Fits(answer, proto, active, globalSessionID)
      BY <1>3, <1>6, <3>1, AnswersFit
    <3>3. toDisplay' = Sent(toDisplay, answer, MaxAnswers)
      BY <1>6, <2>2 DEF Answer
    <3> HIDE DEF answer
    <3> QED
      BY <1>2, <3>2, <3>3, SentOK DEF XdmOK
  <2>3. \A q \in toDisplay' : Fits(q, proto, active, globalSessionID)
    BY <2>1, <2>2
  <2> QED
    BY <1>1, <1>2, <1>6, <2>3 DEF XdmOK, OfferedOrManaged, ProcessesOK, processes
<1> QED
  BY <1>5, <1>6 DEF manage

LEMMA ProcessRequestSocketOK == Inv /\ ProcessRequestSocket => Inv'
<1> SUFFICES ASSUME Inv, ProcessRequestSocket PROVE Inv'
  OBVIOUS
<1>1. PICK m \in toManager :
        query_respond(m) \/ request_respond(m) \/ manage(m) \/ send_alive(m)
  BY DEF ProcessRequestSocket
<1>2. UNCHANGED server /\ UNCHANGED <<conn, crashes>>
  BY DEF ProcessRequestSocket
<1>3. XdmOK' /\ ProcessesOK' /\ globalSessionID <= globalSessionID'
  BY <1>1, QueryRespondOK, RequestRespondOK, ManageOfferOK, SendAliveOK
<1>4. Read(m, toManager)
  BY <1>1 DEF query_respond, request_respond, manage, send_alive, Answer, Ignore
<1>5. toManager' \subseteq toManager /\ copies' \in 0 .. MaxCopies
  BY <1>4, ReadOK
<1>6. /\ conn' \in [Ids -> {"none", "open", "closed", "half-open"}]
      /\ crashes' \in 0 .. MaxCrashes
  BY <1>2 DEF Inv, TypeOK
<1> QED
  BY <1>2, <1>3, <1>5, <1>6, XdmStepInv

\* The last process of a session ends: if it never got its connection, the
\* display is told, and xdm has forgotten the session by then.
LEMMA WaitForChildOK ==
  ASSUME Inv, NEW c \in Ids, WaitForChild(c)
  PROVE  XdmOK' /\ ProcessesOK' /\ globalSessionID <= globalSessionID'
<1>1. /\ UNCHANGED <<proto, protoKey, globalSessionID, lastKey>>
      /\ kid' = [kid EXCEPT ![c] = "none"] /\ kidKey' = [kidKey EXCEPT ![c] = None]
      /\ signalled' = signalled \ {c}
  BY DEF WaitForChild
<1>2. XdmOK /\ ProcessesOK /\ globalSessionID \in Nat
  BY XdmInv, BoundsAssumption DEF Inv, TypeOK
<1>3. ProcessesOK'
  BY <1>1, <1>2 DEF ProcessesOK
<1>4. CASE active = c /\ forked
  <2> DEFINE answer == [op |-> "FAILED", id |-> c]
  <2>1. active' = None /\ forked' = FALSE
    BY <1>4 DEF WaitForChild
  <2>2. c <= globalSessionID /\ c \notin {proto, None}
    BY <1>2, <1>4 DEF XdmOK, OfferedOrManaged, Ids, None
  <2>3. Fits(answer, proto, None, globalSessionID)
    BY <2>2, AnswersFit
  <2>4. toDisplay' = toDisplay \/ toDisplay' = Sent(toDisplay, answer, MaxAnswers)
    BY <1>4 DEF WaitForChild
  <2> HIDE DEF answer
  <2>5. \A q \in toDisplay : Fits(q, proto, None, globalSessionID)
    <3>1. SUFFICES ASSUME NEW q \in toDisplay
                   PROVE  Fits(q, proto, None, globalSessionID)
      OBVIOUS
    <3>2. Fits(q, proto, active, globalSessionID)
      BY <1>2 DEF XdmOK
    <3>3. q.op \in {"REFUSE", "FAILED"} => q.id # None
      BY <3>2 DEF Fits, Answers, Ids, None
    <3> QED
      BY <3>2, <3>3 DEF Fits
  <2>6. \A q \in toDisplay' : Fits(q, proto, None, globalSessionID)
    BY <2>3, <2>4, <2>5, SentOK
  <2>7. XdmOK'
    <3>1. /\ None <= globalSessionID /\ proto <= globalSessionID
          /\ proto \in Ids \cup {None} /\ protoKey \in Keys \cup {None}
          /\ globalSessionID \in 0 .. MaxId /\ lastKey \in 0 .. MaxKeys
      BY <1>2 DEF XdmOK, None
    <3>2. /\ active' \in Ids \cup {None} /\ forked' \in BOOLEAN
          /\ active' <= globalSessionID' /\ OfferedOrManaged'
      BY <1>1, <1>2, <2>1, <3>1 DEF OfferedOrManaged, XdmOK
    <3> QED
      BY <1>1, <2>1, <2>6, <3>1, <3>2 DEF XdmOK
  <2> QED
    BY <1>1, <1>2, <1>3, <2>7
<1>5. CASE ~(active = c /\ forked)
  BY <1>1, <1>2, <1>3, <1>5 DEF WaitForChild, XdmOK, OfferedOrManaged
<1> QED
  BY <1>4, <1>5

\* xdm forgets p, or everything.
LEMMA ForgetsOK ==
  ASSUME Inv, proto' = None, protoKey' = None,
         \/ UNCHANGED <<active, forked>>
         \/ active' = None /\ forked' = FALSE,
         UNCHANGED <<globalSessionID, lastKey, toDisplay>>
  PROVE  XdmOK'
<1>1. XdmOK /\ globalSessionID \in Nat
  BY XdmInv, BoundsAssumption DEF Inv, TypeOK
<1>2. \A q \in toDisplay : Fits(q, None, active', globalSessionID)
  <2>1. SUFFICES ASSUME NEW q \in toDisplay
                 PROVE  Fits(q, None, active', globalSessionID)
    OBVIOUS
  <2>2. Fits(q, proto, active, globalSessionID)
    BY <1>1 DEF XdmOK
  <2>3. q.op \in {"REFUSE", "FAILED"} => q.id # None
    BY <2>2 DEF Fits, Answers, Ids, None
  <2> QED
    BY <2>2, <2>3 DEF Fits
<1>3. None <= globalSessionID
  BY <1>1 DEF None
<1> QED
  BY <1>1, <1>2, <1>3 DEF XdmOK, OfferedOrManaged

-----------------------------------------------------------------------------
LEMMA InitInv == Init => Inv
<1> SUFFICES ASSUME Init PROVE Inv
  OBVIOUS
<1>1. [op |-> "QUERY"] \in Questions /\ [op |-> "QUERY"].op # "MANAGE"
  BY QuestionTypes
<1>2. TypeOK
  <2>1. /\ state \in States \cup Fatal /\ SessionID \in Ids \cup {None}
        /\ timeOutRtx \in 0 .. XDM_RTX_LIMIT /\ sessionSocket \in Ids \cup {None}
        /\ keys \subseteq Keys /\ resetting \in BOOLEAN
        /\ conn \in [Ids -> {"none", "open", "closed", "half-open"}]
    <3>1. /\ state = "COLLECT_QUERY" /\ SessionID = None /\ timeOutRtx = 0
          /\ sessionSocket = None /\ keys = {} /\ resetting = FALSE
          /\ conn = [c \in Ids |-> "none"]
      BY DEF Init
    <3>2. 0 \in 0 .. XDM_RTX_LIMIT
      BY BoundsAssumption
    <3>3. conn \in [Ids -> {"none", "open", "closed", "half-open"}]
      BY <3>1
    <3> QED
      BY <3>1, <3>2, <3>3 DEF States
  <2>2. /\ proto \in Ids \cup {None} /\ protoKey \in Keys \cup {None}
        /\ active \in Ids \cup {None} /\ forked \in BOOLEAN
        /\ globalSessionID \in 0 .. MaxId /\ lastKey \in 0 .. MaxKeys
        /\ copies \in 0 .. MaxCopies /\ crashes \in 0 .. MaxCrashes
    <3>1. /\ proto = None /\ protoKey = None /\ active = None /\ forked = FALSE
          /\ globalSessionID = 0 /\ lastKey = 0 /\ copies = 0 /\ crashes = 0
      BY DEF Init
    <3>2. 0 \in 0 .. MaxId /\ 0 \in 0 .. MaxKeys /\ 0 \in 0 .. MaxCopies /\ 0 \in 0 .. MaxCrashes
      BY BoundsAssumption
    <3> QED
      BY <3>1, <3>2
  <2>3. /\ kid \in [Ids -> {"none", "opening", "open", "openfailed", "exited"}]
        /\ kidKey \in [Ids -> Keys \cup {None}] /\ signalled \subseteq Ids
    BY DEF Init
  <2>4. toDisplay \subseteq Answers /\ toManager \subseteq Questions
    BY <1>1 DEF Init
  <2> QED
    BY <2>1, <2>2, <2>3, <2>4 DEF TypeOK
<1>3. IdsKnown
  BY <1>1 DEF Init, IdsKnown, None
<1>4. SessionKnown /\ OfferedOrManaged /\ RefusedForGood
  BY DEF Init, SessionKnown, Asking, InSession, OfferedOrManaged, RefusedForGood
<1> QED
  BY <1>2, <1>3, <1>4 DEF Inv

LEMMA NextInv == Inv /\ [Next]_vars => Inv'
<1> SUFFICES ASSUME Inv, [Next]_vars PROVE Inv'
  OBVIOUS
<1>1. /\ XdmOK /\ ProcessesOK /\ globalSessionID \in Nat
      /\ conn \in [Ids -> {"none", "open", "closed", "half-open"}]
      /\ copies \in 0 .. MaxCopies /\ crashes \in 0 .. MaxCrashes
  BY XdmInv, BoundsAssumption DEF Inv, TypeOK
<1>2. UNCHANGED processes /\ DisplayStep => Inv'
  <2>1. UNCHANGED processes => ProcessesOK'
    BY <1>1 DEF processes, ProcessesOK
  <2> QED
    BY <2>1, DisplayStepInv DEF ProcessesOK
<1>3. CASE receive_packet
  BY <1>2, <1>3, ReceiveOK DEF receive_packet
<1>4. CASE TimedOut
  BY <1>2, <1>4, TimedOutOK DEF TimedOut
<1>5. CASE UserInput \/ Hup \/ XdmcpReset
  <2>1. UNCHANGED processes
    BY <1>5 DEF UserInput, Hup, XdmcpReset
  <2> QED
    BY <1>2, <1>5, <2>1, DisplayRest
<1>6. ASSUME NEW c \in Ids, HangUp(c) \/ WriteFails(c)
      PROVE  Inv'
  <2>1. UNCHANGED processes
    BY <1>6 DEF HangUp, WriteFails
  <2> QED
    BY <1>2, <1>6, <2>1, DisplayRest
<1>7. ASSUME NEW c \in Ids, Connect(c)
      PROVE  Inv'
  <2>1. ProcessesOK'
    BY <1>1, <1>7 DEF Connect, ProcessesOK
  <2> QED
    BY <1>7, <2>1, DisplayRest, DisplayStepInv DEF ProcessesOK
<1>8. CASE ProcessRequestSocket
  BY <1>8, ProcessRequestSocketOK
<1>9. CASE TimeoutProtoDisplays
  <2>1. XdmOK'
    BY <1>9, ForgetsOK DEF TimeoutProtoDisplays
  <2>2. /\ UNCHANGED server /\ UNCHANGED <<globalSessionID, conn, toManager, copies, crashes>>
        /\ ProcessesOK'
    BY <1>1, <1>9 DEF TimeoutProtoDisplays, processes, ProcessesOK
  <2> QED
    BY <1>1, <2>1, <2>2, XdmStepInv
<1>10. CASE Crash
  <2>1. XdmOK'
    BY <1>10, ForgetsOK DEF Crash
  <2>2. /\ UNCHANGED server /\ UNCHANGED <<globalSessionID, toManager, copies>>
        /\ crashes' \in 0 .. MaxCrashes
    BY <1>1, <1>10, BoundsAssumption DEF Crash
  <2>3. ProcessesOK' /\ conn' \in [Ids -> {"none", "open", "closed", "half-open"}]
    BY <1>1, <1>10 DEF Crash, ProcessesOK, None
  <2> QED
    BY <1>1, <2>1, <2>2, <2>3, XdmStepInv
<1>11. ASSUME NEW c \in Ids, GiveUp(c) \/ Exit(c)
       PROVE  Inv'
  <2>1. /\ UNCHANGED server /\ UNCHANGED xdm
        /\ UNCHANGED <<kidKey, signalled, toDisplay, toManager, copies, crashes>>
    BY <1>11 DEF GiveUp, Exit
  <2>2. ProcessesOK' /\ conn' \in [Ids -> {"none", "open", "closed", "half-open"}]
    BY <1>1, <1>11 DEF GiveUp, Exit, Closed, ProcessesOK
  <2>3. XdmOK' /\ globalSessionID' = globalSessionID
    BY <1>1, <2>1 DEF XdmOK, OfferedOrManaged, xdm
  <2> QED
    BY <1>1, <2>1, <2>2, <2>3, XdmStepInv
<1>12. ASSUME NEW c \in Ids, WaitForChild(c)
       PROVE  Inv'
  <2>1. UNCHANGED server /\ UNCHANGED <<conn, toManager, copies, crashes>>
    BY <1>12 DEF WaitForChild
  <2> QED
    BY <1>1, <1>12, <2>1, WaitForChildOK, XdmStepInv
<1>13. CASE Lose
  <2>1. /\ UNCHANGED server /\ UNCHANGED xdm /\ UNCHANGED processes
        /\ UNCHANGED <<conn, copies, crashes>>
        /\ toDisplay' \subseteq toDisplay /\ toManager' \subseteq toManager
    BY <1>13 DEF Lose
  <2>2. XdmOK' /\ ProcessesOK' /\ globalSessionID' = globalSessionID
    BY <1>1, <2>1 DEF XdmOK, OfferedOrManaged, xdm, processes, ProcessesOK
  <2> QED
    BY <1>1, <2>1, <2>2, XdmStepInv
<1>14. CASE UNCHANGED vars
  BY <1>14 DEF vars, server, xdm, processes, Inv, TypeOK, IdsKnown, SessionKnown,
               OfferedOrManaged, RefusedForGood
<1> QED
  BY <1>3, <1>4, <1>5, <1>6, <1>7, <1>8, <1>9, <1>10, <1>11, <1>12, <1>13, <1>14 DEF Next

\* What is in the two programs and on the wire stays well-formed; no Manage or
\* KeepAlive is ever sent without a session id.
THEOREM TypeCorrect == Spec => []TypeOK
<1>1. Inv => TypeOK
  BY DEF Inv
<1> QED
  BY <1>1, InitInv, NextInv, PTL DEF Spec

LEMMA StepDropsNothing == Inv /\ [Next]_vars => [DropsNothingLive]_vars
<1> SUFFICES ASSUME Inv, Next
             PROVE  /\ /\ state = "AWAIT_MANAGE_RESPONSE"
                       /\ state' \in {"START_CONNECTION", "AWAIT_REQUEST_RESPONSE"}
                       => SessionID # proto /\ (SessionID = active => SessionID < globalSessionID)
                    /\ state' = "FAILED" => SessionID \notin {proto, active}
  BY DEF DropsNothingLive
<1>1. /\ state \notin Fatal
      /\ \A m \in toDisplay : /\ m.op = "REFUSE" =>
                                   m.id # proto /\ (m.id = active => m.id < globalSessionID)
                              /\ m.op = "FAILED" => m.id \notin {proto, active}
  BY DEF Next, Inv, RefusedForGood
<1>2. state # "FAILED"
  BY <1>1 DEF Fatal
<1>3. CASE receive_packet
  <2>1. PICK m \in toDisplay :
          \/ m.op = "WILLING" /\ recv_willing_msg
          \/ m.op \in {"UNWILLING", "DECLINE"} /\ XdmcpFatal(m.op)
          \/ m.op = "ACCEPT" /\ recv_accept_msg(m)
          \/ m.op = "REFUSE" /\ recv_refuse_msg(m)
          \/ m.op = "FAILED" /\ recv_failed_msg(m)
          \/ m.op = "ALIVE" /\ recv_alive_msg(m)
    BY <1>3 DEF receive_packet
  <2>2. CASE recv_willing_msg
    BY <1>2, <2>2 DEF recv_willing_msg, send_request_msg, Ignored
  <2>3. CASE m.op \in {"UNWILLING", "DECLINE"} /\ XdmcpFatal(m.op)
    BY <2>3 DEF XdmcpFatal
  <2>4. CASE recv_accept_msg(m)
    BY <1>2, <2>4 DEF recv_accept_msg, send_manage_msg, Ignored
  <2>5. CASE m.op = "REFUSE" /\ recv_refuse_msg(m)
    BY <1>1, <1>2, <2>5 DEF recv_refuse_msg, send_request_msg, Ignored
  <2>6. CASE m.op = "FAILED" /\ recv_failed_msg(m)
    BY <1>1, <1>2, <2>6 DEF recv_failed_msg, XdmcpFatal, Ignored
  <2>7. CASE recv_alive_msg(m)
    BY <1>2, <2>7 DEF recv_alive_msg, XdmcpDeadSession, send_query_msg, Ignored
  <2> QED
    BY <2>1, <2>2, <2>3, <2>4, <2>5, <2>6, <2>7
<1>4. CASE TimedOut
  <2>1. CASE send_keepalive_msg
    BY <2>1 DEF send_keepalive_msg
  <2>2. CASE XdmcpDeadSession
    BY <2>2 DEF XdmcpDeadSession, send_query_msg
  <2>3. CASE state' = "AWAIT_USER_INPUT"
    BY <2>3
  <2>4. CASE Resend
    <3>1. state \in States \ {"RUN_SESSION", "AWAIT_USER_INPUT"}
          \/ state = "RUN_SESSION" \/ state = "AWAIT_USER_INPUT"
      BY <1>1 DEF Inv, TypeOK
    <3>2. state' # "FAILED" /\ (state = "AWAIT_MANAGE_RESPONSE" => state' = state)
      <4>1. CASE state = "COLLECT_QUERY"
        <5>1. send_query_msg
          BY <2>4, <4>1 DEF Resend
        <5> QED
          BY <4>1, <5>1 DEF send_query_msg
      <4>2. CASE state \in {"START_CONNECTION", "AWAIT_REQUEST_RESPONSE"}
        <5>1. send_request_msg
          BY <2>4, <4>2 DEF Resend
        <5> QED
          BY <4>2, <5>1 DEF send_request_msg
      <4>3. CASE state = "AWAIT_MANAGE_RESPONSE"
        <5>1. send_manage_msg(SessionID)
          BY <2>4, <4>3 DEF Resend
        <5> QED
          BY <4>3, <5>1 DEF send_manage_msg
      <4>4. CASE state = "AWAIT_ALIVE_RESPONSE"
        <5>1. send_keepalive_msg
          BY <2>4, <4>4 DEF Resend
        <5> QED
          BY <4>4, <5>1 DEF send_keepalive_msg
      <4>5. state # "RUN_SESSION" \/ send_keepalive_msg
        BY <1>4 DEF TimedOut
      <4>6. state # "AWAIT_USER_INPUT"
        BY <1>4 DEF TimedOut
      <4> QED
        BY <3>1, <4>1, <4>2, <4>3, <4>4, <4>5, <4>6 DEF States, send_keepalive_msg
    <3> QED
      BY <3>2
  <2> QED
    BY <1>4, <2>1, <2>2, <2>3, <2>4 DEF TimedOut, timeout
<1>5. CASE UserInput \/ XdmcpReset
  BY <1>5 DEF UserInput, XdmcpReset, send_query_msg
<1>6. ASSUME NEW c \in Ids, HangUp(c)
      PROVE  state' \in {state, "COLLECT_QUERY"}
  BY <1>6 DEF HangUp
<1>7. ASSUME NEW c \in Ids, Connect(c)
      PROVE  state' \in {state, "RUN_SESSION"}
  BY <1>7 DEF Connect, XdmcpOpenDisplay
<1>8. CASE Hup \/ ProcessRequestSocket \/ TimeoutProtoDisplays \/ Crash \/ Lose
  <2>1. state' = state
    BY <1>8 DEF Hup, ProcessRequestSocket, TimeoutProtoDisplays, Crash, Lose, server
  <2> QED
    BY <1>2, <2>1
<1>9. ASSUME NEW c \in Ids, GiveUp(c) \/ Exit(c) \/ WaitForChild(c) \/ WriteFails(c)
      PROVE  state' = state
  BY <1>9 DEF GiveUp, Exit, WaitForChild, WriteFails, server
<1> QED
  BY <1>2, <1>3, <1>4, <1>5, <1>6, <1>7, <1>8, <1>9 DEF Next

\* However datagrams are lost, repeated and overtaken, and whatever fails: the
\* display never drops a session id that xdm has on offer, nor one whose session
\* xdm has started unless a late Request has been given a later id since, and the
\* server never exits because of a session that is on offer or has its process.
THEOREM AnswersDropNothing == Spec => NothingLiveIsDropped
BY InitInv, NextInv, StepDropsNothing, PTL DEF Spec, NothingLiveIsDropped
===============================================================================
