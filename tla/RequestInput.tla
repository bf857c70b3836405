----------------------------- MODULE RequestInput -----------------------------
(***************************************************************************)
(* How requests get from a client's socket to its request procs: the input *)
(* buffers of os/io.c, which clients that have nothing in them lend to one *)
(* another, and ClientsWithInput, which says whose buffer holds a whole    *)
(* request that select() knows nothing of.                                 *)
(*                                                                         *)
(* Requests are made of CARD32s, but read() cuts the stream at any byte:   *)
(* a buffer holds whole words and, at its end, some bytes of one more.  A  *)
(* word is what the code may take it for, the value v of its length field  *)
(* or of a big request's length, and what it is, word k of request req;    *)
(* the words that are neither header nor length have v = 1.  The set-up of *)
(* a connection is a request whose first word the server itself makes up   *)
(* (InsertFakeRequest) and whose length is known to it only when it has    *)
(* read the first words.                                                   *)
(***************************************************************************)
EXTENDS SequencesExt, Integers

CONSTANTS
  Clients,
  WordBytes,    \* bytes of a word, sizeof(CARD32)
  BUFSIZE, BUFWATERMARK, MAXBUFSIZE,  \* in words, as all lengths are
  Lengths,      \* lengths of requests
  AuthLengths,  \* lengths of the authorization data of a set-up
  MaxRequests,  \* bound: requests a connection sends after its set-up
  MaxSent,      \* bound: requests a client has outstanding
  ResetBig,     \* may a request in the extended encoding be reset?
  None

ASSUME SizesAssumption ==
  /\ WordBytes \in Nat \ {0}
  /\ BUFSIZE \in Nat \ {0} /\ BUFWATERMARK \in Nat /\ BUFWATERMARK >= BUFSIZE
  /\ MAXBUFSIZE \in Nat /\ MAXBUFSIZE >= BUFSIZE
ASSUME LengthsAssumption ==
  Lengths \subseteq 1 .. MAXBUFSIZE /\ AuthLengths \subseteq 0 .. (MAXBUFSIZE - 2)
ASSUME BoundsAssumption == MaxRequests \in Nat /\ MaxSent \in Nat
ASSUME ResetBigAssumption == ResetBig \in BOOLEAN
ASSUME ClientsAssumption == IsFiniteSet(Clients)

Buffers == 1 .. Cardinality(Clients)

\* A request: its number on the connection, its length in its encoding, and
\* whether that is the extended one, with a length word after the header.
Request == [id : 0 .. MaxRequests, len : 1 .. MAXBUFSIZE, big : BOOLEAN]
ASSUME NoneAssumption == None \notin Clients \cup Buffers \cup Request
Word(r, k, v) == [req |-> r.id, k |-> k, v |-> v]
Header(r) == Word(r, 1, IF r.big THEN 0 ELSE r.len)
Words(r) ==
  [k \in 1 .. r.len |-> IF k = 1 THEN Header(r)
                        ELSE Word(r, k, IF r.big /\ k = 2 THEN r.len ELSE 1)]

\* What a request proc is to find: the length word is taken out.
Contents(r) == IF r.big THEN <<Header(r)>> \o SubSeq(Words(r), 3, r.len) ELSE Words(r)

\* xConnClientPrefix, after the fake header, and the authorization data.
Prefix == 2
Setup(auth) == [id |-> 0, len |-> Prefix + auth, big |-> FALSE]

VARIABLES
  in,           \* the input buffers, see InputType
  withInput,    \* ClientsWithInput
  big,          \* clients with big_requests
  req_len,      \* client->req_len
  stage,        \* how far each connection is
  socket,       \* words sent and not wholly read
  taken,        \* how many bytes of the first of them have been read
  eof,          \* clients that have closed their end
  sent,         \* requests of each connection that have not been executed
  count,        \* requests each connection has sent after its set-up
  running       \* the client whose request is being executed, and the request

\* What lies before bufptr is never read again, and is left out.
Buffer == [data : Seq([req : Nat, k : Nat, v : Nat]),  \* from bufptr to bufcnt
           at : Nat,                                   \* bufptr - buffer
           part : 0 .. WordBytes - 1,                  \* bytes of a cut word after it
           last : Nat,                                 \* lenLastReq
           size : Nat]
InputType == [input : [Clients -> Buffers \cup {None}],
              buffer : [Buffers -> Buffer],
              free : Seq(Buffers),                     \* FreeInputs
              available : Clients \cup {None}]         \* AvailableInput
Stages == {"closed", "prefix", "setup", "open"}
Nobody == [client |-> None, words |-> <<>>]

clientVars == <<big, req_len, stage>>
peerVars == <<socket, taken, eof, count>>
vars == <<in, withInput, clientVars, peerVars, sent, running>>

Connected == {c \in Clients : stage[c] # "closed"}

-----------------------------------------------------------------------------
(* Buffers.  s is a value of the variable in.                              *)

BufferOf(s, c) == s.buffer[s.input[c]]
WithBuffer(s, c, b) == [s EXCEPT !.buffer[s.input[c]] = b]
Got(b) == Len(b.data)                      \* gotnow, without the bytes of a cut word
bufcnt(b) == b.at + Len(b.data)
Used(s) == (Range(s.input) \ {None}) \cup ToSet(s.free)

Advance(b) ==
  [b EXCEPT !.at = @ + b.last, !.data = SubSeq(@, b.last + 1, Len(@)), !.last = 0]

NewBuffer == [data |-> <<>>, part |-> 0, at |-> 0, last |-> 0, size |-> BUFSIZE]

\* The client whose buffer is empty, if it is another, gives it up: to
\* FreeInputs unless it has grown too big.  (It is advanced past its last
\* request here rather than when it is taken again.)
GiveAvailable(s, c) ==
  LET a == s.available
      b == s.input[a]
      big_one == s.buffer[b].size > BUFWATERMARK
  IN  IF a \in {None, c} THEN [s EXCEPT !.available = None]
      ELSE [s EXCEPT !.available = None, !.input[a] = None,
                     !.buffer[b] = IF big_one THEN NewBuffer ELSE Advance(@),
                     !.free = IF big_one THEN @ ELSE <<b>> \o @]

TakeBuffer(s, c) ==
  LET new == CHOOSE b \in Buffers : b \notin Used(s)
  IN  IF s.input[c] # None THEN s
      ELSE IF s.free # <<>> THEN [s EXCEPT !.input[c] = Head(s.free), !.free = Tail(@)]
      ELSE [s EXCEPT !.input[c] = new, !.buffer[new] = NewBuffer]

FreeOsBuffers(s, c) ==
  LET b == s.input[c]
  IN  [s EXCEPT !.available = IF @ = c THEN None ELSE @,
                !.input[c] = None,
                !.free = IF b # None /\ @ = <<>> THEN <<b>> ELSE @,
                !.buffer = IF b = None THEN @
                           ELSE [@ EXCEPT ![b] = IF s.free = <<>>
                                                 THEN [NewBuffer EXCEPT !.size = s.buffer[b].size]
                                                 ELSE NewBuffer]]

-----------------------------------------------------------------------------
(* ReadRequestFromClient.                                                  *)

\* Of the request at bufptr, of which got words are here: how long it is as
\* far as one can tell, and whether that is only what it takes to tell.
Needed(b, c) ==
  LET got == Got(b)
  IN  IF got = 0 THEN 1
      ELSE IF b.data[1].v > 0 \/ c \notin big THEN b.data[1].v
      ELSE IF got = 1 THEN 2 ELSE b.data[2].v
NeedHeader(b, c) ==
  Got(b) = 0 \/ (Got(b) = 1 /\ b.data[1].v = 0 /\ c \in big)

\* Room for needed words from bufptr on.
MakeRoom(b, needed) ==
  IF (Got(b) = 0 /\ b.part = 0) \/ b.at + needed > b.size
  THEN [b EXCEPT !.at = 0, !.size = IF needed > @ THEN needed ELSE @]
  ELSE b

\* mutant: gives space back that is in use
ReceiveShrinks(b, ws, p, needed) ==
  LET r == [b EXCEPT !.data = @ \o ws, !.part = p]
  IN  IF r.size > BUFWATERMARK /\ needed < BUFSIZE THEN [r EXCEPT !.size = BUFSIZE] ELSE r

\* read() completes the words ws and leaves p bytes of another; space is given
\* back after a huge request.
Receive(b, ws, p, needed) ==
  LET r == [b EXCEPT !.data = @ \o ws, !.part = p]
  IN  IF r.size > BUFWATERMARK /\ bufcnt(r) < BUFSIZE /\ needed < BUFSIZE
      THEN [r EXCEPT !.size = BUFSIZE] ELSE r

\* Is there a whole request n words further on?
WholeAt(b, c, n) ==
  LET got == Got(b) - n
      v == b.data[n + 1].v
  IN  /\ got >= 1
      /\ got >= v
      /\ v > 0 \/ (c \in big /\ got >= 2 /\ got >= b.data[n + 2].v)

\* mutant: the header is not moved
MoveHeaderStays(b) ==
  [b EXCEPT !.at = @ + 1, !.data = Tail(@), !.last = @ - 1]

\* The length word goes: the header is moved over it.
MoveHeader(b) ==
  [b EXCEPT !.at = @ + 1, !.data = <<Head(@)>> \o SubSeq(@, 3, Len(@)), !.last = @ - 1]

\* mutant: takes any word after the request for a whole one
ReturnRequestPartial(s, c, b, needed) ==
  LET moved == b.data[1].v = 0 /\ c \in big
      r == [b EXCEPT !.last = needed]
      e == IF moved THEN MoveHeader(r) ELSE r
      t == WithBuffer(s, c, e)
  IN  /\ in' = [t EXCEPT !.available = IF Got(b) = needed /\ b.part = 0 THEN c ELSE @]
      /\ withInput' = IF Got(b) > needed THEN withInput \cup {c} ELSE withInput \ {c}
      /\ req_len' = [req_len EXCEPT ![c] = IF moved THEN needed - 1 ELSE needed]
      /\ running' = [client |-> c, words |-> SubSeq(e.data, 1, e.last)]

\* mutant: lends the buffer although it holds the first bytes of a header
ReturnRequestLendsPart(s, c, b, needed) ==
  LET moved == b.data[1].v = 0 /\ c \in big
      r == [b EXCEPT !.last = needed]
      e == IF moved THEN MoveHeader(r) ELSE r
      t == WithBuffer(s, c, e)
  IN  /\ in' = [t EXCEPT !.available = IF Got(b) = needed THEN c ELSE @]
      /\ withInput' = IF WholeAt(b, c, needed) THEN withInput \cup {c} ELSE withInput \ {c}
      /\ req_len' = [req_len EXCEPT ![c] = IF moved THEN needed - 1 ELSE needed]
      /\ running' = [client |-> c, words |-> SubSeq(e.data, 1, e.last)]

\* The request at bufptr, of needed words, is all there: return it.
ReturnRequest(s, c, b, needed) ==
  LET moved == b.data[1].v = 0 /\ c \in big
      r == [b EXCEPT !.last = needed]
      e == IF moved THEN MoveHeader(r) ELSE r
      t == WithBuffer(s, c, e)
  IN  /\ in' = [t EXCEPT !.available = IF Got(b) = needed /\ b.part = 0 THEN c ELSE @]
      /\ withInput' = IF WholeAt(b, c, needed) THEN withInput \cup {c} ELSE withInput \ {c}
      /\ req_len' = [req_len EXCEPT ![c] = IF moved THEN needed - 1 ELSE needed]
      /\ running' = [client |-> c, words |-> SubSeq(e.data, 1, e.last)]

\* CloseDownClient, as far as it concerns the client's input.
CloseDown(s, c) ==
  /\ in' = FreeOsBuffers(s, c)
  /\ withInput' = withInput \ {c}
  /\ big' = big \ {c}
  /\ req_len' = [req_len EXCEPT ![c] = 0]
  /\ stage' = [stage EXCEPT ![c] = "closed"]
  /\ socket' = [socket EXCEPT ![c] = <<>>]
  /\ taken' = [taken EXCEPT ![c] = 0]
  /\ eof' = eof \ {c}
  /\ count' = [count EXCEPT ![c] = 0]
  /\ sent' = [sent EXCEPT ![c] = <<>>]
  /\ running' = IF running.client = c THEN Nobody ELSE running

NoWholeRequest(s, c, b) ==
  /\ in' = WithBuffer(s, c, b)
  /\ withInput' = withInput \ {c}
  /\ UNCHANGED <<req_len, running>>

\* read() returns what completes n words and p bytes of the next, as much as there
\* is room for and as has arrived.  If bytes of a cut word were lost, the words
\* are put together from pieces of others, and take on any length, here 1.
Astray == [req |-> 0, k |-> 0, v |-> 1]
ReadMore(s, c, m, needed, needHeader, n, p) ==
  LET inStep == m.part = taken[c]
      ws == IF inStep THEN SubSeq(socket[c], 1, n) ELSE [i \in 1 .. n |-> Astray]
      r == Receive(m, ws, p, needed)
      all == IF needHeader THEN Needed(r, c) ELSE needed
  IN  /\ n > 0 \/ p > m.part
      /\ n <= Len(socket[c]) /\ (p > 0 => n < Len(socket[c]))
      /\ socket' = [socket EXCEPT ![c] = SubSeq(@, n + 1, Len(@))]
      /\ taken' = [taken EXCEPT ![c] = IF inStep THEN p ELSE WordBytes]
      /\ IF ~NeedHeader(r, c) /\ Got(r) >= all THEN ReturnRequest(s, c, r, all)
         ELSE NoWholeRequest(s, c, r)

\* Dispatch calls it for a client that select() or ClientsWithInput names, and
\* again while the client's turn lasts, when there may be nothing to read: here
\* for any client.  read() may find the connection at its end, or reset by the
\* peer, or no input for the time being.
ReadRequestFromClient(c) ==
  LET s == TakeBuffer(GiveAvailable(in, c), c)
      b == Advance(BufferOf(s, c))
      needed == Needed(b, c)
      m == MakeRoom(b, needed)
      room == m.size - bufcnt(m)
  IN  /\ running = Nobody /\ c \in Connected
      /\ IF Got(b) >= needed
         THEN /\ ReturnRequest(s, c, b, needed)
              /\ UNCHANGED <<big, stage, peerVars, sent>>
         ELSE \/ /\ needed > MAXBUFSIZE \/ room = 0 \/ c \in eof
                 /\ CloseDown(s, c)
              \/ /\ needed <= MAXBUFSIZE /\ room # 0
                 /\ NoWholeRequest(s, c, m)
                 /\ UNCHANGED <<big, stage, peerVars, sent>>
              \/ /\ needed <= MAXBUFSIZE
                 /\ \E n \in 0 .. room, p \in 0 .. WordBytes - 1 :
                      /\ n < room \/ p = 0
                      /\ ReadMore(s, c, m, needed, NeedHeader(b, c), n, p)
                 /\ UNCHANGED <<big, stage, eof, count, sent>>

-----------------------------------------------------------------------------
(* What request procs do with the request that is being executed.          *)

\* mutant: the buffer may still be lent out
ResetCurrentRequestLent(s, c) ==
  LET b == BufferOf(s, c)
  IN  /\ in' = WithBuffer(s, c, [b EXCEPT !.last = 0])
      /\ withInput' = IF Got(b) >= b.data[1].v THEN withInput \cup {c} ELSE withInput \ {c}

\* ResetCurrentRequest.  The lengths of set-ups have been changed by then.
ResetCurrentRequest(s, c) ==
  LET b == BufferOf(s, c)
      needed == b.data[1].v
      extended == needed = 0 /\ c \in big
      back == [b EXCEPT !.last = 0, !.at = @ - 1,
                        !.data = <<Head(@), [Head(@) EXCEPT !.k = 2, !.v = req_len[c]]>>
                                   \o Tail(@)]
      t == [s EXCEPT !.available = IF @ = c THEN None ELSE @]
  IN  /\ in' = WithBuffer(t, c, IF extended THEN back ELSE [b EXCEPT !.last = 0])
      /\ withInput' = IF Got(b) >= needed THEN withInput \cup {c} ELSE withInput \ {c}

\* ProcInitialConnection: the whole length of the set-up is known now.
ProcInitialConnection ==
  LET c == running.client
      b == BufferOf(in, c)
      setup == Head(sent[c])
  IN  /\ c # None /\ stage[c] = "prefix"
      /\ ResetCurrentRequest(WithBuffer(in, c, [b EXCEPT !.data[1].v = setup.len]), c)
      /\ stage' = [stage EXCEPT ![c] = "setup"]
      /\ running' = Nobody
      /\ UNCHANGED <<big, req_len, peerVars, sent>>

\* Any other proc returns; one of them may be BigReqEnable's.
Execute(enables) ==
  LET c == running.client
  IN  /\ c # None /\ stage[c] # "prefix"
      /\ stage' = [stage EXCEPT ![c] = "open"]
      /\ sent' = [sent EXCEPT ![c] = Tail(@)]
      /\ enables => stage[c] = "open" /\ Len(running.words) = 1 /\ c \notin big
      /\ big' = IF enables THEN big \cup {c} ELSE big
      /\ running' = Nobody
      /\ UNCHANGED <<in, withInput, req_len, peerVars>>

\* A proc that cannot go on yet, ProcGrabServer, resets its request.
Reset ==
  LET c == running.client
  IN  /\ c # None /\ stage[c] = "open"
      /\ ~ResetBig => running.words[1].v > 0
      /\ ResetCurrentRequest(in, c)
      /\ running' = Nobody
      /\ UNCHANGED <<clientVars, peerVars, sent>>

\* KillClient, or a proc that fails: the client is closed down.
Kill(c) ==
  /\ c \in Connected
  /\ running # Nobody
  /\ CloseDown(in, c)

-----------------------------------------------------------------------------
(* Peers.                                                                  *)

\* A connection is accepted: NextAvailableClient inserts the fake header of
\* its set-up, InsertFakeRequest.
Connect(c, auth) ==
  LET s == TakeBuffer(GiveAvailable(in, c), c)
      b == Advance(BufferOf(s, c))
      fake == [Header(Setup(auth)) EXCEPT !.v = Prefix]
      e == [b EXCEPT !.data = <<fake>> \o @, !.at = IF @ = 0 THEN 0 ELSE @ - 1]
      f == [e EXCEPT !.size = IF Got(e) > @ THEN Got(e) ELSE @]
  IN  /\ c \notin Connected /\ running = Nobody
      /\ in' = WithBuffer(s, c, f)
      /\ withInput' = withInput \ {c}
      /\ stage' = [stage EXCEPT ![c] = "prefix"]
      /\ sent' = [sent EXCEPT ![c] = <<Setup(auth)>>]
      /\ socket' = [socket EXCEPT ![c] = Tail(Words(Setup(auth)))]
      /\ UNCHANGED <<big, req_len, taken, eof, count, running>>

\* A client uses the extended encoding when its BigReqEnable is answered.
Send(c, len, extended) ==
  LET r == [id |-> count[c] + 1, len |-> len, big |-> extended]
  IN  /\ c \in Connected \ eof
      /\ count[c] < MaxRequests /\ Len(sent[c]) < MaxSent
      /\ extended => c \in big /\ len > 1
      /\ socket' = [socket EXCEPT ![c] = @ \o Words(r)]
      /\ sent' = [sent EXCEPT ![c] = Append(@, r)]
      /\ count' = [count EXCEPT ![c] = @ + 1]
      /\ UNCHANGED <<in, withInput, clientVars, taken, eof, running>>

Close(c) ==
  /\ c \in Connected \ eof
  /\ eof' = eof \cup {c}
  /\ UNCHANGED <<in, withInput, clientVars, socket, taken, count, sent, running>>

-----------------------------------------------------------------------------
Init ==
  /\ in = [input |-> [c \in Clients |-> None], buffer |-> [b \in Buffers |-> NewBuffer],
           free |-> <<>>, available |-> None]
  /\ withInput = {} /\ big = {} /\ eof = {}
  /\ req_len = [c \in Clients |-> 0]
  /\ stage = [c \in Clients |-> "closed"]
  /\ socket = [c \in Clients |-> <<>>]
  /\ taken = [c \in Clients |-> 0]
  /\ sent = [c \in Clients |-> <<>>]
  /\ count = [c \in Clients |-> 0]
  /\ running = Nobody

Server ==
  \/ \E c \in Clients : ReadRequestFromClient(c)
  \/ ProcInitialConnection \/ (\E e \in BOOLEAN : Execute(e)) \/ Reset
  \/ \E c \in Clients : Kill(c)

Peer == \E c \in Clients :
  \/ \E auth \in AuthLengths : Connect(c, auth)
  \/ \E len \in Lengths, e \in BOOLEAN : Send(c, len, e)
  \/ Close(c)

Next == Server \/ Peer

Spec == Init /\ [][Next]_vars

-----------------------------------------------------------------------------
\* The state has its type, and a buffer holds no more words than it has room for,
\* though it grows, shrinks and is lent, and the last request is within them.
BufferBounds ==
  /\ in \in InputType
  /\ withInput \subseteq Clients /\ big \subseteq Clients /\ eof \subseteq Clients
  /\ stage \in [Clients -> Stages]
  /\ running.client \in Clients \cup {None}
  /\ \A b \in Used(in) :
       LET i == in.buffer[b]
       IN  i.last <= Len(i.data) /\ bufcnt(i) + (IF i.part > 0 THEN 1 ELSE 0) <= i.size

\* While nobody is served, a connection has a whole request in its buffer
\* exactly when it is in ClientsWithInput: select() would not report it, and
\* Dispatch would wait for the client to send something more.
WholeInBuffer(c) ==
  in.input[c] # None /\ LET b == Advance(BufferOf(in, c)) IN WholeAt(b, c, 0)
NoHiddenRequest ==
  running = Nobody => \A c \in Connected : WholeInBuffer(c) <=> c \in withInput

\* A buffer has one user, and what is lent out or may be has nothing in it: no
\* words of one client, nor bytes of a word, are lost to, or taken for, another's.
Empty(b) == Got(b) = b.last /\ b.part = 0
OneOwner ==
  /\ IsInjective(in.free)
  /\ \A c \in Clients : in.input[c] # None =>
       /\ in.input[c] \notin ToSet(in.free)
       /\ \A d \in Clients \ {c} : in.input[d] # in.input[c]
  /\ \A b \in ToSet(in.free) : Empty(in.buffer[b])
  /\ in.available # None =>
       in.input[in.available] # None /\ Empty(BufferOf(in, in.available))

\* The request procs are given the requests that were sent, whole, each once
\* and in order, and again when they reset them, at whatever byte read() cuts the
\* stream and in whatever encoding: RequestStream.  The first run over a set-up, which
\* finds out its length, is not counted.
Garbled == [id |-> 0, len |-> 0, big |-> TRUE]
Now(c) ==
  LET match == {r \in ToSet(sent[c]) : Contents(r) = running.words}
  IN  IF running.client # c \/ stage[c] = "prefix" THEN None
      ELSE IF match = {} THEN Garbled
      ELSE CHOOSE r \in match : TRUE
Stream == INSTANCE RequestStream WITH now <- [c \in Clients |-> Now(c)]
ImplementsStream == Stream!Spec
=============================================================================
