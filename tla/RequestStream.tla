---------------------------- MODULE RequestStream ----------------------------
(***************************************************************************)
(* What os/io.c promises Dispatch: ReadRequestFromClient returns the       *)
(* client's requests whole, each once and in the order they were sent;     *)
(* ResetCurrentRequest makes the next call return the current one again.   *)
(***************************************************************************)
EXTENDS Sequences

CONSTANTS
  Clients, Request,
  None          \* no request

VARIABLES
  sent,         \* requests of each client that have not been executed
  now           \* the request that is being executed, of each client

Init ==
  /\ sent = [c \in Clients |-> <<>>]
  /\ now = [c \in Clients |-> None]

\* The first request of a connection comes with it.
Connect(c) ==
  /\ sent[c] = <<>> /\ now[c] = None
  /\ \E r \in Request : sent' = [sent EXCEPT ![c] = <<r>>]
  /\ UNCHANGED now

Send(c) ==
  /\ \E r \in Request : sent' = [sent EXCEPT ![c] = Append(@, r)]
  /\ UNCHANGED now

Begin(c) ==
  /\ \A d \in Clients : now[d] = None
  /\ sent[c] # <<>>
  /\ now' = [now EXCEPT ![c] = Head(sent[c])]
  /\ UNCHANGED sent

Again(c) ==
  /\ now[c] # None
  /\ now' = [now EXCEPT ![c] = None]
  /\ UNCHANGED sent

Finish(c) ==
  /\ now[c] # None
  /\ now' = [now EXCEPT ![c] = None]
  /\ sent' = [sent EXCEPT ![c] = Tail(@)]

\* The connection is closed, by its peer or by a request.
Close(c) ==
  /\ sent' = [sent EXCEPT ![c] = <<>>]
  /\ now' = [now EXCEPT ![c] = None]

Next == \E c \in Clients :
  Connect(c) \/ Send(c) \/ Begin(c) \/ Again(c) \/ Finish(c) \/ Close(c)

Spec == Init /\ [][Next]_<<sent, now>>
=============================================================================
