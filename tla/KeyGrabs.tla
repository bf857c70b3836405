------------------------------ MODULE KeyGrabs ------------------------------
(***************************************************************************)
(* What the protocol promises about passive grabs on a window: each        *)
(* combination of a key and modifiers belongs to at most one client; a     *)
(* request for several of them gets all or none; a release, or the end of  *)
(* a client, gives back exactly the combinations that were named.          *)
(***************************************************************************)
CONSTANTS Clients, Nobody,
          Combinations,
          Requests          \* the sets of combinations one request can name

VARIABLE owner

Init == owner = [x \in Combinations |-> Nobody]

Grab(c, S) ==
  /\ \A x \in S : owner[x] \in {Nobody, c}
  /\ owner' = [x \in Combinations |-> IF x \in S THEN c ELSE owner[x]]

Release(c, S) ==
  owner' = [x \in Combinations |->
              IF x \in S /\ owner[x] = c THEN Nobody ELSE owner[x]]

Next == \E c \in Clients :
          \/ \E S \in Requests : Grab(c, S) \/ Release(c, S)
          \/ Release(c, Combinations)

Spec == Init /\ [][Next]_owner

=============================================================================
