--------------------------- MODULE MCPassiveGrabs ---------------------------
(* Clients, keys and modifiers can be exchanged for one another.            *)
EXTENDS PassiveGrabs, TLC

Exchange == Permutations(Clients) \cup Permutations(Keys) \cup Permutations(Modifiers)

=============================================================================
