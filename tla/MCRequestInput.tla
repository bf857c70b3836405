---------------------------- MODULE MCRequestInput ----------------------------
(* The clients of an instance are interchangeable.                         *)
EXTENDS RequestInput, TLC

Symmetry == Permutations(Clients)
=============================================================================
