-------------------------- MODULE MCDatagramServer --------------------------
(* Instances of DatagramServer for TLC. *)
EXTENDS DatagramServer

Symmetry == Permutations(Objects) \cup Permutations(Addresses)
=============================================================================
