---------------------------- MODULE MCSocketFile ----------------------------
(* An instance of SocketFile for TLC. *)
EXTENDS SocketFile, TLC

Symmetry == Permutations(Procs)
=============================================================================
