------------------------------ MODULE MCClient ------------------------------
(***************************************************************************)
(* Small instances of Client for TLC.                                      *)
(***************************************************************************)
EXTENDS ClientRefinement, TLC

\* Client and socket objects have no order: their identities may be permuted.
Symmetry == Permutations(Clients) \cup Permutations(Sockets)
=============================================================================
