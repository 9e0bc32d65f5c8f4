---------------------------- MODULE MCRoundTrip ----------------------------
(* An instance of RoundTrip for TLC. *)
EXTENDS RoundTrip
=============================================================================
