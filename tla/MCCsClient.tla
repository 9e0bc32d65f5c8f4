----------------------------- MODULE MCCsClient -----------------------------
(* An instance of CsClient for TLC. *)
EXTENDS CsClient
=============================================================================
