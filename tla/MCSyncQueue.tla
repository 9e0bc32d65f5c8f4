---------------------------- MODULE MCSyncQueue ----------------------------
(***************************************************************************)
(* Small instances of SyncQueue for TLC.                                   *)
(***************************************************************************)
EXTENDS SyncQueue
=============================================================================
