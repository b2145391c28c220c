---------------------------- MODULE MCSyncRound ----------------------------
(* Small instances of SyncRound for TLC. *)
EXTENDS SyncRound, TLC
=============================================================================
