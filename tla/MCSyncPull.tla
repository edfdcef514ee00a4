----------------------------- MODULE MCSyncPull -----------------------------
(* SyncPull on two rows and pages of one change. *)
EXTENDS SyncPull
MCRow == 1 .. 2
=============================================================================
