---------------------------- MODULE MCSyncQueue ----------------------------
(* Values of the constants: plain calls, one without artwork, a forced one.*)
EXTENDS SyncQueue
CONSTANTS r1, r2, r3, f
=============================================================================
