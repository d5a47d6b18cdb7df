-------------------------- MODULE MCPmSyncAttempts --------------------------
(***************************************************************************)
(* PmSyncAttempts for TLC.  Callers are interchangeable, and so are the    *)
(* workers that execute the sync activity.                                 *)
(***************************************************************************)
EXTENDS PmSyncAttempts, TLC

Alike == Permutations(Caller) \cup Permutations(Worker)
=============================================================================
