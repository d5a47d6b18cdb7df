------------------------ MODULE MCGlossyTransactions ------------------------
(***************************************************************************)
(* GlossyTransactions for TLC.  Connections are interchangeable, and so    *)
(* are the visuals.                                                        *)
(***************************************************************************)
EXTENDS GlossyTransactions, TLC

Alike == Permutations(Tx) \cup Permutations(Visual)
=============================================================================
