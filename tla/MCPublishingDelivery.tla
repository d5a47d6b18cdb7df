---------------------- MODULE MCPublishingDelivery ----------------------
(***************************************************************************)
(* PublishingDelivery on a small instance: executions of the notify        *)
(* activity are interchangeable.                                           *)
(***************************************************************************)
EXTENDS PublishingDelivery, TLC

Symmetry == Permutations(Attempt)
=============================================================================
