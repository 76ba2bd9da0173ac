---------------------------- MODULE MCCellImages ----------------------------
(***************************************************************************)
(* CellImages on small instances: ann and ben have the images a and b, cid *)
(* has none.                                                               *)
(***************************************************************************)
EXTENDS CellImages, TLC

CONSTANTS a, b, ann, ben, cid

Urls == [u \in User |-> CASE u = ann -> a [] u = ben -> b [] u = cid -> None]
=============================================================================
