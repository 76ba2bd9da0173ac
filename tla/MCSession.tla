------------------------------ MODULE MCSession ------------------------------
(***************************************************************************)
(* Session on small instances.                                             *)
(***************************************************************************)
EXTENDS Session, TLC

\* Emails are only compared with each other.
EmailSymmetry == Permutations(Email)
=============================================================================
