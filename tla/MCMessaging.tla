---------------------------- MODULE MCMessaging ----------------------------
(***************************************************************************)
(* Instances of Messaging for TLC.                                         *)
(***************************************************************************)
EXTENDS Messaging, TLC

CONSTANTS d1, u1, u2, u3

\* One device, two partners.
OneDevice == d1 :> u1
=============================================================================
