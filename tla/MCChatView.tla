----------------------------- MODULE MCChatView -----------------------------
(***************************************************************************)
(* ChatView on small instances.                                            *)
(***************************************************************************)
EXTENDS ChatView, TLC

CONSTANTS d1, d2, u1, u2

\* One user with one device; two users with a device each.
OneDevice == d1 :> u1
TwoUsers  == d1 :> u1 @@ d2 :> u2
=============================================================================
