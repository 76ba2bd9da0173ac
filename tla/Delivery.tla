------------------------------ MODULE Delivery ------------------------------
(***************************************************************************)
(* What the partner of a chat is promised: the messages of one device      *)
(* arrive in the order in which they were sent, each at most once, and     *)
(* nothing arrives that was not sent.  Some may never arrive (the app can  *)
(* be killed between the writes of a message, and the backend can refuse   *)
(* one), but a message that was overtaken never arrives late.              *)
(***************************************************************************)
EXTENDS Integers

CONSTANT Message   \* records with at least the fields dev and n

VARIABLES
  sent,            \* the messages sent so far
  delivered        \* those their addressees have

vars == <<sent, delivered>>

Init == sent = {} /\ delivered = {}

\* A device sends a message, numbered after all its earlier ones.
Send(m) ==
  /\ \A k \in sent : k.dev = m.dev => k.n < m.n
  /\ sent' = sent \cup {m}
  /\ UNCHANGED delivered

\* A message arrives, and none sent after it by the same device has.
Deliver(m) ==
  /\ m \in sent \ delivered
  /\ \A k \in delivered : k.dev = m.dev => k.n < m.n
  /\ delivered' = delivered \cup {m}
  /\ UNCHANGED sent

Next == \E m \in Message : Send(m) \/ Deliver(m)

Spec == Init /\ [][Next]_vars
=============================================================================
