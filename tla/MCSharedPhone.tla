--------------------------- MODULE MCSharedPhone ---------------------------
(***************************************************************************)
(* SharedPhone on small instances.                                         *)
(***************************************************************************)
EXTENDS SharedPhone, TLC

CONSTANTS a, b, u1, u2, u3

\* Two users of the phone, and a partner elsewhere.  The account given to nobody
\* is never used.
TwoUsers == a :> u1 @@ b :> u2 @@ nobody :> u3
=============================================================================
