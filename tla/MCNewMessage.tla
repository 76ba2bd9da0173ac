---------------------------- MODULE MCNewMessage ----------------------------
(***************************************************************************)
(* NewMessage on small instances.                                          *)
(***************************************************************************)
EXTENDS NewMessage, TLC

CONSTANTS al, Al, bo, none

\* The texts al and Al differ in case only.  The first user is signed in, the
\* second chose the name Al, the third has it as a full name and chose bo.
Lower     == al :> al @@ Al :> al @@ bo :> bo @@ none :> none
Usernames == 1 :> {none} @@ 2 :> {none, Al} @@ 3 :> {none, bo}
Fullnames == 1 :> {none} @@ 2 :> {none} @@ 3 :> {none, Al}
=============================================================================
