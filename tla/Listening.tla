------------------------------ MODULE Listening ------------------------------
(***************************************************************************)
(* Who is signed in on a device, and whose conversations are listened to:  *)
(* what the screens of the sign-up and login and the list of conversations *)
(* have to agree on.                                                       *)
(*                                                                         *)
(* Each login signs its user in and, later, adds a listener at most once,  *)
(* for whoever is signed in by then.  Nothing else adds one but a launch,  *)
(* and nothing takes one away but the end of the process.                  *)
(***************************************************************************)
CONSTANTS
  Account,   \* those who may sign in
  NoUser,    \* nobody is signed in
  Login      \* logins and sign-ups

VARIABLES
  current,   \* the user signed in, or NoUser
  pending,   \* logins that have signed in and have not completed
  heard      \* users whose conversations are listened to

vars == <<current, pending, heard>>

Init ==
  /\ current \in Account \cup {NoUser}
  /\ pending = {}
  /\ heard = {current} \ {NoUser}

SignIn(user, l) ==
  /\ l \notin pending
  /\ current' = user
  /\ pending' = pending \cup {l}
  /\ UNCHANGED heard

\* A login completes.
Complete(l) ==
  /\ l \in pending
  /\ pending' = pending \ {l}
  /\ heard' = heard \cup ({current} \ {NoUser})
  /\ UNCHANGED current

\* A login ends without completing.
GiveUp(l) ==
  /\ l \in pending
  /\ pending' = pending \ {l}
  /\ UNCHANGED <<current, heard>>

SignOut ==
  /\ current' = NoUser
  /\ UNCHANGED <<pending, heard>>

Relaunch ==
  /\ pending' = {}
  /\ heard' = {current} \ {NoUser}
  /\ UNCHANGED current

Next ==
  \/ \E l \in Login : \/ \E user \in Account : SignIn(user, l)
                      \/ Complete(l) \/ GiveUp(l)
  \/ SignOut \/ Relaunch

Spec == Init /\ [][Next]_vars
=============================================================================
