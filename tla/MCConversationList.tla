------------------------- MODULE MCConversationList -------------------------
(***************************************************************************)
(* ConversationList on small instances.                                    *)
(***************************************************************************)
EXTENDS ConversationList, TLC

CONSTANTS a, b, c

\* Users who sign in here are alike, and so are those who do not.
UserSymmetry == Permutations(Account) \cup Permutations(User \ (Account \cup Unprofiled))
=============================================================================
