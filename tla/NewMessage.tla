----------------------------- MODULE NewMessage -----------------------------
(***************************************************************************)
(* The screens from which a signed-in user starts a chat                   *)
(* (NewMessageController, Service.fetchUsers, and the conversations under  *)
(* it), with the indicator they share.                                     *)
(*                                                                         *)
(* A new-message screen asks for all profiles, shows them, and narrows     *)
(* them to those that contain the text of the search bar.  Its navigation  *)
(* bar, with the search and the cancel button, is not covered by the       *)
(* indicator.  The answer holds the screen weakly.                         *)
(*                                                                         *)
(* An array of users is kept as the set of its elements: all of them are   *)
(* in the order of the documents, and a filter keeps that order.           *)
(***************************************************************************)
EXTENDS Integers, Sequences, FiniteSets, ProgressHud

CONSTANTS
  Person,      \* users with an account, in the order of their documents
  Me,          \* the user signed in
  Text,        \* texts
  NoText,      \* the empty text
  lower,       \* the lower-case form of each text
  username,    \* the texts contained in the name each user chose at sign-up
  fullname,    \* the texts contained in the full name of each user
  MaxScreens,  \* bound: new-message screens
  MaxChats     \* bound: chats started

ASSUME NewMessageAssumption ==
  /\ Person \subseteq Nat
  /\ Me \in Person
  /\ NoText \in Text
  /\ lower \in [Text -> Text]
  /\ username \in [Person -> SUBSET Text]
  /\ fullname \in [Person -> SUBSET Text]
  /\ MaxScreens \in Nat
  /\ MaxChats \in Nat

Home == 0
Screen == 1..MaxScreens

Fetch == {"asked", "answered", "failed"}

\* fetched: the array users.  text: that of the search bar, empty also when it is
\* not active.  rows: what the table has been told to show.  searched: history,
\* the state of the fetch when the text last changed.
NewMessageScreen ==
  [fetch : Fetch, users : SUBSET Person, filtered : SUBSET Person, text : Text,
   rows : SUBSET Person, searched : Fetch]

VARIABLES
  profiles,  \* the collection users
  screens,   \* the new-message screens made
  alive,     \* those not deallocated
  open,      \* the one presented, or Home
  chatting,  \* is a chat pushed over the conversations?
  hud,       \* the indicator
  arrived,   \* has a conversation arrived?
  tapped,    \* history: users of the rows tapped
  chats      \* history: users chats were started with

vars == <<profiles, screens, alive, open, chatting, hud, arrived, tapped, chats>>

-----------------------------------------------------------------------------
\* The name as stored: handleSignUpPressed puts it in lower case.
\* Mutant: as typed.
StoredAsTyped(p) == username[p]

StoredUsername(p) == {lower[t] : t \in username[p]}

\* fetchUsers leaves out the user signed in.
Fetched == profiles \ {Me}

\* updateSearchResults: the text is put in lower case, the names are not.
Matching(users, text) ==
  {p \in users : lower[text] \in StoredUsername(p) \cup fullname[p]}

\* The place of user p in the array users.
Place(p, users) == Cardinality({q \in users : q <= p})

InSearchMode(s) == s.text # NoText

\* The array behind the table.
Shown(s) == IF InSearchMode(s) THEN s.filtered ELSE s.users

Reloaded(s) == [s EXCEPT !.rows = Shown(s)]

NewScreen == [fetch |-> "asked", users |-> {}, filtered |-> {}, text |-> NoText,
              rows |-> {}, searched |-> "asked"]

-----------------------------------------------------------------------------
\* The conversations, just asked for and under the indicator.
Init ==
  /\ profiles \in {S \in SUBSET Person : Me \in S}
  /\ screens = << >>
  /\ alive = {}
  /\ open = Home
  /\ chatting = FALSE
  /\ hud = Show(Hidden, Home)
  /\ arrived = FALSE
  /\ tapped = << >>
  /\ chats = << >>

\* Somebody signs up.
SignUp(p) ==
  /\ p \notin profiles
  /\ profiles' = profiles \cup {p}
  /\ UNCHANGED <<screens, alive, open, chatting, hud, arrived, tapped, chats>>

\* A conversation comes to the list.
ConversationArrives ==
  /\ arrived' = TRUE
  /\ hud' = Dismiss(hud)
  /\ UNCHANGED <<profiles, screens, alive, open, chatting, tapped, chats>>

\* showNewMessage: the button is under the indicator.
ShowNewMessage ==
  /\ open = Home
  /\ ~ chatting
  /\ ~ Blocks(hud, Home)
  /\ Len(screens) < MaxScreens
  /\ screens' = Append(screens, NewScreen)
  /\ open' = Len(screens) + 1
  /\ alive' = alive \cup {Len(screens) + 1}
  /\ hud' = Show(hud, Len(screens) + 1)
  /\ UNCHANGED <<profiles, chatting, arrived, tapped, chats>>

\* Mutant: the indicator is dismissed only if it is there already.
AnsweredEarly(n) ==
  /\ n <= Len(screens)
  /\ screens[n].fetch = "asked"
  /\ IF n \in alive
     THEN /\ hud' = IF Moving(hud) THEN hud ELSE Dismiss(hud)
          /\ screens' = [screens EXCEPT ![n] =
                           Reloaded([@ EXCEPT !.users = Fetched, !.fetch = "answered"])]
     ELSE UNCHANGED hud /\ screens' = [screens EXCEPT ![n].fetch = "answered"]
  /\ UNCHANGED <<profiles, alive, open, chatting, arrived, tapped, chats>>

\* The profiles arrive: filteredUsers stays as it is.
Answered(n) ==
  /\ n <= Len(screens)
  /\ screens[n].fetch = "asked"
  /\ IF n \in alive
     THEN /\ hud' = Dismiss(hud)
          /\ screens' = [screens EXCEPT ![n] =
                           Reloaded([@ EXCEPT !.users = Fetched, !.fetch = "answered"])]
     ELSE UNCHANGED hud /\ screens' = [screens EXCEPT ![n].fetch = "answered"]
  /\ UNCHANGED <<profiles, alive, open, chatting, arrived, tapped, chats>>

\* The fetch fails: fetchUsers returns without calling back.
Unanswered(n) ==
  /\ n <= Len(screens)
  /\ screens[n].fetch = "asked"
  /\ screens' = [screens EXCEPT ![n].fetch = "failed"]
  /\ UNCHANGED <<profiles, alive, open, chatting, hud, arrived, tapped, chats>>

\* The text of the search bar changes, or the search begins or ends.
Search(text) ==
  /\ open # Home
  /\ text # screens[open].text
  /\ LET s == screens[open] IN
     screens' = [screens EXCEPT ![open] =
       Reloaded([s EXCEPT !.text = text, !.filtered = Matching(s.users, text),
                          !.searched = s.fetch])]
  /\ UNCHANGED <<profiles, alive, open, chatting, hud, arrived, tapped, chats>>

\* Mutant: the row is looked up in all users, also in search mode.
SelectAmongAll(p, q) ==
  /\ open # Home
  /\ ~ Blocks(hud, open)
  /\ Len(chats) < MaxChats
  /\ LET s == screens[open] IN
     p \in s.rows /\ q \in s.users /\ Place(q, s.users) = Place(p, s.rows)
  /\ tapped' = Append(tapped, p)
  /\ chats' = Append(chats, q)
  /\ chatting' = TRUE
  /\ open' = Home
  /\ UNCHANGED <<profiles, screens, alive, hud, arrived>>

\* The row of p is tapped: the conversations dismiss the screen and push a chat
\* with q, whom the array has in that place.
Select(p, q) ==
  /\ open # Home
  /\ ~ Blocks(hud, open)
  /\ Len(chats) < MaxChats
  /\ LET s == screens[open] IN
     p \in s.rows /\ q \in Shown(s) /\ Place(q, Shown(s)) = Place(p, s.rows)
  /\ tapped' = Append(tapped, p)
  /\ chats' = Append(chats, q)
  /\ chatting' = TRUE
  /\ open' = Home
  /\ UNCHANGED <<profiles, screens, alive, hud, arrived>>

\* handleDismiss.
Cancel ==
  /\ open # Home
  /\ open' = Home
  /\ UNCHANGED <<profiles, screens, alive, chatting, hud, arrived, tapped, chats>>

CloseChat ==
  /\ chatting
  /\ chatting' = FALSE
  /\ UNCHANGED <<profiles, screens, alive, open, hud, arrived, tapped, chats>>

\* A screen that was dismissed is deallocated: nothing else holds it.
Release(n) ==
  /\ n \in alive
  /\ n # open
  /\ alive' = alive \ {n}
  /\ hud' = Released(hud, n)
  /\ UNCHANGED <<profiles, screens, open, chatting, arrived, tapped, chats>>

Animate ==
  /\ Moving(hud)
  /\ hud' = Settled(hud)
  /\ UNCHANGED <<profiles, screens, alive, open, chatting, arrived, tapped, chats>>

Next ==
  \/ \E p \in Person : SignUp(p)
  \/ ConversationArrives \/ ShowNewMessage \/ Cancel \/ CloseChat \/ Animate
  \/ \E n \in Screen : Answered(n) \/ Unanswered(n) \/ Release(n)
  \/ \E text \in Text : Search(text)
  \/ \E p, q \in Person : Select(p, q)

Spec == Init /\ [][Next]_vars

\* Every fetch is answered or fails.
FairSpec ==
  Spec /\ \A n \in Screen : WF_vars(Answered(n) \/ Unanswered(n))

-----------------------------------------------------------------------------
(* Properties.                                                             *)

\* Every variable has its type; the screen presented is one that exists.
TypeOK ==
  /\ profiles \in SUBSET Person
  /\ screens \in Seq(NewMessageScreen) /\ Len(screens) <= MaxScreens
  /\ alive \in SUBSET (1..Len(screens))
  /\ open \in alive \cup {Home}
  /\ chatting \in BOOLEAN
  /\ hud \in Indicator(Screen \cup {Home})
  /\ arrived \in BOOLEAN
  /\ tapped \in Seq(Person)
  /\ chats \in Seq(Person)

\* A chat is started with the user of the row that was tapped, although the table
\* was loaded before and the arrays may have changed since
\* (NewMessageController.swift:106).
ChatWithTapped == chats = tapped

\* Whoever types a part of the name a user has chosen, in any case, finds that user
\* among those fetched, unless the text was typed before they arrived: the answer
\* does not search again (NewMessageController.swift:54).
FoundByUsername ==
  \A n \in alive : LET s == screens[n] IN
    InSearchMode(s) /\ s.searched = "answered" =>
      \A p \in s.users : (\E t \in username[p] : lower[t] = lower[s.text]) => p \in s.rows

\* The one indicator covers a new-message screen only while its users are not
\* there, and the conversations only until the first has arrived, whichever screen
\* showed it, whichever dismissed it and whatever animation was going on; in
\* particular an answer that comes during the appearance still ends it.
Uncovered ==
  /\ Blocks(hud, Home) => ~ arrived
  /\ \A n \in 1..Len(screens) : Blocks(hud, n) => screens[n].fetch # "answered"

\* A new-message screen does not stay covered, unless its fetch fails.
IndicatorEnds ==
  \A n \in Screen : Blocks(hud, n) ~> ~ Blocks(hud, n) \/ screens[n].fetch = "failed"
=============================================================================
