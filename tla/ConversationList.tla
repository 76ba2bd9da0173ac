-------------------------- MODULE ConversationList --------------------------
(***************************************************************************)
(* The list of conversations on one device                                 *)
(* (Service.fetchConversations and ConversationsController).               *)
(*                                                                         *)
(* A listener is added for the signed-in user at launch and after each     *)
(* login, and is never removed.  It hears of every change to the           *)
(* latest-message documents of its user; for each change the profile of    *)
(* the conversation partner is fetched, and when that is answered the      *)
(* change joins what the listener has accumulated, and all of it is        *)
(* written over the rows, which all listeners share.                       *)
(*                                                                         *)
(* Of a message only its two users and the number of the change that put   *)
(* it into its document are kept; the list the listener accumulates is     *)
(* kept as its last entry for each partner, which is all that the rows     *)
(* can tell apart.  The order of the rows on the screen is that of a       *)
(* Swift dictionary, that is, none.                                        *)
(***************************************************************************)
EXTENDS Integers, Sequences, FiniteSets

CONSTANTS
  User,
  Account,      \* users who sign in on this device
  Unprofiled,   \* users without a profile document
  NoUser,
  NoMessage,
  MaxChanges,   \* bound: changes to the documents
  MaxSignIns,   \* bound: logins
  MaxFailures,  \* bound: fetches that fail, queries that are rejected
  MaxKills      \* bound: kills of the app

ASSUME ListAssumption ==
  /\ IsFiniteSet(User)
  /\ Account \subseteq User
  /\ Unprofiled \subseteq User
  /\ NoUser \notin User
  /\ MaxChanges \in Nat
  /\ MaxSignIns \in Nat
  /\ MaxFailures \in Nat
  /\ MaxKills \in Nat

\* n is the number of the change that put the message into its document.
Message == [from : User, to : User, n : 1..MaxChanges]

ASSUME NoMessageAssumption == NoMessage \notin Message

VARIABLES
  recent,     \* the latest-message documents the client shows, by owner and partner
  current,    \* user signed in, or NoUser
  signing,    \* logins whose authenticationComplete is to come
  listeners,  \* the listeners added in this launch
  main,       \* snapshots dispatched to the main queue
  fetching,   \* by user: the fetches of the profile not answered yet
  rows,       \* conversationsDictionary
  changes, signIns, failures, kills  \* bounds

bounds == <<changes, signIns, failures, kills>>
vars   == <<recent, current, signing, listeners, main, fetching, rows, bounds>>

\* latest: the last conversation accumulated for each partner.
\* missed: history, partners of whom a change was dropped or taken for another's.
Listener == [user : Account, live : BOOLEAN,
             latest : [User -> Message \cup {NoMessage}], missed : SUBSET User]

Snapshot == [listener : Nat \ {0}, changed : Seq(Message)]
Fetch    == [listener : Nat \ {0}, message : Message]

Nothing == [u \in User |-> NoMessage]

-----------------------------------------------------------------------------
(* Listening.                                                              *)

\* The numbers of the finite set I, from the least to the greatest.
InOrder(I) == CHOOSE s \in [1..Cardinality(I) -> I] :
                \A i, j \in 1..Cardinality(I) : i < j => s[i] < s[j]

\* The elements of S in some order.  The query orders the documents by the
\* times of the messages, which the model does not have.
Orders(S) == {s \in [1..Cardinality(S) -> S] : \A i, j \in DOMAIN s : s[i] = s[j] => i = j}

Documents(o) == {recent[o][p] : p \in User} \ {NoMessage}

NewListener(user) ==
  [user |-> user, live |-> TRUE, latest |-> Nothing, missed |-> {}]

\* Mutant: nobody signed in is taken for a user.
FetchConversationsAnyway(before, queued) ==
  /\ listeners' = Append(before, NewListener(current))
  /\ main' = queued

\* fetchConversations, with these listeners and snapshots there already: the
\* documents in the cache are the first snapshot.
FetchConversations(before, queued) ==
  \/ /\ current = NoUser
     /\ listeners' = before
     /\ main' = queued
  \/ /\ current # NoUser
     /\ listeners' = Append(before, NewListener(current))
     /\ \E changed \in Orders(Documents(current)) :
          main' = Append(queued, [listener |-> Len(before) + 1, changed |-> changed])

Init ==
  /\ recent = [o \in Account |-> Nothing]
  /\ current \in Account \cup {NoUser}
  /\ signing = 0
  /\ listeners = IF current = NoUser THEN << >> ELSE <<NewListener(current)>>
  /\ main = << >>
  /\ fetching = [u \in User |-> << >>]
  /\ rows = Nothing
  /\ changes = 0
  /\ signIns = 0
  /\ failures = 0
  /\ kills = 0

\* A login, or a sign-up, signs in; authenticationComplete runs later, if at all.
SignIn(user) ==
  /\ signIns < MaxSignIns
  /\ signIns' = signIns + 1
  /\ current' = user
  /\ signing' = signing + 1
  /\ UNCHANGED <<recent, listeners, main, fetching, rows, changes, failures, kills>>

AuthenticationComplete ==
  /\ signing > 0
  /\ signing' = signing - 1
  /\ FetchConversations(listeners, main)
  /\ UNCHANGED <<recent, current, fetching, rows, bounds>>

\* The listeners and the rows stay.
SignOut ==
  /\ current # NoUser
  /\ current' = NoUser
  /\ UNCHANGED <<recent, signing, listeners, main, fetching, rows, bounds>>

\* The app is killed and launched again.
Kill ==
  /\ kills < MaxKills
  /\ kills' = kills + 1
  /\ signing' = 0
  /\ FetchConversations(<< >>, << >>)
  /\ fetching' = [u \in User |-> << >>]
  /\ rows' = Nothing
  /\ UNCHANGED <<recent, current, changes, signIns, failures>>

-----------------------------------------------------------------------------
(* The Firestore client.                                                   *)

\* Listeners of user o that hear of changes.
Hearing(o) == {l \in DOMAIN listeners : listeners[l].user = o /\ listeners[l].live}

\* A snapshot for each listener of o, in the order in which they were added.
Tell(o, m) ==
  main' = main \o [i \in 1..Cardinality(Hearing(o)) |->
                     [listener |-> InOrder(Hearing(o))[i], changed |-> <<m>>]]

\* The document of o for the partner p gets another message: one just sent, one
\* received, or an older one, when a write is refused or written again.
Change(o, p) ==
  /\ o # p
  /\ changes < MaxChanges
  /\ changes' = changes + 1
  /\ \E from \in {o, p} :
       LET m == [from |-> from, to |-> IF from = o THEN p ELSE o, n |-> changes + 1] IN
       /\ recent' = [recent EXCEPT ![o][p] = m]
       /\ Tell(o, m)
  /\ UNCHANGED <<current, signing, listeners, fetching, rows, signIns, failures, kills>>

\* The first write of a document is refused: the document is gone, and the change
\* carries what it held.
Remove(o, p) ==
  /\ recent[o][p] # NoMessage
  /\ changes < MaxChanges
  /\ changes' = changes + 1
  /\ recent' = [recent EXCEPT ![o][p] = NoMessage]
  /\ Tell(o, recent[o][p])
  /\ UNCHANGED <<current, signing, listeners, fetching, rows, signIns, failures, kills>>

\* The server no longer allows the query of o: all its listeners end.
RejectListen(o) ==
  /\ Hearing(o) # {}
  /\ failures < MaxFailures
  /\ failures' = failures + 1
  /\ listeners' = [l \in DOMAIN listeners |->
                     IF l \in Hearing(o) THEN [listeners[l] EXCEPT !.live = FALSE]
                     ELSE listeners[l]]
  /\ UNCHANGED <<recent, current, signing, main, fetching, rows, changes, signIns, kills>>

-----------------------------------------------------------------------------
(* The main queue.                                                         *)

\* Message.chatPartnerID, as decoded while the given user is signed in.
ChatPartner(m, user) == IF m.from = user THEN m.to ELSE m.from

\* What listener l asks of the profile of u because of the changed messages.
Asked(l, u, changed) ==
  LET places == {i \in DOMAIN changed : ChatPartner(changed[i], current) = u}
  IN  [i \in 1..Cardinality(places) |->
         [listener |-> l, message |-> changed[InOrder(places)[i]]]]

\* Mutant: the fetch for a change overtakes those before it.
AskFirst(l, changed) ==
  fetching' = [u \in User |-> Asked(l, u, changed) \o fetching[u]]

\* Mutant: only an added document is looked at, as in fetchMessages.
AskAdded(l, changed) ==
  fetching' = [u \in User |-> IF listeners[l].latest[u] = NoMessage
                              THEN fetching[u] \o Asked(l, u, changed)
                              ELSE fetching[u]]

\* The profile of the partner is asked for once for each change, in the order of
\* the changes.
Ask(l, changed) ==
  fetching' = [u \in User |-> fetching[u] \o Asked(l, u, changed)]

\* The listener's handler: messages are decoded for whoever is signed in now.  A
\* change that is decoded for the wrong partner is missed in the right row
\* and mixed into another.
HandleSnapshot ==
  /\ main # << >>
  /\ LET l == Head(main).listener
         changed == Head(main).changed
         owner == listeners[l].user
         partners == {<<ChatPartner(changed[i], owner), ChatPartner(changed[i], current)>> :
                        i \in DOMAIN changed}
     IN
     /\ Ask(l, changed)
     /\ listeners' = [listeners EXCEPT
          ![l].missed = @ \cup UNION {{q[1], q[2]} : q \in {r \in partners : r[1] # r[2]}}]
  /\ main' = Tail(main)
  /\ UNCHANGED <<recent, current, signing, rows, bounds>>

\* Mutant: the completion runs before the conversation is appended.
CompleteBefore(u, l, m) ==
  /\ listeners' = [listeners EXCEPT ![l].latest[u] = m]
  /\ rows' = [p \in User |-> IF listeners[l].latest[p] # NoMessage
                             THEN listeners[l].latest[p] ELSE rows[p]]

\* The conversation with u joins those listener l has accumulated, and all of
\* them are written over the rows.
Complete(u, l, m) ==
  LET latest == [listeners[l].latest EXCEPT ![u] = m] IN
  /\ listeners' = [listeners EXCEPT ![l].latest = latest]
  /\ rows' = [p \in User |-> IF latest[p] # NoMessage THEN latest[p] ELSE rows[p]]

\* The profile of u arrives, for the oldest fetch.  Fetches of one document are
\* answered in the order in which they were made, those of different documents
\* in any order.
Answer(u) ==
  /\ fetching[u] # << >>
  /\ u \notin Unprofiled
  /\ fetching' = [fetching EXCEPT ![u] = Tail(@)]
  /\ Complete(u, Head(fetching[u]).listener, Head(fetching[u]).message)
  /\ UNCHANGED <<recent, current, signing, main, bounds>>

\* Without a profile, or after an error, the handler returns and nothing else
\* happens.
Unanswered(u) ==
  /\ fetching[u] # << >>
  /\ \/ u \in Unprofiled /\ UNCHANGED failures
     \/ failures < MaxFailures /\ failures' = failures + 1
  /\ fetching' = [fetching EXCEPT ![u] = Tail(@)]
  /\ listeners' = [listeners EXCEPT ![Head(fetching[u]).listener].missed = @ \cup {u}]
  /\ UNCHANGED <<recent, current, signing, main, rows, changes, signIns, kills>>

-----------------------------------------------------------------------------
(* The system.                                                             *)

Next ==
  \/ \E o \in Account : SignIn(o) \/ RejectListen(o)
  \/ \E o \in Account, p \in User : Change(o, p) \/ Remove(o, p)
  \/ \E u \in User : Answer(u) \/ Unanswered(u)
  \/ AuthenticationComplete \/ SignOut \/ Kill \/ HandleSnapshot

Spec == Init /\ [][Next]_vars

\* The main queue runs, and every fetch is answered or fails.
Fairness ==
  /\ WF_vars(HandleSnapshot)
  /\ \A u \in User : WF_vars(Answer(u) \/ Unanswered(u))

FairSpec == Spec /\ Fairness

-----------------------------------------------------------------------------
(* Properties.                                                             *)

\* Every variable has its type; snapshots and fetches belong to listeners that
\* exist, and a listener to somebody who was signed in.
TypeOK ==
  /\ recent \in [Account -> [User -> Message \cup {NoMessage}]]
  /\ current \in Account \cup {NoUser}
  /\ signing \in 0..MaxSignIns
  /\ listeners \in Seq(Listener)
  /\ main \in Seq(Snapshot)
  /\ \A i \in DOMAIN main : main[i].listener \in DOMAIN listeners
  /\ fetching \in [User -> Seq(Fetch)]
  /\ \A u \in User : \A i \in DOMAIN fetching[u] : fetching[u][i].listener \in DOMAIN listeners
  /\ rows \in [User -> Message \cup {NoMessage}]
  /\ changes \in 0..MaxChanges
  /\ signIns \in 0..MaxSignIns
  /\ failures \in 0..MaxFailures
  /\ kills \in 0..MaxKills

Quiet == main = << >> /\ \A u \in User : fetching[u] = << >>

\* When nothing is under way, the row of a partner shows the latest message
\* between that partner and a user who was signed in during this launch: with one
\* user, however often signed in and in whatever order the profiles arrive, the
\* latest message there is.  The exceptions are a query the server has ended, a fetch
\* that failed and a change decoded under another user.
RowsCurrent ==
  Quiet => \A p \in User :
    /\ listeners # << >>
    /\ \A l \in DOMAIN listeners : /\ listeners[l].live
                                   /\ p \notin listeners[l].missed
                                   /\ recent[listeners[l].user][p] # NoMessage
    => \E l \in DOMAIN listeners : rows[p] = recent[listeners[l].user][p]

\* As long as there is one listener, the row of a partner never goes back to an
\* older state of the document, although the listener writes all its rows again
\* with each answer (Service.swift:90, ConversationsController.swift:76).
RowsAdvance ==
  [][\A p \in User :
       /\ Len(listeners) = 1
       /\ p \notin listeners[1].missed
       /\ kills' = kills
       /\ rows[p] # NoMessage
       => rows'[p] = rows[p] \/ rows'[p].n > rows[p].n]_vars

\* Listener l hears of a conversation with p and has missed nothing of it.
Listening(l, p) ==
  /\ l <= Len(listeners)
  /\ listeners[l].live
  /\ p \notin listeners[l].missed
  /\ recent[listeners[l].user][p] # NoMessage

\* A conversation that a listener hears of gets a row in the end.
RowsAppear ==
  \A l \in 1..MaxSignIns + 1, p \in User :
    Listening(l, p) ~> rows[p] # NoMessage \/ ~ Listening(l, p)

\* The logins and the listeners they add, without what is listened to.
Listeners == INSTANCE Listening WITH
  Login <- 1..MaxSignIns, pending <- 1..signing,
  heard <- {listeners[l].user : l \in DOMAIN listeners}

\* The list adds its listeners for the logins of Session and for no other event:
\* one at most for each login, for whoever is signed in when it completes
\* (ConversationsController.swift:200).
ImplementsListening == Listeners!Spec
=============================================================================
