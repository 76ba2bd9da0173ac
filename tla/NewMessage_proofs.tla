-------------------------- MODULE NewMessage_proofs --------------------------
(***************************************************************************)
(* Proofs about NewMessage, for any users, names, texts and numbers of     *)
(* screens and chats.                                                      *)
(*                                                                         *)
(* Uncovered is not inductive: an indicator that is still appearing covers *)
(* nothing yet and will later, when the answer has long been there.  Over  *)
(* such a screen the dismissal must be remembered (DismissalKept), which   *)
(* in turn needs that the indicator covers no screen that is gone          *)
(* (CoversLiving): the answer to such a screen dismisses nothing.          *)
(*                                                                         *)
(* FoundByUsername and ChatWithTapped rest on the two arrays: the table    *)
(* shows the one behind it (Loaded), and filteredUsers was filtered from   *)
(* the users that are there now (Searched), unless the search came before  *)
(* the answer.                                                             *)
(***************************************************************************)
EXTENDS NewMessage, ProgressHud_proofs, FiniteSetTheorems

\* The table shows what the array behind it holds.
Loaded == \A n \in 1..Len(screens) : screens[n].rows = Shown(screens[n])

\* A search among users that had arrived is one among the users there are.
Searched == \A n \in 1..Len(screens) : LET s == screens[n] IN
  s.searched = "answered" => s.fetch = "answered" /\ s.filtered = Matching(s.users, s.text)

CoversLiving == hud.view \in alive \cup {Home, NoView}

DismissalKept ==
  /\ Lasting(hud, Home) => ~ arrived
  /\ \A n \in 1..Len(screens) : Lasting(hud, n) => screens[n].fetch # "answered"

\* An indicator without a view does not stay.
ViewNeeded == hud.view = NoView => hud.phase # "shown"

IInv ==
  /\ TypeOK
  /\ Loaded
  /\ Searched
  /\ CoversLiving
  /\ DismissalKept
  /\ ViewNeeded
  /\ ChatWithTapped

-----------------------------------------------------------------------------
(* The arrays and the screens.                                             *)

\* Users in different places of an array are different.
LEMMA PlacesDiffer ==
  ASSUME NEW S \in SUBSET Nat, NEW p \in S, NEW q \in S, Place(p, S) = Place(q, S)
  PROVE  p = q
<1>1. ASSUME NEW x \in S, NEW y \in S, x < y PROVE Place(x, S) # Place(y, S)
  <2> DEFINE X == {k \in S : k <= x}
             Y == {k \in S : k <= y}
  <2>1. x \in Nat /\ y \in Nat /\ \A k \in S : k \in Nat
    OBVIOUS
  <2>2. X \subseteq Y /\ y \in Y /\ y \notin X
    <3>1. y <= y /\ ~ (y <= x) /\ \A k \in S : k <= x => k <= y
      BY <1>1, <2>1
    <3> QED  BY <3>1
  <2>3. Y \subseteq 0..y
    <3>1. \A k \in S : k <= y => k \in 0..y
      BY <2>1
    <3> QED  BY <3>1
  <2>4. IsFiniteSet(Y)
    <3>1. IsFiniteSet(0..y)
      BY <2>1, FS_Interval
    <3> HIDE DEF Y
    <3> QED  BY <2>3, <3>1, FS_Subset
  <2>5. X # Y
    BY <2>2
  <2> HIDE DEF X, Y
  <2>6. Cardinality(X) # Cardinality(Y)
    BY <2>2, <2>4, <2>5, FS_Subset
  <2> QED  BY <2>6 DEF Place, X, Y
<1>2. p \in Nat /\ q \in Nat /\ ~ (p < q) /\ ~ (q < p)
  BY <1>1
<1> QED  BY <1>2

\* The screen as the answer leaves it.
LEMMA AnsweredScreen ==
  ASSUME NEW s \in NewMessageScreen, NEW u \in SUBSET Person, NEW q,
         q = Reloaded([s EXCEPT !.users = u, !.fetch = "answered"])
  PROVE  /\ q \in NewMessageScreen
         /\ q.fetch = "answered" /\ q.searched = s.searched
         /\ q.rows = Shown(q)
BY DEF NewMessageScreen, Fetch, Reloaded, Shown, InSearchMode

\* The screen as a search leaves it.
LEMMA SearchedScreen ==
  ASSUME NEW s \in NewMessageScreen, NEW text \in Text, NEW q,
         q = Reloaded([s EXCEPT !.text = text, !.filtered = Matching(s.users, text),
                                !.searched = s.fetch])
  PROVE  /\ q \in NewMessageScreen
         /\ q.fetch = s.fetch /\ q.searched = s.fetch
         /\ q.filtered = Matching(q.users, q.text)
         /\ q.rows = Shown(q)
<1>1. Matching(s.users, text) \in SUBSET Person
  BY DEF Matching, NewMessageScreen
<1>2. PICK l : l = Matching(s.users, text)
  OBVIOUS
<1>3. q = Reloaded([s EXCEPT !.text = text, !.filtered = l, !.searched = s.fetch])
  BY <1>2
<1>4. /\ q \in NewMessageScreen
      /\ q.fetch = s.fetch /\ q.searched = s.fetch /\ q.users = s.users
      /\ q.filtered = l /\ q.text = text
      /\ q.rows = Shown(q)
  BY <1>1, <1>2, <1>3 DEF NewMessageScreen, Fetch, Reloaded, Shown, InSearchMode
<1> QED  BY <1>2, <1>4

\* One screen is changed.
LEMMA ScreenChanged ==
  ASSUME TypeOK, Loaded, Searched, NEW n \in 1..Len(screens), NEW q \in NewMessageScreen,
         screens' = [screens EXCEPT ![n] = q],
         q.rows = Shown(q),
         q.searched = "answered" =>
           q.fetch = "answered" /\ q.filtered = Matching(q.users, q.text)
  PROVE  /\ screens' \in Seq(NewMessageScreen) /\ Len(screens') = Len(screens)
         /\ \A m \in 1..Len(screens) : screens'[m] = IF m = n THEN q ELSE screens[m]
         /\ Loaded'
         /\ Searched'
<1>1. /\ screens' \in Seq(NewMessageScreen) /\ Len(screens') = Len(screens)
      /\ \A m \in 1..Len(screens) : screens'[m] = IF m = n THEN q ELSE screens[m]
  BY DEF TypeOK
<1>2. ASSUME NEW m \in 1..Len(screens')
      PROVE  LET s == screens'[m] IN
             /\ s.rows = Shown(s)
             /\ s.searched = "answered" =>
                  s.fetch = "answered" /\ s.filtered = Matching(s.users, s.text)
  <2>1. CASE m = n
    BY <1>1, <2>1
  <2>2. CASE m # n
    BY <1>1, <2>2 DEF Loaded, Searched
  <2> QED  BY <2>1, <2>2
<1>3. Loaded'
  BY <1>2 DEF Loaded, Shown, InSearchMode
<1>4. Searched'
  BY <1>2 DEF Searched, Matching, StoredUsername
<1> QED  BY <1>1, <1>3, <1>4

-----------------------------------------------------------------------------
(* The invariant, one lemma per action that disturbs it.                   *)

LEMMA Initially == Init => IInv
<1> SUFFICES ASSUME Init PROVE IInv
  OBVIOUS
<1>1. hud \in Indicator(Screen \cup {Home}) /\ hud.view \in {Home, NoView} /\ hud.phase # "shown"
  BY DEF Init, Show, Hidden, Indicator, Phase, Moving
<1>2. screens = << >> /\ Len(screens) = 0 /\ 1..Len(screens) = {}
  BY DEF Init
<1>3. TypeOK
  <2>1. << >> \in Seq(NewMessageScreen) /\ << >> \in Seq(Person) /\ 0 <= MaxScreens
    BY NewMessageAssumption
  <2>2. profiles \in SUBSET Person /\ alive = {} /\ open = Home
        /\ chatting = FALSE /\ arrived = FALSE /\ tapped = << >> /\ chats = << >>
    BY DEF Init
  <2> QED  BY <1>1, <1>2, <2>1, <2>2 DEF TypeOK
<1> QED  BY <1>1, <1>2, <1>3
         DEF Init, IInv, Loaded, Searched, CoversLiving, DismissalKept, ViewNeeded, ChatWithTapped

\* Steps that leave the screens as they are.
LEMMA ScreensKept ==
  ASSUME IInv, UNCHANGED screens,
         profiles' \in SUBSET Person, chatting' \in BOOLEAN, arrived' \in BOOLEAN,
         alive' \in SUBSET alive, open' \in alive' \cup {Home},
         hud' \in Indicator(Screen \cup {Home}),
         hud'.view \in alive' \cup {Home, NoView},
         hud'.view = NoView => hud'.phase # "shown",
         \A w : Lasting(hud', w) => Lasting(hud, w),
         arrived' # arrived => ~ Lasting(hud', Home),
         tapped' \in Seq(Person), chats' = tapped'
  PROVE  IInv'
<1>1. TypeOK'
  BY DEF IInv, TypeOK
<1>2. Loaded' /\ Searched'
  BY DEF IInv, Loaded, Searched, Shown, InSearchMode, Matching, StoredUsername
<1>3. DismissalKept'
  BY DEF IInv, DismissalKept
<1> QED  BY <1>1, <1>2, <1>3 DEF IInv, CoversLiving, ViewNeeded, ChatWithTapped

LEMMA ScreenType ==
  ASSUME TypeOK, NEW n \in 1..Len(screens) PROVE screens[n] \in NewMessageScreen
BY DEF TypeOK

LEMMA AnsweredStep ==
  ASSUME IInv, NEW n \in Screen, Answered(n) PROVE IInv'
<1>1. /\ n \in 1..Len(screens) /\ screens[n].fetch = "asked"
      /\ UNCHANGED <<profiles, alive, open, chatting, arrived, tapped, chats>>
  BY DEF Answered, Screen, IInv, TypeOK
<1>2. PICK s \in NewMessageScreen : s = screens[n]
  BY <1>1, ScreenType DEF IInv
<1>3. s.searched # "answered"
  BY <1>1, <1>2 DEF IInv, Searched
<1>4. CASE n \in alive
  <2>1. PICK q : q = Reloaded([s EXCEPT !.users = Fetched, !.fetch = "answered"])
    OBVIOUS
  <2>2. screens' = [screens EXCEPT ![n] = q] /\ hud' = Dismiss(hud)
    BY <1>2, <1>4, <2>1 DEF Answered
  <2>3. Fetched \in SUBSET Person
    BY DEF Fetched, IInv, TypeOK
  <2>4. /\ q \in NewMessageScreen
        /\ q.fetch = "answered" /\ q.searched # "answered"
        /\ q.rows = Shown(q)
    BY <1>3, <2>1, <2>3, AnsweredScreen
  <2>5. /\ screens' \in Seq(NewMessageScreen) /\ Len(screens') = Len(screens)
        /\ Loaded' /\ Searched'
    BY <1>1, <2>2, <2>4, ScreenChanged DEF IInv
  <2>6. /\ hud' \in Indicator(Screen \cup {Home}) /\ hud'.view = hud.view
        /\ hud'.phase = "shown" => hud.phase = "shown"
        /\ \A w : ~ Lasting(hud', w)
    BY <2>2, DismissFacts DEF IInv, TypeOK
  <2>7. TypeOK'
    BY <1>1, <2>5, <2>6 DEF IInv, TypeOK
  <2> QED  BY <1>1, <2>5, <2>6, <2>7
           DEF IInv, CoversLiving, DismissalKept, ViewNeeded, ChatWithTapped
<1>5. CASE n \notin alive
  <2>1. PICK q : q = [s EXCEPT !.fetch = "answered"]
    OBVIOUS
  <2>2. screens' = [screens EXCEPT ![n] = q] /\ UNCHANGED hud
    BY <1>2, <1>5, <2>1 DEF Answered
  <2>3. /\ q \in NewMessageScreen /\ q.searched # "answered"
        /\ q.rows = s.rows /\ q.text = s.text /\ q.users = s.users /\ q.filtered = s.filtered
    BY <1>3, <2>1 DEF NewMessageScreen, Fetch
  <2>4. q.rows = Shown(q)
    BY <1>1, <1>2, <2>3 DEF IInv, Loaded, Shown, InSearchMode
  <2>5. /\ screens' \in Seq(NewMessageScreen) /\ Len(screens') = Len(screens)
        /\ \A m \in 1..Len(screens) : screens'[m] = IF m = n THEN q ELSE screens[m]
        /\ Loaded' /\ Searched'
    BY <1>1, <2>2, <2>3, <2>4, ScreenChanged DEF IInv
  <2>6. ~ Lasting(hud, n)
    BY <1>1, <1>5 DEF IInv, CoversLiving, Lasting, Home
  <2>7. DismissalKept'
    BY <1>1, <2>2, <2>5, <2>6 DEF IInv, DismissalKept
  <2>8. TypeOK'
    BY <1>1, <2>2, <2>5 DEF IInv, TypeOK
  <2> QED  BY <1>1, <2>2, <2>5, <2>7, <2>8 DEF IInv, CoversLiving, ViewNeeded, ChatWithTapped
<1> QED  BY <1>4, <1>5

LEMMA UnansweredStep ==
  ASSUME IInv, NEW n \in Screen, Unanswered(n) PROVE IInv'
<1>1. /\ n \in 1..Len(screens) /\ screens[n].fetch = "asked"
      /\ UNCHANGED <<profiles, alive, open, chatting, hud, arrived, tapped, chats>>
  BY DEF Unanswered, Screen, IInv, TypeOK
<1>2. PICK s \in NewMessageScreen : s = screens[n]
  BY <1>1, ScreenType DEF IInv
<1>3. s.searched # "answered"
  BY <1>1, <1>2 DEF IInv, Searched
<1>4. PICK q : q = [s EXCEPT !.fetch = "failed"]
  OBVIOUS
<1>5. screens' = [screens EXCEPT ![n] = q]
  BY <1>2, <1>4 DEF Unanswered
<1>6. /\ q \in NewMessageScreen /\ q.searched # "answered" /\ q.fetch = "failed"
      /\ q.rows = s.rows /\ q.text = s.text /\ q.users = s.users /\ q.filtered = s.filtered
  BY <1>3, <1>4 DEF NewMessageScreen, Fetch
<1>7. q.rows = Shown(q)
  BY <1>1, <1>2, <1>6 DEF IInv, Loaded, Shown, InSearchMode
<1>8. /\ screens' \in Seq(NewMessageScreen) /\ Len(screens') = Len(screens)
      /\ \A m \in 1..Len(screens) : screens'[m] = IF m = n THEN q ELSE screens[m]
      /\ Loaded' /\ Searched'
  BY <1>1, <1>5, <1>6, <1>7, ScreenChanged DEF IInv
<1>9. DismissalKept'
  BY <1>1, <1>6, <1>8 DEF IInv, DismissalKept
<1>10. TypeOK'
  BY <1>1, <1>8 DEF IInv, TypeOK
<1> QED  BY <1>1, <1>8, <1>9, <1>10 DEF IInv, CoversLiving, ViewNeeded, ChatWithTapped

LEMMA SearchStep ==
  ASSUME IInv, NEW text \in Text, Search(text) PROVE IInv'
<1>1. /\ open \in 1..Len(screens)
      /\ UNCHANGED <<profiles, alive, open, chatting, hud, arrived, tapped, chats>>
  BY DEF Search, IInv, TypeOK
<1>2. PICK s \in NewMessageScreen : s = screens[open]
  BY <1>1, ScreenType DEF IInv
<1>3. PICK q : q = Reloaded([s EXCEPT !.text = text, !.filtered = Matching(s.users, text),
                                      !.searched = s.fetch])
  OBVIOUS
<1>4. screens' = [screens EXCEPT ![open] = q]
  BY <1>2, <1>3 DEF Search
<1>5. /\ q \in NewMessageScreen
      /\ q.fetch = s.fetch /\ q.searched = s.fetch
      /\ q.filtered = Matching(q.users, q.text)
      /\ q.rows = Shown(q)
  BY <1>3, SearchedScreen
<1>6. /\ screens' \in Seq(NewMessageScreen) /\ Len(screens') = Len(screens)
      /\ \A m \in 1..Len(screens) : screens'[m] = IF m = open THEN q ELSE screens[m]
      /\ Loaded' /\ Searched'
  BY <1>1, <1>4, <1>5, ScreenChanged DEF IInv
<1>7. DismissalKept'
  BY <1>1, <1>2, <1>5, <1>6 DEF IInv, DismissalKept
<1>8. TypeOK'
  BY <1>1, <1>6 DEF IInv, TypeOK
<1> QED  BY <1>1, <1>6, <1>7, <1>8 DEF IInv, CoversLiving, ViewNeeded, ChatWithTapped

LEMMA ShowStep ==
  ASSUME IInv, ShowNewMessage PROVE IInv'
<1>1. PICK k \in Nat : k = Len(screens)
  BY DEF IInv, TypeOK
<1>2. /\ NewScreen \in NewMessageScreen
      /\ NewScreen.rows = Shown(NewScreen) /\ NewScreen.searched # "answered"
      /\ NewScreen.fetch # "answered"
  BY NewMessageAssumption DEF NewScreen, NewMessageScreen, Fetch, Shown, InSearchMode
<1>3. screens' = Append(screens, NewScreen) /\ screens \in Seq(NewMessageScreen)
  BY DEF ShowNewMessage, IInv, TypeOK
<1>4. /\ screens' \in Seq(NewMessageScreen) /\ Len(screens') = k + 1
      /\ screens'[k + 1] = NewScreen
      /\ \A m \in 1..k : screens'[m] = screens[m]
  BY <1>1, <1>2, <1>3
<1>5. \A m \in 1..Len(screens') : m = k + 1 \/ m \in 1..k
  BY <1>1, <1>4
<1>6. /\ k + 1 \in Screen
      /\ open' = k + 1 /\ alive' = alive \cup {k + 1} /\ hud' = Show(hud, k + 1)
      /\ UNCHANGED <<profiles, chatting, arrived, tapped, chats>>
  BY <1>1, NewMessageAssumption DEF ShowNewMessage, Screen
<1>7. /\ hud' \in Indicator(Screen \cup {Home})
      /\ hud'.view \in {hud.view, k + 1}
      /\ hud'.view = NoView => hud'.phase # "shown"
      /\ \A w : Lasting(hud', w) => Lasting(hud, w) \/ w = k + 1
  BY <1>6, ShowFacts DEF IInv, TypeOK, ViewNeeded
<1>8. TypeOK'
  <2>1. Len(screens') <= MaxScreens
    BY <1>1, <1>4, <1>6, NewMessageAssumption DEF Screen
  <2>2. alive \subseteq 1..k
    BY <1>1 DEF IInv, TypeOK
  <2>3. alive' \in SUBSET (1..Len(screens')) /\ open' \in alive' \cup {Home}
    <3>1. alive' \subseteq 1..(k + 1)
      BY <1>6, <2>2
    <3> QED  BY <1>4, <1>6, <3>1
  <2> QED  BY <1>4, <1>6, <1>7, <2>1, <2>3 DEF IInv, TypeOK
<1>9. Loaded' /\ Searched'
  <2> SUFFICES ASSUME NEW m \in 1..Len(screens')
               PROVE  LET s == screens'[m] IN
                      /\ s.rows = Shown(s)
                      /\ s.searched = "answered" =>
                           s.fetch = "answered" /\ s.filtered = Matching(s.users, s.text)
    BY DEF Loaded, Searched, Shown, InSearchMode, Matching, StoredUsername
  <2>1. CASE m = k + 1
    BY <1>2, <1>4, <2>1
  <2>2. CASE m \in 1..k
    BY <1>1, <1>4, <2>2 DEF IInv, Loaded, Searched
  <2> QED  BY <1>5, <2>1, <2>2
<1>10. DismissalKept'
  <2>1. Home # k + 1
    BY DEF Home
  <2>2. ASSUME NEW m \in 1..Len(screens'), Lasting(hud', m)
        PROVE  screens'[m].fetch # "answered"
    <3>1. CASE m = k + 1
      BY <1>2, <1>4, <3>1
    <3>2. CASE m \in 1..k
      BY <1>1, <1>4, <1>7, <2>2, <3>2 DEF IInv, DismissalKept
    <3> QED  BY <1>5, <3>1, <3>2
  <2>3. Lasting(hud', Home) => ~ arrived'
    BY <1>6, <1>7, <2>1 DEF IInv, DismissalKept
  <2> QED  BY <2>2, <2>3 DEF DismissalKept
<1> QED  BY <1>6, <1>7, <1>8, <1>9, <1>10
         DEF IInv, CoversLiving, ViewNeeded, ChatWithTapped

LEMMA SelectStep ==
  ASSUME IInv, NEW p \in Person, NEW q \in Person, Select(p, q) PROVE IInv'
<1>1. /\ open \in 1..Len(screens) /\ open' = Home /\ chatting' = TRUE
      /\ tapped' = Append(tapped, p) /\ chats' = Append(chats, q)
      /\ UNCHANGED <<profiles, screens, alive, hud, arrived>>
  BY DEF Select, IInv, TypeOK
<1>2. PICK s \in NewMessageScreen : s = screens[open] /\ s.rows = Shown(s)
  BY <1>1, ScreenType DEF IInv, Loaded
<1>3. p = q
  <2>1. p \in s.rows /\ q \in s.rows /\ Place(q, s.rows) = Place(p, s.rows)
    BY <1>2 DEF Select
  <2>2. s.rows \in SUBSET Nat
    BY <1>2, NewMessageAssumption DEF NewMessageScreen
  <2> QED  BY <2>1, <2>2, PlacesDiffer
<1>4. chats' = tapped' /\ tapped' \in Seq(Person)
  BY <1>1, <1>3 DEF IInv, TypeOK, ChatWithTapped
<1> QED  BY <1>1, <1>4, ScreensKept DEF IInv, TypeOK, CoversLiving, ViewNeeded

\* Every step of the specification preserves the invariant.
LEMMA Step == IInv /\ [Next]_vars => IInv'
<1> SUFFICES ASSUME IInv, [Next]_vars PROVE IInv'
  OBVIOUS
<1>1. /\ hud \in Indicator(Screen \cup {Home})
      /\ hud.view = NoView => hud.phase # "shown"
      /\ hud.view \in alive \cup {Home, NoView}
      /\ alive \subseteq 1..Len(screens) /\ open \in alive \cup {Home}
      /\ profiles \in SUBSET Person /\ chatting \in BOOLEAN /\ arrived \in BOOLEAN
      /\ tapped \in Seq(Person) /\ chats = tapped
  BY DEF IInv, TypeOK, ViewNeeded, CoversLiving, ChatWithTapped
<1>2. CASE /\ UNCHANGED <<screens, alive, hud, arrived, tapped, chats>>
           /\ open' \in {open, Home} /\ profiles' \in SUBSET Person /\ chatting' \in BOOLEAN
  BY <1>1, <1>2, ScreensKept
<1>3. CASE ConversationArrives
  <2>1. /\ hud' = Dismiss(hud) /\ arrived' = TRUE
        /\ UNCHANGED <<profiles, screens, alive, open, chatting, tapped, chats>>
    BY <1>3 DEF ConversationArrives
  <2>2. /\ hud' \in Indicator(Screen \cup {Home}) /\ hud'.view = hud.view
        /\ hud'.phase = "shown" => hud.phase = "shown"
        /\ \A w : ~ Lasting(hud', w)
    BY <1>1, <2>1, DismissFacts
  <2> QED  BY <1>1, <2>1, <2>2, ScreensKept
<1>4. CASE Animate
  <2>1. hud' = Settled(hud) /\ Moving(hud)
        /\ UNCHANGED <<profiles, screens, alive, open, chatting, arrived, tapped, chats>>
    BY <1>4 DEF Animate
  <2>2. /\ hud' \in Indicator(Screen \cup {Home})
        /\ hud'.view \in {hud.view, NoView}
        /\ hud'.view = NoView => hud'.phase # "shown"
        /\ \A w : Lasting(hud', w) => Lasting(hud, w)
    BY <1>1, <2>1, SettledFacts
  <2> QED  BY <1>1, <2>1, <2>2, ScreensKept
<1>5. ASSUME NEW n \in Screen, Release(n) PROVE IInv'
  <2>1. /\ hud' = Released(hud, n) /\ alive' = alive \ {n} /\ n # open
        /\ UNCHANGED <<profiles, screens, open, chatting, arrived, tapped, chats>>
    BY <1>5 DEF Release
  <2>2. /\ hud' \in Indicator(Screen \cup {Home})
        /\ \/ hud'.view = NoView
           \/ hud'.view = hud.view /\ hud.view # n
        /\ hud'.view = NoView => hud'.phase # "shown"
        /\ \A w : Lasting(hud', w) => Lasting(hud, w)
    BY <1>1, <2>1, ReleasedFacts
  <2>3. hud'.view \in alive' \cup {Home, NoView} /\ open' \in alive' \cup {Home}
    BY <1>1, <2>1, <2>2
  <2> QED  BY <1>1, <2>1, <2>2, <2>3, ScreensKept
<1>6. CASE \E p \in Person : SignUp(p)
  BY <1>1, <1>2, <1>6 DEF SignUp
<1>7. CASE Cancel \/ CloseChat
  BY <1>1, <1>2, <1>7 DEF Cancel, CloseChat
<1>8. CASE UNCHANGED vars
  BY <1>1, <1>2, <1>8 DEF vars
<1> QED
  BY <1>3, <1>4, <1>5, <1>6, <1>7, <1>8, AnsweredStep, UnansweredStep, SearchStep, ShowStep,
     SelectStep DEF Next

-----------------------------------------------------------------------------
\* Every variable keeps its type; in particular the screen presented is one that is
\* there, whatever was dismissed and deallocated (ConversationsController.swift:62).
THEOREM NewMessageTypeCorrect == Spec => []TypeOK
<1>1. IInv => TypeOK
  BY DEF IInv
<1> QED  BY <1>1, Initially, Step, PTL DEF Spec

\* The indicator covers a new-message screen only while its users are not there, and
\* the conversations only until the first has arrived, for any number of screens
\* that share it (Utils/Extensions.swift, NewMessageController.fetchUsers).
THEOREM UncoveredAlways == Spec => []Uncovered
<1>1. IInv => Uncovered
  <2> SUFFICES ASSUME IInv PROVE Uncovered
    OBVIOUS
  <2>1. ASSUME NEW v, Blocks(hud, v) PROVE Lasting(hud, v)
    <3>1. hud.view = v /\ hud.phase = "shown"
      BY <2>1 DEF Blocks
    <3>2. v # NoView
      BY <3>1 DEF IInv, ViewNeeded
    <3> QED  BY <3>1, <3>2 DEF Lasting
  <2> QED  BY <2>1 DEF IInv, DismissalKept, Uncovered
<1> QED  BY <1>1, Initially, Step, PTL DEF Spec

\* A chat is started with the user of the row that was tapped, however often the
\* arrays behind the table changed (NewMessageController.swift:106).
THEOREM ChatWithTappedAlways == Spec => []ChatWithTapped
<1>1. IInv => ChatWithTapped
  BY DEF IInv
<1> QED  BY <1>1, Initially, Step, PTL DEF Spec

\* Whoever types a part of a chosen name, in any case, after the users have arrived
\* finds that user, for any names, any lower-case forms and any number of searches
\* (NewMessageController.updateSearchResults, RegistrationController.handleSignUpPressed).
THEOREM FoundByUsernameAlways == Spec => []FoundByUsername
<1>1. IInv => FoundByUsername
  <2> SUFFICES ASSUME IInv, NEW n \in alive, InSearchMode(screens[n]),
                      screens[n].searched = "answered", NEW p \in screens[n].users,
                      NEW t \in username[p], lower[t] = lower[screens[n].text]
               PROVE  p \in screens[n].rows
    BY DEF FoundByUsername
  <2>1. n \in 1..Len(screens)
    BY DEF IInv, TypeOK
  <2>2. screens[n].rows = Matching(screens[n].users, screens[n].text)
    BY <2>1 DEF IInv, Loaded, Searched, Shown
  <2>3. lower[screens[n].text] \in StoredUsername(p)
    BY DEF StoredUsername
  <2> QED  BY <2>2, <2>3 DEF Matching
<1> QED  BY <1>1, Initially, Step, PTL DEF Spec
=============================================================================
