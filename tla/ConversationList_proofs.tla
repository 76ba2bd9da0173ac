----------------------- MODULE ConversationList_proofs -----------------------
(***************************************************************************)
(* Machine-checked proofs about ConversationList, for every value of its   *)
(* constants: its types, and that the rows go forward and become current.  *)
(***************************************************************************)
EXTENDS ConversationList, FiniteSetTheorems, SequenceTheorems, TLAPS

-----------------------------------------------------------------------------
(* The operators the actions are built from.                               *)

\* How many numbers of I are not above x.
Rank(I, x) == Cardinality({k \in I : k <= x})

\* A finite set of numbers can be listed in order.
LEMMA OrderExists ==
  ASSUME NEW I \in SUBSET Nat, IsFiniteSet(I)
  PROVE  \E s \in [1..Cardinality(I) -> I] :
           \A i, j \in 1..Cardinality(I) : i < j => s[i] < s[j]
<1> DEFINE n == Cardinality(I)
           r == [x \in I |-> Rank(I, x)]
<1>1. n \in Nat
  BY FS_CardinalityType
<1>2. ASSUME NEW x \in I PROVE Rank(I, x) \in 1..n
  <2> DEFINE T == {k \in I : k <= x}
  <2>1. T \in SUBSET I /\ x \in T /\ x <= x
    OBVIOUS
  <2>2. IsFiniteSet(T) /\ Cardinality(T) <= n
    BY <2>1, FS_Subset
  <2>3. Cardinality(T) \in Nat /\ Cardinality(T) # 0
    BY <2>1, <2>2, FS_CardinalityType, FS_EmptySet
  <2> QED  BY <1>1, <2>2, <2>3 DEF Rank
<1>3. ASSUME NEW x \in I, NEW y \in I, x < y PROVE Rank(I, x) < Rank(I, y)
  <2> DEFINE S == {k \in I : k <= x}
             T == {k \in I : k <= y}
  <2>1. S \in SUBSET T /\ T \in SUBSET I /\ y \in T /\ y \notin S
    <3>1. x \in Nat /\ y \in Nat /\ \A k \in I : k \in Nat
      OBVIOUS
    <3>2. y <= y /\ ~ (y <= x)
      BY <1>3, <3>1
    <3>3. \A k \in I : k <= x => k <= y
      BY <1>3, <3>1
    <3> QED  BY <3>2, <3>3
  <2>2. IsFiniteSet(T)
    BY <2>1, FS_Subset
  <2>3. IsFiniteSet(S) /\ Cardinality(S) <= Cardinality(T) /\ Cardinality(S) # Cardinality(T)
    <3>1. S # T
      BY <2>1
    <3> HIDE DEF S, T
    <3> QED  BY <2>1, <2>2, <3>1, FS_Subset
  <2>4. Cardinality(S) \in Nat /\ Cardinality(T) \in Nat
    BY <2>2, <2>3, FS_CardinalityType
  <2> QED  BY <2>3, <2>4 DEF Rank
<1>4. r \in [I -> 1..n] /\ \A x \in I : r[x] = Rank(I, x)
  BY <1>2
<1>5. \A x, y \in I : r[x] = r[y] => x = y
  <2> SUFFICES ASSUME NEW x \in I, NEW y \in I, r[x] = r[y] PROVE x = y
    OBVIOUS
  <2>1. x \in Nat /\ y \in Nat /\ Rank(I, x) \in Nat /\ Rank(I, x) = Rank(I, y)
    BY <1>1, <1>2, <1>4
  <2>2. ~ (x < y) /\ ~ (y < x)
    BY <1>3, <2>1
  <2> QED  BY <2>1, <2>2
<1> HIDE DEF r
<1>6. r \in Injection(I, 1..n)
  BY <1>4, <1>5 DEF Injection, IsInjective
<1>7. IsFiniteSet(1..n) /\ Cardinality(1..n) = n
  BY <1>1, FS_Interval
<1>8. \A i \in 1..n : \E x \in I : r[x] = i
  <2>1. r \in Surjection(I, 1..n)
    BY <1>6, <1>7, FS_Injection
  <2> QED  BY <2>1 DEF Surjection
<1> DEFINE s == [i \in 1..n |-> CHOOSE x \in I : r[x] = i]
<1>9. s \in [1..n -> I] /\ \A i \in 1..n : r[s[i]] = i
  BY <1>8
<1> HIDE DEF s
<1>10. ASSUME NEW i \in 1..n, NEW j \in 1..n, i < j PROVE s[i] < s[j]
  <2>1. s[i] \in Nat /\ s[j] \in Nat /\ s[i] \in I /\ s[j] \in I
    BY <1>9
  <2>2. s[j] < s[i] => j < i
    BY <1>3, <1>4, <1>9, <2>1
  <2>3. s[j] # s[i]
    BY <1>9, <1>10
  <2> QED  BY <1>10, <2>1, <2>2, <2>3
<1> QED  BY <1>9, <1>10

\* A list in order has every number once.
LEMMA InOrderIsOrder ==
  ASSUME NEW I \in SUBSET Nat, IsFiniteSet(I)
  PROVE  /\ Cardinality(I) \in Nat
         /\ InOrder(I) \in [1..Cardinality(I) -> I]
         /\ \A x \in I : \E i \in 1..Cardinality(I) : InOrder(I)[i] = x
         /\ \A i, j \in 1..Cardinality(I) : InOrder(I)[i] = InOrder(I)[j] => i = j
<1> DEFINE n == Cardinality(I)
           s == InOrder(I)
<1>1. n \in Nat
  BY FS_CardinalityType
<1>2. s \in [1..n -> I] /\ \A i, j \in 1..n : i < j => s[i] < s[j]
  BY OrderExists DEF InOrder
<1> HIDE DEF s
<1>3. ASSUME NEW i \in 1..n, NEW j \in 1..n, s[i] = s[j] PROVE i = j
  <2>1. s[i] \in Nat /\ s[j] \in Nat
    BY <1>2
  <2>2. ~ (i < j) /\ ~ (j < i)
    BY <1>2, <1>3, <2>1
  <2> QED  BY <1>1, <2>2
<1>4. s \in Injection(1..n, I)
  BY <1>2, <1>3 DEF Injection, IsInjective
<1>5. IsFiniteSet(1..n) /\ Cardinality(1..n) = n
  BY <1>1, FS_Interval
<1>6. s \in Surjection(1..n, I)
  BY <1>4, <1>5, FS_Injection
<1>7. \A x \in I : \E i \in 1..n : s[i] = x
  BY <1>6 DEF Surjection
<1> QED  BY <1>1, <1>2, <1>3, <1>7 DEF s

\* The documents of a user are finitely many.
LEMMA DocumentsFinite ==
  ASSUME TypeOK, NEW o \in Account
  PROVE  Documents(o) \subseteq Message /\ IsFiniteSet(Documents(o))
<1> DEFINE T == {recent[o][p] : p \in User}
<1>1. recent[o] \in [User -> Message \cup {NoMessage}]
  BY DEF TypeOK
<1>2. recent[o] \in Surjection(User, T)
  BY <1>1 DEF Surjection
<1>3. IsFiniteSet(T)
  BY <1>2, FS_Surjection, ListAssumption
<1>4. IsFiniteSet(T \ {NoMessage})
  BY <1>3, FS_RemoveElement
<1> QED  BY <1>1, <1>4 DEF Documents

\* A list of a finite set of messages has each of them once.
LEMMA OrdersAreLists ==
  ASSUME NEW S \in SUBSET Message, IsFiniteSet(S), NEW s \in Orders(S)
  PROVE  /\ s \in Seq(Message)
         /\ \A i \in 1..Len(s) : s[i] \in S
         /\ \A m \in S : \E i \in 1..Len(s) : s[i] = m
         /\ \A i, j \in 1..Len(s) : s[i] = s[j] => i = j
<1> DEFINE n == Cardinality(S)
<1>1. n \in Nat
  BY FS_CardinalityType
<1>2. s \in [1..n -> S] /\ \A i, j \in 1..n : s[i] = s[j] => i = j
  BY DEF Orders
<1>3. s \in [1..n -> Message]
  BY <1>2
<1>4. s \in Seq(Message) /\ Len(s) = n
  BY <1>1, <1>3, IsASeq, LenProperties
<1>5. s \in Injection(1..n, S)
  BY <1>2 DEF Injection, IsInjective
<1>6. IsFiniteSet(1..n) /\ Cardinality(1..n) = n
  BY <1>1, FS_Interval
<1>7. s \in Surjection(1..n, S)
  BY <1>5, <1>6, FS_Injection
<1> QED  BY <1>2, <1>4, <1>7 DEF Surjection

\* A change is told once to each listener that hears of it.
LEMMA ToldSnapshots ==
  ASSUME TypeOK, NEW o \in Account, NEW m \in Message, Tell(o, m)
  PROVE  /\ main' \in Seq(Snapshot)
         /\ Len(main) \in Nat /\ Len(main') \in Nat /\ Len(main) <= Len(main')
         /\ \A i \in 1..Len(main) : main'[i] = main[i]
         /\ \A i \in (Len(main) + 1)..Len(main') :
              main'[i].listener \in Hearing(o) /\ main'[i].changed = <<m>>
         /\ \A l \in Hearing(o) : \E i \in (Len(main) + 1)..Len(main') : main'[i].listener = l
<1> DEFINE I == Hearing(o)
           n == Cardinality(I)
           told == [i \in 1..n |-> [listener |-> InOrder(I)[i], changed |-> <<m>>]]
<1>1. /\ main \in Seq(Snapshot) /\ Len(main) \in Nat
      /\ listeners \in Seq(Listener) /\ Len(listeners) \in Nat
      /\ DOMAIN listeners = 1..Len(listeners)
  BY LenProperties DEF TypeOK
<1>2. I \in SUBSET (1..Len(listeners)) /\ I \in SUBSET (Nat \ {0}) /\ I \in SUBSET Nat
  BY <1>1 DEF Hearing
<1>3. IsFiniteSet(I)
  <2>1. IsFiniteSet(1..Len(listeners))
    BY <1>1, FS_Interval
  <2> QED  BY <1>2, <2>1, FS_Subset
<1>4. /\ n \in Nat /\ InOrder(I) \in [1..n -> I]
      /\ \A x \in I : \E i \in 1..n : InOrder(I)[i] = x
  BY <1>2, <1>3, InOrderIsOrder
<1>5. main' = main \o told
  BY DEF Tell
<1> HIDE DEF I, n
<1>6. <<m>> \in Seq(Message)
  OBVIOUS
<1>7. \A i \in 1..n : [listener |-> InOrder(I)[i], changed |-> <<m>>] \in Snapshot
  BY <1>2, <1>4, <1>6 DEF Snapshot
<1>8. told \in [1..n -> Snapshot] /\ \A i \in 1..n : told[i].listener = InOrder(I)[i] /\ told[i].changed = <<m>>
  BY <1>7
<1> HIDE DEF told
<1>9. told \in Seq(Snapshot) /\ Len(told) = n
  BY <1>4, <1>8, IsASeq, LenProperties
<1>10. /\ main' \in Seq(Snapshot) /\ Len(main') = Len(main) + n
       /\ \A i \in 1..(Len(main) + n) : main'[i] = IF i <= Len(main) THEN main[i] ELSE told[i - Len(main)]
  BY <1>1, <1>5, <1>9, ConcatProperties
<1>11. PICK L : L = Len(main) /\ L \in Nat
  BY <1>1
<1>12. PICK k : k = n /\ k \in Nat
  BY <1>4
<1>13. /\ Len(main') = L + k
       /\ \A i \in 1..(L + k) : main'[i] = IF i <= L THEN main[i] ELSE told[i - L]
  BY <1>10, <1>11, <1>12
<1>14. /\ \A i \in 1..k : InOrder(I)[i] \in I /\ told[i].listener = InOrder(I)[i] /\ told[i].changed = <<m>>
       /\ \A x \in I : \E i \in 1..k : InOrder(I)[i] = x
  BY <1>4, <1>8, <1>12
<1>15. \A i \in 1..L : main'[i] = main[i]
  BY <1>11, <1>12, <1>13
<1>16. ASSUME NEW i \in (L + 1)..(L + k)
       PROVE  main'[i].listener \in I /\ main'[i].changed = <<m>>
  <2>1. i - L \in 1..k /\ i \in 1..(L + k) /\ ~ (i <= L)
    BY <1>11, <1>12
  <2>2. main'[i] = told[i - L]
    BY <1>13, <2>1
  <2> QED  BY <1>14, <2>1, <2>2
<1>17. ASSUME NEW l \in I PROVE \E i \in (L + 1)..(L + k) : main'[i].listener = l
  <2>1. PICK j \in 1..k : InOrder(I)[j] = l
    BY <1>14
  <2>2. L + j \in (L + 1)..(L + k) /\ L + j \in 1..(L + k) /\ ~ (L + j <= L) /\ (L + j) - L = j
    BY <1>11, <1>12
  <2>3. main'[L + j] = told[j]
    BY <1>13, <2>2
  <2> QED  BY <1>14, <2>1, <2>2, <2>3
<1>18. Len(main') \in Nat /\ Len(main) <= Len(main')
  BY <1>11, <1>12, <1>13
<1> QED  BY <1>10, <1>11, <1>13, <1>15, <1>16, <1>17, <1>18 DEF I

\* The fetches are for listener l, and for the changed messages that are decoded
\* for u.
AsksFor(asked, l, u, changed) ==
  /\ \A i \in 1..Len(asked) :
       /\ asked[i].listener = l
       /\ \E j \in 1..Len(changed) : /\ asked[i].message = changed[j]
                                     /\ ChatPartner(changed[j], current) = u
  /\ \A j \in 1..Len(changed) : ChatPartner(changed[j], current) = u =>
       \E i \in 1..Len(asked) : asked[i].message = changed[j]

\* What is asked because of a snapshot: its messages, each once.
LEMMA AskedFetches ==
  ASSUME NEW l \in Nat \ {0}, NEW changed \in Seq(Message), NEW u \in User
  PROVE  /\ Asked(l, u, changed) \in Seq(Fetch)
         /\ AsksFor(Asked(l, u, changed), l, u, changed)
<1> DEFINE I == {i \in DOMAIN changed : ChatPartner(changed[i], current) = u}
           n == Cardinality(I)
           asked == Asked(l, u, changed)
<1>1. Len(changed) \in Nat /\ DOMAIN changed = 1..Len(changed)
  BY LenProperties
<1>2. I \in SUBSET (1..Len(changed)) /\ I \in SUBSET Nat
  BY <1>1
<1>3. IsFiniteSet(I)
  <2>1. IsFiniteSet(1..Len(changed))
    BY <1>1, FS_Interval
  <2> HIDE DEF I
  <2> QED  BY <1>2, <2>1, FS_Subset
<1>4. asked = [i \in 1..n |-> [listener |-> l, message |-> changed[InOrder(I)[i]]]]
  BY DEF Asked
<1>5. \A i \in I : ChatPartner(changed[i], current) = u
  OBVIOUS
<1>6. \A i \in 1..Len(changed) : ChatPartner(changed[i], current) = u => i \in I
  BY <1>1
<1> HIDE DEF I, n, asked
<1>7. /\ n \in Nat /\ InOrder(I) \in [1..n -> I]
      /\ \A x \in I : \E i \in 1..n : InOrder(I)[i] = x
  BY <1>2, <1>3, InOrderIsOrder DEF n
<1>8. ASSUME NEW i \in 1..n
      PROVE  /\ InOrder(I)[i] \in 1..Len(changed)
             /\ [listener |-> l, message |-> changed[InOrder(I)[i]]] \in Fetch
  <2>1. InOrder(I)[i] \in 1..Len(changed)
    BY <1>2, <1>7
  <2>2. changed[InOrder(I)[i]] \in Message
    BY <2>1, ElementOfSeq
  <2> QED  BY <2>1, <2>2 DEF Fetch
<1>9. /\ asked \in [1..n -> Fetch]
      /\ \A i \in 1..n : asked[i].listener = l /\ asked[i].message = changed[InOrder(I)[i]]
  BY <1>4, <1>8
<1>10. asked \in Seq(Fetch) /\ Len(asked) = n
  BY <1>7, <1>9, IsASeq, LenProperties
<1>11. ASSUME NEW i \in 1..n
       PROVE  \E j \in 1..Len(changed) : asked[i].message = changed[j] /\ ChatPartner(changed[j], current) = u
  <2>1. InOrder(I)[i] \in I
    BY <1>7
  <2> QED  BY <1>5, <1>8, <1>9, <2>1
<1>12. ASSUME NEW j \in 1..Len(changed), ChatPartner(changed[j], current) = u
       PROVE  \E i \in 1..n : asked[i].message = changed[j]
  BY <1>6, <1>7, <1>9, <1>12
<1>13. AsksFor(asked, l, u, changed)
  BY <1>9, <1>10, <1>11, <1>12 DEF AsksFor
<1> QED  BY <1>10, <1>13 DEF asked

\* A new listener, and its first snapshot: every document of the user, once.
LEMMA FetchedConversations ==
  ASSUME TypeOK, NEW before \in Seq(Listener), NEW queued \in Seq(Snapshot),
         FetchConversations(before, queued)
  PROVE  \/ listeners' = before /\ main' = queued
         \/ /\ current \in Account
            /\ listeners' \in Seq(Listener) /\ Len(listeners') = Len(before) + 1
            /\ \A l \in 1..Len(before) : listeners'[l] = before[l]
            /\ listeners'[Len(before) + 1] = NewListener(current)
            /\ main' \in Seq(Snapshot) /\ Len(main') = Len(queued) + 1
            /\ \A i \in 1..Len(queued) : main'[i] = queued[i]
            /\ main'[Len(queued) + 1].listener = Len(before) + 1
            /\ \E changed \in Orders(Documents(current)) : main'[Len(queued) + 1].changed = changed
<1>1. CASE current = NoUser
  BY <1>1 DEF FetchConversations
<1>2. CASE current # NoUser
  <2>1. /\ listeners' = Append(before, NewListener(current))
        /\ \E changed \in Orders(Documents(current)) :
             main' = Append(queued, [listener |-> Len(before) + 1, changed |-> changed])
    BY <1>2 DEF FetchConversations
  <2>2. current \in Account
    BY <1>2 DEF TypeOK
  <2>3. PICK changed \in Orders(Documents(current)) :
             main' = Append(queued, [listener |-> Len(before) + 1, changed |-> changed])
    BY <2>1
  <2>4. Len(before) \in Nat /\ Len(before) + 1 \in Nat \ {0}
    BY LenProperties
  <2>5. changed \in Seq(Message)
    <3>1. Documents(current) \in SUBSET Message /\ IsFiniteSet(Documents(current))
      BY <2>2, DocumentsFinite
    <3> QED  BY <3>1, OrdersAreLists
  <2>6. [listener |-> Len(before) + 1, changed |-> changed] \in Snapshot
    BY <2>4, <2>5 DEF Snapshot
  <2>7. NewListener(current) \in Listener
    BY <2>2 DEF NewListener, Listener, Nothing
  <2>8. /\ listeners' \in Seq(Listener) /\ Len(listeners') = Len(before) + 1
        /\ \A l \in 1..Len(before) : listeners'[l] = before[l]
        /\ listeners'[Len(before) + 1] = NewListener(current)
    BY <2>1, <2>7, AppendProperties
  <2>9. PICK x : x = [listener |-> Len(before) + 1, changed |-> changed]
    OBVIOUS
  <2>10. x \in Snapshot /\ x.listener = Len(before) + 1 /\ x.changed = changed /\ main' = Append(queued, x)
    BY <2>3, <2>6, <2>9
  <2>11. /\ main' \in Seq(Snapshot) /\ Len(main') = Len(queued) + 1
         /\ \A i \in 1..Len(queued) : main'[i] = queued[i]
         /\ main'[Len(queued) + 1] = x
    BY <2>10, AppendProperties
  <2> QED  BY <2>2, <2>8, <2>10, <2>11
<1> QED  BY <1>1, <1>2

-----------------------------------------------------------------------------
(***************************************************************************)
(* Type correctness, one lemma per action.  A login is waited for at most  *)
(* once, which bounds those waited for.                                    *)
(***************************************************************************)

IType == TypeOK /\ signing <= signIns

LEMMA InitType == Init => IType
<1> SUFFICES ASSUME Init PROVE IType
  OBVIOUS
<1>1. Nothing \in [User -> Message \cup {NoMessage}]
  BY DEF Nothing
<1>2. current # NoUser => NewListener(current) \in Listener
  BY <1>1 DEF Init, NewListener, Listener
<1>3. listeners \in Seq(Listener)
  BY <1>2 DEF Init
<1>4. /\ main \in Seq(Snapshot) /\ fetching \in [User -> Seq(Fetch)]
      /\ \A i \in DOMAIN main : main[i].listener \in DOMAIN listeners
      /\ \A u \in User : \A i \in DOMAIN fetching[u] : fetching[u][i].listener \in DOMAIN listeners
  BY DEF Init
<1>5. recent \in [Account -> [User -> Message \cup {NoMessage}]]
  BY <1>1 DEF Init
<1>6. /\ signing = 0 /\ changes = 0 /\ signIns = 0 /\ failures = 0 /\ kills = 0
      /\ rows = Nothing /\ current \in Account \cup {NoUser}
  BY DEF Init
<1>7. /\ signing \in 0..MaxSignIns /\ changes \in 0..MaxChanges /\ signIns \in 0..MaxSignIns
      /\ failures \in 0..MaxFailures /\ kills \in 0..MaxKills /\ signing <= signIns
  BY <1>6, ListAssumption
<1> QED  BY <1>1, <1>3, <1>4, <1>5, <1>6, <1>7 DEF IType, TypeOK

\* What the domains of the three kinds of sequences are.
LEMMA Domains ==
  ASSUME TypeOK
  PROVE  /\ Len(listeners) \in Nat /\ DOMAIN listeners = 1..Len(listeners)
         /\ Len(main) \in Nat /\ DOMAIN main = 1..Len(main)
         /\ \A u \in User : Len(fetching[u]) \in Nat /\ DOMAIN fetching[u] = 1..Len(fetching[u])
         /\ \A l \in 1..Len(listeners) : listeners[l] \in Listener
         /\ \A i \in 1..Len(main) : main[i] \in Snapshot /\ main[i].listener \in 1..Len(listeners)
         /\ \A u \in User : \A i \in 1..Len(fetching[u]) :
              fetching[u][i] \in Fetch /\ fetching[u][i].listener \in 1..Len(listeners)
<1>1. /\ Len(listeners) \in Nat /\ DOMAIN listeners = 1..Len(listeners)
      /\ Len(main) \in Nat /\ DOMAIN main = 1..Len(main)
  BY LenProperties DEF TypeOK
<1>2. ASSUME NEW u \in User
      PROVE  /\ fetching[u] \in Seq(Fetch)
             /\ Len(fetching[u]) \in Nat /\ DOMAIN fetching[u] = 1..Len(fetching[u])
  BY LenProperties DEF TypeOK
<1>3. \A l \in 1..Len(listeners) : listeners[l] \in Listener
  BY ElementOfSeq DEF TypeOK
<1>4. \A i \in 1..Len(main) : main[i] \in Snapshot /\ main[i].listener \in 1..Len(listeners)
  BY <1>1, ElementOfSeq DEF TypeOK
<1>5. ASSUME NEW u \in User, NEW i \in 1..Len(fetching[u])
      PROVE  fetching[u][i] \in Fetch /\ fetching[u][i].listener \in 1..Len(listeners)
  BY <1>1, <1>2, ElementOfSeq DEF TypeOK
<1> QED  BY <1>1, <1>2, <1>3, <1>4, <1>5

LEMMA SignInType ==
  ASSUME IType, NEW o \in Account, SignIn(o) PROVE IType'
<1>1. signing + 1 \in 0..MaxSignIns /\ signIns + 1 \in 0..MaxSignIns /\ signing + 1 <= signIns + 1
  BY ListAssumption DEF IType, TypeOK, SignIn
<1> QED  BY <1>1 DEF IType, TypeOK, SignIn

LEMMA SignOutType ==
  ASSUME IType, SignOut PROVE IType'
BY DEF IType, TypeOK, SignOut, bounds

\* AuthenticationComplete and Kill.
LEMMA FetchedType ==
  ASSUME TypeOK, NEW before \in Seq(Listener), NEW queued \in Seq(Snapshot),
         \A i \in 1..Len(queued) : queued[i].listener \in 1..Len(before),
         FetchConversations(before, queued)
  PROVE  /\ listeners' \in Seq(Listener) /\ DOMAIN listeners' = 1..Len(listeners')
         /\ Len(before) <= Len(listeners')
         /\ main' \in Seq(Snapshot)
         /\ \A i \in DOMAIN main' : main'[i].listener \in DOMAIN listeners'
<1>1. Len(before) \in Nat /\ Len(queued) \in Nat
  BY LenProperties
<1>2. CASE listeners' = before /\ main' = queued
  BY <1>1, <1>2, LenProperties
<1>3. CASE /\ listeners' \in Seq(Listener) /\ Len(listeners') = Len(before) + 1
           /\ main' \in Seq(Snapshot) /\ Len(main') = Len(queued) + 1
           /\ \A i \in 1..Len(queued) : main'[i] = queued[i]
           /\ main'[Len(queued) + 1].listener = Len(before) + 1
  <2>1. DOMAIN listeners' = 1..(Len(before) + 1) /\ DOMAIN main' = 1..(Len(queued) + 1)
    BY <1>3, LenProperties
  <2>2. \A i \in 1..(Len(queued) + 1) : i \in 1..Len(queued) \/ i = Len(queued) + 1
    BY <1>1
  <2>3. Len(before) + 1 \in 1..(Len(before) + 1) /\ \A l \in 1..Len(before) : l \in 1..(Len(before) + 1)
    BY <1>1
  <2>4. \A i \in DOMAIN main' : main'[i].listener \in 1..(Len(before) + 1)
    BY <1>3, <2>1, <2>2, <2>3
  <2> QED  BY <1>1, <1>3, <2>1, <2>4
<1> QED  BY <1>2, <1>3, FetchedConversations

LEMMA AuthenticationCompleteType ==
  ASSUME IType, AuthenticationComplete PROVE IType'
<1>1. TypeOK
  BY DEF IType
<1>2. /\ listeners' \in Seq(Listener) /\ DOMAIN listeners' = 1..Len(listeners')
      /\ Len(listeners) <= Len(listeners')
      /\ main' \in Seq(Snapshot)
      /\ \A i \in DOMAIN main' : main'[i].listener \in DOMAIN listeners'
  <2>1. listeners \in Seq(Listener) /\ main \in Seq(Snapshot)
    BY <1>1 DEF TypeOK
  <2>2. FetchConversations(listeners, main)
    BY DEF AuthenticationComplete
  <2> QED  BY <1>1, <2>1, <2>2, Domains, FetchedType
<1>3. \A u \in User : \A i \in DOMAIN fetching[u] : fetching[u][i].listener \in DOMAIN listeners'
  <2>1. Len(listeners') \in Nat /\ Len(listeners) \in Nat
    BY <1>1, <1>2, Domains, LenProperties
  <2>2. \A l \in 1..Len(listeners) : l \in DOMAIN listeners'
    BY <1>2, <2>1
  <2> QED  BY <1>1, <2>2, Domains
<1>4. signing - 1 \in 0..MaxSignIns /\ signing - 1 <= signIns
  BY ListAssumption DEF IType, TypeOK, AuthenticationComplete
<1> QED  BY <1>2, <1>3, <1>4 DEF IType, TypeOK, AuthenticationComplete, bounds

LEMMA KillType ==
  ASSUME IType, Kill PROVE IType'
<1>1. TypeOK
  BY DEF IType
<1>2. /\ listeners' \in Seq(Listener) /\ main' \in Seq(Snapshot)
      /\ \A i \in DOMAIN main' : main'[i].listener \in DOMAIN listeners'
  <2>1. << >> \in Seq(Listener) /\ << >> \in Seq(Snapshot) /\ Len(<< >>) = 0
    OBVIOUS
  <2>2. \A i \in 1..Len(<< >>) : << >>[i].listener \in 1..Len(<< >>)
    BY <2>1
  <2>3. FetchConversations(<< >>, << >>)
    BY DEF Kill
  <2> QED  BY <1>1, <2>1, <2>2, <2>3, FetchedType
<1>3. /\ fetching' = [u \in User |-> << >>] /\ signing' = 0 /\ rows' = Nothing /\ kills' \in 0..MaxKills
      /\ UNCHANGED <<recent, current, changes, signIns, failures>>
  BY ListAssumption DEF IType, TypeOK, Kill
<1>4. fetching' \in [User -> Seq(Fetch)] /\ \A u \in User : DOMAIN fetching'[u] = {}
  BY <1>3
<1>5. rows' \in [User -> Message \cup {NoMessage}]
  BY <1>3 DEF Nothing
<1>6. 0 \in 0..MaxSignIns /\ 0 <= signIns
  BY ListAssumption DEF IType, TypeOK
<1> QED  BY <1>2, <1>3, <1>4, <1>5, <1>6 DEF IType, TypeOK

\* Change and Remove.
LEMMA ToldType ==
  ASSUME TypeOK, NEW o \in Account, NEW m \in Message, Tell(o, m)
  PROVE  main' \in Seq(Snapshot) /\ \A i \in DOMAIN main' : main'[i].listener \in DOMAIN listeners
<1>1. /\ main' \in Seq(Snapshot) /\ Len(main) \in Nat /\ Len(main') \in Nat
      /\ \A i \in 1..Len(main) : main'[i] = main[i]
      /\ \A i \in (Len(main) + 1)..Len(main') : main'[i].listener \in Hearing(o)
  BY ToldSnapshots
<1>2. DOMAIN main' = 1..Len(main')
  BY <1>1, LenProperties
<1>3. \A i \in 1..Len(main') : i \in 1..Len(main) \/ i \in (Len(main) + 1)..Len(main')
  BY <1>1
<1>4. Hearing(o) \subseteq DOMAIN listeners
  BY DEF Hearing
<1>5. \A i \in 1..Len(main) : main[i].listener \in DOMAIN listeners
  BY Domains
<1> QED  BY <1>1, <1>2, <1>3, <1>4, <1>5

LEMMA ChangeType ==
  ASSUME IType, NEW o \in Account, NEW p \in User, Change(o, p) PROVE IType'
<1>1. TypeOK /\ changes' \in 0..MaxChanges /\ changes + 1 \in 1..MaxChanges
  BY ListAssumption DEF IType, TypeOK, Change
<1>2. PICK from \in {o, p} :
        LET m == [from |-> from, to |-> IF from = o THEN p ELSE o, n |-> changes + 1] IN
        /\ recent' = [recent EXCEPT ![o][p] = m]
        /\ Tell(o, m)
  BY DEF Change
<1>3. PICK m : m = [from |-> from, to |-> IF from = o THEN p ELSE o, n |-> changes + 1]
  OBVIOUS
<1>4. m \in Message
  BY <1>1, <1>3, ListAssumption DEF Message
<1>5. recent' = [recent EXCEPT ![o][p] = m] /\ Tell(o, m)
  BY <1>2, <1>3
<1>6. recent' \in [Account -> [User -> Message \cup {NoMessage}]]
  BY <1>1, <1>4, <1>5 DEF TypeOK
<1>7. main' \in Seq(Snapshot) /\ \A i \in DOMAIN main' : main'[i].listener \in DOMAIN listeners
  BY <1>1, <1>4, <1>5, ToldType
<1> QED  BY <1>1, <1>6, <1>7 DEF IType, TypeOK, Change

LEMMA RemoveType ==
  ASSUME IType, NEW o \in Account, NEW p \in User, Remove(o, p) PROVE IType'
<1>1. TypeOK /\ changes' \in 0..MaxChanges
  BY ListAssumption DEF IType, TypeOK, Remove
<1>2. /\ recent[o][p] \in Message
      /\ recent' = [recent EXCEPT ![o][p] = NoMessage] /\ Tell(o, recent[o][p])
  BY <1>1 DEF TypeOK, Remove
<1>3. recent' \in [Account -> [User -> Message \cup {NoMessage}]]
  BY <1>1, <1>2 DEF TypeOK
<1>4. main' \in Seq(Snapshot) /\ \A i \in DOMAIN main' : main'[i].listener \in DOMAIN listeners
  BY <1>1, <1>2, ToldType
<1> QED  BY <1>1, <1>3, <1>4 DEF IType, TypeOK, Remove

\* A step that changes nothing but what the listeners are.
LEMMA ListenersKept ==
  ASSUME TypeOK, listeners' \in [1..Len(listeners) -> Listener]
  PROVE  listeners' \in Seq(Listener) /\ DOMAIN listeners' = DOMAIN listeners
                                      /\ Len(listeners') = Len(listeners)
<1>1. Len(listeners) \in Nat /\ DOMAIN listeners = 1..Len(listeners)
  BY Domains
<1> QED  BY <1>1, IsASeq, LenProperties

LEMMA RejectListenType ==
  ASSUME IType, NEW o \in Account, RejectListen(o) PROVE IType'
<1>1. TypeOK /\ failures' \in 0..MaxFailures
  BY ListAssumption DEF IType, TypeOK, RejectListen
<1>2. listeners' = [l \in 1..Len(listeners) |->
                      IF l \in Hearing(o) THEN [listeners[l] EXCEPT !.live = FALSE] ELSE listeners[l]]
  BY <1>1, Domains DEF RejectListen
<1>3. \A l \in 1..Len(listeners) : listeners'[l] \in Listener
  BY <1>1, <1>2, Domains DEF Listener
<1>4. listeners' \in Seq(Listener) /\ DOMAIN listeners' = DOMAIN listeners
  BY <1>1, <1>2, <1>3, ListenersKept
<1> QED  BY <1>1, <1>4 DEF IType, TypeOK, RejectListen

\* The snapshot that is handled.
LEMMA NextSnapshot ==
  ASSUME TypeOK, HandleSnapshot
  PROVE  /\ main # << >> /\ Len(main) > 0 /\ main' = Tail(main)
         /\ main[1] = Head(main) /\ Head(main) \in Snapshot
         /\ Head(main).listener \in 1..Len(listeners)
         /\ Head(main).changed \in Seq(Message)
         /\ main' \in Seq(Snapshot) /\ Len(main') = Len(main) - 1
         /\ \A i \in 1..(Len(main) - 1) : main'[i] = main[i + 1]
<1>1. main # << >> /\ main' = Tail(main) /\ main \in Seq(Snapshot)
  BY DEF HandleSnapshot, TypeOK
<1>2. Len(main) \in Nat \ {0} /\ Head(main) = main[1]
  BY <1>1, EmptySeq
<1>3. main[1] \in Snapshot /\ main[1].listener \in 1..Len(listeners)
  BY <1>2, Domains
<1>4. main' \in Seq(Snapshot) /\ Len(main') = Len(main) - 1
      /\ \A i \in 1..(Len(main) - 1) : main'[i] = main[i + 1]
  BY <1>1, HeadTailProperties
<1> QED  BY <1>1, <1>2, <1>3, <1>4 DEF Snapshot

\* The changed messages that are for p, and those decoded for p, are the same.
DecodedAlike(changed, owner, p) ==
  \A i \in 1..Len(changed) :
    ChatPartner(changed[i], owner) = p \/ ChatPartner(changed[i], current) = p
    => ChatPartner(changed[i], owner) = p /\ ChatPartner(changed[i], current) = p

Understood(changed, owner, missing) ==
  \A p \in User : p \notin missing => DecodedAlike(changed, owner, p)

\* What the handler of a snapshot l asks for, and what it misses.
LEMMA Handled ==
  ASSUME TypeOK, HandleSnapshot, NEW l, l = Head(main).listener,
         NEW changed, changed = Head(main).changed
  PROVE  /\ \A u \in User : fetching'[u] = fetching[u] \o Asked(l, u, changed)
         /\ \E missing \in SUBSET User :
              /\ listeners' = [listeners EXCEPT ![l].missed = @ \cup missing]
              /\ Understood(changed, listeners[l].user, missing)
<1> DEFINE owner == listeners[l].user
           pair(i) == <<ChatPartner(changed[i], owner), ChatPartner(changed[i], current)>>
           partners == {pair(i) : i \in DOMAIN changed}
           missing == UNION {{q[1], q[2]} : q \in {r \in partners : r[1] # r[2]}}
<1>1. /\ Ask(l, changed)
      /\ listeners' = [listeners EXCEPT ![l].missed = @ \cup missing]
  BY DEF HandleSnapshot
<1>2. changed \in Seq(Message) /\ DOMAIN changed = 1..Len(changed) /\ Len(changed) \in Nat
  BY NextSnapshot, LenProperties
<1>3. ASSUME NEW i \in DOMAIN changed
      PROVE  ChatPartner(changed[i], owner) \in User /\ ChatPartner(changed[i], current) \in User
  <2>1. changed[i] \in Message
    BY <1>2, ElementOfSeq
  <2> QED  BY <2>1 DEF ChatPartner, Message
<1>4. missing \in SUBSET User
  <2> SUFFICES ASSUME NEW r \in partners, r[1] # r[2] PROVE r[1] \in User /\ r[2] \in User
    OBVIOUS
  <2>1. PICK i \in DOMAIN changed : r = pair(i)
    OBVIOUS
  <2> QED  BY <1>3, <2>1
<1>5. ASSUME NEW i \in DOMAIN changed,
             ChatPartner(changed[i], owner) # ChatPartner(changed[i], current)
      PROVE  ChatPartner(changed[i], owner) \in missing /\ ChatPartner(changed[i], current) \in missing
  <2>1. pair(i) \in partners /\ pair(i)[1] # pair(i)[2]
    BY <1>5
  <2>2. pair(i) \in {r \in partners : r[1] # r[2]}
    BY <2>1
  <2>3. {pair(i)[1], pair(i)[2]} \in {{q[1], q[2]} : q \in {r \in partners : r[1] # r[2]}}
    BY <2>2
  <2>4. pair(i)[1] \in missing /\ pair(i)[2] \in missing
    BY <2>3
  <2> QED  BY <2>4
<1> HIDE DEF missing
<1>6. ASSUME NEW i \in 1..Len(changed), NEW p \in User, p \notin missing,
             ChatPartner(changed[i], owner) = p \/ ChatPartner(changed[i], current) = p
      PROVE  ChatPartner(changed[i], owner) = p /\ ChatPartner(changed[i], current) = p
  BY <1>2, <1>5, <1>6
<1>7. Understood(changed, owner, missing)
  BY <1>6 DEF Understood, DecodedAlike
<1> QED  BY <1>1, <1>4, <1>7 DEF Ask

LEMMA HandleSnapshotType ==
  ASSUME IType, HandleSnapshot PROVE IType'
<1>1. TypeOK
  BY DEF IType
<1>2. PICK l : l = Head(main).listener
  OBVIOUS
<1>3. PICK changed : changed = Head(main).changed
  OBVIOUS
<1>4. /\ l \in 1..Len(listeners) /\ changed \in Seq(Message) /\ l \in Nat \ {0}
      /\ main' \in Seq(Snapshot) /\ Len(main') = Len(main) - 1
      /\ \A i \in 1..(Len(main) - 1) : main'[i] = main[i + 1]
  BY <1>1, <1>2, <1>3, NextSnapshot, Domains
<1>5. fetching' = [u \in User |-> fetching[u] \o Asked(l, u, changed)]
  BY <1>1, <1>2, <1>3 DEF HandleSnapshot, Ask
<1>6. PICK missing \in SUBSET User : listeners' = [listeners EXCEPT ![l].missed = @ \cup missing]
  BY <1>1, <1>2, <1>3, Handled
<1>7. listeners' \in Seq(Listener) /\ DOMAIN listeners' = DOMAIN listeners
  <2>1. listeners[l] \in Listener /\ listeners \in [1..Len(listeners) -> Listener]
    BY <1>1, <1>4, Domains DEF TypeOK
  <2>2. [listeners[l] EXCEPT !.missed = @ \cup missing] \in Listener
    BY <2>1 DEF Listener
  <2>3. listeners' \in [1..Len(listeners) -> Listener]
    BY <1>4, <1>6, <2>1, <2>2
  <2> QED  BY <1>1, <2>3, ListenersKept
<1>8. \A i \in DOMAIN main' : main'[i].listener \in DOMAIN listeners
  <2>1. Len(main) \in Nat /\ DOMAIN main' = 1..(Len(main) - 1)
    BY <1>1, <1>4, Domains, LenProperties
  <2>2. \A i \in 1..(Len(main) - 1) : i + 1 \in 1..Len(main)
    BY <2>1
  <2> QED  BY <1>1, <1>4, <2>1, <2>2, Domains
<1>9. ASSUME NEW u \in User
      PROVE  /\ fetching'[u] \in Seq(Fetch)
             /\ \A i \in DOMAIN fetching'[u] : fetching'[u][i].listener \in DOMAIN listeners
  <2>1. PICK asked : asked = Asked(l, u, changed)
    OBVIOUS
  <2>2. asked \in Seq(Fetch) /\ \A i \in 1..Len(asked) : asked[i].listener = l
    <3>1. asked \in Seq(Fetch) /\ AsksFor(asked, l, u, changed)
      BY <1>4, <2>1, AskedFetches
    <3> QED  BY <3>1 DEF AsksFor
  <2>3. fetching'[u] = fetching[u] \o asked /\ fetching[u] \in Seq(Fetch)
    BY <1>1, <1>5, <2>1 DEF TypeOK
  <2>4. Len(fetching[u]) \in Nat /\ Len(asked) \in Nat
    BY <2>2, <2>3, LenProperties
  <2>5. /\ fetching'[u] \in Seq(Fetch) /\ Len(fetching'[u]) = Len(fetching[u]) + Len(asked)
        /\ \A i \in 1..(Len(fetching[u]) + Len(asked)) : fetching'[u][i] =
             IF i <= Len(fetching[u]) THEN fetching[u][i] ELSE asked[i - Len(fetching[u])]
    BY <2>2, <2>3, ConcatProperties
  <2>6. DOMAIN fetching'[u] = 1..(Len(fetching[u]) + Len(asked))
    BY <2>5, LenProperties
  <2>7. ASSUME NEW i \in 1..(Len(fetching[u]) + Len(asked))
        PROVE  fetching'[u][i].listener \in DOMAIN listeners
    <3>1. i \in 1..Len(fetching[u]) \/ (i - Len(fetching[u]) \in 1..Len(asked) /\ ~ (i <= Len(fetching[u])))
      BY <2>4
    <3>2. CASE i \in 1..Len(fetching[u])
      <4>1. fetching'[u][i] = fetching[u][i]
        BY <2>4, <2>5, <3>2
      <4> QED  BY <1>1, <3>2, <4>1, Domains
    <3>3. CASE i - Len(fetching[u]) \in 1..Len(asked) /\ ~ (i <= Len(fetching[u]))
      BY <1>1, <1>4, <2>2, <2>5, <3>3, Domains
    <3> QED  BY <3>1, <3>2, <3>3
  <2> QED  BY <2>5, <2>6, <2>7
<1>10. fetching' \in [User -> Seq(Fetch)]
  BY <1>5, <1>9
<1> QED  BY <1>4, <1>7, <1>8, <1>9, <1>10 DEF IType, TypeOK, HandleSnapshot, bounds

\* The fetch that is answered, or that fails.
LEMMA NextFetch ==
  ASSUME TypeOK, NEW u \in User, fetching[u] # << >>, fetching' = [fetching EXCEPT ![u] = Tail(@)]
  PROVE  /\ Len(fetching[u]) > 0 /\ fetching[u][1] = Head(fetching[u])
         /\ Head(fetching[u]).listener \in 1..Len(listeners)
         /\ Head(fetching[u]).message \in Message
         /\ fetching' \in [User -> Seq(Fetch)]
         /\ Len(fetching'[u]) = Len(fetching[u]) - 1
         /\ \A i \in 1..(Len(fetching[u]) - 1) : fetching'[u][i] = fetching[u][i + 1]
         /\ \A p \in User : p # u => fetching'[p] = fetching[p]
         /\ \A p \in User : \A i \in DOMAIN fetching'[p] :
              fetching'[p][i].listener \in DOMAIN listeners
<1>1. fetching \in [User -> Seq(Fetch)] /\ fetching'[u] = Tail(fetching[u])
  BY DEF TypeOK
<1>2. PICK f : f = fetching[u] /\ f \in Seq(Fetch) /\ f # << >> /\ fetching'[u] = Tail(f)
  BY <1>1
<1>3. Len(f) \in Nat \ {0} /\ Head(f) = f[1] /\ f[1] \in Fetch
  BY <1>2, EmptySeq, ElementOfSeq
<1>4. /\ Tail(f) \in Seq(Fetch) /\ Len(Tail(f)) = Len(f) - 1
      /\ \A i \in 1..(Len(f) - 1) : Tail(f)[i] = f[i + 1]
  BY <1>2, HeadTailProperties
<1>5. fetching' \in [User -> Seq(Fetch)] /\ \A p \in User : p # u => fetching'[p] = fetching[p]
  BY <1>1, <1>2, <1>4
<1>6. f[1].listener \in 1..Len(listeners) /\ f[1].message \in Message
  BY <1>2, <1>3, Domains DEF Fetch
<1>7. ASSUME NEW p \in User, NEW i \in DOMAIN fetching'[p]
      PROVE  fetching'[p][i].listener \in DOMAIN listeners
  <2>1. CASE p # u
    BY <1>5, <2>1 DEF TypeOK
  <2>2. CASE p = u
    <3>1. i \in 1..(Len(f) - 1)
      BY <1>2, <1>4, <2>2, LenProperties
    <3>2. i + 1 \in 1..Len(f)
      BY <1>3, <3>1
    <3>3. fetching'[p] = Tail(f) /\ Tail(f)[i] = f[i + 1]
      BY <1>2, <1>4, <2>2, <3>1
    <3>4. f[i + 1].listener \in 1..Len(listeners) /\ DOMAIN listeners = 1..Len(listeners)
      BY <1>2, <3>2, Domains
    <3> QED  BY <3>3, <3>4
  <2> QED  BY <2>1, <2>2
<1> QED  BY <1>2, <1>3, <1>4, <1>5, <1>6, <1>7

\* What the listener has accumulated once a fetch is answered.
LEMMA Completed ==
  ASSUME TypeOK, NEW u \in User, NEW l \in 1..Len(listeners), NEW m \in Message, Complete(u, l, m)
  PROVE  /\ listeners' \in Seq(Listener) /\ DOMAIN listeners' = DOMAIN listeners
         /\ Len(listeners') = Len(listeners)
         /\ \A k \in 1..Len(listeners) : k # l => listeners'[k] = listeners[k]
         /\ listeners'[l].user = listeners[l].user
         /\ listeners'[l].live = listeners[l].live
         /\ listeners'[l].missed = listeners[l].missed
         /\ listeners'[l].latest[u] = m
         /\ \A p \in User : p # u => listeners'[l].latest[p] = listeners[l].latest[p]
         /\ rows' \in [User -> Message \cup {NoMessage}]
         /\ \A p \in User : rows'[p] = IF listeners'[l].latest[p] # NoMessage
                                       THEN listeners'[l].latest[p] ELSE rows[p]
<1> DEFINE latest == [listeners[l].latest EXCEPT ![u] = m]
<1>1. /\ listeners' = [listeners EXCEPT ![l].latest = latest]
      /\ rows' = [p \in User |-> IF latest[p] # NoMessage THEN latest[p] ELSE rows[p]]
  BY DEF Complete
<1>2. listeners[l] \in Listener /\ listeners \in [1..Len(listeners) -> Listener]
  BY Domains DEF TypeOK
<1>3. /\ latest \in [User -> Message \cup {NoMessage}] /\ latest[u] = m
      /\ \A p \in User : p # u => latest[p] = listeners[l].latest[p]
  BY <1>2 DEF Listener
<1> HIDE DEF latest
<1>4. [listeners[l] EXCEPT !.latest = latest] \in Listener
  BY <1>2, <1>3 DEF Listener
<1>5. /\ listeners' \in [1..Len(listeners) -> Listener]
      /\ listeners'[l] = [listeners[l] EXCEPT !.latest = latest]
      /\ \A k \in 1..Len(listeners) : k # l => listeners'[k] = listeners[k]
  BY <1>1, <1>2, <1>4
<1>6. /\ listeners'[l].user = listeners[l].user
      /\ listeners'[l].live = listeners[l].live
      /\ listeners'[l].missed = listeners[l].missed
      /\ listeners'[l].latest = latest
  BY <1>2, <1>5 DEF Listener
<1>7. rows' \in [User -> Message \cup {NoMessage}]
  BY <1>1, <1>3 DEF TypeOK
<1>8. \A p \in User : rows'[p] = IF latest[p] # NoMessage THEN latest[p] ELSE rows[p]
  BY <1>1
<1> QED  BY <1>3, <1>5, <1>6, <1>7, <1>8, ListenersKept

\* A partner is missed.
LEMMA Missed ==
  ASSUME TypeOK, NEW l \in 1..Len(listeners), NEW missing \in SUBSET User,
         listeners' = [listeners EXCEPT ![l].missed = @ \cup missing]
  PROVE  /\ listeners' \in Seq(Listener) /\ DOMAIN listeners' = DOMAIN listeners
         /\ Len(listeners') = Len(listeners)
         /\ \A k \in 1..Len(listeners) :
              /\ listeners'[k].user = listeners[k].user
              /\ listeners'[k].live = listeners[k].live
              /\ listeners'[k].latest = listeners[k].latest
              /\ listeners'[k].missed = IF k = l THEN listeners[k].missed \cup missing
                                        ELSE listeners[k].missed
<1>1. listeners[l] \in Listener /\ listeners \in [1..Len(listeners) -> Listener]
  BY Domains DEF TypeOK
<1>2. [listeners[l] EXCEPT !.missed = @ \cup missing] \in Listener
  BY <1>1 DEF Listener
<1>3. /\ listeners' \in [1..Len(listeners) -> Listener]
      /\ listeners'[l] = [listeners[l] EXCEPT !.missed = @ \cup missing]
      /\ \A k \in 1..Len(listeners) : k # l => listeners'[k] = listeners[k]
  BY <1>1, <1>2
<1>4. /\ listeners'[l].user = listeners[l].user
      /\ listeners'[l].live = listeners[l].live
      /\ listeners'[l].latest = listeners[l].latest
      /\ listeners'[l].missed = listeners[l].missed \cup missing
  BY <1>1, <1>3 DEF Listener
<1> QED  BY <1>3, <1>4, ListenersKept

LEMMA AnswerType ==
  ASSUME IType, NEW u \in User, Answer(u) PROVE IType'
<1>1. TypeOK
  BY DEF IType
<1>2. PICK f : f = Head(fetching[u])
  OBVIOUS
<1>3. /\ f.listener \in 1..Len(listeners) /\ f.message \in Message
      /\ fetching' \in [User -> Seq(Fetch)]
      /\ \A p \in User : \A i \in DOMAIN fetching'[p] : fetching'[p][i].listener \in DOMAIN listeners
  BY <1>1, <1>2, NextFetch DEF Answer
<1>4. Complete(u, f.listener, f.message)
  BY <1>2 DEF Answer
<1>5. /\ listeners' \in Seq(Listener) /\ DOMAIN listeners' = DOMAIN listeners
      /\ rows' \in [User -> Message \cup {NoMessage}]
  BY <1>1, <1>3, <1>4, Completed
<1> QED  BY <1>3, <1>5 DEF IType, TypeOK, Answer, bounds

LEMMA UnansweredType ==
  ASSUME IType, NEW u \in User, Unanswered(u) PROVE IType'
<1>1. TypeOK /\ failures' \in 0..MaxFailures
  <2>1. TypeOK /\ failures \in 0..MaxFailures /\ MaxFailures \in Nat
    BY ListAssumption DEF IType, TypeOK
  <2>2. failures' = failures \/ (failures < MaxFailures /\ failures' = failures + 1)
    BY DEF Unanswered
  <2> QED  BY <2>1, <2>2
<1>2. PICK l : l = Head(fetching[u]).listener
  OBVIOUS
<1>3. /\ l \in 1..Len(listeners)
      /\ fetching' \in [User -> Seq(Fetch)]
      /\ \A p \in User : \A i \in DOMAIN fetching'[p] : fetching'[p][i].listener \in DOMAIN listeners
  BY <1>1, <1>2, NextFetch DEF Unanswered
<1>4. listeners' = [listeners EXCEPT ![l].missed = @ \cup {u}]
  BY <1>2 DEF Unanswered
<1>5. listeners' \in Seq(Listener) /\ DOMAIN listeners' = DOMAIN listeners
  <2>1. PICK missing : missing = {u} /\ missing \in SUBSET User
    OBVIOUS
  <2>2. listeners' = [listeners EXCEPT ![l].missed = @ \cup missing]
    BY <1>4, <2>1
  <2> QED  BY <1>1, <1>3, <2>1, <2>2, Missed
<1> QED  BY <1>1, <1>3, <1>5 DEF IType, TypeOK, Unanswered

LEMMA NextType == IType /\ [Next]_vars => IType'
<1> SUFFICES ASSUME IType, [Next]_vars PROVE IType'
  OBVIOUS
<1>1. ASSUME NEW o \in Account, SignIn(o) PROVE IType'
  BY <1>1, SignInType
<1>2. ASSUME NEW o \in Account, RejectListen(o) PROVE IType'
  BY <1>2, RejectListenType
<1>3. ASSUME NEW o \in Account, NEW p \in User, Change(o, p) PROVE IType'
  BY <1>3, ChangeType
<1>4. ASSUME NEW o \in Account, NEW p \in User, Remove(o, p) PROVE IType'
  BY <1>4, RemoveType
<1>5. ASSUME NEW u \in User, Answer(u) PROVE IType'
  BY <1>5, AnswerType
<1>6. ASSUME NEW u \in User, Unanswered(u) PROVE IType'
  BY <1>6, UnansweredType
<1>7. CASE AuthenticationComplete \/ SignOut \/ Kill \/ HandleSnapshot
  BY <1>7, AuthenticationCompleteType, SignOutType, KillType, HandleSnapshotType
<1>8. CASE UNCHANGED vars
  BY <1>8 DEF IType, TypeOK, vars, bounds
<1> QED  BY <1>1, <1>2, <1>3, <1>4, <1>5, <1>6, <1>7, <1>8 DEF Next

\* The listeners of the list, its snapshots and its fetches stay what their types
\* say: every snapshot and every fetch belongs to a listener that exists, through
\* logins, kills and rejected queries (Service.fetchConversations).
THEOREM TypeCorrect == Spec => []TypeOK
<1>1. Init => IType
  BY InitType
<1>2. IType /\ [Next]_vars => IType'
  BY NextType
<1>3. IType => TypeOK
  BY DEF IType
<1> QED  BY <1>1, <1>2, <1>3, PTL DEF Spec

-----------------------------------------------------------------------------
(***************************************************************************)
(* The way of a change to its row.                                         *)
(*                                                                         *)
(* A change to the document of a partner waits in a snapshot of the main   *)
(* queue (stage 3), then as a fetch of the partner's profile (stage 2),    *)
(* and is the last conversation the listener has of that partner in the    *)
(* end (stage 1).  Both queues are FIFO, and all fetches for one partner   *)
(* are in one queue, so the changes a listener has not missed stay in the  *)
(* order of their numbers (InLine); and the document of a listener that    *)
(* is told of its changes is always the newest of them (Newest).           *)
(***************************************************************************)

\* A snapshot of changed messages for user o has m for partner p.
Carries(changed, o, p, m) ==
  /\ \E j \in 1..Len(changed) : changed[j] = m
  /\ ChatPartner(m, o) = p

\* Message m of partner p is at place i of stage s on its way to listener l.
Under(l, p, s, i, m) ==
  \/ s = 1 /\ i = 0 /\ m # NoMessage /\ listeners[l].latest[p] = m
  \/ /\ s = 2 /\ i \in 1..Len(fetching[p])
     /\ fetching[p][i].listener = l /\ fetching[p][i].message = m
  \/ /\ s = 3 /\ i \in 1..Len(main) /\ main[i].listener = l
     /\ Carries(main[i].changed, listeners[l].user, p, m)

Ahead(s, i, t, j) == s < t \/ (s = t /\ i < j)

Numbered(l, p) == \A s, i, m : Under(l, p, s, i, m) => m.n <= changes

\* What is nearer to the row is older, or the same.
InLine(l, p) ==
  \A s, i, m, t, j, k :
    Under(l, p, s, i, m) /\ Under(l, p, t, j, k) /\ Ahead(s, i, t, j) => m.n < k.n \/ m = k

Document(l, p) == recent[listeners[l].user][p]

Newest(l, p) ==
  listeners[l].live /\ Document(l, p) # NoMessage =>
    /\ \E s, i : Under(l, p, s, i, Document(l, p))
    /\ \A s, i, k : Under(l, p, s, i, k) => k = Document(l, p) \/ k.n < Document(l, p).n

Line(l, p) == Numbered(l, p) /\ InLine(l, p) /\ Newest(l, p)

\* Every row is in its line, unless a change was missed.
Lines == \A l \in 1..Len(listeners), p \in User : p \notin listeners[l].missed => Line(l, p)

\* A document is a message between its owner and its partner.
Between ==
  \A o \in Account, p \in User : recent[o][p] # NoMessage =>
    ChatPartner(recent[o][p], o) = p /\ recent[o][p].n <= changes

\* A snapshot has at most one message for each partner.
Apart(changed, o) ==
  \A j, k \in 1..Len(changed) :
    ChatPartner(changed[j], o) = ChatPartner(changed[k], o) => changed[j] = changed[k]

OnePer ==
  \A i \in 1..Len(main) : Apart(main[i].changed, listeners[main[i].listener].user)

\* The rows are what the listeners have accumulated.
RowsFrom ==
  \A p \in User :
    /\ rows[p] # NoMessage => \E l \in 1..Len(listeners) : rows[p] = listeners[l].latest[p]
    /\ \A l \in 1..Len(listeners) : listeners[l].latest[p] # NoMessage => rows[p] # NoMessage

LInv == IType /\ Between /\ OnePer /\ RowsFrom /\ Lines

-----------------------------------------------------------------------------
(* Steps that do not bring a new change to the row.                        *)

LEMMA UnderIsMessage ==
  ASSUME TypeOK, NEW l \in 1..Len(listeners), NEW p \in User, NEW s, NEW i, NEW m, Under(l, p, s, i, m)
  PROVE  m \in Message /\ m.n \in Int /\ s \in 1..3 /\ i \in Nat
<1>1. CASE s = 1 /\ i = 0 /\ m # NoMessage /\ listeners[l].latest[p] = m
  <2>1. listeners[l] \in Listener
    BY Domains
  <2> QED  BY <1>1, <2>1 DEF Listener, Message
<1>2. CASE s = 2 /\ i \in 1..Len(fetching[p]) /\ fetching[p][i].message = m
  <2>1. fetching[p][i] \in Fetch /\ Len(fetching[p]) \in Nat
    BY <1>2, Domains
  <2> QED  BY <1>2, <2>1 DEF Fetch, Message
<1>3. CASE s = 3 /\ i \in 1..Len(main) /\ Carries(main[i].changed, listeners[l].user, p, m)
  <2>1. main[i] \in Snapshot /\ Len(main) \in Nat
    BY <1>3, Domains
  <2>2. PICK j \in 1..Len(main[i].changed) : main[i].changed[j] = m
    BY <1>3 DEF Carries
  <2>3. m \in Message
    BY <2>1, <2>2, ElementOfSeq DEF Snapshot
  <2> QED  BY <1>3, <2>1, <2>3 DEF Message
<1> QED  BY <1>1, <1>2, <1>3 DEF Under

\* A step after which everything is at a place it had before, or further on.
LEMMA LineMoved ==
  ASSUME TypeOK, NEW l \in 1..Len(listeners), NEW p \in User, Line(l, p),
         changes \in Int, changes' \in Int, changes <= changes',
         listeners'[l].live =>
           listeners[l].live /\ listeners'[l].user = listeners[l].user
             /\ recent'[listeners[l].user][p] = recent[listeners[l].user][p],
         \A s, i, m : Under(l, p, s, i, m)' => \E t, j : Under(l, p, t, j, m),
         \A s, i, m, t, j, k :
           Under(l, p, s, i, m)' /\ Under(l, p, t, j, k)' /\ Ahead(s, i, t, j) =>
             \/ m.n < k.n
             \/ m = k
             \/ \E s2, i2, t2, j2 :
                  Under(l, p, s2, i2, m) /\ Under(l, p, t2, j2, k) /\ Ahead(s2, i2, t2, j2),
         \A r : (\E s, i : Under(l, p, s, i, r)) /\ listeners'[l].live
                /\ r = Document(l, p) /\ r # NoMessage
           => \E s, i : Under(l, p, s, i, r)'
  PROVE  Line(l, p)'
<1>1. Numbered(l, p)'
  <2> SUFFICES ASSUME NEW s, NEW i, NEW m, Under(l, p, s, i, m)' PROVE m.n <= changes'
    BY DEF Numbered
  <2>1. PICK t, j : Under(l, p, t, j, m)
    OBVIOUS
  <2>2. m.n \in Int /\ m.n <= changes
    BY <2>1, UnderIsMessage DEF Line, Numbered
  <2> QED  BY <2>2
<1>2. InLine(l, p)'
  BY DEF InLine, Line, Ahead
<1>3. Newest(l, p)'
  <2> SUFFICES ASSUME listeners'[l].live, Document(l, p)' # NoMessage
               PROVE  /\ \E s, i : Under(l, p, s, i, Document(l, p))'
                      /\ \A s, i, k : Under(l, p, s, i, k)' => k = Document(l, p)' \/ k.n < Document(l, p)'.n
    BY DEF Newest
  <2>1. Document(l, p)' = Document(l, p) /\ listeners[l].live
    BY DEF Document
  <2>2. PICK r : r = Document(l, p)
    OBVIOUS
  <2>3. /\ \E s, i : Under(l, p, s, i, r)
        /\ \A s, i, k : Under(l, p, s, i, k) => k = r \/ k.n < r.n
    BY <2>1, <2>2 DEF Line, Newest
  <2>4. \E s, i : Under(l, p, s, i, r)'
    BY <2>1, <2>2, <2>3
  <2> QED  BY <2>1, <2>2, <2>3, <2>4
<1> QED  BY <1>1, <1>2, <1>3 DEF Line

LEMMA LineKept ==
  ASSUME LInv, NEW l \in 1..Len(listeners), NEW p \in User, Line(l, p),
         changes' \in Int, changes <= changes',
         listeners'[l].live =>
           listeners[l].live /\ listeners'[l].user = listeners[l].user
             /\ recent'[listeners[l].user][p] = recent[listeners[l].user][p],
         \A s, i, m : Under(l, p, s, i, m)' <=> Under(l, p, s, i, m)
  PROVE  Line(l, p)'
<1>1. TypeOK /\ changes \in Int
  BY DEF LInv, IType, TypeOK
<1>2. \A s, i, m : Under(l, p, s, i, m)' => \E t, j : Under(l, p, t, j, m)
  OBVIOUS
<1>3. \A s, i, m, t, j, k :
        Under(l, p, s, i, m)' /\ Under(l, p, t, j, k)' /\ Ahead(s, i, t, j) =>
          \E s2, i2, t2, j2 :
            Under(l, p, s2, i2, m) /\ Under(l, p, t2, j2, k) /\ Ahead(s2, i2, t2, j2)
  OBVIOUS
<1>4. \A r : (\E s, i : Under(l, p, s, i, r)) => \E s, i : Under(l, p, s, i, r)'
  OBVIOUS
<1> HIDE DEF Under, Ahead
<1> QED  BY <1>1, <1>2, <1>3, <1>4, LineMoved

\* A step that leaves the rows, and what the listeners have accumulated.
LEMMA RowsKept ==
  ASSUME RowsFrom, rows' = rows, Len(listeners') = Len(listeners),
         \A l \in 1..Len(listeners) : listeners'[l].latest = listeners[l].latest
  PROVE  RowsFrom'
<1> SUFFICES ASSUME NEW p \in User
             PROVE  /\ rows[p] # NoMessage =>
                         \E l \in 1..Len(listeners) : rows[p] = listeners'[l].latest[p]
                    /\ \A l \in 1..Len(listeners) :
                         listeners'[l].latest[p] # NoMessage => rows[p] # NoMessage
  BY DEF RowsFrom
<1>1. \A l \in 1..Len(listeners) : listeners'[l].latest[p] = listeners[l].latest[p]
  OBVIOUS
<1> QED  BY <1>1 DEF RowsFrom

LEMMA RejectListenLines ==
  ASSUME LInv, NEW o \in Account, RejectListen(o) PROVE LInv'
<1>1. TypeOK /\ IType'
  BY RejectListenType DEF LInv, IType
<1>2. /\ UNCHANGED <<recent, main, fetching, rows, changes>>
      /\ listeners' = [l \in 1..Len(listeners) |->
                         IF l \in Hearing(o) THEN [listeners[l] EXCEPT !.live = FALSE]
                         ELSE listeners[l]]
  BY <1>1, Domains DEF RejectListen
<1>3. Len(listeners') = Len(listeners)
  <2>1. \A l \in 1..Len(listeners) : listeners'[l] \in Listener
    BY <1>1, <1>2, Domains DEF Listener
  <2> QED  BY <1>1, <1>2, <2>1, ListenersKept
<1>4. ASSUME NEW l \in 1..Len(listeners)
      PROVE  /\ listeners'[l].user = listeners[l].user
             /\ listeners'[l].latest = listeners[l].latest
             /\ listeners'[l].missed = listeners[l].missed
             /\ listeners'[l].live => listeners[l].live
  <2>1. listeners[l] \in Listener
    BY <1>1, Domains
  <2> QED  BY <1>2, <2>1 DEF Listener
<1>5. ASSUME NEW l \in 1..Len(listeners), NEW p \in User, p \notin listeners'[l].missed
      PROVE  Line(l, p)'
  <2>1. Line(l, p)
    BY <1>4, <1>5 DEF LInv, Lines
  <2>2. \A s, i, m : Under(l, p, s, i, m)' <=> Under(l, p, s, i, m)
    BY <1>2, <1>4 DEF Under
  <2>3. changes \in Int
    BY <1>1 DEF TypeOK
  <2> QED  BY <1>2, <1>4, <2>1, <2>2, <2>3, LineKept
<1>6. OnePer'
  <2>1. \A i \in 1..Len(main) : main[i].listener \in 1..Len(listeners)
    BY <1>1, Domains
  <2> QED  BY <1>2, <1>4, <2>1 DEF LInv, OnePer
<1>7. Between' /\ RowsFrom'
  BY <1>2, <1>3, <1>4, RowsKept DEF LInv, Between
<1> QED  BY <1>1, <1>3, <1>5, <1>6, <1>7 DEF LInv, Lines

-----------------------------------------------------------------------------
(* A new listener has every document in its first snapshot.                *)

LEMMA FreshLine ==
  ASSUME LInv, NEW l \in Nat, NEW p \in User, NEW K \in Nat, NEW changed,
         current \in Account, changed \in Orders(Documents(current)),
         recent' = recent, changes' = changes,
         listeners'[l] = NewListener(current),
         \A i \in 1..Len(fetching'[p]) : fetching'[p][i].listener # l,
         Len(main') = K + 1, main'[K + 1].listener = l, main'[K + 1].changed = changed,
         \A i \in 1..K : main'[i].listener # l
  PROVE  Line(l, p)'
<1>1. TypeOK
  BY DEF LInv, IType
<1>2. /\ Documents(current) \in SUBSET Message
      /\ changed \in Seq(Message)
      /\ \A i \in 1..Len(changed) : changed[i] \in Documents(current)
      /\ \A m \in Documents(current) : \E i \in 1..Len(changed) : changed[i] = m
  BY <1>1, DocumentsFinite, OrdersAreLists
<1>3. PICK r : r = recent[current][p]
  OBVIOUS
<1>4. /\ listeners'[l].user = current /\ listeners'[l].latest[p] = NoMessage
      /\ Document(l, p)' = r
  BY <1>3 DEF NewListener, Nothing, Document
<1>5. ASSUME NEW m \in Documents(current), ChatPartner(m, current) = p
      PROVE  m = r /\ m.n <= changes
  <2>1. PICK q \in User : m = recent[current][q] /\ m # NoMessage
    BY DEF Documents
  <2>2. ChatPartner(m, current) = q /\ m.n <= changes
    BY <2>1 DEF LInv, Between
  <2> QED  BY <1>3, <1>5, <2>1, <2>2
<1>6. ASSUME NEW s, NEW i, NEW m, Under(l, p, s, i, m)'
      PROVE  s = 3 /\ i = K + 1 /\ m = r /\ m.n <= changes
  <2>1. s # 1 /\ s # 2
    BY <1>4, <1>6 DEF Under
  <2>2. s = 3 /\ i \in 1..(K + 1) /\ main'[i].listener = l
    BY <1>6, <2>1 DEF Under
  <2>3. i = K + 1
    BY <2>2
  <2>4. Carries(changed, current, p, m)
    BY <1>4, <1>6, <2>1, <2>3 DEF Under
  <2>5. m \in Documents(current) /\ ChatPartner(m, current) = p
    BY <1>2, <2>4 DEF Carries
  <2> QED  BY <1>5, <2>2, <2>3, <2>5
<1>7. ASSUME r # NoMessage PROVE Under(l, p, 3, K + 1, r)'
  <2>1. r \in Documents(current)
    BY <1>3, <1>7 DEF Documents
  <2>2. ChatPartner(r, current) = p
    BY <1>3, <1>7 DEF LInv, Between
  <2>3. Carries(changed, current, p, r)
    BY <1>2, <2>1, <2>2 DEF Carries
  <2>4. K + 1 \in 1..Len(main')
    OBVIOUS
  <2> QED  BY <1>4, <2>3, <2>4 DEF Under
<1>8. Numbered(l, p)'
  BY <1>6 DEF Numbered
<1>9. InLine(l, p)'
  BY <1>6 DEF InLine
<1>10. Newest(l, p)'
  BY <1>4, <1>6, <1>7 DEF Newest
<1> QED  BY <1>8, <1>9, <1>10 DEF Line

\* Each message of a new listener's first snapshot is for another partner.
LEMMA FreshOnePer ==
  ASSUME TypeOK, Between, NEW o \in Account, NEW changed \in Orders(Documents(o))
  PROVE  Apart(changed, o)
<1> SUFFICES ASSUME NEW j \in 1..Len(changed), NEW k \in 1..Len(changed),
                    ChatPartner(changed[j], o) = ChatPartner(changed[k], o)
             PROVE  changed[j] = changed[k]
  BY DEF Apart
<1>1. changed[j] \in Documents(o) /\ changed[k] \in Documents(o)
  BY DocumentsFinite, OrdersAreLists
<1>2. PICK p \in User : changed[j] = recent[o][p] /\ recent[o][p] # NoMessage
  BY <1>1 DEF Documents
<1>3. PICK q \in User : changed[k] = recent[o][q] /\ recent[o][q] # NoMessage
  BY <1>1 DEF Documents
<1> QED  BY <1>2, <1>3 DEF Between

LEMMA AuthenticationCompleteLines ==
  ASSUME LInv, AuthenticationComplete PROVE LInv'
<1>1. TypeOK /\ IType'
  BY AuthenticationCompleteType DEF LInv, IType
<1>2. UNCHANGED <<recent, fetching, rows, changes>> /\ FetchConversations(listeners, main)
  BY DEF AuthenticationComplete, bounds
<1>3. listeners \in Seq(Listener) /\ main \in Seq(Snapshot) /\ changes \in Int
  BY <1>1 DEF TypeOK
<1>4. CASE listeners' = listeners /\ main' = main
  <2>1. ASSUME NEW l \in 1..Len(listeners), NEW p \in User, Line(l, p) PROVE Line(l, p)'
    BY <1>2, <1>4, <2>1 DEF Line, Numbered, InLine, Newest, Document, Under
  <2>2. OnePer' /\ Between' /\ RowsFrom'
    BY <1>2, <1>4 DEF LInv, OnePer, Between, RowsFrom
  <2> QED  BY <1>1, <1>4, <2>1, <2>2 DEF LInv, Lines
<1>5. CASE ~ (listeners' = listeners /\ main' = main)
  <2>1. PICK L \in Nat : L = Len(listeners)
    BY <1>1, Domains
  <2>2. PICK K \in Nat : K = Len(main)
    BY <1>1, Domains
  <2>3. /\ current \in Account /\ Len(listeners') = L + 1
        /\ \A l \in 1..L : listeners'[l] = listeners[l]
        /\ listeners'[L + 1] = NewListener(current)
        /\ Len(main') = K + 1 /\ \A i \in 1..K : main'[i] = main[i]
        /\ main'[K + 1].listener = L + 1
        /\ \E changed \in Orders(Documents(current)) : main'[K + 1].changed = changed
    BY <1>1, <1>2, <1>3, <1>5, <2>1, <2>2, FetchedConversations
  <2>4. PICK changed \in Orders(Documents(current)) : main'[K + 1].changed = changed
    BY <2>3
  <2>5. /\ \A i \in 1..K : main[i].listener \in 1..L
        /\ \A p \in User : \A i \in 1..Len(fetching[p]) : fetching[p][i].listener \in 1..L
    BY <1>1, <2>1, <2>2, Domains
  <2>6. \A l \in 1..L : l # L + 1
    BY <2>1
  <2>7. ASSUME NEW l \in 1..L, NEW p \in User, p \notin listeners'[l].missed PROVE Line(l, p)'
    <3>1. Line(l, p)
      BY <2>1, <2>3, <2>7 DEF LInv, Lines
    <3>2. \A i : i \in 1..Len(main') /\ main'[i].listener = l <=> i \in 1..K /\ main[i].listener = l
      <4>1. \A i \in 1..(K + 1) : i \in 1..K \/ i = K + 1
        BY <2>2
      <4>2. \A i \in 1..K : i \in 1..(K + 1)
        BY <2>2
      <4> QED  BY <2>3, <2>6, <4>1, <4>2
    <3>3. \A s, i, m : Under(l, p, s, i, m)' <=> Under(l, p, s, i, m)
      BY <1>2, <2>2, <2>3, <3>2 DEF Under
    <3> QED  BY <1>2, <1>3, <2>1, <2>3, <3>1, <3>3, LineKept
  <2>8. ASSUME NEW p \in User PROVE Line(L + 1, p)'
    <3>1. /\ \A i \in 1..Len(fetching'[p]) : fetching'[p][i].listener # L + 1
          /\ \A i \in 1..K : main'[i].listener # L + 1
      BY <1>2, <2>3, <2>5, <2>6
    <3>2. L + 1 \in Nat
      BY <2>1
    <3> QED  BY <1>2, <2>3, <2>4, <3>1, <3>2, FreshLine
  <2>9. Lines'
    <3> SUFFICES ASSUME NEW l \in 1..Len(listeners'), NEW p \in User, p \notin listeners'[l].missed
                 PROVE  Line(l, p)'
      BY DEF Lines
    <3>1. l \in 1..L \/ l = L + 1
      BY <2>1, <2>3
    <3> QED  BY <2>7, <2>8, <3>1
  <2>10. OnePer'
    <3> SUFFICES ASSUME NEW i \in 1..Len(main')
                 PROVE  Apart(main'[i].changed, listeners'[main'[i].listener].user)
      BY DEF OnePer, Apart
    <3>1. i \in 1..K \/ i = K + 1
      BY <2>2, <2>3
    <3>2. CASE i \in 1..K
      <4>1. Apart(main[i].changed, listeners[main[i].listener].user)
        BY <2>2, <3>2 DEF LInv, OnePer
      <4>2. main'[i] = main[i] /\ listeners'[main[i].listener] = listeners[main[i].listener]
        BY <2>3, <2>5, <3>2
      <4> QED  BY <4>1, <4>2
    <3>3. CASE i = K + 1
      <4>1. main'[i].changed = changed /\ listeners'[main'[i].listener].user = current
        BY <2>3, <2>4, <3>3 DEF NewListener
      <4>2. Apart(changed, current)
        BY <1>1, <2>3, FreshOnePer DEF LInv
      <4> QED  BY <4>1, <4>2
    <3> QED  BY <3>1, <3>2, <3>3
  <2>11. RowsFrom'
    <3>1. \A l \in 1..(L + 1) : l \in 1..L \/ (l = L + 1 /\ \A p \in User : listeners'[l].latest[p] = NoMessage)
      BY <2>1, <2>3 DEF NewListener, Nothing
    <3>2. \A l \in 1..L : l \in 1..(L + 1)
      BY <2>1
    <3> QED  BY <1>2, <2>1, <2>3, <3>1, <3>2 DEF LInv, RowsFrom
  <2>12. Between'
    BY <1>2 DEF LInv, Between
  <2> QED  BY <1>1, <2>9, <2>10, <2>11, <2>12 DEF LInv
<1> QED  BY <1>4, <1>5

LEMMA KillLines ==
  ASSUME LInv, Kill PROVE LInv'
<1>1. TypeOK /\ IType'
  BY KillType DEF LInv, IType
<1>2. /\ UNCHANGED <<recent, changes>> /\ rows' = Nothing
      /\ fetching' = [u \in User |-> << >>] /\ FetchConversations(<< >>, << >>)
  BY DEF Kill
<1>3. Between'
  BY <1>2 DEF LInv, Between
<1>4. \A p \in User : rows'[p] = NoMessage
  BY <1>2 DEF Nothing
<1>5. CASE listeners' = << >> /\ main' = << >>
  <2>1. 1..Len(listeners') = {} /\ 1..Len(main') = {}
    BY <1>5
  <2> QED  BY <1>1, <1>3, <1>4, <2>1 DEF LInv, Lines, OnePer, RowsFrom
<1>6. CASE ~ (listeners' = << >> /\ main' = << >>)
  <2>a. PICK b : b = << >>
    OBVIOUS
  <2>b. b \in Seq(Listener) /\ b \in Seq(Snapshot) /\ Len(b) = 0
    BY <2>a
  <2>1. 0 + 1 = 1 /\ FetchConversations(b, b) /\ ~ (listeners' = b /\ main' = b)
    BY <1>2, <1>6, <2>a
  <2>2. /\ current \in Account /\ Len(listeners') = 1
        /\ listeners'[1] = NewListener(current)
        /\ Len(main') = 1 /\ main'[1].listener = 1
        /\ \E changed \in Orders(Documents(current)) : main'[1].changed = changed
    <3>1. /\ current \in Account /\ Len(listeners') = Len(b) + 1
          /\ listeners'[Len(b) + 1] = NewListener(current)
          /\ Len(main') = Len(b) + 1 /\ main'[Len(b) + 1].listener = Len(b) + 1
          /\ \E changed \in Orders(Documents(current)) : main'[Len(b) + 1].changed = changed
      BY <1>1, <2>1, <2>b, FetchedConversations
    <3>2. Len(b) + 1 = 1
      BY <2>b
    <3> QED  BY <3>1, <3>2
  <2>3. PICK changed \in Orders(Documents(current)) : main'[1].changed = changed
    BY <2>2
  <2>4. \A i : i \in 1..1 => i = 1
    OBVIOUS
  <2>5. ASSUME NEW p \in User PROVE Line(1, p)'
    <3>1. \A i \in 1..Len(fetching'[p]) : fetching'[p][i].listener # 1
      BY <1>2
    <3>2. 1 \in Nat /\ 0 \in Nat /\ \A i \in 1..0 : main'[i].listener # 1
      OBVIOUS
    <3>3. /\ Len(main') = 0 + 1 /\ main'[0 + 1].listener = 1
          /\ main'[0 + 1].changed = changed
      BY <2>1, <2>2, <2>3
    <3> QED  BY <1>2, <2>2, <3>1, <3>2, <3>3, FreshLine
  <2>6. Lines'
    BY <2>2, <2>4, <2>5 DEF Lines
  <2>7. listeners'[main'[1].listener].user = current
    BY <2>2 DEF NewListener
  <2>8. OnePer'
    <3>1. Apart(changed, current)
      BY <1>1, <2>2, FreshOnePer DEF LInv
    <3>2. Apart(main'[1].changed, listeners'[main'[1].listener].user)
      BY <2>3, <2>7, <3>1
    <3> QED  BY <2>2, <2>4, <3>2 DEF OnePer, Apart
  <2>9. RowsFrom'
    BY <1>4, <2>2, <2>4 DEF RowsFrom, NewListener, Nothing
  <2> QED  BY <1>1, <1>3, <2>6, <2>8, <2>9 DEF LInv
<1> QED  BY <1>5, <1>6

-----------------------------------------------------------------------------
(* A change reaches every listener that hears of it, behind all before it. *)

LEMMA ToldLines ==
  ASSUME LInv, NEW o \in Account, NEW q \in User, NEW x \in Message, NEW y,
         Tell(o, x), ChatPartner(x, o) = q, y \in {x, NoMessage},
         recent' = [recent EXCEPT ![o][q] = y],
         changes' \in Int, changes <= changes', x.n <= changes',
         UNCHANGED <<listeners, fetching>>,
         \A l \in Hearing(o) : \A s, i, k :
           q \notin listeners[l].missed /\ Under(l, q, s, i, k) => k = x \/ k.n < x.n
  PROVE  Lines' /\ OnePer'
<1>1. TypeOK /\ changes \in Int
  BY DEF LInv, IType, TypeOK
<1>2. PICK K \in Nat : K = Len(main)
  BY <1>1, Domains
<1>3. PICK N \in Nat : N = Len(main') /\ K <= N
  BY <1>1, <1>2, ToldSnapshots
<1>4. /\ \A i \in 1..K : main'[i] = main[i]
      /\ \A i \in (K + 1)..N : main'[i].listener \in Hearing(o) /\ main'[i].changed = <<x>>
      /\ \A l \in Hearing(o) : \E i \in (K + 1)..N : main'[i].listener = l
  BY <1>1, <1>2, <1>3, ToldSnapshots
<1>5. \A i \in 1..N : i \in 1..K \/ (i \in (K + 1)..N /\ \A j \in 1..K : j < i)
  BY <1>2, <1>3
<1>6. (\A i \in 1..K : i \in 1..N) /\ \A i \in (K + 1)..N : i \in 1..N
  BY <1>2, <1>3
<1>7. \A l, p, m : Carries(<<x>>, l, p, m) <=> m = x /\ ChatPartner(x, l) = p
  BY DEF Carries
<1>8. ASSUME NEW l \in 1..Len(listeners), NEW p \in User, Line(l, p),
             ~ (l \in Hearing(o) /\ p = q)
      PROVE  Line(l, p)'
  <2>1. l \in Hearing(o) => listeners[l].user = o
    BY DEF Hearing
  <2>2. ASSUME NEW i \in (K + 1)..N, main'[i].listener = l
        PROVE  \A m : ~ Carries(main'[i].changed, listeners[l].user, p, m)
    BY <1>4, <1>7, <1>8, <2>1, <2>2
  <2>3. ASSUME NEW s, NEW i, NEW m PROVE Under(l, p, s, i, m)' <=> Under(l, p, s, i, m)
    <3>1. CASE s # 3
      BY <3>1 DEF Under
    <3>2. CASE s = 3
      BY <1>2, <1>3, <1>4, <1>5, <1>6, <2>2, <3>2 DEF Under
    <3> QED  BY <3>1, <3>2
  <2>4. listeners[l].live => recent'[listeners[l].user][p] = recent[listeners[l].user][p]
    <3> SUFFICES ASSUME listeners[l].live PROVE recent'[listeners[l].user][p] = recent[listeners[l].user][p]
      OBVIOUS
    <3>1. listeners[l] \in Listener /\ DOMAIN listeners = 1..Len(listeners)
      BY <1>1, Domains
    <3>2. listeners[l].user \in Account /\ (listeners[l].user = o => l \in Hearing(o))
      BY <3>1 DEF Listener, Hearing
    <3> QED  BY <1>1, <1>8, <3>2 DEF TypeOK
  <2> QED  BY <1>1, <1>8, <2>3, <2>4, LineKept
<1>9. ASSUME NEW l \in 1..Len(listeners), Line(l, q), l \in Hearing(o), q \notin listeners[l].missed
      PROVE  Line(l, q)'
  <2>1. listeners[l].user = o /\ Document(l, q)' = y
    <3>1. listeners[l].user = o
      BY <1>9 DEF Hearing
    <3>2. recent'[o][q] = y
      BY <1>1 DEF TypeOK
    <3> QED  BY <3>1, <3>2 DEF Document
  <2>2. ASSUME NEW s, NEW i, NEW m
        PROVE  Under(l, q, s, i, m)' <=>
                 \/ Under(l, q, s, i, m) /\ (s = 3 => i \in 1..K)
                 \/ s = 3 /\ i \in (K + 1)..N /\ main'[i].listener = l /\ m = x
    <3>1. CASE s # 3
      BY <3>1 DEF Under
    <3>2. CASE s = 3 /\ i \in 1..K
      <4>1. ~ (i \in (K + 1)..N) /\ main'[i] = main[i] /\ i \in 1..N
        BY <1>2, <1>3, <1>4, <3>2
      <4> QED  BY <1>2, <1>3, <3>2, <4>1 DEF Under
    <3>3. CASE s = 3 /\ i \in (K + 1)..N
      <4>1. ~ (i \in 1..K) /\ i \in 1..N /\ main'[i].changed = <<x>>
        BY <1>2, <1>3, <1>4, <3>3
      <4>2. Carries(main'[i].changed, o, q, m) <=> m = x
        BY <1>7, <4>1
      <4> QED  BY <1>2, <1>3, <2>1, <3>3, <4>1, <4>2 DEF Under
    <3>4. CASE s = 3 /\ ~ (i \in 1..N)
      BY <1>2, <1>3, <1>6, <3>4 DEF Under
    <3> QED  BY <1>5, <3>1, <3>2, <3>3, <3>4
  <2>3. ASSUME NEW s, NEW i, NEW k, Under(l, q, s, i, k)
        PROVE  (k = x \/ k.n < x.n) /\ k.n \in Int /\ k.n <= changes /\ s \in 1..3
    BY <1>1, <1>9, <2>3, UnderIsMessage DEF Line, Numbered
  <2>4. Numbered(l, q)'
    <3>1. \A s, i, k : Under(l, q, s, i, k) => k.n <= changes'
      <4> TAKE s, i, k
      <4> QED  BY <1>1, <2>3
    <3> QED  BY <2>2, <3>1 DEF Numbered
  <2>5. InLine(l, q)'
    <3> SUFFICES ASSUME NEW s, NEW i, NEW m, NEW t, NEW j, NEW k,
                        Under(l, q, s, i, m)', Under(l, q, t, j, k)', Ahead(s, i, t, j)
                 PROVE  m.n < k.n \/ m = k
      BY DEF InLine, Ahead
    <3>1. CASE Under(l, q, s, i, m) /\ Under(l, q, t, j, k)
      BY <1>9, <3>1 DEF Line, InLine
    <3>2. CASE Under(l, q, s, i, m) /\ ~ Under(l, q, t, j, k)
      BY <2>2, <2>3, <3>2
    <3>3. CASE ~ Under(l, q, s, i, m)
      <4>1. s = 3 /\ i \in (K + 1)..N /\ m = x
        BY <2>2, <3>3
      <4>2. t = 3
        BY <2>2, <2>3, <4>1 DEF Ahead
      <4>3. ~ (j \in 1..K)
        BY <1>2, <1>3, <4>1, <4>2 DEF Ahead
      <4> QED  BY <2>2, <4>1, <4>2, <4>3
    <3> QED  BY <3>1, <3>2, <3>3
  <2>6. Newest(l, q)'
    <3> SUFFICES ASSUME y # NoMessage
                 PROVE  /\ \E s, i : Under(l, q, s, i, y)'
                        /\ \A s, i, k : Under(l, q, s, i, k)' => k = y \/ k.n < y.n
      BY <2>1 DEF Newest
    <3>1. y = x
      OBVIOUS
    <3>2. PICK i \in (K + 1)..N : main'[i].listener = l
      BY <1>4, <1>9
    <3>3. Under(l, q, 3, i, y)'
      BY <2>2, <3>1, <3>2
    <3>4. \A s, j, k : Under(l, q, s, j, k)' => k = y \/ k.n < y.n
      BY <2>2, <2>3, <3>1
    <3> QED  BY <3>3, <3>4
  <2> QED  BY <2>4, <2>5, <2>6 DEF Line
<1>10. Lines'
  <2> SUFFICES ASSUME NEW l \in 1..Len(listeners), NEW p \in User, p \notin listeners[l].missed
               PROVE  Line(l, p)'
    BY DEF Lines
  <2>1. Line(l, p)
    BY DEF LInv, Lines
  <2> QED  BY <1>8, <1>9, <2>1
<1>11. OnePer'
  <2> SUFFICES ASSUME NEW i \in 1..N
               PROVE  Apart(main'[i].changed, listeners[main'[i].listener].user)
    BY <1>3 DEF OnePer, Apart
  <2>1. CASE i \in 1..K
    BY <1>2, <1>4, <2>1 DEF LInv, OnePer
  <2>2. CASE i \in (K + 1)..N
    <3>1. Apart(<<x>>, listeners[main'[i].listener].user)
      BY DEF Apart
    <3> QED  BY <1>4, <2>2, <3>1
  <2> QED  BY <1>5, <2>1, <2>2
<1> QED  BY <1>10, <1>11

LEMMA ChangeLines ==
  ASSUME LInv, NEW o \in Account, NEW p \in User, Change(o, p) PROVE LInv'
<1>1. TypeOK /\ IType' /\ changes \in Int /\ changes' = changes + 1 /\ o # p /\ changes < MaxChanges
  <2>1. TypeOK /\ IType'
    BY ChangeType DEF LInv, IType
  <2>2. changes \in Int /\ changes' = changes + 1 /\ o # p /\ changes < MaxChanges
    BY <2>1, ListAssumption DEF TypeOK, Change
  <2> QED  BY <2>1, <2>2
<1>2. PICK from \in {o, p} :
        LET m == [from |-> from, to |-> IF from = o THEN p ELSE o, n |-> changes + 1] IN
        /\ recent' = [recent EXCEPT ![o][p] = m]
        /\ Tell(o, m)
  BY DEF Change
<1>3. PICK m : m = [from |-> from, to |-> IF from = o THEN p ELSE o, n |-> changes + 1]
  OBVIOUS
<1>4. m \in Message /\ ChatPartner(m, o) = p /\ m.n = changes'
  <2>1. changes + 1 \in 1..MaxChanges
    BY <1>1, ListAssumption DEF LInv, IType, TypeOK
  <2> QED  BY <1>1, <1>3, <2>1, ListAssumption DEF Message, ChatPartner
<1>5. recent' = [recent EXCEPT ![o][p] = m] /\ Tell(o, m)
  BY <1>2, <1>3
<1>6. UNCHANGED <<listeners, fetching, rows>> /\ changes' \in Int /\ changes <= changes' /\ m.n <= changes'
  BY <1>1, <1>4 DEF Change
<1>7. ASSUME NEW l \in Hearing(o), NEW s, NEW i, NEW k, p \notin listeners[l].missed, Under(l, p, s, i, k)
      PROVE  k.n < m.n
  <2>1. l \in 1..Len(listeners)
    BY <1>1, Domains DEF Hearing
  <2>2. k.n \in Int /\ k.n <= changes
    BY <1>1, <1>7, <2>1, UnderIsMessage DEF LInv, Lines, Line, Numbered
  <2> QED  BY <1>1, <1>4, <2>2
<1>8. Lines' /\ OnePer'
  BY <1>4, <1>5, <1>6, <1>7, ToldLines
<1>9. Between'
  <2> SUFFICES ASSUME NEW a \in Account, NEW q \in User, recent'[a][q] # NoMessage
               PROVE  ChatPartner(recent'[a][q], a) = q /\ recent'[a][q].n <= changes'
    BY DEF Between
  <2>1. CASE a = o /\ q = p
    <3>1. recent'[a][q] = m
      BY <1>1, <1>5, <2>1 DEF TypeOK
    <3> QED  BY <1>4, <1>6, <2>1, <3>1
  <2>2. CASE ~ (a = o /\ q = p)
    <3>1. recent'[a][q] = recent[a][q]
      BY <1>1, <1>5, <2>2 DEF TypeOK
    <3>2. recent[a][q] \in Message /\ recent[a][q].n \in Int
      BY <1>1, <3>1 DEF TypeOK, Message
    <3>3. ChatPartner(recent[a][q], a) = q /\ recent[a][q].n <= changes
      BY <3>1 DEF LInv, Between
    <3> QED  BY <1>1, <3>1, <3>2, <3>3
  <2> QED  BY <2>1, <2>2
<1>10. RowsFrom'
  BY <1>6 DEF LInv, RowsFrom
<1> QED  BY <1>1, <1>8, <1>9, <1>10 DEF LInv

LEMMA RemoveLines ==
  ASSUME LInv, NEW o \in Account, NEW p \in User, Remove(o, p) PROVE LInv'
<1>1. TypeOK /\ IType' /\ changes \in Int /\ changes' = changes + 1
  <2>1. TypeOK /\ IType'
    BY RemoveType DEF LInv, IType
  <2>2. changes \in Int /\ changes' = changes + 1
    BY <2>1, ListAssumption DEF TypeOK, Remove
  <2> QED  BY <2>1, <2>2
<1>2. PICK m : m = recent[o][p]
  OBVIOUS
<1>3. m \in Message /\ m # NoMessage /\ m.n \in Int
  BY <1>1, <1>2 DEF TypeOK, Remove, Message
<1>4. ChatPartner(m, o) = p /\ m.n <= changes
  BY <1>2, <1>3 DEF LInv, Between
<1>5. recent' = [recent EXCEPT ![o][p] = NoMessage] /\ Tell(o, m)
  BY <1>2 DEF Remove
<1>6. UNCHANGED <<listeners, fetching, rows>> /\ changes' \in Int /\ changes <= changes' /\ m.n <= changes'
  BY <1>1, <1>3, <1>4 DEF Remove
<1>7. ASSUME NEW l \in Hearing(o), NEW s, NEW i, NEW k, p \notin listeners[l].missed, Under(l, p, s, i, k)
      PROVE  k = m \/ k.n < m.n
  <2>1. l \in 1..Len(listeners) /\ listeners[l].user = o /\ listeners[l].live
    BY <1>1, Domains DEF Hearing
  <2>2. Newest(l, p) /\ Document(l, p) = m
    BY <1>2, <1>7, <2>1 DEF LInv, Lines, Line, Document
  <2> QED  BY <1>3, <1>7, <2>1, <2>2 DEF Newest
<1>8. Lines' /\ OnePer'
  <2>1. NoMessage \in {m, NoMessage}
    OBVIOUS
  <2> QED  BY <1>3, <1>4, <1>5, <1>6, <1>7, <2>1, ToldLines
<1>9. Between'
  <2> SUFFICES ASSUME NEW a \in Account, NEW q \in User, recent'[a][q] # NoMessage
               PROVE  ChatPartner(recent'[a][q], a) = q /\ recent'[a][q].n <= changes'
    BY DEF Between
  <2>1. recent'[a][q] = recent[a][q]
    BY <1>1, <1>5 DEF TypeOK
  <2>2. recent[a][q] \in Message /\ recent[a][q].n \in Int
    BY <1>1, <2>1 DEF TypeOK, Message
  <2>3. ChatPartner(recent[a][q], a) = q /\ recent[a][q].n <= changes
    BY <2>1 DEF LInv, Between
  <2> QED  BY <1>1, <2>1, <2>2, <2>3
<1>10. RowsFrom'
  BY <1>6 DEF LInv, RowsFrom
<1> QED  BY <1>1, <1>8, <1>9, <1>10 DEF LInv

-----------------------------------------------------------------------------
(* Changes move on: a snapshot is handled, a fetch is answered or fails.   *)

\* What listener l hears, for a partner p of whom it misses nothing, stays in line
\* when a snapshot is handled: its message for p, if it has one, is asked for last.
LEMMA HandledLine ==
  ASSUME LInv, HandleSnapshot, NEW l \in 1..Len(listeners), NEW p \in User,
         p \notin listeners[l].missed, p \notin listeners'[l].missed,
         listeners'[l].user = listeners[l].user, listeners'[l].live = listeners[l].live,
         listeners'[l].latest = listeners[l].latest,
         NEW h \in 1..Len(listeners), h = Head(main).listener,
         NEW changed \in Seq(Message), changed = Head(main).changed,
         l = h => DecodedAlike(changed, listeners[l].user, p)
  PROVE  Line(l, p)'
<1>1. TypeOK /\ changes \in Int /\ Line(l, p)
  BY DEF LInv, IType, TypeOK, Lines
<1>2. UNCHANGED <<recent, changes>>
  BY DEF HandleSnapshot, bounds
<1>3. PICK K \in Nat : K = Len(main)
  BY <1>1, Domains
<1>4. PICK F \in Nat : F = Len(fetching[p])
  BY <1>1, Domains
<1>5. /\ K > 0 /\ main[1].listener = h /\ main[1].changed = changed
      /\ Len(main') = K - 1 /\ \A i \in 1..(K - 1) : main'[i] = main[i + 1]
  BY <1>1, <1>3, NextSnapshot
<1>6. PICK asked : asked = Asked(h, p, changed)
  OBVIOUS
<1>7. h \in Nat \ {0}
  BY <1>1, Domains
<1>8. asked \in Seq(Fetch)
  BY <1>6, <1>7, AskedFetches
<1>9. PICK A \in Nat : A = Len(asked)
  BY <1>8, LenProperties
<1>10. /\ \A i \in 1..A : /\ asked[i].listener = h
                          /\ \E j \in 1..Len(changed) : /\ asked[i].message = changed[j]
                                                        /\ ChatPartner(changed[j], current) = p
       /\ \A j \in 1..Len(changed) : ChatPartner(changed[j], current) = p =>
            \E i \in 1..A : asked[i].message = changed[j]
  <2>1. AsksFor(asked, h, p, changed)
    BY <1>6, <1>7, AskedFetches
  <2> QED  BY <1>9, <2>1 DEF AsksFor
<1>11. fetching'[p] = fetching[p] \o asked
  BY <1>6 DEF HandleSnapshot, Ask
<1>12. /\ Len(fetching'[p]) = F + A
       /\ \A i \in 1..(F + A) : fetching'[p][i] = IF i <= F THEN fetching[p][i] ELSE asked[i - F]
  BY <1>1, <1>4, <1>8, <1>9, <1>11, ConcatProperties DEF TypeOK
<1>13. \A i \in 1..(F + A) : i \in 1..F \/ (i - F \in 1..A /\ i > F /\ ~ (i <= F))
  OBVIOUS
\* Everything is where it was, or one place further in the main queue, or it was
\* in the snapshot.
<1>14. ASSUME NEW s, NEW i, NEW m, Under(l, p, s, i, m)'
       PROVE  \/ s = 1 /\ i = 0 /\ Under(l, p, 1, 0, m)
              \/ s = 2 /\ i \in 1..F /\ Under(l, p, 2, i, m)
              \/ s = 2 /\ i \in Nat /\ i > F /\ Under(l, p, 3, 1, m)
              \/ s = 3 /\ i \in 1..(K - 1) /\ Under(l, p, 3, i + 1, m)
  <2>1. CASE s = 1
    BY <1>14, <2>1 DEF Under
  <2>2. CASE s = 2
    <3>1. i \in 1..(F + A) /\ fetching'[p][i].listener = l /\ fetching'[p][i].message = m
      BY <1>12, <1>14, <2>2 DEF Under
    <3>2. CASE i \in 1..F
      <4>1. fetching'[p][i] = fetching[p][i]
        BY <1>12, <3>1, <3>2
      <4> QED  BY <1>4, <2>2, <3>1, <3>2, <4>1 DEF Under
    <3>3. CASE i - F \in 1..A /\ i > F /\ ~ (i <= F)
      <4>1. fetching'[p][i] = asked[i - F]
        BY <1>12, <3>1, <3>3
      <4>2. l = h /\ \E j \in 1..Len(changed) : m = changed[j] /\ ChatPartner(changed[j], current) = p
        <5>1. /\ asked[i - F].listener = l /\ asked[i - F].message = m
              /\ i - F \in 1..A
          BY <3>1, <3>3, <4>1
        <5> QED  BY <1>10, <5>1
      <4>3. Carries(changed, listeners[l].user, p, m)
        BY <4>2 DEF Carries, DecodedAlike
      <4>4. Under(l, p, 3, 1, m)
        BY <1>3, <1>5, <4>2, <4>3 DEF Under
      <4> QED  BY <2>2, <3>1, <3>3, <4>4
    <3> QED  BY <1>13, <3>1, <3>2, <3>3
  <2>3. CASE s = 3
    <3>1. /\ i \in 1..(K - 1) /\ main'[i].listener = l
          /\ Carries(main'[i].changed, listeners[l].user, p, m)
      BY <1>5, <1>14, <2>3 DEF Under
    <3>2. main'[i] = main[i + 1] /\ i + 1 \in 1..K
      BY <1>5, <3>1
    <3>3. Under(l, p, 3, i + 1, m)
      BY <1>3, <3>1, <3>2 DEF Under
    <3> QED  BY <2>3, <3>1, <3>3
  <2> QED  BY <1>14, <2>1, <2>2, <2>3 DEF Under
\* And nothing is lost.
<1>15. ASSUME NEW s, NEW i, NEW m, Under(l, p, s, i, m) PROVE \E t, j : Under(l, p, t, j, m)'
  <2>1. CASE s = 1
    <3>1. Under(l, p, 1, i, m)'
      BY <1>15, <2>1 DEF Under
    <3> QED  BY <3>1
  <2>2. CASE s = 2
    <3>1. i \in 1..F /\ i \in 1..(F + A) /\ i <= F
      BY <1>4, <1>15, <2>2 DEF Under
    <3>2. Under(l, p, 2, i, m)'
      BY <1>12, <1>15, <2>2, <3>1 DEF Under
    <3> QED  BY <3>2
  <2>3. CASE s = 3 /\ i # 1
    <3>1. i \in 1..K /\ main[i].listener = l /\ Carries(main[i].changed, listeners[l].user, p, m)
      BY <1>3, <1>15, <2>3 DEF Under
    <3>2. PICK j \in 1..(K - 1) : j + 1 = i
      <4>1. i - 1 \in 1..(K - 1) /\ (i - 1) + 1 = i
        BY <2>3, <3>1
      <4> QED  BY <4>1
    <3>3. Under(l, p, 3, j, m)'
      BY <1>5, <3>1, <3>2 DEF Under
    <3> QED  BY <3>3
  <2>4. CASE s = 3 /\ i = 1
    <3>1. l = h /\ Carries(changed, listeners[l].user, p, m)
      BY <1>5, <1>15, <2>4 DEF Under
    <3>2. PICK j \in 1..Len(changed) : changed[j] = m /\ ChatPartner(changed[j], current) = p
      BY <3>1 DEF Carries, DecodedAlike
    <3>3. PICK a \in 1..A : asked[a].message = m
      BY <1>10, <3>2
    <3>4. /\ F + a \in 1..(F + A) /\ ~ (F + a <= F) /\ (F + a) - F = a
      OBVIOUS
    <3>5. fetching'[p][F + a] = asked[a]
      BY <1>12, <3>4
    <3>6. /\ F + a \in 1..Len(fetching'[p])
          /\ fetching'[p][F + a].listener = l /\ fetching'[p][F + a].message = m
      BY <1>10, <1>12, <3>1, <3>3, <3>4, <3>5
    <3>7. Under(l, p, 2, F + a, m)'
      BY <3>6 DEF Under
    <3> QED  BY <3>7
  <2> QED  BY <1>15, <2>1, <2>2, <2>3, <2>4 DEF Under
\* Two messages for p of the snapshot are one.
<1>16. ASSUME NEW m, NEW k, Under(l, p, 3, 1, m), Under(l, p, 3, 1, k) PROVE m = k
  <2>1. /\ Carries(changed, listeners[l].user, p, m) /\ Carries(changed, listeners[l].user, p, k)
        /\ h = l
    BY <1>5, <1>16 DEF Under
  <2>2. Apart(changed, listeners[l].user)
    <3>1. 1 \in 1..Len(main)
      BY <1>3, <1>5
    <3> QED  BY <1>5, <2>1, <3>1 DEF LInv, OnePer
  <2> QED  BY <2>1, <2>2 DEF Apart, Carries
<1>17. ASSUME NEW s, NEW i, NEW m, NEW t, NEW j, NEW k,
              Under(l, p, s, i, m)', Under(l, p, t, j, k)', Ahead(s, i, t, j)
       PROVE  \/ m.n < k.n
              \/ m = k
              \/ \E s2, i2, t2, j2 :
                   Under(l, p, s2, i2, m) /\ Under(l, p, t2, j2, k) /\ Ahead(s2, i2, t2, j2)
  <2>1. /\ \/ s = 1 /\ i = 0 /\ Under(l, p, 1, 0, m)
           \/ s = 2 /\ i \in 1..F /\ Under(l, p, 2, i, m)
           \/ s = 2 /\ i \in Nat /\ i > F /\ Under(l, p, 3, 1, m)
           \/ s = 3 /\ i \in 1..(K - 1) /\ Under(l, p, 3, i + 1, m)
        /\ \/ t = 1 /\ j = 0 /\ Under(l, p, 1, 0, k)
           \/ t = 2 /\ j \in 1..F /\ Under(l, p, 2, j, k)
           \/ t = 2 /\ j \in Nat /\ j > F /\ Under(l, p, 3, 1, k)
           \/ t = 3 /\ j \in 1..(K - 1) /\ Under(l, p, 3, j + 1, k)
    BY <1>14, <1>17
  <2>2. CASE s = 1 /\ i = 0 /\ Under(l, p, 1, 0, m)
    <3>1. Ahead(1, 0, 2, j) /\ Ahead(1, 0, 3, 1) /\ Ahead(1, 0, 3, j + 1)
      BY DEF Ahead
    <3> QED  BY <1>17, <2>1, <2>2, <3>1 DEF Ahead
  <2>3. CASE s = 2 /\ i \in 1..F /\ Under(l, p, 2, i, m)
    <3>1. Ahead(2, i, 3, 1) /\ Ahead(2, i, 3, j + 1) /\ (t = 2 => i < j)
      BY <1>17, <2>3 DEF Ahead
    <3> QED  BY <1>17, <2>1, <2>3, <3>1 DEF Ahead
  <2>4. CASE s = 2 /\ i \in Nat /\ i > F /\ Under(l, p, 3, 1, m)
    <3>1. t # 1 /\ (t = 2 => i < j)
      BY <1>17, <2>1, <2>4 DEF Ahead
    <3>2. CASE t = 2
      <4>1. Under(l, p, 3, 1, k)
        BY <2>1, <2>4, <3>1, <3>2
      <4> QED  BY <1>16, <2>4, <4>1
    <3>3. CASE t = 3
      <4>1. j \in 1..(K - 1) /\ Under(l, p, 3, j + 1, k)
        BY <2>1, <3>3
      <4>2. Ahead(3, 1, 3, j + 1)
        BY <4>1 DEF Ahead
      <4> QED  BY <2>4, <4>1, <4>2
    <3> QED  BY <2>1, <3>1, <3>2, <3>3
  <2>5. CASE s = 3 /\ i \in 1..(K - 1) /\ Under(l, p, 3, i + 1, m)
    <3>1. t = 3 /\ i < j
      BY <1>17, <2>1, <2>5 DEF Ahead
    <3>2. j \in 1..(K - 1) /\ Under(l, p, 3, j + 1, k)
      BY <2>1, <3>1
    <3>3. Ahead(3, i + 1, 3, j + 1)
      BY <2>5, <3>1, <3>2 DEF Ahead
    <3> QED  BY <2>5, <3>2, <3>3
  <2> QED  BY <2>1, <2>2, <2>3, <2>4, <2>5
<1>18. \A s, i, m : Under(l, p, s, i, m)' => \E t, j : Under(l, p, t, j, m)
  BY <1>14
<1>19. \A r : (\E s, i : Under(l, p, s, i, r)) /\ listeners'[l].live /\ r = Document(l, p) /\ r # NoMessage
         => \E s, i : Under(l, p, s, i, r)'
  BY <1>15
<1>20. /\ l \in 1..Len(listeners) /\ p \in User /\ Line(l, p) /\ changes' = changes
       /\ listeners'[l].user = listeners[l].user /\ listeners'[l].live = listeners[l].live
       /\ recent' = recent
  BY <1>1, <1>2
<1>21. TypeOK /\ changes \in Int /\ changes' \in Int /\ changes <= changes'
  BY <1>1, <1>20
<1>22. \A s, i, m, t, j, k :
         Under(l, p, s, i, m)' /\ Under(l, p, t, j, k)' /\ Ahead(s, i, t, j) =>
           \/ m.n < k.n
           \/ m = k
           \/ \E s2, i2, t2, j2 :
                Under(l, p, s2, i2, m) /\ Under(l, p, t2, j2, k) /\ Ahead(s2, i2, t2, j2)
  BY <1>17
<1> HIDE DEF Under, Ahead
<1> QED  BY ONLY <1>18, <1>19, <1>20, <1>21, <1>22, LineMoved

LEMMA HandleSnapshotLines ==
  ASSUME LInv, HandleSnapshot PROVE LInv'
<1>1. TypeOK /\ IType'
  BY HandleSnapshotType DEF LInv, IType
<1>2. PICK h : h = Head(main).listener
  OBVIOUS
<1>3. PICK changed : changed = Head(main).changed
  OBVIOUS
<1>4. /\ h \in 1..Len(listeners) /\ changed \in Seq(Message)
      /\ Len(main') = Len(main) - 1
      /\ \A i \in 1..(Len(main) - 1) : main'[i] = main[i + 1]
  BY <1>1, <1>2, <1>3, NextSnapshot
<1>5. PICK missing \in SUBSET User :
        /\ listeners' = [listeners EXCEPT ![h].missed = @ \cup missing]
        /\ Understood(changed, listeners[h].user, missing)
  <2>1. HandleSnapshot
    OBVIOUS
  <2> QED  BY ONLY <1>1, <1>2, <1>3, <2>1, Handled
<1>6. /\ Len(listeners') = Len(listeners)
      /\ \A k \in 1..Len(listeners) :
           /\ listeners'[k].user = listeners[k].user
           /\ listeners'[k].live = listeners[k].live
           /\ listeners'[k].latest = listeners[k].latest
           /\ listeners'[k].missed = IF k = h THEN listeners[k].missed \cup missing
                                     ELSE listeners[k].missed
  BY <1>1, <1>4, <1>5, Missed
<1>7. ASSUME NEW l \in 1..Len(listeners), NEW p \in User, p \notin listeners'[l].missed
      PROVE  Line(l, p)'
  <2>1. p \notin listeners[l].missed /\ (l = h => p \notin missing)
    BY <1>6, <1>7
  <2>2. l = h => DecodedAlike(changed, listeners[l].user, p)
    BY <1>5, <2>1 DEF Understood
  <2>3. /\ listeners'[l].user = listeners[l].user
        /\ listeners'[l].live = listeners[l].live
        /\ listeners'[l].latest = listeners[l].latest
    BY <1>6
  <2>4. LInv /\ HandleSnapshot /\ l \in 1..Len(listeners) /\ p \in User
    OBVIOUS
  <2> QED  BY ONLY <1>2, <1>3, <1>4, <1>7, <2>1, <2>2, <2>3, <2>4, HandledLine
<1>8. OnePer'
  <2> SUFFICES ASSUME NEW i \in 1..Len(main')
               PROVE  Apart(main'[i].changed, listeners'[main'[i].listener].user)
    BY DEF OnePer, Apart
  <2>1. Len(main) \in Nat
    BY <1>1, Domains
  <2>2. i \in 1..(Len(main) - 1) /\ i + 1 \in 1..Len(main)
    BY <1>4, <2>1
  <2>3. main'[i] = main[i + 1] /\ main[i + 1].listener \in 1..Len(listeners)
    BY <1>1, <1>4, <2>2, Domains
  <2>4. Apart(main[i + 1].changed, listeners[main[i + 1].listener].user)
    BY <2>2 DEF LInv, OnePer
  <2> QED  BY <1>6, <2>3, <2>4
<1>9. UNCHANGED <<recent, changes, rows>>
  BY DEF HandleSnapshot, bounds
<1>10. Between' /\ RowsFrom'
  BY <1>6, <1>9, RowsKept DEF LInv, Between
<1> QED  BY <1>1, <1>6, <1>7, <1>8, <1>10 DEF LInv, Lines

\* A listener hears the oldest fetch for u, or it fails, or it was another's.
LEMMA AnsweredLine ==
  ASSUME LInv, NEW l \in 1..Len(listeners), NEW p \in User, Line(l, p),
         NEW u \in User, fetching[u] # << >>, fetching' = [fetching EXCEPT ![u] = Tail(@)],
         NEW h, h = Head(fetching[u]).listener, NEW x, x = Head(fetching[u]).message,
         UNCHANGED <<recent, main, changes>>,
         listeners'[l].user = listeners[l].user, listeners'[l].live = listeners[l].live,
         listeners'[l].latest[p] = IF l = h /\ p = u THEN x ELSE listeners[l].latest[p]
  PROVE  Line(l, p)'
<1>1. TypeOK /\ changes \in Int
  BY DEF LInv, IType, TypeOK
<1>2. PICK F \in Nat : F = Len(fetching[u])
  BY <1>1, Domains
<1>3. /\ F > 0 /\ fetching[u][1].listener = h /\ fetching[u][1].message = x
      /\ x \in Message /\ x # NoMessage
      /\ Len(fetching'[u]) = F - 1
      /\ \A i \in 1..(F - 1) : fetching'[u][i] = fetching[u][i + 1]
      /\ \A q \in User : q # u => fetching'[q] = fetching[q]
  BY <1>1, <1>2, NextFetch, NoMessageAssumption
<1>4. CASE p # u
  <2>1. \A s, i, m : Under(l, p, s, i, m)' <=> Under(l, p, s, i, m)
    BY <1>3, <1>4 DEF Under
  <2> QED  BY <1>1, <2>1, LineKept
<1>5. CASE p = u
  <2>1. ASSUME NEW s, NEW i, NEW m, Under(l, p, s, i, m)'
        PROVE  \/ s = 1 /\ i = 0 /\ l = h /\ m = x /\ Under(l, p, 2, 1, m)
               \/ s = 1 /\ i = 0 /\ l # h /\ Under(l, p, 1, 0, m)
               \/ s = 2 /\ i \in 1..(F - 1) /\ Under(l, p, 2, i + 1, m)
               \/ s = 3 /\ i \in Nat /\ Under(l, p, 3, i, m)
    <3>1. CASE s = 1
      <4>1. CASE l = h
        BY <1>2, <1>3, <1>5, <2>1, <3>1, <4>1 DEF Under
      <4>2. CASE l # h
        BY <1>5, <2>1, <3>1, <4>2 DEF Under
      <4> QED  BY <4>1, <4>2
    <3>2. CASE s = 2
      <4>1. i \in 1..(F - 1) /\ fetching'[u][i].listener = l /\ fetching'[u][i].message = m
        BY <1>3, <1>5, <2>1, <3>2 DEF Under
      <4>2. fetching'[u][i] = fetching[u][i + 1] /\ i + 1 \in 1..F
        BY <1>3, <4>1
      <4>3. Under(l, p, 2, i + 1, m)
        BY <1>2, <1>5, <4>1, <4>2 DEF Under
      <4> QED  BY <3>2, <4>1, <4>3
    <3>3. CASE s = 3
      <4>1. Under(l, p, 3, i, m)
        BY <2>1, <3>3 DEF Under
      <4> QED  BY <1>1, <3>3, <4>1, UnderIsMessage
    <3> QED  BY <2>1, <3>1, <3>2, <3>3 DEF Under
  <2>2. ASSUME NEW s, NEW i, NEW m, NEW t, NEW j, NEW k,
               Under(l, p, s, i, m)', Under(l, p, t, j, k)', Ahead(s, i, t, j)
        PROVE  \E s2, i2, t2, j2 :
                 Under(l, p, s2, i2, m) /\ Under(l, p, t2, j2, k) /\ Ahead(s2, i2, t2, j2)
    <3>1. /\ \/ s = 1 /\ i = 0 /\ l = h /\ m = x /\ Under(l, p, 2, 1, m)
             \/ s = 1 /\ i = 0 /\ l # h /\ Under(l, p, 1, 0, m)
             \/ s = 2 /\ i \in 1..(F - 1) /\ Under(l, p, 2, i + 1, m)
             \/ s = 3 /\ i \in Nat /\ Under(l, p, 3, i, m)
          /\ \/ t = 1 /\ j = 0 /\ l = h /\ k = x /\ Under(l, p, 2, 1, k)
             \/ t = 1 /\ j = 0 /\ l # h /\ Under(l, p, 1, 0, k)
             \/ t = 2 /\ j \in 1..(F - 1) /\ Under(l, p, 2, j + 1, k)
             \/ t = 3 /\ j \in Nat /\ Under(l, p, 3, j, k)
      BY <2>1, <2>2
    <3>2. CASE s = 1 /\ i = 0 /\ l = h /\ m = x /\ Under(l, p, 2, 1, m)
      <4>1. t # 1
        BY <2>2, <3>1, <3>2 DEF Ahead
      <4>2. Ahead(2, 1, 3, j) /\ (j \in 1..(F - 1) => Ahead(2, 1, 2, j + 1))
        BY DEF Ahead
      <4> QED  BY <3>1, <3>2, <4>1, <4>2
    <3>3. CASE s = 1 /\ i = 0 /\ l # h /\ Under(l, p, 1, 0, m)
      <4>1. t # 1
        BY <2>2, <3>1, <3>3 DEF Ahead
      <4>2. Ahead(1, 0, 3, j) /\ Ahead(1, 0, 2, j + 1)
        BY DEF Ahead
      <4> QED  BY <3>1, <3>3, <4>1, <4>2
    <3>4. CASE s = 2 /\ i \in 1..(F - 1) /\ Under(l, p, 2, i + 1, m)
      <4>1. t # 1 /\ (t = 2 => i < j)
        BY <2>2, <3>1, <3>4 DEF Ahead
      <4>2. Ahead(2, i + 1, 3, j) /\ (t = 2 /\ j \in 1..(F - 1) => Ahead(2, i + 1, 2, j + 1))
        BY <3>4, <4>1 DEF Ahead
      <4> QED  BY <3>1, <3>4, <4>1, <4>2
    <3>5. CASE s = 3 /\ i \in Nat /\ Under(l, p, 3, i, m)
      <4>1. t = 3
        BY <2>2, <3>1, <3>5 DEF Ahead
      <4> QED  BY <2>2, <3>1, <3>5, <4>1
    <3> QED  BY <3>1, <3>2, <3>3, <3>4, <3>5
  \* If the document was the last conversation, what takes its place is it again.
  <2>3. ASSUME NEW r, NEW s, NEW i, Under(l, p, s, i, r),
               listeners[l].live, r = Document(l, p), r # NoMessage
        PROVE  \E t, j : Under(l, p, t, j, r)'
    <3>1. CASE s = 1 /\ l # h
      <4>1. Under(l, p, 1, i, r)'
        BY <1>5, <2>3, <3>1 DEF Under
      <4> QED  BY <4>1
    <3>2. CASE s = 1 /\ l = h
      <4>1. Under(l, p, 2, 1, x)
        BY <1>2, <1>3, <1>5, <3>2 DEF Under
      <4>2. Ahead(s, i, 2, 1)
        BY <3>2 DEF Ahead
      <4>3. r.n < x.n \/ r = x
        BY <2>3, <4>1, <4>2 DEF Line, InLine
      <4>4. x = r \/ x.n < r.n
        BY <2>3, <4>1 DEF Line, Newest
      <4>5. x.n \in Int /\ r.n \in Int
        BY <1>1, <2>3, <4>1, UnderIsMessage
      <4>6. x = r
        BY <4>3, <4>4, <4>5
      <4>7. Under(l, p, 1, 0, x)'
        BY <1>3, <1>5, <3>2 DEF Under
      <4> QED  BY <4>6, <4>7
    <3>3. CASE s = 2 /\ i = 1
      <4>1. l = h /\ r = x
        BY <1>3, <1>5, <2>3, <3>3 DEF Under
      <4>2. Under(l, p, 1, 0, x)'
        BY <1>3, <1>5, <4>1 DEF Under
      <4> QED  BY <4>1, <4>2
    <3>4. CASE s = 2 /\ i # 1
      <4>1. i \in 1..F /\ fetching[u][i].listener = l /\ fetching[u][i].message = r
        BY <1>2, <1>5, <2>3, <3>4 DEF Under
      <4>2. PICK j \in 1..(F - 1) : j + 1 = i
        <5>1. i - 1 \in 1..(F - 1) /\ (i - 1) + 1 = i
          BY <3>4, <4>1
        <5> QED  BY <5>1
      <4>3. Under(l, p, 2, j, r)'
        BY <1>3, <1>5, <4>1, <4>2 DEF Under
      <4> QED  BY <4>3
    <3>5. CASE s = 3
      <4>1. Under(l, p, 3, i, r)'
        BY <2>3, <3>5 DEF Under
      <4> QED  BY <4>1
    <3> QED  BY <1>1, <2>3, <3>1, <3>2, <3>3, <3>4, <3>5 DEF Under
  <2>4. \A s, i, m : Under(l, p, s, i, m)' => \E t, j : Under(l, p, t, j, m)
    BY <2>1
  <2>5. \A r : (\E s, i : Under(l, p, s, i, r)) /\ listeners'[l].live /\ r = Document(l, p) /\ r # NoMessage
          => \E s, i : Under(l, p, s, i, r)'
    BY <2>3
  <2>6. /\ l \in 1..Len(listeners) /\ p \in User /\ Line(l, p) /\ changes' = changes
        /\ listeners'[l].user = listeners[l].user /\ listeners'[l].live = listeners[l].live
        /\ recent' = recent
    OBVIOUS
  <2>7. changes' \in Int /\ changes <= changes'
    BY <1>1, <2>6
  <2> HIDE DEF Under, Ahead
  <2> QED  BY ONLY <1>1, <2>2, <2>4, <2>5, <2>6, <2>7, LineMoved
<1> QED  BY <1>4, <1>5

LEMMA AnswerLines ==
  ASSUME LInv, NEW u \in User, Answer(u) PROVE LInv'
<1>1. TypeOK /\ IType'
  BY AnswerType DEF LInv, IType
<1>2. PICK h : h = Head(fetching[u]).listener
  OBVIOUS
<1>3. PICK x : x = Head(fetching[u]).message
  OBVIOUS
<1>4. /\ fetching[u] # << >> /\ fetching' = [fetching EXCEPT ![u] = Tail(@)]
      /\ Complete(u, h, x) /\ UNCHANGED <<recent, main, changes>>
  BY <1>2, <1>3 DEF Answer, bounds
<1>5. h \in 1..Len(listeners) /\ x \in Message /\ x # NoMessage
  BY <1>1, <1>2, <1>3, <1>4, NextFetch, NoMessageAssumption
<1>6. /\ Len(listeners') = Len(listeners)
      /\ \A k \in 1..Len(listeners) : k # h => listeners'[k] = listeners[k]
      /\ listeners'[h].user = listeners[h].user
      /\ listeners'[h].live = listeners[h].live
      /\ listeners'[h].missed = listeners[h].missed
      /\ listeners'[h].latest[u] = x
      /\ \A p \in User : p # u => listeners'[h].latest[p] = listeners[h].latest[p]
      /\ \A p \in User : rows'[p] = IF listeners'[h].latest[p] # NoMessage
                                    THEN listeners'[h].latest[p] ELSE rows[p]
  BY <1>1, <1>4, <1>5, Completed
<1>7. \A k \in 1..Len(listeners) :
        /\ listeners'[k].user = listeners[k].user
        /\ listeners'[k].live = listeners[k].live
        /\ listeners'[k].missed = listeners[k].missed
        /\ \A p \in User : listeners'[k].latest[p] =
             IF k = h /\ p = u THEN x ELSE listeners[k].latest[p]
  BY <1>6
<1>8. ASSUME NEW l \in 1..Len(listeners), NEW p \in User, p \notin listeners'[l].missed
      PROVE  Line(l, p)'
  <2>1. Line(l, p)
    BY <1>7, <1>8 DEF LInv, Lines
  <2>2. /\ LInv /\ l \in 1..Len(listeners) /\ p \in User /\ u \in User
        /\ listeners'[l].user = listeners[l].user /\ listeners'[l].live = listeners[l].live
        /\ listeners'[l].latest[p] = IF l = h /\ p = u THEN x ELSE listeners[l].latest[p]
    BY ONLY <1>7, LInv, l \in 1..Len(listeners), p \in User, u \in User
  <2> QED  BY ONLY <1>2, <1>3, <1>4, <2>1, <2>2, AnsweredLine
<1>9. OnePer'
  <2> SUFFICES ASSUME NEW i \in 1..Len(main)
               PROVE  Apart(main[i].changed, listeners'[main[i].listener].user)
    BY <1>4 DEF OnePer, Apart
  <2>1. main[i].listener \in 1..Len(listeners)
    BY <1>1, Domains
  <2>2. Apart(main[i].changed, listeners[main[i].listener].user)
    BY DEF LInv, OnePer
  <2> QED  BY <1>7, <2>1, <2>2
<1>10. RowsFrom'
  <2> SUFFICES ASSUME NEW p \in User
               PROVE  /\ rows'[p] # NoMessage =>
                           \E l \in 1..Len(listeners) : rows'[p] = listeners'[l].latest[p]
                      /\ \A l \in 1..Len(listeners) :
                           listeners'[l].latest[p] # NoMessage => rows'[p] # NoMessage
    BY <1>6 DEF RowsFrom
  <2>1. CASE listeners'[h].latest[p] # NoMessage
    BY <1>5, <1>6, <2>1
  <2>2. CASE listeners'[h].latest[p] = NoMessage
    <3>1. p # u /\ rows'[p] = rows[p]
      BY <1>5, <1>6, <2>2
    <3>2. \A l \in 1..Len(listeners) : listeners'[l].latest[p] = listeners[l].latest[p]
      BY <1>7, <3>1
    <3> QED  BY <3>1, <3>2 DEF LInv, RowsFrom
  <2> QED  BY <2>1, <2>2
<1>11. Between'
  BY <1>4 DEF LInv, Between
<1> QED  BY <1>1, <1>6, <1>8, <1>9, <1>10, <1>11 DEF LInv, Lines

LEMMA UnansweredLines ==
  ASSUME LInv, NEW u \in User, Unanswered(u) PROVE LInv'
<1>1. TypeOK /\ IType'
  BY UnansweredType DEF LInv, IType
<1>2. PICK h : h = Head(fetching[u]).listener
  OBVIOUS
<1>3. PICK x : x = Head(fetching[u]).message
  OBVIOUS
<1>4. PICK missing : missing = {u} /\ missing \in SUBSET User
  OBVIOUS
<1>5. /\ fetching[u] # << >> /\ fetching' = [fetching EXCEPT ![u] = Tail(@)]
      /\ listeners' = [listeners EXCEPT ![h].missed = @ \cup missing]
      /\ UNCHANGED <<recent, main, changes>> /\ rows' = rows
  BY <1>2, <1>4 DEF Unanswered
<1>6. h \in 1..Len(listeners)
  BY <1>1, <1>2, <1>5, NextFetch
<1>7. /\ Len(listeners') = Len(listeners)
      /\ \A k \in 1..Len(listeners) :
           /\ listeners'[k].user = listeners[k].user
           /\ listeners'[k].live = listeners[k].live
           /\ listeners'[k].latest = listeners[k].latest
           /\ listeners'[k].missed = IF k = h THEN listeners[k].missed \cup missing
                                     ELSE listeners[k].missed
  BY <1>1, <1>4, <1>5, <1>6, Missed
<1>8. ASSUME NEW l \in 1..Len(listeners), NEW p \in User, p \notin listeners'[l].missed
      PROVE  Line(l, p)'
  <2>1. p \notin listeners[l].missed /\ ~ (l = h /\ p = u)
    BY <1>4, <1>7, <1>8
  <2>2. Line(l, p)
    BY <2>1 DEF LInv, Lines
  <2>3. /\ LInv /\ l \in 1..Len(listeners) /\ p \in User /\ u \in User
        /\ listeners'[l].user = listeners[l].user /\ listeners'[l].live = listeners[l].live
        /\ listeners'[l].latest[p] = IF l = h /\ p = u THEN x ELSE listeners[l].latest[p]
    BY <1>7, <2>1
  <2>4. /\ fetching[u] # << >> /\ fetching' = [fetching EXCEPT ![u] = Tail(@)]
        /\ UNCHANGED <<recent, main, changes>>
    BY <1>5
  <2> QED  BY ONLY <1>2, <1>3, <2>2, <2>3, <2>4, AnsweredLine
<1>9. OnePer'
  <2> SUFFICES ASSUME NEW i \in 1..Len(main)
               PROVE  Apart(main[i].changed, listeners'[main[i].listener].user)
    BY <1>5 DEF OnePer, Apart
  <2>1. main[i].listener \in 1..Len(listeners)
    BY <1>1, Domains
  <2>2. Apart(main[i].changed, listeners[main[i].listener].user)
    BY DEF LInv, OnePer
  <2> QED  BY <1>7, <2>1, <2>2
<1>10. RowsFrom' /\ Between'
  BY <1>5, <1>7, RowsKept DEF LInv, Between
<1> QED  BY <1>1, <1>7, <1>8, <1>9, <1>10 DEF LInv, Lines

LEMMA InitLines == Init => LInv
<1> SUFFICES ASSUME Init PROVE LInv
  OBVIOUS
<1>1. IType
  BY InitType
<1>2. /\ \A o \in Account, p \in User : recent[o][p] = NoMessage
      /\ \A p \in User : rows[p] = NoMessage
      /\ main = << >> /\ fetching = [u \in User |-> << >>]
  BY DEF Init, Nothing
<1>3. \A l \in 1..Len(listeners) :
        \A p \in User : listeners[l].latest[p] = NoMessage
  BY DEF Init, NewListener, Nothing
<1>4. \A l \in 1..Len(listeners) : listeners[l].user \in Account
  BY DEF Init, NewListener
<1>5. ASSUME NEW l \in 1..Len(listeners), NEW p \in User PROVE Line(l, p)
  <2>1. \A s, i, m : ~ Under(l, p, s, i, m)
    BY <1>2, <1>3 DEF Under
  <2>2. Document(l, p) = NoMessage
    BY <1>2, <1>4 DEF Document
  <2> QED  BY <2>1, <2>2 DEF Line, Numbered, InLine, Newest
<1>6. Between /\ OnePer /\ RowsFrom
  BY <1>2, <1>3 DEF Between, OnePer, RowsFrom
<1> QED  BY <1>1, <1>5, <1>6 DEF LInv, Lines

\* A step that leaves the documents, the listeners and the queues as they are.
LEMMA IdleLines ==
  ASSUME LInv, IType', UNCHANGED <<recent, listeners, main, fetching, rows, changes>>
  PROVE  LInv'
<1>1. ASSUME NEW l, NEW p, Line(l, p) PROVE Line(l, p)'
  BY <1>1 DEF Line, Numbered, InLine, Newest, Document, Under
<1> QED  BY <1>1 DEF LInv, Lines, Between, OnePer, RowsFrom

LEMMA NextLines == LInv /\ [Next]_vars => LInv'
<1> SUFFICES ASSUME LInv, [Next]_vars PROVE LInv'
  OBVIOUS
<1>1. IType'
  BY NextType DEF LInv
<1>2. ASSUME NEW o \in Account, SignIn(o) PROVE LInv'
  BY <1>1, <1>2, IdleLines DEF SignIn
<1>3. ASSUME NEW o \in Account, RejectListen(o) PROVE LInv'
  BY <1>3, RejectListenLines
<1>4. ASSUME NEW o \in Account, NEW p \in User, Change(o, p) PROVE LInv'
  BY <1>4, ChangeLines
<1>5. ASSUME NEW o \in Account, NEW p \in User, Remove(o, p) PROVE LInv'
  BY <1>5, RemoveLines
<1>6. ASSUME NEW u \in User, Answer(u) PROVE LInv'
  BY <1>6, AnswerLines
<1>7. ASSUME NEW u \in User, Unanswered(u) PROVE LInv'
  BY <1>7, UnansweredLines
<1>8. CASE SignOut
  BY <1>1, <1>8, IdleLines DEF SignOut, bounds
<1>9. CASE AuthenticationComplete \/ Kill \/ HandleSnapshot
  BY <1>9, AuthenticationCompleteLines, KillLines, HandleSnapshotLines
<1>10. CASE UNCHANGED vars
  BY <1>1, <1>10, IdleLines DEF vars, bounds
<1> QED  BY <1>2, <1>3, <1>4, <1>5, <1>6, <1>7, <1>8, <1>9, <1>10 DEF Next

LEMMA LinesAlways == Spec => []LInv
<1>1. Init => LInv
  BY InitLines
<1>2. LInv /\ [Next]_vars => LInv'
  BY NextLines
<1> QED  BY <1>1, <1>2, PTL DEF Spec

-----------------------------------------------------------------------------
(* What follows for the rows.                                              *)

\* When nothing is under way, the document of a listener that misses nothing can
\* only be the last conversation the listener has.
LEMMA QuietRows ==
  ASSUME LInv, Quiet, NEW p \in User, NEW l \in 1..Len(listeners),
         listeners[l].live, p \notin listeners[l].missed,
         recent[listeners[l].user][p] # NoMessage
  PROVE  listeners[l].latest[p] = recent[listeners[l].user][p]
<1>1. Newest(l, p) /\ Document(l, p) = recent[listeners[l].user][p]
  BY DEF LInv, Lines, Line, Document
<1>2. PICK s, i : Under(l, p, s, i, Document(l, p))
  BY <1>1 DEF Newest
<1>3. 1..Len(main) = {} /\ 1..Len(fetching[p]) = {}
  BY DEF Quiet
<1> QED  BY <1>1, <1>2, <1>3 DEF Under

\* When nothing is under way, the row of a partner shows the latest message with
\* that partner of a user who was signed in during this launch, however the
\* profiles that Service.fetchConversations fetches arrived.
THEOREM RowsCurrentAlways == Spec => []RowsCurrent
<1>1. LInv => RowsCurrent
  <2> SUFFICES ASSUME LInv, Quiet, NEW p \in User, listeners # << >>,
                      \A l \in DOMAIN listeners : /\ listeners[l].live
                                                  /\ p \notin listeners[l].missed
                                                  /\ recent[listeners[l].user][p] # NoMessage
               PROVE  \E l \in DOMAIN listeners : rows[p] = recent[listeners[l].user][p]
    BY DEF RowsCurrent
  <2>1. TypeOK /\ DOMAIN listeners = 1..Len(listeners) /\ Len(listeners) \in Nat
    BY Domains DEF LInv, IType
  <2>2. \A l \in 1..Len(listeners) : /\ listeners[l].latest[p] = recent[listeners[l].user][p]
                                     /\ listeners[l].latest[p] # NoMessage
    BY <2>1, QuietRows
  <2>3. 1 \in 1..Len(listeners)
    BY <2>1, EmptySeq DEF TypeOK
  <2>4. rows[p] # NoMessage
    BY <2>2, <2>3 DEF LInv, RowsFrom
  <2>5. PICK l \in 1..Len(listeners) : rows[p] = listeners[l].latest[p]
    BY <2>4 DEF LInv, RowsFrom
  <2> QED  BY <2>1, <2>2, <2>5
<1> QED  BY <1>1, LinesAlways, PTL

\* What a step does to a row.
RowAdvances(p) ==
  /\ Len(listeners) = 1
  /\ p \notin listeners[1].missed
  /\ kills' = kills
  /\ rows[p] # NoMessage
  => rows'[p] = rows[p] \/ rows'[p].n > rows[p].n

LEMMA AnswerAdvances ==
  ASSUME LInv, NEW u \in User, Answer(u), NEW p \in User PROVE RowAdvances(p)
<1> SUFFICES ASSUME Len(listeners) = 1, p \notin listeners[1].missed, rows[p] # NoMessage
             PROVE  rows'[p] = rows[p] \/ rows'[p].n > rows[p].n
  BY DEF RowAdvances
<1>1. TypeOK
  BY DEF LInv, IType
<1>2. PICK h : h = Head(fetching[u]).listener
  OBVIOUS
<1>3. PICK x : x = Head(fetching[u]).message
  OBVIOUS
<1>4. /\ fetching[u] # << >> /\ fetching' = [fetching EXCEPT ![u] = Tail(@)]
      /\ Complete(u, h, x)
  BY <1>2, <1>3 DEF Answer
<1>5. /\ h \in 1..Len(listeners) /\ x \in Message /\ x # NoMessage
      /\ Len(fetching[u]) > 0 /\ fetching[u][1] = Head(fetching[u])
  BY <1>1, <1>2, <1>3, <1>4, NextFetch, NoMessageAssumption
<1>6. h = 1 /\ \A l \in 1..Len(listeners) : l = 1
  BY <1>5
<1>7. PICK r : r = rows[p]
  OBVIOUS
<1>8. listeners[1].latest[p] = r /\ r # NoMessage
  BY <1>6, <1>7 DEF LInv, RowsFrom
<1>9. /\ listeners'[1].latest[u] = x
      /\ p # u => listeners'[1].latest[p] = listeners[1].latest[p]
      /\ rows'[p] = IF listeners'[1].latest[p] # NoMessage
                    THEN listeners'[1].latest[p] ELSE rows[p]
  BY <1>1, <1>4, <1>5, <1>6, Completed
<1>10. CASE p # u
  BY <1>7, <1>8, <1>9, <1>10
<1>11. CASE p = u
  <2>1. rows'[p] = x
    BY <1>5, <1>9, <1>11
  <2>2. Under(1, p, 1, 0, r) /\ Under(1, p, 2, 1, x) /\ Ahead(1, 0, 2, 1)
    <3>1. 1 \in 1..Len(fetching[p])
      BY <1>1, <1>5, <1>11, Domains
    <3> QED  BY <1>2, <1>3, <1>5, <1>6, <1>8, <1>11, <3>1 DEF Under, Ahead
  <2>3. 1 \in 1..Len(listeners) /\ Line(1, p)
    BY <1>5, <1>6 DEF LInv, Lines
  <2>4. r.n < x.n \/ r = x
    BY <2>2, <2>3 DEF Line, InLine
  <2>5. r.n \in Int /\ x.n \in Int
    BY <1>1, <2>2, <2>3, UnderIsMessage
  <2> QED  BY <1>7, <2>1, <2>4, <2>5
<1> QED  BY <1>10, <1>11

\* As long as there is one listener, the row of a partner never goes back to an
\* older state of the document, although the listener writes all its rows again
\* with each answer (Service.swift:90, ConversationsController.swift:76).
THEOREM RowsAlwaysAdvance == Spec => RowsAdvance
<1>1. LInv /\ [Next]_vars => \A p \in User : RowAdvances(p)
  <2> SUFFICES ASSUME LInv, [Next]_vars, NEW p \in User PROVE RowAdvances(p)
    OBVIOUS
  <2>1. ASSUME NEW u \in User, Answer(u) PROVE RowAdvances(p)
    BY <2>1, AnswerAdvances
  <2>2. CASE rows' = rows
    BY <2>2 DEF RowAdvances
  <2>3. CASE kills' # kills
    BY <2>3 DEF RowAdvances
  <2>4. CASE Kill
    BY <2>3, <2>4, ListAssumption DEF Kill, LInv, IType, TypeOK
  <2>5. CASE UNCHANGED vars
    BY <2>2, <2>5 DEF vars
  <2>6. CASE \E o \in Account : SignIn(o) \/ RejectListen(o)
    BY <2>2, <2>6 DEF SignIn, RejectListen
  <2>7. CASE \E o \in Account, q \in User : Change(o, q) \/ Remove(o, q)
    BY <2>2, <2>7 DEF Change, Remove
  <2>8. CASE \E u \in User : Unanswered(u)
    BY <2>2, <2>8 DEF Unanswered
  <2>9. CASE AuthenticationComplete \/ SignOut \/ HandleSnapshot
    BY <2>2, <2>9 DEF AuthenticationComplete, SignOut, HandleSnapshot
  <2> QED  BY <2>1, <2>4, <2>5, <2>6, <2>7, <2>8, <2>9 DEF Next
<1>2. LInv /\ [Next]_vars =>
        [\A p \in User :
           /\ Len(listeners) = 1
           /\ p \notin listeners[1].missed
           /\ kills' = kills
           /\ rows[p] # NoMessage
           => rows'[p] = rows[p] \/ rows'[p].n > rows[p].n]_vars
  BY <1>1 DEF RowAdvances
<1> QED  BY <1>2, LinesAlways, PTL DEF Spec, RowsAdvance

-----------------------------------------------------------------------------
(***************************************************************************)
(* The list implements Listening: the logins it waits for are as many as   *)
(* those pending, and the users of its listeners are those heard.          *)
(***************************************************************************)

Heard == {listeners[l].user : l \in DOMAIN listeners}

\* A step that changes no user of a listener.
LEMMA UsersKept ==
  ASSUME DOMAIN listeners' = DOMAIN listeners,
         \A l \in DOMAIN listeners : listeners'[l].user = listeners[l].user
  PROVE  Heard' = Heard
<1>1. Heard' = {listeners'[l].user : l \in DOMAIN listeners}
  BY DEF Heard
<1> QED  BY <1>1 DEF Heard

LEMMA MissedKeepsUsers ==
  ASSUME TypeOK, NEW k, NEW missing,
         listeners' = [listeners EXCEPT ![k].missed = @ \cup missing]
  PROVE  Heard' = Heard
<1>1. DOMAIN listeners' = DOMAIN listeners
  OBVIOUS
<1>2. ASSUME NEW l \in DOMAIN listeners PROVE listeners'[l].user = listeners[l].user
  <2>1. listeners[l] \in Listener
    BY Domains
  <2>2. CASE l = k
    BY <2>1, <2>2 DEF Listener
  <2>3. CASE l # k
    BY <2>3
  <2> QED  BY <2>2, <2>3
<1> QED  BY <1>1, <1>2, UsersKept

LEMMA RejectKeepsUsers ==
  ASSUME TypeOK, NEW o \in Account, RejectListen(o) PROVE Heard' = Heard
<1>1. listeners' = [l \in DOMAIN listeners |->
                      IF l \in Hearing(o) THEN [listeners[l] EXCEPT !.live = FALSE]
                      ELSE listeners[l]]
  BY DEF RejectListen
<1>2. ASSUME NEW l \in DOMAIN listeners PROVE listeners'[l].user = listeners[l].user
  <2>1. listeners[l] \in Listener
    BY Domains
  <2>2. CASE l \in Hearing(o)
    BY <1>1, <2>1, <2>2 DEF Listener
  <2>3. CASE l \notin Hearing(o)
    BY <1>1, <2>3
  <2> QED  BY <2>2, <2>3
<1> QED  BY <1>1, <1>2, UsersKept

LEMMA AnswerKeepsUsers ==
  ASSUME TypeOK, NEW u \in User, Answer(u) PROVE Heard' = Heard
<1>1. PICK l \in 1..Len(listeners), m \in Message : Complete(u, l, m)
  BY NextFetch DEF Answer
<1>2. /\ DOMAIN listeners' = DOMAIN listeners
      /\ \A k \in 1..Len(listeners) : k # l => listeners'[k] = listeners[k]
      /\ listeners'[l].user = listeners[l].user
  BY <1>1, Completed
<1>3. \A k \in DOMAIN listeners : listeners'[k].user = listeners[k].user
  BY <1>2, Domains
<1> QED  BY <1>2, <1>3, UsersKept

\* fetchConversations adds to them whoever is signed in.
LEMMA FetchedHeard ==
  ASSUME TypeOK, NEW before \in Seq(Listener), NEW queued, FetchConversations(before, queued)
  PROVE  Heard' = {before[l].user : l \in DOMAIN before} \cup ({current} \ {NoUser})
<1>1. CASE current = NoUser
  BY <1>1 DEF FetchConversations, Heard
<1>2. CASE current # NoUser
  <2>1. listeners' = Append(before, NewListener(current))
    BY <1>2 DEF FetchConversations
  <2>2. NewListener(current) \in Listener /\ NewListener(current).user = current
    BY <1>2 DEF NewListener, Listener, Nothing, TypeOK
  <2>3. PICK n \in Nat : n = Len(before) /\ DOMAIN before = 1..n
    BY LenProperties
  <2>4. /\ DOMAIN listeners' = 1..(n + 1)
        /\ \A l \in 1..n : listeners'[l] = before[l]
        /\ listeners'[n + 1].user = current
    <3>1. /\ listeners' \in Seq(Listener) /\ Len(listeners') = n + 1
          /\ \A l \in 1..n : listeners'[l] = before[l]
          /\ listeners'[n + 1] = NewListener(current)
      BY <2>1, <2>2, <2>3, AppendProperties
    <3> QED  BY <2>2, <3>1, LenProperties
  <2>5. \A l \in 1..(n + 1) : l \in 1..n \/ l = n + 1
    OBVIOUS
  <2>6. n + 1 \in 1..(n + 1) /\ \A l \in 1..n : l \in 1..(n + 1)
    OBVIOUS
  <2>7. Heard' = {listeners'[l].user : l \in 1..(n + 1)}
    BY <2>4 DEF Heard
  <2>8. \A x : x \in Heard' <=> x = current \/ \E l \in 1..n : x = before[l].user
    BY <2>4, <2>5, <2>6, <2>7
  <2> QED  BY <1>2, <2>3, <2>8
<1> QED  BY <1>1, <1>2

\* A step that signs nobody in or out and adds no listener.
SameLogins == UNCHANGED <<current, signing>> /\ Heard' = Heard

LEMMA SameLoginsListens == ASSUME SameLogins PROVE UNCHANGED Listeners!vars
BY DEF SameLogins, Heard, Listeners!vars

LEMMA SignInListens ==
  ASSUME IType, NEW o \in Account, SignIn(o) PROVE Listeners!Next
<1>1. /\ signing \in Nat /\ signing + 1 \in 1..MaxSignIns
      /\ signing' = signing + 1 /\ current' = o /\ UNCHANGED listeners
  BY ListAssumption DEF IType, TypeOK, SignIn
<1>2. signing + 1 \notin 1..signing /\ 1..signing' = (1..signing) \cup {signing + 1}
  BY <1>1
<1>3. PICK l \in 1..MaxSignIns : l = signing + 1
  BY <1>1
<1>4. Listeners!SignIn(o, l)
  BY <1>1, <1>2, <1>3 DEF Listeners!SignIn
<1> QED  BY <1>4 DEF Listeners!Next

LEMMA CompleteListens ==
  ASSUME IType, AuthenticationComplete PROVE Listeners!Next
<1>1. /\ signing \in 1..MaxSignIns /\ signing \in Nat
      /\ signing' = signing - 1 /\ UNCHANGED current
      /\ FetchConversations(listeners, main)
  BY ListAssumption DEF IType, TypeOK, AuthenticationComplete
<1>2. signing \in 1..signing /\ 1..signing' = (1..signing) \ {signing}
  BY <1>1
<1>3. Heard' = Heard \cup ({current} \ {NoUser})
  BY <1>1, FetchedHeard DEF IType, TypeOK, Heard
<1>4. PICK l \in 1..MaxSignIns : l = signing
  BY <1>1
<1>5. Listeners!Complete(l)
  BY <1>1, <1>2, <1>3, <1>4 DEF Listeners!Complete, Heard
<1> QED  BY <1>5 DEF Listeners!Next

LEMMA KillListens == ASSUME IType, Kill PROVE Listeners!Next
<1>1. signing' = 0 /\ UNCHANGED current /\ FetchConversations(<< >>, << >>)
  BY DEF Kill
<1>2. << >> \in Seq(Listener) /\ DOMAIN << >> = {}
  OBVIOUS
<1>3. Heard' = {current} \ {NoUser}
  BY <1>1, <1>2, FetchedHeard DEF IType
<1>4. 1..signing' = {}
  BY <1>1
<1>5. Listeners!Relaunch
  BY <1>1, <1>3, <1>4 DEF Listeners!Relaunch, Heard
<1> QED  BY <1>5 DEF Listeners!Next

LEMMA SignOutListens == ASSUME SignOut PROVE Listeners!Next
<1>1. Listeners!SignOut
  BY DEF SignOut, Listeners!SignOut
<1> QED  BY <1>1 DEF Listeners!Next

LEMMA ListensStep ==
  ASSUME IType, [Next]_vars PROVE [Listeners!Next]_(Listeners!vars)
<1>1. TypeOK
  BY DEF IType
<1>2. CASE UNCHANGED vars
  BY <1>2, SameLoginsListens DEF vars, SameLogins, Heard
<1>3. ASSUME NEW o \in Account, RejectListen(o) PROVE UNCHANGED Listeners!vars
  <2>1. UNCHANGED <<current, signing>>
    BY <1>3 DEF RejectListen
  <2> QED  BY <1>1, <1>3, <2>1, RejectKeepsUsers, SameLoginsListens DEF SameLogins
<1>4. ASSUME NEW o \in Account, NEW p \in User, Change(o, p) \/ Remove(o, p)
      PROVE  UNCHANGED Listeners!vars
  BY <1>4, SameLoginsListens DEF Change, Remove, SameLogins, Heard
<1>5. ASSUME NEW u \in User, Answer(u) PROVE UNCHANGED Listeners!vars
  <2>1. UNCHANGED <<current, signing>>
    BY <1>5 DEF Answer
  <2> QED  BY <1>1, <1>5, <2>1, AnswerKeepsUsers, SameLoginsListens DEF SameLogins
<1>6. ASSUME NEW u \in User, Unanswered(u) PROVE UNCHANGED Listeners!vars
  <2>1. /\ UNCHANGED <<current, signing>>
        /\ listeners' = [listeners EXCEPT ![Head(fetching[u]).listener].missed = @ \cup {u}]
    BY <1>6 DEF Unanswered
  <2> QED  BY <1>1, <2>1, MissedKeepsUsers, SameLoginsListens DEF SameLogins
<1>7. CASE HandleSnapshot
  <2>1. UNCHANGED <<current, signing>>
    BY <1>7 DEF HandleSnapshot
  <2>2. PICK l, changed : l = Head(main).listener /\ changed = Head(main).changed
    OBVIOUS
  <2>3. PICK missing \in SUBSET User : listeners' = [listeners EXCEPT ![l].missed = @ \cup missing]
    BY <1>1, <1>7, <2>2, Handled
  <2> QED  BY <1>1, <2>1, <2>3, MissedKeepsUsers, SameLoginsListens DEF SameLogins
<1> QED
  BY <1>2, <1>3, <1>4, <1>5, <1>6, <1>7, SignInListens, CompleteListens, KillListens,
     SignOutListens DEF Next

\* The list implements Listening, as Session does: it adds a listener for whoever is
\* signed in when a login completes or the app is launched, and whatever becomes of its
\* documents, queries and fetches, of whom it listens to nothing else changes
\* (ConversationsController.swift:200).
THEOREM ListeningRefined == Spec => ImplementsListening
<1>1. Init => Listeners!Init
  <2> SUFFICES ASSUME Init PROVE Listeners!Init
    OBVIOUS
  <2>1. current \in Account \cup {NoUser} /\ 1..signing = {}
    BY DEF Init
  <2>2. Heard = {current} \ {NoUser}
    <3>1. CASE current = NoUser
      BY <3>1 DEF Init, Heard
    <3>2. CASE current # NoUser
      <4>1. listeners = <<NewListener(current)>> /\ NewListener(current).user = current
        BY <3>2 DEF Init, NewListener
      <4>2. DOMAIN listeners = {1} /\ listeners[1].user = current
        BY <4>1
      <4> QED  BY <3>2, <4>2 DEF Heard
    <3> QED  BY <3>1, <3>2
  <2> QED  BY <2>1, <2>2 DEF Listeners!Init, Heard
<1>2. IType /\ [Next]_vars => [Listeners!Next]_(Listeners!vars)
  BY ListensStep
<1> QED
  BY <1>1, <1>2, InitType, NextType, PTL DEF Spec, ImplementsListening, Listeners!Spec
=============================================================================
