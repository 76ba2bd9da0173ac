------------------------- MODULE SharedPhone_proofs -------------------------
(***************************************************************************)
(* Machine-checked proofs about SharedPhone, for every value of its        *)
(* constants: its types, and what becomes of messages whose sender signs   *)
(* out while they are under way.                                           *)
(***************************************************************************)
EXTENDS SharedPhone, Messaging_proofs

-----------------------------------------------------------------------------
(* The writes on the worker queue.                                         *)

Stays == [user : Device, tasks : Nat]

\* f[i] is what the first i stays have for d.
Counts(f, stays, d) ==
  /\ f \in [0..Len(stays) -> Nat]
  /\ f[0] = 0
  /\ \A i \in 1..Len(stays) : f[i] = f[i - 1] + Share(stays[i], d)

LEMMA ShareNat == \A stay \in Stays : \A d : Share(stay, d) \in Nat
BY DEF Share, Stays

LEMMA CountsExist ==
  ASSUME NEW stays \in Seq(Stays), NEW d PROVE \E f : Counts(f, stays, d)
<1> DEFINE N == Len(stays)
           Upto(f, n) == /\ f \in [0..n -> Nat] /\ f[0] = 0
                         /\ \A i \in 1..n : f[i] = f[i - 1] + Share(stays[i], d)
           Bad == {n \in 0..N : ~ \E f : Upto(f, n)}
<1>1. N \in Nat
  OBVIOUS
<1>2. ASSUME Bad # {} PROVE FALSE
  <2>1. PICK n \in Bad : \A k \in Bad : n <= k
    <3>1. Bad \in SUBSET Nat
      OBVIOUS
    <3> QED  BY <1>2, <3>1, LeastExists
  <2>2. n # 0
    <3> SUFFICES ASSUME n = 0 PROVE FALSE
      OBVIOUS
    <3>1. PICK z : z = [i \in 0..n |-> 0]
      OBVIOUS
    <3>2. Upto(z, n)
      BY <3>1
    <3> QED  BY <2>1, <3>2
  <2>3. n - 1 \in 0..N /\ n - 1 \notin Bad /\ n \in 1..N
    <3> HIDE DEF Bad
    <3>1. n \in 0..N
      BY <2>1 DEF Bad
    <3>2. n - 1 \in 0..N /\ n \in 1..N /\ ~ (n <= n - 1)
      BY <1>1, <2>2, <3>1
    <3> QED  BY <2>1, <3>2
  <2>4. PICK f : Upto(f, n - 1)
    <3> HIDE DEF Upto
    <3> QED  BY <2>3
  <2>5. PICK x : x = f[n - 1] + Share(stays[n], d)
    OBVIOUS
  <2>6. x \in Nat
    <3>1. stays[n] \in Stays /\ f[n - 1] \in Nat
      BY <2>3, <2>4
    <3> QED  BY <2>5, <3>1, ShareNat
  <2>7. PICK g : g = [i \in 0..n |-> IF i = n THEN x ELSE f[i]]
    OBVIOUS
  <2>8. Upto(g, n)
    <3>1. g \in [0..n -> Nat] /\ g[0] = 0 /\ g[n] = x /\ \A i \in 0..(n - 1) : g[i] = f[i]
      BY <2>2, <2>3, <2>4, <2>6, <2>7
    <3>2. ASSUME NEW i \in 1..n PROVE g[i] = g[i - 1] + Share(stays[i], d)
      <4>1. CASE i = n
        <5>1. n - 1 \in 0..(n - 1)
          BY <2>3
        <5> QED  BY <2>5, <3>1, <4>1, <5>1
      <4>2. CASE i # n
        <5>1. i \in 1..(n - 1) /\ i \in 0..(n - 1) /\ i - 1 \in 0..(n - 1)
          BY <2>3, <4>2
        <5> QED  BY <2>4, <3>1, <5>1
      <4> QED  BY <4>1, <4>2
    <3> QED  BY <3>1, <3>2
  <2> QED  BY <2>1, <2>8
<1>3. \E f : Upto(f, N)
  <2>1. N \in 0..N
    BY <1>1
  <2> HIDE DEF Upto
  <2> QED  BY <1>2, <2>1
<1> QED  BY <1>3 DEF Counts

\* Tasks is the last of the counts, whatever f counts.
LEMMA CountsAgree ==
  ASSUME NEW stays \in Seq(Stays), NEW d, NEW f, Counts(f, stays, d)
  PROVE  Tasks(stays, d) = f[Len(stays)] /\ Tasks(stays, d) \in Nat
<1> DEFINE N == Len(stays)
           Grow(h) == [i \in 0..N |-> IF i = 0 THEN 0 ELSE h[i - 1] + Share(stays[i], d)]
           u == CHOOSE h : h = Grow(h)
<1>1. N \in Nat
  OBVIOUS
<1>2. Tasks(stays, d) = u[N]
  BY DEF Tasks
<1>3. f = Grow(f)
  BY <1>1 DEF Counts
<1>4. u = Grow(u)
  BY <1>3
<1> HIDE DEF u
<1>5. /\ u[0] = 0
      /\ \A i \in 1..N : u[i] = u[i - 1] + Share(stays[i], d)
  <2>1. \A i \in 0..N : u[i] = IF i = 0 THEN 0 ELSE u[i - 1] + Share(stays[i], d)
    BY <1>4
  <2> QED  BY <1>1, <2>1
<1> DEFINE Bad == {i \in 0..N : u[i] # f[i]}
<1>6. ASSUME Bad # {} PROVE FALSE
  <2>1. PICK n \in Bad : \A k \in Bad : n <= k
    <3>1. Bad \in SUBSET Nat
      OBVIOUS
    <3> QED  BY <1>6, <3>1, LeastExists
  <2>2. n # 0
    BY <1>5 DEF Counts
  <2>3. n \in 1..N /\ n - 1 \in 0..N /\ n - 1 \notin Bad
    BY <1>1, <2>1, <2>2
  <2> QED  BY <1>5, <2>1, <2>3 DEF Counts
<1> QED  BY <1>1, <1>2, <1>6 DEF Counts

\* A new stay brings its tasks.
LEMMA TasksAppend ==
  ASSUME NEW stays \in Seq(Stays), NEW stay \in Stays, NEW d
  PROVE  Tasks(Append(stays, stay), d) = Tasks(stays, d) + Share(stay, d)
<1> DEFINE N == Len(stays)
<1>1. PICK f : Counts(f, stays, d)
  BY CountsExist
<1>2. PICK new : new = Append(stays, stay)
  OBVIOUS
<1>3. /\ new \in Seq(Stays) /\ Len(new) = N + 1 /\ N \in Nat
      /\ new[N + 1] = stay /\ \A i \in 1..N : new[i] = stays[i]
  BY <1>2
<1>4. PICK x : x = f[N] + Share(stay, d)
  OBVIOUS
<1>5. x \in Nat
  BY <1>1, <1>4, ShareNat DEF Counts
<1>6. PICK g : g = [i \in 0..(N + 1) |-> IF i = N + 1 THEN x ELSE f[i]]
  OBVIOUS
<1>7. g \in [0..(N + 1) -> Nat] /\ g[N + 1] = x /\ \A i \in 0..N : g[i] = f[i]
  BY <1>1, <1>3, <1>5, <1>6 DEF Counts
<1>8. Counts(g, new, d)
  <2>1. ASSUME NEW i \in 1..(N + 1) PROVE g[i] = g[i - 1] + Share(new[i], d)
    <3>1. CASE i = N + 1
      <4>1. N \in 0..N /\ i - 1 = N
        BY <1>3, <3>1
      <4> QED  BY <1>3, <1>4, <1>7, <3>1, <4>1
    <3>2. CASE i # N + 1
      <4>1. i \in 1..N /\ i \in 0..N /\ i - 1 \in 0..N
        BY <1>3, <3>2
      <4> QED  BY <1>1, <1>3, <1>7, <4>1 DEF Counts
    <3> QED  BY <3>1, <3>2
  <2>2. 0 \in 0..N
    BY <1>3
  <2> QED  BY <1>1, <1>3, <1>7, <2>1, <2>2 DEF Counts
<1>9. Tasks(new, d) = g[N + 1] /\ Tasks(stays, d) = f[N]
  BY <1>1, <1>3, <1>8, CountsAgree
<1> QED  BY <1>2, <1>4, <1>7, <1>9

\* Writes are issued for the last stay.
LEMMA TasksIssued ==
  ASSUME NEW stays \in Seq(Stays), stays # << >>, NEW n \in Nat, NEW d
  PROVE  LET new == [stays EXCEPT ![Len(stays)].tasks = @ + n] IN
         /\ new \in Seq(Stays) /\ Len(new) = Len(stays)
         /\ \A i \in 1..Len(stays) : new[i].user = stays[i].user
         /\ Tasks(new, d) =
              Tasks(stays, d) + IF stays[Len(stays)].user = d THEN n ELSE 0
<1>0. PICK N : N = Len(stays)
  OBVIOUS
<1>1. PICK f : Counts(f, stays, d)
  BY CountsExist
<1>2. PICK new : new = [stays EXCEPT ![N].tasks = @ + n]
  OBVIOUS
<1>3. N \in Nat \ {0} /\ N \in 1..N /\ \A i \in 1..N : stays[i] \in Stays
  BY <1>0
<1>4. PICK stay : stay = [stays[N] EXCEPT !.tasks = @ + n]
  OBVIOUS
<1>5. stay \in Stays /\ stay.user = stays[N].user /\ stay.tasks = stays[N].tasks + n
  BY <1>3, <1>4 DEF Stays
<1>6. /\ new \in Seq(Stays) /\ Len(new) = N
      /\ new[N] = stay /\ \A i \in 1..(N - 1) : new[i] = stays[i]
  <2>1. new = [stays EXCEPT ![N] = stay]
    BY <1>2, <1>4
  <2> QED  BY <1>0, <1>3, <1>5, <2>1
<1>7. PICK x : x = IF stays[N].user = d THEN n ELSE 0
  OBVIOUS
<1>8. x \in Nat /\ Share(stay, d) = Share(stays[N], d) + x
  BY <1>3, <1>5, <1>7 DEF Share, Stays
<1>9. PICK g : g = [i \in 0..N |-> IF i = N THEN f[N] + x ELSE f[i]]
  OBVIOUS
<1>10. g \in [0..N -> Nat] /\ g[N] = f[N] + x /\ \A i \in 0..(N - 1) : g[i] = f[i]
  <2>1. f \in [0..N -> Nat]
    BY <1>0, <1>1 DEF Counts
  <2> QED  BY <1>3, <1>8, <1>9, <2>1
<1>11. Counts(g, new, d)
  <2>1. ASSUME NEW i \in 1..N PROVE g[i] = g[i - 1] + Share(new[i], d)
    <3>0. f[i] = f[i - 1] + Share(stays[i], d) /\ f[i] \in Nat /\ f[i - 1] \in Nat
      <4>1. i \in 0..N /\ i - 1 \in 0..N
        BY <1>3
      <4> QED  BY <1>0, <1>1, <4>1 DEF Counts
    <3>1. CASE i = N
      <4>1. N - 1 \in 0..(N - 1)
        BY <1>3
      <4>2. g[i] = f[i] + x /\ g[i - 1] = f[i - 1] /\ Share(new[i], d) = Share(stays[i], d) + x
        BY <1>6, <1>8, <1>10, <3>1, <4>1
      <4>3. Share(stays[i], d) \in Nat
        BY <1>3, ShareNat
      <4> QED  BY <1>8, <3>0, <4>2, <4>3
    <3>2. CASE i # N
      <4>1. i \in 1..(N - 1) /\ i \in 0..(N - 1) /\ i - 1 \in 0..(N - 1)
        BY <1>3, <3>2
      <4> QED  BY <1>6, <1>10, <3>0, <4>1
    <3> QED  BY <3>1, <3>2
  <2>2. 0 \in 0..(N - 1)
    BY <1>3
  <2> QED  BY <1>1, <1>6, <1>10, <2>1, <2>2 DEF Counts
<1>12. Tasks(new, d) = g[N] /\ Tasks(stays, d) = f[N]
  BY <1>0, <1>1, <1>6, <1>11, CountsAgree
<1>13. \A i \in 1..N : new[i].user = stays[i].user
  <2> TAKE i \in 1..N
  <2>1. i = N \/ i \in 1..(N - 1)
    BY <1>3
  <2> QED  BY <1>5, <1>6, <2>1
<1> QED  BY <1>0, <1>2, <1>6, <1>7, <1>10, <1>12, <1>13

\* A write of the first stay is persisted.
LEMMA TasksDone ==
  ASSUME NEW stays \in Seq(Stays), stays # << >>, Head(stays).tasks > 0, NEW d
  PROVE  LET new == [stays EXCEPT ![1].tasks = @ - 1] IN
         /\ new \in Seq(Stays) /\ Len(new) = Len(stays)
         /\ \A i \in 1..Len(stays) : new[i].user = stays[i].user
         /\ Tasks(new, d) = Tasks(stays, d) - IF Head(stays).user = d THEN 1 ELSE 0
<1>0. PICK N : N = Len(stays)
  OBVIOUS
<1>1. PICK f : Counts(f, stays, d)
  BY CountsExist
<1>2. PICK new : new = [stays EXCEPT ![1].tasks = @ - 1]
  OBVIOUS
<1>3. /\ N \in Nat \ {0} /\ 1 \in 1..N /\ \A i \in 1..N : stays[i] \in Stays
      /\ Head(stays) = stays[1]
  BY <1>0
<1>4. PICK stay : stay = [stays[1] EXCEPT !.tasks = @ - 1]
  OBVIOUS
<1>5. stay \in Stays /\ stay.user = stays[1].user /\ stay.tasks = stays[1].tasks - 1
  BY <1>3, <1>4 DEF Stays
<1>6. /\ new \in Seq(Stays) /\ Len(new) = N
      /\ new[1] = stay /\ \A i \in 2..N : new[i] = stays[i]
  <2>1. new = [stays EXCEPT ![1] = stay]
    BY <1>2, <1>4
  <2> QED  BY <1>0, <1>3, <1>5, <2>1
<1>7. PICK x : x = IF stays[1].user = d THEN 1 ELSE 0
  OBVIOUS
<1>8. /\ x \in Nat /\ Share(stay, d) = Share(stays[1], d) - x
      /\ Share(stays[1], d) \in Nat /\ Share(stay, d) \in Nat
  BY <1>3, <1>5, <1>7, ShareNat DEF Share, Stays
<1>9. /\ f \in [0..N -> Nat] /\ f[0] = 0
      /\ \A i \in 1..N : f[i] = f[i - 1] + Share(stays[i], d)
  BY <1>0, <1>1 DEF Counts
<1>10. \A i \in 1..N : f[i] - x \in Nat
  <2> DEFINE Bad == {i \in 1..N : f[i] - x \notin Nat}
  <2> SUFFICES ASSUME Bad # {} PROVE FALSE
    OBVIOUS
  <2>1. PICK i \in Bad : \A k \in Bad : i <= k
    <3>1. Bad \in SUBSET Nat
      OBVIOUS
    <3> QED  BY <3>1, LeastExists
  <2> HIDE DEF Bad
  <2>2. i \in 1..N /\ f[i] - x \notin Nat
    BY <2>1 DEF Bad
  <2>3. i # 1
    <3>1. f[1] = f[0] + Share(stays[1], d)
      <4>1. 1 - 1 = 0
        OBVIOUS
      <4> QED  BY <1>3, <1>9, <4>1
    <3> QED  BY <1>8, <1>9, <2>2, <3>1
  <2>4. i - 1 \in 1..N /\ ~ (i <= i - 1)
    BY <1>3, <2>2, <2>3
  <2>5. f[i - 1] - x \in Nat
    BY <2>1, <2>4 DEF Bad
  <2>6. Share(stays[i], d) \in Nat /\ f[i - 1] \in Nat
    <3>1. i - 1 \in 0..N
      BY <1>3, <2>4
    <3> QED  BY <1>3, <1>9, <2>2, <3>1, ShareNat
  <2>7. f[i] = f[i - 1] + Share(stays[i], d)
    BY <1>9, <2>2
  <2> QED  BY <1>8, <2>2, <2>5, <2>6, <2>7
<1>11. PICK g : g = [i \in 0..N |-> IF i = 0 THEN 0 ELSE f[i] - x]
  OBVIOUS
<1>12. g \in [0..N -> Nat] /\ g[0] = 0 /\ \A i \in 1..N : g[i] = f[i] - x
  <2>1. \A i \in 0..N : i = 0 \/ i \in 1..N
    BY <1>3
  <2>2. 0 \in 0..N /\ \A i \in 1..N : i \in 0..N /\ i # 0
    BY <1>3
  <2> QED  BY <1>10, <1>11, <2>1, <2>2
<1>13. Counts(g, new, d)
  <2>1. ASSUME NEW i \in 1..N PROVE g[i] = g[i - 1] + Share(new[i], d)
    <3>1. f[i] = f[i - 1] + Share(stays[i], d) /\ g[i] = f[i] - x
      BY <1>9, <1>12
    <3>2. CASE i = 1
      <4>1. i - 1 = 0
        BY <3>2
      <4> QED  BY <1>6, <1>8, <1>9, <1>12, <3>1, <3>2, <4>1
    <3>3. CASE i # 1
      <4>1. i \in 2..N /\ i - 1 \in 1..N /\ i - 1 \in 0..N
        BY <1>3, <3>3
      <4>2. g[i - 1] = f[i - 1] - x /\ new[i] = stays[i]
        BY <1>6, <1>12, <4>1
      <4>3. f[i - 1] \in Nat /\ Share(stays[i], d) \in Nat
        BY <1>3, <1>9, <4>1, ShareNat
      <4> QED  BY <1>8, <3>1, <4>2, <4>3
    <3> QED  BY <3>2, <3>3
  <2> QED  BY <1>6, <1>12, <2>1 DEF Counts
<1>14. Tasks(new, d) = g[N] /\ Tasks(stays, d) = f[N]
  BY <1>0, <1>1, <1>6, <1>13, CountsAgree
<1>15. \A i \in 1..N : new[i].user = stays[i].user
  <2> TAKE i \in 1..N
  <2>1. i = 1 \/ i \in 2..N
    BY <1>3
  <2> QED  BY <1>5, <1>6, <2>1
<1>16. g[N] = f[N] - x
  BY <1>3, <1>12
<1> QED  BY <1>0, <1>2, <1>3, <1>6, <1>7, <1>14, <1>15, <1>16

\* The first stay ends when its writes are persisted.
LEMMA TasksTail ==
  ASSUME NEW stays \in Seq(Stays), stays # << >>, Head(stays).tasks = 0, NEW d
  PROVE  Tasks(Tail(stays), d) = Tasks(stays, d)
<1>0. PICK N : N = Len(stays)
  OBVIOUS
<1>1. PICK f : Counts(f, stays, d)
  BY CountsExist
<1>2. PICK new : new = Tail(stays)
  OBVIOUS
<1>3. /\ N \in Nat \ {0} /\ Head(stays) = stays[1] /\ stays[1] \in Stays
      /\ new \in Seq(Stays) /\ Len(new) = N - 1
      /\ \A i \in 1..(N - 1) : new[i] = stays[i + 1]
  BY <1>0, <1>2
<1>4. /\ f \in [0..N -> Nat] /\ f[0] = 0
      /\ \A i \in 1..N : f[i] = f[i - 1] + Share(stays[i], d)
  BY <1>0, <1>1 DEF Counts
<1>5. PICK g : g = [i \in 0..(N - 1) |-> f[i + 1]]
  OBVIOUS
<1>6. \A i \in 0..(N - 1) : i + 1 \in 0..N /\ i + 1 \in 1..N
  BY <1>3
<1>7. g \in [0..(N - 1) -> Nat] /\ \A i \in 0..(N - 1) : g[i] = f[i + 1]
  BY <1>4, <1>5, <1>6
<1>8. g[0] = 0
  <2>1. f[1] = f[0] + Share(stays[1], d)
    <3>1. 1 \in 1..N /\ 1 - 1 = 0
      BY <1>3
    <3> QED  BY <1>4, <3>1
  <2>2. Share(stays[1], d) = 0
    BY <1>3 DEF Share
  <2>3. 0 \in 0..(N - 1) /\ 0 + 1 = 1
    BY <1>3
  <2>4. g[0] = f[1]
    BY <1>7, <2>3
  <2> QED  BY <1>4, <2>1, <2>2, <2>4
<1>9. Counts(g, new, d)
  <2>1. ASSUME NEW i \in 1..(N - 1) PROVE g[i] = g[i - 1] + Share(new[i], d)
    <3>1. i + 1 \in 1..N /\ i \in 0..(N - 1) /\ i - 1 \in 0..(N - 1)
          /\ (i + 1) - 1 = i /\ (i - 1) + 1 = i
      BY <1>3
    <3>2. f[i + 1] = f[i] + Share(stays[i + 1], d)
      BY <1>4, <3>1
    <3>3. g[i] = f[i + 1] /\ g[i - 1] = f[i]
      BY <1>7, <3>1
    <3> QED  BY <1>3, <3>2, <3>3
  <2> QED  BY <1>3, <1>7, <1>8, <2>1 DEF Counts
<1>10. Tasks(new, d) = g[N - 1] /\ Tasks(stays, d) = f[N]
  BY <1>0, <1>1, <1>3, <1>9, CountsAgree
<1>11. N - 1 \in 0..(N - 1) /\ (N - 1) + 1 = N
  BY <1>3
<1> QED  BY <1>2, <1>7, <1>10, <1>11

\* A phone that has just been told has nothing on its worker queue.
LEMMA TasksNone ==
  ASSUME NEW u \in Device, NEW d
  PROVE  <<Stay(u)>> \in Seq(Stays) /\ Tasks(<<Stay(u)>>, d) = 0
<1>1. PICK s : s = <<Stay(u)>>
  OBVIOUS
<1>2. s \in Seq(Stays) /\ Len(s) = 1 /\ s[1].tasks = 0
  BY <1>1 DEF Stay, Stays
<1>3. PICK f : f = [i \in 0..1 |-> 0]
  OBVIOUS
<1>4. f \in [0..1 -> Nat] /\ f[0] = 0 /\ f[1] = 0
  BY <1>3
<1>5. Counts(f, s, d)
  <2>1. ASSUME NEW i \in 1..1 PROVE f[i] = f[i - 1] + Share(s[i], d)
    <3>1. i = 1 /\ i - 1 = 0 /\ Share(s[i], d) = 0
      BY <1>2 DEF Share
    <3> QED  BY <1>4, <3>1
  <2> QED  BY <1>2, <1>4, <2>1 DEF Counts
<1>6. Tasks(s, d) = f[1]
  BY <1>2, <1>5, CountsAgree
<1> QED  BY <1>1, <1>2, <1>4, <1>6

-----------------------------------------------------------------------------
(* What the steps do to the queues of one user.                            *)

\* The queues that are left alone.
LEMMA SamePlaces ==
  ASSUME NEW d \in Device, writes'[d] = writes[d], main'[d] = main[d]
  PROVE  /\ \A s, i, m : Holding(d, s, i, m)' <=> Holding(d, s, i, m)
         /\ \A i, step, m : Queued(d, i, step, m)' <=> Queued(d, i, step, m)
BY DEF Holding, Queued

\* A place of a queue is a number.
LEMMA PlacesAreNumbers ==
  /\ \A d, s, i, m : Holding(d, s, i, m) => s \in 1..3 /\ i \in Nat \ {0}
  /\ \A d, i, step, m : Queued(d, i, step, m) => i \in Nat \ {0}
  /\ \A d, i, m : Holding(d, 1, i, m) <=> Queued(d, i, "peerAdd", m)
  /\ \A d, i, m : Holding(d, 3, i, m) => Queued(d, i, "ownAdd", m)
BY DEF Holding, Queued

\* The first of the four writes is put at the end.
LEMMA SendEffect ==
  ASSUME TypeOK, TypeOK', NEW d \in Device, NEW p \in User, Send(d, p),
         NEW new, new = [dev |-> d, to |-> p, n |-> nsent[d] + 1],
         NEW L, L = Len(writes[d])
  PROVE  /\ L \in Nat /\ Len(writes'[d]) = L + 1
         /\ \A e \in Device : e # d => writes'[e] = writes[e] /\ main'[e] = main[e]
         /\ \A i, m : Holding(d, 1, i, m)' <=> Holding(d, 1, i, m)
         /\ \A i, m : Holding(d, 2, i, m)' <=> Holding(d, 2, i, m)
         /\ \A i, m : Holding(d, 3, i, m)' <=> Holding(d, 3, i, m) \/ (i = L + 1 /\ m = new)
         /\ \A i, step, m : Queued(d, i, step, m)' <=>
              \/ Queued(d, i, step, m)
              \/ i = L + 1 /\ step = "ownAdd" /\ m = new
<1>1. /\ main' = main
      /\ writes' = [writes EXCEPT ![d] = Append(@, FirstWrite(new))]
  BY DEF Send
<1>2. PICK w : w = FirstWrite(new)
  OBVIOUS
<1>3. w.step = "ownAdd" /\ w.msg = new /\ w.cb = TRUE
  BY <1>2 DEF FirstWrite, Mutation
<1>4. /\ L \in Nat /\ Len(writes'[d]) = L + 1 /\ writes'[d][L + 1] = w
      /\ \A i \in 1..L : writes'[d][i] = writes[d][i]
  BY <1>1, <1>2 DEF TypeOK
<1>5. \A e \in Device : e # d => writes'[e] = writes[e] /\ main'[e] = main[e]
  BY <1>1 DEF TypeOK
<1>6. \A i : i \in 1..Len(writes'[d]) <=> i \in 1..L \/ i = L + 1
  BY <1>4
<1>7. ~ (L + 1 \in 1..L)
  BY <1>4
<1>8. \A i, step, m : Queued(d, i, step, m)' <=>
        \/ Queued(d, i, step, m)
        \/ i = L + 1 /\ step = "ownAdd" /\ m = new
  BY <1>3, <1>4, <1>6, <1>7 DEF Queued
<1>9. /\ \A i, m : Holding(d, 1, i, m)' <=> Holding(d, 1, i, m)
      /\ \A i, m : Holding(d, 2, i, m)' <=> Holding(d, 2, i, m)
      /\ \A i, m : Holding(d, 3, i, m)' <=> Holding(d, 3, i, m) \/ (i = L + 1 /\ m = new)
  BY <1>1, <1>3, <1>4, <1>6, <1>7 DEF Holding
<1> QED  BY <1>4, <1>5, <1>8, <1>9

\* The three others are put at the end of a queue.
LEMMA MirrorAdds ==
  ASSUME NEW q \in Seq(Write), NEW m \in Message
  PROVE  LET r == q \o MirrorWrites(m)
             L == Len(q)
         IN /\ L \in Nat /\ r \in Seq(Write) /\ Len(r) = L + 3 /\ Len(MirrorWrites(m)) = 3
            /\ \A i \in 1..L : r[i] = q[i]
            /\ r[L + 1].step = "peerAdd" /\ r[L + 1].msg = m
            /\ r[L + 2].step = "ownRecent" /\ r[L + 2].msg = m
            /\ r[L + 3].step = "peerRecent" /\ r[L + 3].msg = m
<1>a. PICK r : r = q \o MirrorWrites(m)
  OBVIOUS
<1>b. PICK L : L = Len(q)
  OBVIOUS
<1>1. PICK s : s = MirrorWrites(m)
  OBVIOUS
<1>2. s \in Seq(Write)
  BY <1>1, MirrorWritesType
<1>3. /\ Len(s) = 3
      /\ s[1].step = "peerAdd" /\ s[1].msg = m
      /\ s[2].step = "ownRecent" /\ s[2].msg = m
      /\ s[3].step = "peerRecent" /\ s[3].msg = m
  BY <1>1 DEF MirrorWrites, Mutation
<1>4. L \in Nat
  BY <1>b
<1>5. /\ Len(q \o s) = Len(q) + Len(s)
      /\ \A i \in 1..(Len(q) + Len(s)) : (q \o s)[i] = IF i <= Len(q) THEN q[i] ELSE s[i - Len(q)]
  BY <1>2, ConcatProperties
<1>6. r \in Seq(Write)
  BY <1>1, <1>2, <1>a
<1>7. /\ Len(r) = L + 3
      /\ \A i \in 1..(L + 3) : r[i] = IF i <= L THEN q[i] ELSE s[i - L]
  BY <1>1, <1>3, <1>5, <1>a, <1>b
<1>8. \A i \in 1..L : i \in 1..(L + 3) /\ i <= L
  BY <1>4
<1>9. \A j \in 1..3 : L + j \in 1..(L + 3) /\ ~ (L + j <= L) /\ (L + j) - L = j
  BY <1>4
<1>10. \A j \in 1..3 : r[L + j] = s[j]
  BY <1>7, <1>9
<1>11. 1 \in 1..3 /\ 2 \in 1..3 /\ 3 \in 1..3
  OBVIOUS
<1> QED  BY <1>1, <1>3, <1>4, <1>6, <1>7, <1>8, <1>10, <1>11, <1>a, <1>b

\* The handler of the first write of m leaves the main queue of d, and its three
\* writes are put at the end of the queue of e.
Mirrors(d, e, m) ==
  /\ main[d] # << >>
  /\ Head(main[d]).step = "ownAdd"
  /\ m = Head(main[d]).msg
  /\ writes' = [writes EXCEPT ![e] = @ \o MirrorWrites(m)]
  /\ main' = [main EXCEPT ![d] = Tail(@)]

MirroredTypes(d, e, m, L) ==
  /\ m \in Message /\ Holding(d, 2, 1, m) /\ L \in Nat
  /\ writes' \in [Device -> Seq(Write)] /\ main' \in [Device -> Seq(Completion)]
  /\ Len(writes'[e]) = L + 3 /\ Len(MirrorWrites(m)) = 3
  /\ \A f \in Device : f # e => writes'[f] = writes[f]

MirroredHandlers(d) ==
  /\ \A f \in Device : \A i, x : f # d => (Holding(f, 2, i, x)' <=> Holding(f, 2, i, x))
  /\ \A i, x : Holding(d, 2, i, x)' <=> i \in Nat \ {0} /\ Holding(d, 2, i + 1, x)
  /\ \A f \in Device : \A i, x : Holding(f, 3, i, x)' <=> Holding(f, 3, i, x)

MirroredQueues(e, m, L) ==
  \A f \in Device : \A i, step, x : Queued(f, i, step, x)' <=>
    \/ Queued(f, i, step, x)
    \/ /\ f = e /\ x = m
       /\ \/ i = L + 1 /\ step = "peerAdd"
          \/ i = L + 2 /\ step = "ownRecent"
          \/ i = L + 3 /\ step = "peerRecent"

LEMMA MirrorEffect ==
  ASSUME TypeOK, NEW d \in Device, NEW e \in Device, NEW m, Mirrors(d, e, m),
         NEW L, L = Len(writes[e])
  PROVE  MirroredTypes(d, e, m, L) /\ MirroredHandlers(d) /\ MirroredQueues(e, m, L)
<1>0. /\ main[d] # << >> /\ Head(main[d]).step = "ownAdd" /\ m = Head(main[d]).msg
      /\ writes' = [writes EXCEPT ![e] = @ \o MirrorWrites(m)]
      /\ main' = [main EXCEPT ![d] = Tail(@)]
  BY DEF Mirrors
<1> DEFINE M == Len(main[d])
<1>1. main[d] \in Seq(Completion) /\ writes[e] \in Seq(Write) /\ M \in Nat
  BY DEF TypeOK
<1>2. /\ M # 0 /\ 1 \in 1..M /\ Head(main[d]) = main[d][1] /\ main[d][1] \in Completion
      /\ Tail(main[d]) \in Seq(Completion) /\ Len(Tail(main[d])) = M - 1
      /\ \A i \in 1..(M - 1) : Tail(main[d])[i] = main[d][i + 1]
  BY <1>0, <1>1
<1>3. m \in Message
  BY <1>0, <1>2 DEF Completion
<1>a. PICK q : q = writes[e]
  OBVIOUS
<1>b. q \in Seq(Write) /\ m \in Message
  BY <1>1, <1>3, <1>a
<1>c. /\ Len(q) \in Nat /\ q \o MirrorWrites(m) \in Seq(Write)
      /\ Len(q \o MirrorWrites(m)) = Len(q) + 3 /\ Len(MirrorWrites(m)) = 3
      /\ \A i \in 1..Len(q) : (q \o MirrorWrites(m))[i] = q[i]
      /\ (q \o MirrorWrites(m))[Len(q) + 1].step = "peerAdd"
      /\ (q \o MirrorWrites(m))[Len(q) + 1].msg = m
      /\ (q \o MirrorWrites(m))[Len(q) + 2].step = "ownRecent"
      /\ (q \o MirrorWrites(m))[Len(q) + 2].msg = m
      /\ (q \o MirrorWrites(m))[Len(q) + 3].step = "peerRecent"
      /\ (q \o MirrorWrites(m))[Len(q) + 3].msg = m
  BY ONLY <1>b, MirrorAdds
<1>4. PICK r : r = q \o MirrorWrites(m)
  OBVIOUS
<1>5. /\ L \in Nat /\ r \in Seq(Write) /\ Len(r) = L + 3 /\ Len(MirrorWrites(m)) = 3
      /\ \A i \in 1..L : r[i] = writes[e][i]
      /\ r[L + 1].step = "peerAdd" /\ r[L + 1].msg = m
      /\ r[L + 2].step = "ownRecent" /\ r[L + 2].msg = m
      /\ r[L + 3].step = "peerRecent" /\ r[L + 3].msg = m
  BY <1>4, <1>a, <1>c
<1>6. /\ writes'[e] = r /\ \A f \in Device : f # e => writes'[f] = writes[f]
      /\ writes' \in [Device -> Seq(Write)]
  BY <1>0, <1>4, <1>5, <1>a DEF TypeOK
<1>7. /\ main'[d] = Tail(main[d]) /\ \A f \in Device : f # d => main'[f] = main[f]
      /\ main' \in [Device -> Seq(Completion)]
  BY <1>0, <1>2 DEF TypeOK
<1>8. \A i : i \in 1..(L + 3) <=> i \in 1..L \/ i = L + 1 \/ i = L + 2 \/ i = L + 3
  BY <1>5
<1>9. ~ (L + 1 \in 1..L) /\ ~ (L + 2 \in 1..L) /\ ~ (L + 3 \in 1..L)
      /\ L + 1 # L + 2 /\ L + 1 # L + 3 /\ L + 2 # L + 3
  BY <1>5
<1>10. ASSUME NEW f \in Device, NEW i, NEW step, NEW x
       PROVE  Queued(f, i, step, x)' <=>
                \/ Queued(f, i, step, x)
                \/ /\ f = e /\ x = m
                   /\ \/ i = L + 1 /\ step = "peerAdd"
                      \/ i = L + 2 /\ step = "ownRecent"
                      \/ i = L + 3 /\ step = "peerRecent"
  <2>1. CASE f # e
    BY <1>6, <2>1 DEF Queued
  <2>2. CASE f = e /\ i \in 1..L
    BY <1>5, <1>6, <1>8, <1>9, <2>2 DEF Queued
  <2>3. CASE f = e /\ i \notin 1..L
    <3>1. /\ writes'[f] = r /\ Len(writes'[f]) = L + 3
          /\ ~ Queued(f, i, step, x)
      BY <1>5, <1>6, <2>3 DEF Queued
    <3>2. Queued(f, i, step, x)' <=>
            i \in 1..(L + 3) /\ r[i].step = step /\ r[i].msg = x
      BY <3>1 DEF Queued
    <3>3. CASE i \notin 1..(L + 3)
      BY <1>8, <2>3, <3>1, <3>2, <3>3
    <3>4. CASE i = L + 1
      BY <1>5, <1>8, <1>9, <2>3, <3>1, <3>2, <3>4
    <3>5. CASE i = L + 2
      BY <1>5, <1>8, <1>9, <2>3, <3>1, <3>2, <3>5
    <3>6. CASE i = L + 3
      BY <1>5, <1>8, <1>9, <2>3, <3>1, <3>2, <3>6
    <3> QED  BY <1>8, <2>3, <3>3, <3>4, <3>5, <3>6
  <2> QED  BY <2>1, <2>2, <2>3
<1>11. ASSUME NEW f \in Device, NEW i, NEW x
       PROVE  Holding(f, 3, i, x)' <=> Holding(f, 3, i, x)
  <2>1. CASE f # e
    BY <1>6, <2>1 DEF Holding
  <2>2. CASE f = e /\ i \in 1..L
    BY <1>5, <1>6, <1>8, <2>2 DEF Holding
  <2>3. CASE f = e /\ i \notin 1..L
    BY <1>5, <1>6, <1>8, <2>3 DEF Holding
  <2> QED  BY <2>1, <2>2, <2>3
<1>12. ASSUME NEW i, NEW x
       PROVE  Holding(d, 2, i, x)' <=> i \in Nat \ {0} /\ Holding(d, 2, i + 1, x)
  <2>1. i \in 1..(M - 1) <=> i \in Nat \ {0} /\ i + 1 \in 1..M
    BY <1>1
  <2>2. CASE i \in 1..(M - 1)
    BY <1>2, <1>7, <2>1, <2>2 DEF Holding
  <2>3. CASE i \notin 1..(M - 1)
    BY <1>2, <1>7, <2>1, <2>3 DEF Holding
  <2> QED  BY <2>2, <2>3
<1>13. Holding(d, 2, 1, m)
  BY <1>0, <1>2 DEF Holding
<1>14. \A f \in Device : \A i, x : f # d => (Holding(f, 2, i, x)' <=> Holding(f, 2, i, x))
  BY <1>7 DEF Holding
<1> QED
  BY <1>3, <1>5, <1>6, <1>7, <1>10, <1>11, <1>12, <1>13, <1>14
  DEF MirroredTypes, MirroredHandlers, MirroredQueues

\* The handler of the partner's copy leaves the main queue.
LEMMA UploadedEffect ==
  ASSUME TypeOK, NEW d \in Device, UploadDone(d)
  PROVE  /\ writes' = writes
         /\ \A e \in Device : \A s, i, m : e # d => (Holding(e, s, i, m)' <=> Holding(e, s, i, m))
         /\ \A e \in Device : \A i, step, m : Queued(e, i, step, m)' <=> Queued(e, i, step, m)
         /\ \A s, i, m : s # 2 => (Holding(d, s, i, m)' <=> Holding(d, s, i, m))
         /\ \A i, m : Holding(d, 2, i, m)' <=> i \in Nat \ {0} /\ Holding(d, 2, i + 1, m)
         /\ \A m : ~ Holding(d, 2, 1, m)
<1> DEFINE M == Len(main[d])
<1>1. /\ writes' = writes /\ main' = [main EXCEPT ![d] = Tail(@)] /\ main[d] # << >>
      /\ Head(main[d]).step = "peerAdd"
  BY DEF UploadDone
<1>2. main[d] \in Seq(Completion) /\ M \in Nat
  BY DEF TypeOK
<1>3. /\ Head(main[d]) = main[d][1] /\ Len(Tail(main[d])) = M - 1
      /\ \A i \in 1..(M - 1) : Tail(main[d])[i] = main[d][i + 1]
  BY <1>1, <1>2
<1>4. main'[d] = Tail(main[d]) /\ \A e \in Device : e # d => main'[e] = main[e]
  BY <1>1 DEF TypeOK
<1>5. ASSUME NEW i, NEW m
      PROVE  Holding(d, 2, i, m)' <=> i \in Nat \ {0} /\ Holding(d, 2, i + 1, m)
  <2>1. i \in 1..(M - 1) <=> i \in Nat \ {0} /\ i + 1 \in 1..M
    BY <1>2
  <2>2. CASE i \in 1..(M - 1)
    BY <1>3, <1>4, <2>1, <2>2 DEF Holding
  <2>3. CASE i \notin 1..(M - 1)
    BY <1>3, <1>4, <2>1, <2>3 DEF Holding
  <2> QED  BY <2>2, <2>3
<1>6. \A m : ~ Holding(d, 2, 1, m)
  BY <1>1, <1>3 DEF Holding
<1>7. \A e \in Device : \A i, step, m : Queued(e, i, step, m)' <=> Queued(e, i, step, m)
  BY <1>1 DEF Queued
<1>8. \A e \in Device : \A s, i, m : e # d \/ s # 2 => (Holding(e, s, i, m)' <=> Holding(e, s, i, m))
  BY <1>1, <1>4 DEF Holding
<1> QED  BY <1>1, <1>5, <1>6, <1>7, <1>8

\* The oldest write leaves the queue, and its handler is dispatched.
LEMMA PopEffect ==
  ASSUME TypeOK, NEW d \in Device, NEW ok \in BOOLEAN, stored[d] > 0,
         writes' = [writes EXCEPT ![d] = Tail(@)],
         main' = [main EXCEPT ![d] = Notify(@, Head(writes[d]), ok)],
         NEW M, M = Len(main[d])
  PROVE  /\ M \in Nat /\ Len(writes'[d]) = Len(writes[d]) - 1
         /\ \A e \in Device : e # d => writes'[e] = writes[e] /\ main'[e] = main[e]
         /\ \A i, step, m : Queued(d, i, step, m)' <=>
              i \in Nat \ {0} /\ Queued(d, i + 1, step, m)
         /\ \A i, m : Holding(d, 1, i, m)' <=> i \in Nat \ {0} /\ Holding(d, 1, i + 1, m)
         /\ \A i, m : Holding(d, 2, i, m)' <=>
              Holding(d, 2, i, m) \/ (i = M + 1 /\ Holding(d, 3, 1, m))
         /\ \A i, m : Holding(d, 3, i, m)' <=> i \in Nat \ {0} /\ Holding(d, 3, i + 1, m)
         /\ \A i, m : Holding(d, 2, i, m) => i \in 1..M
         /\ \A step, m : Queued(d, 1, step, m) <=>
              step = Head(writes[d]).step /\ m = Head(writes[d]).msg
<1> DEFINE L == Len(writes[d])
<1>1. /\ Head(writes[d]) = writes[d][1] /\ 1 \in 1..L /\ L \in Nat
      /\ writes'[d] = Tail(writes[d]) /\ Len(writes'[d]) = L - 1
      /\ \A i \in 1..(L - 1) : writes'[d][i] = writes[d][i + 1]
  <2>1. writes'[d] = Tail(writes[d]) /\ L \in Nat
    BY DEF TypeOK
  <2> QED  BY <2>1, OldestWrite
<1>2. PICK w : w = Head(writes[d])
  OBVIOUS
<1>3. PICK c : c = [step |-> w.step, msg |-> w.msg, ok |-> ok]
  OBVIOUS
<1>4. main'[d] = IF w.cb THEN Append(main[d], c) ELSE main[d]
  BY <1>2, <1>3 DEF TypeOK, Notify
<1>5. main[d] \in Seq(Completion) /\ M \in Nat
  BY DEF TypeOK
<1>6. \A e \in Device : e # d => writes'[e] = writes[e] /\ main'[e] = main[e]
  BY DEF TypeOK
<1>7. \A i : i \in 1..(L - 1) <=> i \in Nat \ {0} /\ i + 1 \in 1..L
  BY <1>1
<1>8. ASSUME NEW i, NEW step, NEW m
      PROVE  /\ Queued(d, i, step, m)' <=> i \in Nat \ {0} /\ Queued(d, i + 1, step, m)
             /\ Holding(d, 1, i, m)' <=> i \in Nat \ {0} /\ Holding(d, 1, i + 1, m)
             /\ Holding(d, 3, i, m)' <=> i \in Nat \ {0} /\ Holding(d, 3, i + 1, m)
  <2>1. CASE i \in 1..(L - 1)
    BY <1>1, <1>7, <2>1 DEF Queued, Holding
  <2>2. CASE i \notin 1..(L - 1)
    BY <1>1, <1>7, <2>2 DEF Queued, Holding
  <2> QED  BY <2>1, <2>2
<1>9. ASSUME NEW i, NEW m
      PROVE  Holding(d, 2, i, m)' <=> Holding(d, 2, i, m) \/ (i = M + 1 /\ Holding(d, 3, 1, m))
  <2>1. CASE w.cb
    <3>1. main'[d] = Append(main[d], c)
      BY <1>4, <2>1
    <3>2. /\ Len(main'[d]) = M + 1 /\ main'[d][M + 1] = c
          /\ \A j \in 1..M : main'[d][j] = main[d][j]
      BY <1>5, <3>1
    <3>3. i \in 1..(M + 1) <=> i \in 1..M \/ i = M + 1
      BY <1>5
    <3>4. ~ (M + 1 \in 1..M)
      BY <1>5
    <3>5. Holding(d, 3, 1, m) <=> c.step = "ownAdd" /\ c.msg = m
      BY <1>1, <1>2, <1>3, <2>1 DEF Holding
    <3>6. CASE i \in 1..M
      BY <3>2, <3>3, <3>4, <3>6 DEF Holding
    <3>7. CASE i \notin 1..M
      BY <3>2, <3>3, <3>5, <3>7 DEF Holding
    <3> QED  BY <3>6, <3>7
  <2>2. CASE ~ w.cb
    <3>1. main'[d] = main[d]
      BY <1>4, <2>2
    <3>2. ~ Holding(d, 3, 1, m)
      BY <1>1, <1>2, <2>2 DEF Holding
    <3> QED  BY <3>1, <3>2 DEF Holding
  <2> QED  BY <2>1, <2>2
<1>10. \A step, m : Queued(d, 1, step, m) <=>
         step = Head(writes[d]).step /\ m = Head(writes[d]).msg
  BY <1>1 DEF Queued
<1>11. \A i, m : Holding(d, 2, i, m) => i \in 1..M
  BY DEF Holding
<1> QED  BY <1>1, <1>5, <1>6, <1>8, <1>9, <1>10, <1>11

\* A kill leaves the persisted writes, and no handler.
LEMMA KillEffect ==
  ASSUME TypeOK, KillAll
  PROVE  /\ writes' \in [Device -> Seq(Write)]
         /\ \A d \in Device : Len(writes'[d]) = stored[d]
         /\ \A d \in Device : \A i, step, m : Queued(d, i, step, m)' => Queued(d, i, step, m)
         /\ \A d \in Device : \A s, i, m : Holding(d, s, i, m)' => s = 1 /\ Holding(d, 1, i, m)
<1>1. /\ writes' = [d \in Device |-> Restored(writes[d], stored[d])]
      /\ main' = [d \in Device |-> << >>]
  BY DEF KillAll
<1>2. ASSUME NEW d \in Device
      PROVE  /\ writes'[d] \in Seq(Write) /\ Len(writes'[d]) = stored[d]
             /\ \A i \in 1..stored[d] : /\ i \in 1..Len(writes[d])
                                        /\ writes'[d][i].step = writes[d][i].step
                                        /\ writes'[d][i].msg = writes[d][i].msg
                                        /\ writes'[d][i].cb = FALSE
             /\ Len(main'[d]) = 0
  <2>1. writes'[d] = Restored(writes[d], stored[d]) /\ main'[d] = << >>
    BY <1>1
  <2>2. writes[d] \in Seq(Write) /\ stored[d] \in Nat /\ stored[d] <= Len(writes[d])
    BY DEF TypeOK
  <2>3. writes'[d] \in Seq(Write) /\ Len(writes'[d]) = stored[d]
    BY <2>1, <2>2, RestoredType
  <2>4. ASSUME NEW i \in 1..stored[d]
        PROVE  /\ i \in 1..Len(writes[d])
               /\ writes'[d][i].step = writes[d][i].step
               /\ writes'[d][i].msg = writes[d][i].msg
               /\ writes'[d][i].cb = FALSE
    <3>1. i \in 1..Len(writes[d]) /\ writes[d][i] \in Write
      BY <2>2, ElementOfSeq
    <3>2. writes'[d][i] = [writes[d][i] EXCEPT !.cb = FALSE]
      BY <2>1 DEF Restored
    <3> QED  BY <3>1, <3>2 DEF Write
  <2> QED  BY <2>1, <2>3, <2>4
<1>3. ASSUME NEW d \in Device, NEW i, NEW step, NEW m, Queued(d, i, step, m)'
      PROVE  Queued(d, i, step, m)
  BY <1>2, <1>3 DEF Queued
<1>4. ASSUME NEW d \in Device, NEW s, NEW i, NEW m, Holding(d, s, i, m)'
      PROVE  s = 1 /\ Holding(d, 1, i, m)
  <2>1. s # 2
    <3>1. i \notin 1..Len(main'[d])
      <4>1. Len(main'[d]) = 0
        BY <1>2
      <4> QED  BY <4>1
    <3> QED  BY <1>4, <3>1 DEF Holding
  <2>2. i \in 1..stored[d]
    BY <1>2, <1>4, <2>1 DEF Holding
  <2>3. writes'[d][i].cb = FALSE
    BY <1>2, <2>2
  <2>4. s = 1 /\ writes'[d][i].step = "peerAdd" /\ writes'[d][i].msg = m
    BY <1>4, <2>1, <2>3 DEF Holding
  <2> QED  BY <1>2, <2>2, <2>4 DEF Holding
<1>5. writes' \in [Device -> Seq(Write)]
  BY <1>1, <1>2
<1> QED  BY <1>2, <1>3, <1>4, <1>5

-----------------------------------------------------------------------------
(***************************************************************************)
(* The inductive invariants.  A queue holds messages of its user, and the  *)
(* last writes of messages that went astray (Owned); only the handler that *)
(* runs on the main queue of its user takes a message to the queue of      *)
(* another.                                                                *)
(***************************************************************************)

\* The messages of a user that go through the queue of that user alone.
Mine(d, m) == m.dev = d /\ m \notin astray

\* What a queue holds was sent, by its user, or by another and is astray.
Owned ==
  \A d \in Device :
    /\ \A i, step, m : Queued(d, i, step, m) =>
         m \in sent /\ (m.dev = d \/ (step # "ownAdd" /\ m \in astray))
    /\ \A m : Held(d, m) => m \in sent /\ m.dev = d

\* Messages are numbered, and for somebody else; nothing else is delivered.
Sound == Numbered /\ DeliveredSent /\ \A m \in sent : m.to # From(m)

\* A partner's copy that waits for its acknowledgement has been applied.
InFlightDelivered ==
  \A d \in Device : \A i, m :
    Queued(d, i, "peerAdd", m) /\ i <= inflight[d] => Delivered(m)

-----------------------------------------------------------------------------
(* Types.                                                                  *)

LEMMA ToldFacts ==
  ASSUME SharedTypeOK
  PROVE  /\ TypeOK /\ told \in Seq(Stays) /\ told # << >> /\ Len(told) \in Nat \ {0}
         /\ told[Len(told)].user = current /\ current \in Device
         /\ Head(told) = told[1] /\ told[1] \in Stays /\ Serving = told[1].user
         /\ \A d \in Device : Len(writes[d]) - stored[d] = Tasks(told, d)
         /\ \A d \in Device : Len(writes[d]) \in Nat /\ stored[d] \in Nat
<1>1. /\ TypeOK /\ current \in Device /\ told \in Seq(Stays) /\ told # << >>
      /\ told[Len(told)].user = current
      /\ \A d \in Device : Len(writes[d]) - stored[d] = Tasks(told, d)
  BY DEF SharedTypeOK, Newest, Stays
<1>2. \A d \in Device : Len(writes[d]) \in Nat /\ stored[d] \in Nat
  BY <1>1 DEF TypeOK
<1>3. Len(told) \in Nat \ {0} /\ Head(told) = told[1] /\ told[1] \in Stays
  BY <1>1
<1>4. Serving = told[1].user
  BY <1>3 DEF Serving
<1> QED  BY <1>1, <1>2, <1>3, <1>4

\* The last user told of, when the worker queue only changes in its tasks.
LEMMA SameUsers ==
  ASSUME NEW stays \in Seq(Stays), NEW new \in Seq(Stays), stays # << >>,
         Len(new) = Len(stays), \A i \in 1..Len(stays) : new[i].user = stays[i].user
  PROVE  new # << >> /\ new[Len(new)].user = stays[Len(stays)].user
<1>1. Len(stays) \in 1..Len(stays) /\ Len(stays) # 0
  OBVIOUS
<1> QED  BY <1>1

LEMMA SendShared ==
  ASSUME SharedTypeOK, NEW p \in User, SendMessage(p) PROVE SharedTypeOK'
<1>1. /\ Send(current, p) /\ current' = current /\ signIns' = signIns /\ astray' = astray
      /\ told' = [told EXCEPT ![Len(told)].tasks = @ + 1]
  BY DEF SendMessage, Issue
<1>2. TypeOK /\ current \in Device
  BY ToldFacts
<1>3. TypeOK'
  BY <1>1, <1>2, SendType
<1>4. told \in Seq(Stays) /\ told # << >> /\ 1 \in Nat
  BY ToldFacts
<1>5. /\ told' \in Seq(Stays) /\ Len(told') = Len(told)
      /\ \A i \in 1..Len(told) : told'[i].user = told[i].user
      /\ \A d : Tasks(told', d) = Tasks(told, d) + IF told[Len(told)].user = d THEN 1 ELSE 0
  BY <1>1, <1>4, TasksIssued
<1>6. told' # << >> /\ told'[Len(told')].user = current
  BY <1>4, <1>5, SameUsers, ToldFacts
<1>7. /\ Len(writes'[current]) = Len(writes[current]) + 1 /\ stored' = stored
      /\ \A d \in Device : d # current => writes'[d] = writes[d]
  BY <1>1, <1>2 DEF Send, TypeOK
<1>8. ASSUME NEW d \in Device PROVE Len(writes'[d]) - stored'[d] = Tasks(told', d)
  <2>1. /\ Len(writes[d]) - stored[d] = Tasks(told, d) /\ told[Len(told)].user = current
        /\ Len(writes[d]) \in Nat /\ stored[d] \in Nat
    BY ToldFacts
  <2>2. CASE d = current
    <3>1. Tasks(told', d) = Tasks(told, d) + 1
      BY <1>5, <2>1, <2>2
    <3>2. stored'[d] = stored[d] /\ Len(writes'[d]) = Len(writes[d]) + 1
      BY <1>7, <2>2
    <3> QED  BY <2>1, <3>1, <3>2
  <2>3. CASE d # current
    <3>1. Tasks(told', d) = Tasks(told, d) + 0
      BY <1>5, <2>1, <2>3
    <3>2. stored'[d] = stored[d] /\ writes'[d] = writes[d]
      BY <1>7, <2>3
    <3> QED  BY <2>1, <3>1, <3>2
  <2> QED  BY <2>2, <2>3
<1>9. sent \subseteq sent'
  BY <1>1 DEF Send
<1> QED  BY <1>1, <1>2, <1>3, <1>5, <1>6, <1>8, <1>9 DEF SharedTypeOK, Newest, Stays

LEMMA MirrorShared ==
  ASSUME SharedTypeOK, Owned, NEW d \in Device, MirrorAnywhere(d) PROVE SharedTypeOK'
<1>a. PICK m : m = Head(main[d]).msg
  OBVIOUS
<1>b. PICK e : e = Newest
  OBVIOUS
<1>c. PICK L : L = Len(writes[e])
  OBVIOUS
<1>1. /\ main[d] # << >> /\ Head(main[d]).step = "ownAdd"
      /\ writes' = [writes EXCEPT ![e] = @ \o MirrorWrites(m)]
      /\ main' = [main EXCEPT ![d] = Tail(@)]
      /\ told' = [told EXCEPT ![Len(told)].tasks = @ + Len(MirrorWrites(m))]
      /\ astray' \subseteq astray \cup {m}
      /\ UNCHANGED <<backend, stored, inflight, draft, history, current, signIns>>
  BY <1>a, <1>b DEF MirrorAnywhere, Issue
<1>2. TypeOK /\ e \in Device /\ e = current
  BY <1>b, ToldFacts DEF Newest
<1>3. /\ m \in Message /\ Holding(d, 2, 1, m) /\ L \in Nat
      /\ writes' \in [Device -> Seq(Write)] /\ main' \in [Device -> Seq(Completion)]
      /\ Len(writes'[e]) = L + 3 /\ Len(MirrorWrites(m)) = 3
      /\ \A f \in Device : f # e => writes'[f] = writes[f]
  <2>1. Mirrors(d, e, m)
    BY <1>1, <1>a DEF Mirrors
  <2>2. MirroredTypes(d, e, m, L)
    BY <1>2, <1>c, <2>1, MirrorEffect
  <2> QED  BY <2>2 DEF MirroredTypes
<1>4. TypeOK'
  <2>1. \A f \in Device : inflight'[f] <= stored'[f] /\ stored'[f] <= Len(writes'[f])
    <3> TAKE f \in Device
    <3>1. Len(writes[f]) \in Nat /\ stored[f] \in Nat /\ stored[f] <= Len(writes[f])
          /\ inflight[f] <= stored[f]
      BY <1>2 DEF TypeOK
    <3>2. Len(writes'[f]) >= Len(writes[f]) /\ Len(writes'[f]) \in Nat
      <4>1. CASE f = e
        BY <1>3, <1>c, <4>1
      <4>2. CASE f # e
        <5>1. writes'[f] = writes[f]
          BY <1>3, <4>2
        <5> QED  BY <3>1, <5>1
      <4> QED  BY <4>1, <4>2
    <3>3. inflight'[f] = inflight[f] /\ stored'[f] = stored[f]
      BY <1>1
    <3> QED  BY <3>1, <3>2, <3>3
  <2> QED  BY <1>1, <1>2, <1>3, <2>1 DEF TypeOK, backend, history
<1>5. told \in Seq(Stays) /\ told # << >> /\ 3 \in Nat
  BY ToldFacts
<1>6. told' = [told EXCEPT ![Len(told)].tasks = @ + 3]
  BY <1>1, <1>3
<1>7. /\ told' \in Seq(Stays) /\ Len(told') = Len(told)
      /\ \A i \in 1..Len(told) : told'[i].user = told[i].user
      /\ \A f : Tasks(told', f) = Tasks(told, f) + IF told[Len(told)].user = f THEN 3 ELSE 0
  BY <1>5, <1>6, TasksIssued
<1>8. told' # << >> /\ told'[Len(told')].user = current
  BY <1>5, <1>7, SameUsers, ToldFacts
<1>9. ASSUME NEW f \in Device PROVE Len(writes'[f]) - stored'[f] = Tasks(told', f)
  <2>1. /\ Len(writes[f]) - stored[f] = Tasks(told, f) /\ told[Len(told)].user = e
        /\ Len(writes[f]) \in Nat /\ stored[f] \in Nat
    BY <1>2, ToldFacts
  <2>2. Tasks(told', f) = Tasks(told, f) + IF f = e THEN 3 ELSE 0
    BY ONLY <1>7, <2>1
  <2>3. stored'[f] = stored[f]
    BY <1>1
  <2>4. CASE f = e
    <3>1. Len(writes'[f]) = Len(writes[f]) + 3
      BY <1>3, <1>c, <2>4
    <3>2. Tasks(told', f) = Tasks(told, f) + 3
      BY <2>2, <2>4
    <3> QED  BY <2>1, <2>3, <3>1, <3>2
  <2>5. CASE f # e
    <3>1. writes'[f] = writes[f]
      BY <1>3, <2>5
    <3> QED  BY <2>1, <2>2, <2>3, <2>5, <3>1
  <2> QED  BY <2>4, <2>5
<1>10. astray' \in SUBSET sent'
  <2>1. m \in sent
    BY <1>3 DEF Owned, Held
  <2> QED  BY <1>1, <2>1 DEF SharedTypeOK, history
<1> QED  BY <1>1, <1>2, <1>4, <1>7, <1>8, <1>9, <1>10 DEF SharedTypeOK, Newest, Stays

LEMMA PersistShared ==
  ASSUME SharedTypeOK, NEW d \in Device, Persist(d) PROVE SharedTypeOK'
<1>1. /\ d = Serving /\ Head(told).tasks > 0 /\ WriteLocally(d)
      /\ told' = [told EXCEPT ![1].tasks = @ - 1]
      /\ current' = current /\ signIns' = signIns /\ astray' = astray
  BY DEF Persist
<1>2. TypeOK /\ current \in Device
  BY ToldFacts
<1>3. TypeOK'
  BY <1>1, <1>2, WriteLocallyType
<1>4. told \in Seq(Stays) /\ told # << >>
  BY ToldFacts
<1>5. /\ told' \in Seq(Stays) /\ Len(told') = Len(told)
      /\ \A i \in 1..Len(told) : told'[i].user = told[i].user
      /\ \A f : Tasks(told', f) = Tasks(told, f) - IF Head(told).user = f THEN 1 ELSE 0
  BY <1>1, <1>4, TasksDone
<1>6. told' # << >> /\ told'[Len(told')].user = current
  BY <1>4, <1>5, SameUsers, ToldFacts
<1>7. /\ writes' = writes /\ sent' = sent /\ Head(told).user = d
      /\ stored' = [stored EXCEPT ![d] = @ + 1]
  BY <1>1 DEF WriteLocally, history, Serving
<1>8. ASSUME NEW f \in Device PROVE Len(writes'[f]) - stored'[f] = Tasks(told', f)
  <2>1. /\ Len(writes[f]) - stored[f] = Tasks(told, f)
        /\ Len(writes[f]) \in Nat /\ stored[f] \in Nat
    BY ToldFacts
  <2>2. Tasks(told', f) = Tasks(told, f) - IF d = f THEN 1 ELSE 0
    BY <1>5, <1>7
  <2>3. stored'[f] = stored[f] + IF d = f THEN 1 ELSE 0
    <3>1. stored \in [Device -> Nat]
      BY <1>2 DEF TypeOK
    <3>2. CASE f = d
      BY <1>7, <2>1, <3>1, <3>2
    <3>3. CASE f # d
      BY <1>7, <2>1, <3>1, <3>3
    <3> QED  BY <3>2, <3>3
  <2>4. Len(writes'[f]) = Len(writes[f])
    BY <1>7
  <2>5. CASE f = d
    BY <2>1, <2>2, <2>3, <2>4, <2>5
  <2>6. CASE f # d
    BY <2>1, <2>2, <2>3, <2>4, <2>6
  <2> QED  BY <2>5, <2>6
<1> QED  BY <1>1, <1>2, <1>3, <1>5, <1>6, <1>7, <1>8 DEF SharedTypeOK, Newest, Stays

\* The steps of one user's client and main queue that leave the worker queue alone.
LEMMA ClientShared ==
  ASSUME SharedTypeOK, NEW d \in Device, UNCHANGED phoneVars,
         Commit(d) \/ Ack(d) \/ Reject(d) \/ Disconnect(d) \/ UploadDone(d)
  PROVE  SharedTypeOK'
<1>1. TypeOK
  BY ToldFacts
<1>2. TypeOK'
  BY <1>1, CommitType, AckType, RejectType, DisconnectType, UploadDoneType
<1>3. sent' = sent
  BY DEF Commit, Ack, Reject, Disconnect, UploadDone, history
<1>4. \A f \in Device : Len(writes'[f]) - stored'[f] = Len(writes[f]) - stored[f]
  <2> SUFFICES ASSUME NEW f \in Device
               PROVE  Len(writes'[f]) - stored'[f] = Len(writes[f]) - stored[f]
    OBVIOUS
  <2>1. CASE Ack(d) \/ Reject(d)
    <3>1. /\ stored[d] > 0 /\ writes' = [writes EXCEPT ![d] = Tail(@)]
          /\ stored' = [stored EXCEPT ![d] = @ - 1]
      <4>1. CASE Ack(d)
        BY <1>1, <4>1 DEF Ack, TypeOK
      <4>2. CASE Reject(d)
        BY <4>2 DEF Reject
      <4> QED  BY <2>1, <4>1, <4>2
    <3>2. Len(writes'[d]) = Len(writes[d]) - 1 /\ stored'[d] = stored[d] - 1
      BY <1>1, <3>1, OldestWrite DEF TypeOK
    <3>3. Len(writes[d]) \in Nat /\ stored[d] \in Nat
      BY ToldFacts
    <3>4. f # d => writes'[f] = writes[f] /\ stored'[f] = stored[f]
      BY <1>1, <3>1 DEF TypeOK
    <3>5. CASE f = d
      BY <3>2, <3>3, <3>5
    <3>6. CASE f # d
      BY <3>4, <3>6
    <3> QED  BY <3>5, <3>6
  <2>2. CASE Commit(d) \/ Disconnect(d) \/ UploadDone(d)
    BY <2>2 DEF Commit, Disconnect, UploadDone
  <2> QED  BY <2>1, <2>2
<1> QED  BY <1>2, <1>3, <1>4 DEF SharedTypeOK, Newest, phoneVars

LEMMA TellShared ==
  ASSUME SharedTypeOK, NEW d \in Device, current' = d, told' = Append(told, Stay(d)),
         signIns' \in 0..MaxSignIns, UNCHANGED <<vars, astray>>
  PROVE  SharedTypeOK'
<1>1. TypeOK'
  BY ToldFacts DEF TypeOK, vars, backend, client, history
<1>2. told \in Seq(Stays) /\ Stay(d) \in Stays /\ Stay(d).user = d /\ Len(told) \in Nat
  BY ToldFacts DEF Stay, Stays
<1>3. \A f : Tasks(told', f) = Tasks(told, f) + Share(Stay(d), f)
  BY <1>2, TasksAppend
<1>4. \A f \in Device : Share(Stay(d), f) = 0 /\ Tasks(told, f) \in Int
  BY ToldFacts DEF Share, Stay
<1>5. /\ told' \in Seq(Stays) /\ told' # << >> /\ told'[Len(told')].user = d
  BY <1>2
<1>6. writes' = writes /\ stored' = stored /\ sent' = sent
  BY DEF vars, client, history
<1>7. ASSUME NEW f \in Device PROVE Len(writes'[f]) - stored'[f] = Tasks(told', f)
  BY <1>3, <1>4, <1>6, ToldFacts
<1> QED  BY <1>1, <1>5, <1>6, <1>7 DEF SharedTypeOK, Newest, Stays

LEMMA ChangeShared ==
  ASSUME SharedTypeOK, ChangeUser PROVE SharedTypeOK'
<1>1. /\ Len(told) > 1 /\ Head(told).tasks = 0 /\ told' = Tail(told)
      /\ inflight' = [inflight EXCEPT ![Serving] = 0]
      /\ UNCHANGED <<backend, writes, stored, main, draft, history, current, signIns, astray>>
  BY DEF ChangeUser
<1>2. TypeOK'
  <2>1. TypeOK
    BY ToldFacts
  <2>2. inflight' \in [Device -> Nat]
    BY <1>1, <2>1 DEF TypeOK
  <2>3. \A f \in Device : 0 <= stored[f] /\ inflight'[f] = IF f = Serving THEN 0 ELSE inflight[f]
    BY <1>1, <2>1 DEF TypeOK
  <2>4. \A f \in Device : inflight'[f] <= stored'[f] /\ stored'[f] <= Len(writes'[f])
    BY <1>1, <2>1, <2>3 DEF TypeOK
  <2> QED  BY <1>1, <2>1, <2>2, <2>4 DEF TypeOK, backend, history
<1>3. told \in Seq(Stays) /\ told # << >> /\ Len(told) \in Nat
  BY ToldFacts
<1>4. \A f : Tasks(told', f) = Tasks(told, f)
  BY <1>1, <1>3, TasksTail
<1>5. told' \in Seq(Stays) /\ told' # << >> /\ told'[Len(told')] = told[Len(told)]
  <2>1. PICK N, new : N = Len(told) /\ new = Tail(told)
    OBVIOUS
  <2>2. /\ new \in Seq(Stays) /\ Len(new) = N - 1 /\ N \in Nat /\ N > 1
        /\ \A i \in 1..(N - 1) : new[i] = told[i + 1]
    BY <1>1, <1>3, <2>1
  <2>3. N - 1 \in 1..(N - 1) /\ (N - 1) + 1 = N
    BY <2>2
  <2>4. new # << >> /\ new[N - 1] = told[N]
    BY <2>2, <2>3
  <2> QED  BY <1>1, <2>1, <2>2, <2>4
<1> QED  BY <1>1, <1>2, <1>4, <1>5, ToldFacts DEF SharedTypeOK, Newest, Stays, history

LEMMA KillShared ==
  ASSUME SharedTypeOK, KillAll PROVE SharedTypeOK'
<1>1. TypeOK /\ current \in Device
  BY ToldFacts
<1>2. /\ writes' \in [Device -> Seq(Write)]
      /\ \A d \in Device : Len(writes'[d]) = stored[d]
  BY <1>1, KillEffect
<1>3. /\ inflight' = [d \in Device |-> 0] /\ main' = [d \in Device |-> << >>]
      /\ launched' = nsent /\ kills' = [d \in Device |-> kills[d] + 1]
      /\ \A d \in Device : kills[d] < MaxKills
      /\ told' = <<Stay(current)>>
      /\ UNCHANGED <<backend, stored, draft, nsent, sent, rejected, current, signIns, astray>>
  BY DEF KillAll
<1>4. TypeOK'
  <2>1. /\ inflight' \in [Device -> Nat] /\ main' \in [Device -> Seq(Completion)]
        /\ launched' \in [Device -> 0..MaxSends]
    BY <1>1, <1>3 DEF TypeOK
  <2>2. kills' \in [Device -> 0..MaxKills]
    <3>1. kills \in [Device -> 0..MaxKills] /\ MaxKills \in Nat
      BY <1>1, ConstantsAssumption DEF TypeOK
    <3>2. \A d \in Device : kills[d] + 1 \in 0..MaxKills
      BY <1>3, <3>1
    <3> QED  BY <1>3, <3>2
  <2>3. \A d \in Device : inflight'[d] <= stored'[d] /\ stored'[d] <= Len(writes'[d])
    BY <1>1, <1>2, <1>3 DEF TypeOK
  <2> QED  BY <1>1, <1>2, <1>3, <2>1, <2>2, <2>3 DEF TypeOK, backend
<1>5. told' \in Seq(Stays) /\ \A d : Tasks(told', d) = 0
  BY <1>1, <1>3, TasksNone
<1>6. told' # << >> /\ told'[Len(told')].user = current
  BY <1>3 DEF Stay
<1>7. \A d \in Device : Len(writes'[d]) - stored'[d] = Tasks(told', d)
  BY <1>2, <1>3, <1>5, ToldFacts
<1> QED  BY <1>3, <1>4, <1>5, <1>6, <1>7 DEF SharedTypeOK, Newest, Stays

-----------------------------------------------------------------------------
(* What each step does, in the terms of the invariants.                    *)

\* The queues and the pipelines of the other users are left alone.
OthersSame(d) ==
  \A e \in Device : e # d =>
    /\ inflight'[e] = inflight[e]
    /\ \A i, step, m : Queued(e, i, step, m)' <=> Queued(e, i, step, m)
    /\ \A s, i, m : Holding(e, s, i, m)' <=> Holding(e, s, i, m)

\* Nothing is put on a queue; a handler may leave the head of a main queue.
Idles ==
  /\ thread' = thread /\ recent' = recent /\ sent' = sent /\ nsent' = nsent
  /\ launched' = launched /\ rejected' = rejected /\ astray' = astray
  /\ \A e \in Device :
       /\ inflight'[e] <= inflight[e]
       /\ \A i, step, m : Queued(e, i, step, m)' <=> Queued(e, i, step, m)
       /\ \A s, i, m : s # 2 => (Holding(e, s, i, m)' <=> Holding(e, s, i, m))
       /\ \A m : Held(e, m)' <=> Held(e, m)
       /\ \E y \in {0, 1} : \A i, m : Holding(e, 2, i, m)' => Holding(e, 2, i + y, m)

Sends(d, new, L) ==
  /\ thread' = thread /\ recent' = recent /\ launched' = launched
  /\ rejected' = rejected /\ astray' = astray /\ inflight' = inflight
  /\ new \in Message /\ new.dev = d /\ new.to # From(new) /\ new.n = nsent[d] + 1
  /\ nsent' = [nsent EXCEPT ![d] = @ + 1] /\ sent' = sent \cup {new}
  /\ OthersSame(d)
  /\ L \in Nat
  /\ \A i, step, m : Queued(d, i, step, m) => i \in 1..L
  /\ \A i, m : Holding(d, 1, i, m)' <=> Holding(d, 1, i, m)
  /\ \A i, m : Holding(d, 2, i, m)' <=> Holding(d, 2, i, m)
  /\ \A i, m : Holding(d, 3, i, m)' <=> Holding(d, 3, i, m) \/ (i = L + 1 /\ m = new)
  /\ \A i, step, m : Queued(d, i, step, m)' <=>
       Queued(d, i, step, m) \/ (i = L + 1 /\ step = "ownAdd" /\ m = new)

\* The handler of m, dispatched for d, writes to the queue of e.
Forwards(d, e, m, L) ==
  /\ thread' = thread /\ recent' = recent /\ sent' = sent /\ nsent' = nsent
  /\ launched' = launched /\ rejected' = rejected /\ inflight' = inflight
  /\ astray' = IF m.dev = e THEN astray ELSE astray \cup {m}
  /\ L \in Nat
  /\ \A i, step, x : Queued(e, i, step, x) => i \in 1..L
  /\ \A x : Holding(d, 2, 1, x) <=> x = m
  /\ MirroredHandlers(d)
  /\ MirroredQueues(e, m, L)

\* The oldest write of d, which is done or refused, leaves the queue.
Takes(d, M) ==
  /\ thread' = thread /\ recent' = recent /\ sent' = sent /\ nsent' = nsent
  /\ launched' = launched /\ rejected \subseteq rejected' /\ astray' = astray
  /\ OthersSame(d)
  /\ M \in Nat
  /\ \A i, m : Holding(d, 2, i, m) => i \in 1..M
  /\ \A i, step, m : Queued(d, i, step, m)' <=> i \in Nat \ {0} /\ Queued(d, i + 1, step, m)
  /\ \A i, m : Holding(d, 1, i, m)' <=> i \in Nat \ {0} /\ Holding(d, 1, i + 1, m)
  /\ \A i, m : Holding(d, 2, i, m)' <=> Holding(d, 2, i, m) \/ (i = M + 1 /\ Holding(d, 3, 1, m))
  /\ \A i, m : Holding(d, 3, i, m)' <=> i \in Nat \ {0} /\ Holding(d, 3, i + 1, m)
  /\ \A i \in Nat \ {0} : i <= inflight'[d] => i + 1 <= inflight[d]
  /\ \A step, m : Queued(d, 1, step, m) => 1 <= inflight[d] \/ Refused(step, m)'

\* The backend applies write n of the queue of d.
Applies(d, n) ==
  /\ sent' = sent /\ nsent' = nsent /\ launched' = launched /\ rejected' = rejected
  /\ astray' = astray /\ writes' = writes /\ main' = main
  /\ n = inflight[d] + 1 /\ inflight' = [inflight EXCEPT ![d] = n]
  /\ \A m \in Message : Delivered(m) => Delivered(m)'
  /\ \A m : Queued(d, n, "peerAdd", m) => Delivered(m)'
  /\ \A m \in Message : Delivered(m)' => Delivered(m) \/ Queued(d, n, "peerAdd", m)

Dies ==
  /\ thread' = thread /\ recent' = recent /\ sent' = sent /\ nsent' = nsent
  /\ launched' = nsent /\ rejected' = rejected /\ astray' = astray
  /\ \A d \in Device :
       /\ inflight'[d] = 0
       /\ \A i, step, m : Queued(d, i, step, m)' => Queued(d, i, step, m)
       /\ \A s, i, m : Holding(d, s, i, m)' => s = 1 /\ Holding(d, 1, i, m)

LEMMA IdleStep ==
  ASSUME SharedTypeOK, NEW d \in Device,
         \/ SignOut \/ SignIn(d) \/ ChangeUser \/ Persist(d) \/ UNCHANGED sharedVars
         \/ (Disconnect(d) \/ UploadDone(d)) /\ UNCHANGED phoneVars
  PROVE  Idles
<1>1. TypeOK /\ \A e \in Device : inflight[e] \in Nat
  BY ToldFacts DEF TypeOK
<1>2. /\ thread' = thread /\ recent' = recent /\ sent' = sent /\ nsent' = nsent
      /\ launched' = launched /\ rejected' = rejected /\ astray' = astray /\ writes' = writes
  BY DEF SignOut, SignIn, ChangeUser, Persist, WriteLocally, Disconnect, UploadDone,
         sharedVars, phoneVars, vars, backend, client, history
<1>3. \A e \in Device : inflight'[e] <= inflight[e]
  <2>1. \/ inflight' = inflight \/ inflight' = [inflight EXCEPT ![Serving] = 0]
        \/ inflight' = [inflight EXCEPT ![d] = 0]
    BY DEF SignOut, SignIn, ChangeUser, Persist, WriteLocally, Disconnect, UploadDone,
           sharedVars, vars, client
  <2>2. inflight \in [Device -> Nat]
    BY <1>1 DEF TypeOK
  <2> QED  BY <2>1, <2>2
<1>4. CASE UploadDone(d)
  <2>1. /\ \A e \in Device : \A s, i, m : e # d => (Holding(e, s, i, m)' <=> Holding(e, s, i, m))
        /\ \A e \in Device : \A i, step, m : Queued(e, i, step, m)' <=> Queued(e, i, step, m)
        /\ \A s, i, m : s # 2 => (Holding(d, s, i, m)' <=> Holding(d, s, i, m))
        /\ \A i, m : Holding(d, 2, i, m)' <=> i \in Nat \ {0} /\ Holding(d, 2, i + 1, m)
        /\ \A m : ~ Holding(d, 2, 1, m)
    BY <1>1, <1>4, UploadedEffect
  <2>2. ASSUME NEW e \in Device PROVE \A m : Held(e, m)' <=> Held(e, m)
    <3>1. CASE e # d
      BY <2>1, <3>1 DEF Held
    <3>2. ASSUME NEW m, NEW i, Holding(d, 2, i, m) PROVE Holding(d, 2, i - 1, m)'
      <4>1. i \in Nat \ {0} /\ i # 1
        BY <2>1, <3>2, PlacesAreNumbers
      <4>2. i - 1 \in Nat \ {0} /\ (i - 1) + 1 = i
        BY <4>1
      <4> QED  BY <2>1, <3>2, <4>2
    <3>3. \A m : Held(d, m) => Held(d, m)'
      BY <2>1, <3>2 DEF Held
    <3>4. \A m : Held(d, m)' => Held(d, m)
      BY <2>1 DEF Held
    <3> QED  BY <3>1, <3>3, <3>4
  <2>3. ASSUME NEW e \in Device
        PROVE  \E y \in {0, 1} : \A i, m : Holding(e, 2, i, m)' => Holding(e, 2, i + y, m)
    <3>1. CASE e = d
      BY <2>1, <3>1
    <3>2. CASE e # d
      <4>1. \A i, m : Holding(e, 2, i, m)' => Holding(e, 2, i + 0, m)
        <5> TAKE i, m
        <5> HAVE Holding(e, 2, i, m)'
        <5>1. Holding(e, 2, i, m)
          BY <2>1, <3>2
        <5>2. i + 0 = i
          BY <5>1, PlacesAreNumbers
        <5> QED  BY <5>1, <5>2
      <4> QED  BY <4>1
    <3> QED  BY <3>1, <3>2
  <2>4. \A e \in Device : \A s, i, m : s # 2 => (Holding(e, s, i, m)' <=> Holding(e, s, i, m))
    BY <2>1
  <2> QED  BY <1>2, <1>3, <2>1, <2>2, <2>3, <2>4 DEF Idles
<1>5. CASE main' = main
  <2>1. ASSUME NEW e \in Device
        PROVE  /\ \A s, i, m : Holding(e, s, i, m)' <=> Holding(e, s, i, m)
               /\ \A i, step, m : Queued(e, i, step, m)' <=> Queued(e, i, step, m)
    BY <1>2, <1>5, SamePlaces
  <2>2. \A e \in Device : \A m : Held(e, m)' <=> Held(e, m)
    BY <2>1 DEF Held
  <2>3. ASSUME NEW e \in Device
        PROVE  \E y \in {0, 1} : \A i, m : Holding(e, 2, i, m)' => Holding(e, 2, i + y, m)
    <3>1. \A i, m : Holding(e, 2, i, m)' => Holding(e, 2, i + 0, m)
      <4> TAKE i, m
      <4> HAVE Holding(e, 2, i, m)'
      <4>1. Holding(e, 2, i, m)
        BY <2>1
      <4>2. i + 0 = i
        BY <4>1, PlacesAreNumbers
      <4> QED  BY <4>1, <4>2
    <3> QED  BY <3>1
  <2> QED  BY <1>2, <1>3, <2>1, <2>2, <2>3 DEF Idles
<1>6. main' = main \/ UploadDone(d)
  BY DEF SignOut, SignIn, ChangeUser, Persist, WriteLocally, Disconnect,
         sharedVars, vars, client
<1> QED  BY <1>4, <1>5, <1>6

LEMMA SendStep ==
  ASSUME SharedTypeOK, SharedTypeOK', NEW p \in User, SendMessage(p)
  PROVE  \E new, L : Sends(current, new, L)
<1>a. PICK d : d = current
  OBVIOUS
<1>b. PICK new : new = [dev |-> d, to |-> p, n |-> nsent[d] + 1]
  OBVIOUS
<1>c. PICK L : L = Len(writes[d])
  OBVIOUS
<1>1. TypeOK /\ TypeOK' /\ d \in Device
  BY <1>a DEF SharedTypeOK
<1>2. Send(d, p) /\ astray' = astray
  BY <1>a DEF SendMessage
<1>3. /\ thread' = thread /\ recent' = recent /\ launched' = launched
      /\ rejected' = rejected /\ inflight' = inflight
      /\ nsent' = [nsent EXCEPT ![d] = @ + 1] /\ sent' = sent \cup {new}
      /\ p # account[d] /\ nsent[d] < MaxSends
  BY <1>2, <1>b DEF Send, backend
<1>4. new \in Message /\ new.dev = d /\ new.n = nsent[d] + 1 /\ new.to # From(new)
  <2>1. nsent[d] + 1 \in 1..MaxSends
    BY <1>1, <1>3, ConstantsAssumption DEF TypeOK
  <2> QED  BY <1>1, <1>3, <1>b, <2>1 DEF Message, From
<1>5. /\ L \in Nat
      /\ \A e \in Device : e # d => writes'[e] = writes[e] /\ main'[e] = main[e]
      /\ \A i, m : Holding(d, 1, i, m)' <=> Holding(d, 1, i, m)
      /\ \A i, m : Holding(d, 2, i, m)' <=> Holding(d, 2, i, m)
      /\ \A i, m : Holding(d, 3, i, m)' <=> Holding(d, 3, i, m) \/ (i = L + 1 /\ m = new)
      /\ \A i, step, m : Queued(d, i, step, m)' <=>
           Queued(d, i, step, m) \/ (i = L + 1 /\ step = "ownAdd" /\ m = new)
  BY <1>1, <1>2, <1>b, <1>c, SendEffect
<1>6. OthersSame(d)
  <2> SUFFICES ASSUME NEW e \in Device, e # d
               PROVE  /\ inflight'[e] = inflight[e]
                      /\ \A i, step, m : Queued(e, i, step, m)' <=> Queued(e, i, step, m)
                      /\ \A s, i, m : Holding(e, s, i, m)' <=> Holding(e, s, i, m)
    BY DEF OthersSame
  <2> QED  BY <1>3, <1>5, SamePlaces
<1>7. \A i, step, m : Queued(d, i, step, m) => i \in 1..L
  BY <1>c DEF Queued
<1>8. Sends(d, new, L)
  BY <1>2, <1>3, <1>4, <1>5, <1>6, <1>7 DEF Sends
<1> QED  BY <1>8, <1>a

LEMMA ForwardStep ==
  ASSUME SharedTypeOK, NEW d \in Device, MirrorAnywhere(d)
  PROVE  \E e \in Device : \E m, L : Forwards(d, e, m, L)
<1>a. PICK m : m = Head(main[d]).msg
  OBVIOUS
<1>b. PICK e : e = Newest
  OBVIOUS
<1>c. PICK L : L = Len(writes[e])
  OBVIOUS
<1>1. /\ Mirrors(d, e, m) /\ astray' = IF m.dev = e THEN astray ELSE astray \cup {m}
      /\ thread' = thread /\ recent' = recent /\ sent' = sent /\ nsent' = nsent
      /\ launched' = launched /\ rejected' = rejected /\ inflight' = inflight
  BY <1>a, <1>b DEF MirrorAnywhere, Mirrors, backend, history
<1>2. TypeOK /\ e \in Device
  BY <1>b, ToldFacts DEF Newest
<1>3. MirroredTypes(d, e, m, L) /\ MirroredHandlers(d) /\ MirroredQueues(e, m, L)
  BY <1>1, <1>2, <1>c, MirrorEffect
<1>4. L \in Nat /\ Holding(d, 2, 1, m)
  BY <1>3 DEF MirroredTypes
<1>5. \A x : Holding(d, 2, 1, x) <=> x = m
  BY <1>4 DEF Holding
<1>6. \A i, step, x : Queued(e, i, step, x) => i \in 1..L
  BY <1>c DEF Queued
<1>7. Forwards(d, e, m, L)
  BY <1>1, <1>3, <1>4, <1>5, <1>6 DEF Forwards
<1> QED  BY <1>2, <1>7

LEMMA TakeStep ==
  ASSUME SharedTypeOK, NEW d \in Device, Ack(d) \/ Reject(d), UNCHANGED phoneVars
  PROVE  \E M : Takes(d, M)
<1>a. PICK M : M = Len(main[d])
  OBVIOUS
<1>1. TypeOK /\ inflight \in [Device -> Nat]
  BY ToldFacts DEF TypeOK
<1>2. /\ thread' = thread /\ recent' = recent /\ sent' = sent /\ nsent' = nsent
      /\ launched' = launched /\ rejected \subseteq rejected' /\ astray' = astray
      /\ writes' = [writes EXCEPT ![d] = Tail(@)] /\ stored[d] > 0
  <2>1. CASE Ack(d)
    <3>1. stored[d] > 0
      BY <1>1, <2>1 DEF Ack, TypeOK
    <3> QED  BY <2>1, <3>1 DEF Ack, backend, history, phoneVars
  <2>2. CASE Reject(d)
    BY <2>2 DEF Reject, backend, phoneVars
  <2> QED  BY <2>1, <2>2
<1>3. PICK ok \in BOOLEAN : main' = [main EXCEPT ![d] = Notify(@, Head(writes[d]), ok)]
  BY DEF Ack, Reject
<1>4. /\ M \in Nat
      /\ \A e \in Device : e # d => writes'[e] = writes[e] /\ main'[e] = main[e]
      /\ \A i, step, m : Queued(d, i, step, m)' <=>
           i \in Nat \ {0} /\ Queued(d, i + 1, step, m)
      /\ \A i, m : Holding(d, 1, i, m)' <=> i \in Nat \ {0} /\ Holding(d, 1, i + 1, m)
      /\ \A i, m : Holding(d, 2, i, m)' <=>
           Holding(d, 2, i, m) \/ (i = M + 1 /\ Holding(d, 3, 1, m))
      /\ \A i, m : Holding(d, 3, i, m)' <=> i \in Nat \ {0} /\ Holding(d, 3, i + 1, m)
      /\ \A i, m : Holding(d, 2, i, m) => i \in 1..M
      /\ \A step, m : Queued(d, 1, step, m) <=>
           step = Head(writes[d]).step /\ m = Head(writes[d]).msg
  BY <1>1, <1>2, <1>3, <1>a, PopEffect
<1>5. /\ \A e \in Device : e # d => inflight'[e] = inflight[e]
      /\ \/ Ack(d) /\ inflight[d] > 0 /\ inflight'[d] = inflight[d] - 1
         \/ /\ inflight'[d] = 0
            /\ rejected' = rejected \cup {<<Head(writes[d]).step, Head(writes[d]).msg>>}
  BY <1>1 DEF Ack, Reject
<1>6. OthersSame(d)
  <2> SUFFICES ASSUME NEW e \in Device, e # d
               PROVE  /\ inflight'[e] = inflight[e]
                      /\ \A i, step, m : Queued(e, i, step, m)' <=> Queued(e, i, step, m)
                      /\ \A s, i, m : Holding(e, s, i, m)' <=> Holding(e, s, i, m)
    BY DEF OthersSame
  <2> QED  BY <1>4, <1>5, SamePlaces
<1>7. \A i \in Nat \ {0} : i <= inflight'[d] => i + 1 <= inflight[d]
  BY <1>1, <1>5
<1>8. \A step, m : Queued(d, 1, step, m) => 1 <= inflight[d] \/ Refused(step, m)'
  BY <1>1, <1>4, <1>5 DEF Refused
<1>9. Takes(d, M)
  BY <1>2, <1>4, <1>6, <1>7, <1>8 DEF Takes
<1> QED  BY <1>9

LEMMA ApplyStep ==
  ASSUME SharedTypeOK, Owned, Sound, NEW d \in Device, Commit(d), UNCHANGED phoneVars
  PROVE  \E n : Applies(d, n)
<1>a. PICK n : n = inflight[d] + 1
  OBVIOUS
<1>1. /\ TypeOK /\ writes' = writes /\ main' = main /\ sent' = sent /\ nsent' = nsent
      /\ launched' = launched /\ rejected' = rejected /\ astray' = astray
      /\ inflight' = [inflight EXCEPT ![d] = n] /\ inflight[d] < stored[d]
  BY <1>a, ToldFacts DEF Commit, history, phoneVars, TypeOK
<1>2. PICK v \in Write : v = writes[d][n]
  BY <1>1, <1>a, NextWrite
<1>3. n \in 1..Len(writes[d])
  BY <1>1, <1>a, NextWrite
<1>4. AddDocument(v) \/ SetData(v)
  BY <1>2, <1>a DEF Commit, AddDocument, SetData
<1>5. \A step, m : Queued(d, n, step, m) <=> step = v.step /\ m = v.msg
  BY <1>2, <1>3 DEF Queued
<1>6. v.msg \in sent /\ v.msg \in Message
  BY <1>5 DEF Owned, Write
<1>7. \A m \in Message : Delivered(m) => Delivered(m)'
  BY <1>1, <1>4, CommitEffect, Growth
<1>8. \A m : Queued(d, n, "peerAdd", m) => Delivered(m)'
  BY <1>1, <1>4, <1>5, CommitEffect DEF Delivered, From
<1>9. ASSUME NEW m \in Message, Delivered(m)', ~ Delivered(m)
      PROVE  Queued(d, n, "peerAdd", m)
  <2>1. m = v.msg /\ (v.step = "peerAdd" \/ v.step = "ownAdd")
    BY <1>1, <1>4, <1>9, CommitEffect
  <2>2. ASSUME v.step = "ownAdd" PROVE FALSE
    <3>1. From(m) \in User /\ m.to \in User /\ m.to # From(m)
      BY <1>6, <2>1, UsersOfStep, ConstantsAssumption DEF Sound, From, Message
    <3>2. thread'[m.to][From(m)] = thread[m.to][From(m)]
      <4>1. Owner(v.step, v.msg) = From(m) /\ Peer(v.step, v.msg) = m.to
        BY <2>1, <2>2 DEF Owner, Peer, Step
      <4> QED  BY <1>1, <1>4, <3>1, <4>1 DEF AddDocument, SetData, TypeOK
    <3> QED  BY <1>9, <3>2 DEF Delivered, From
  <2> QED  BY <1>5, <2>1, <2>2
<1>10. Applies(d, n)
  BY <1>1, <1>7, <1>8, <1>9, <1>a DEF Applies
<1> QED  BY <1>10

LEMMA DieStep ==
  ASSUME SharedTypeOK, KillAll PROVE Dies
<1>1. TypeOK
  BY ToldFacts
<1>2. /\ \A d \in Device : \A i, step, m : Queued(d, i, step, m)' => Queued(d, i, step, m)
      /\ \A d \in Device : \A s, i, m : Holding(d, s, i, m)' => s = 1 /\ Holding(d, 1, i, m)
  BY <1>1, KillEffect
<1> QED  BY <1>2 DEF KillAll, Dies, backend

-----------------------------------------------------------------------------
(* What is carried along: who a queue belongs to, and where each message   *)
(* is.                                                                     *)

\* Some queue or handler leads to the partner's copy.
OnHand(m) == \E d \in Device : \E s, i : Holding(d, s, i, m)

Carried == Owned /\ Sound /\ InFlightDelivered /\ NothingForgotten

LEMMA HoldsPlace == \A d, m : Holds(d, m) <=> \E s, i : Holding(d, s, i, m)
<1> SUFFICES ASSUME NEW d, NEW m PROVE Holds(d, m) <=> \E s, i : Holding(d, s, i, m)
  OBVIOUS
<1>1. ASSUME Holds(d, m) PROVE \E s, i : Holding(d, s, i, m)
  <2>1. CASE \E i \in 1..Len(writes[d]) :
               writes[d][i].msg = m /\ (writes[d][i].step = "peerAdd"
                                        \/ (writes[d][i].step = "ownAdd" /\ writes[d][i].cb))
    <3>1. PICK i \in 1..Len(writes[d]) :
               writes[d][i].msg = m /\ (writes[d][i].step = "peerAdd"
                                        \/ (writes[d][i].step = "ownAdd" /\ writes[d][i].cb))
      BY <2>1
    <3>2. Holding(d, 1, i, m) \/ Holding(d, 3, i, m)
      BY <3>1 DEF Holding
    <3> QED  BY <3>2
  <2>2. CASE \E i \in 1..Len(main[d]) : main[d][i].msg = m /\ main[d][i].step = "ownAdd"
    <3>1. PICK i \in 1..Len(main[d]) : main[d][i].msg = m /\ main[d][i].step = "ownAdd"
      BY <2>2
    <3>2. Holding(d, 2, i, m)
      BY <3>1 DEF Holding
    <3> QED  BY <3>2
  <2> QED  BY <1>1, <2>1, <2>2 DEF Holds
<1>2. ASSUME NEW s, NEW i, Holding(d, s, i, m) PROVE Holds(d, m)
  BY <1>2 DEF Holding, Holds
<1> QED  BY <1>1, <1>2

LEMMA ForgottenIff ==
  NothingForgotten <=>
    \A m \in sent : m.n > launched[m.dev] => PeerSettled(m) \/ OnHand(m)
BY HoldsPlace DEF NothingForgotten, PeerSettled, OnHand

\* A step forgets nothing when what it takes reappears, or is settled.
LEMMA ForgottenKept ==
  ASSUME TypeOK, NothingForgotten, sent' = sent, launched' = launched,
         rejected \subseteq rejected',
         \A m \in Message : Delivered(m) => Delivered(m)',
         \A m \in sent : OnHand(m) => OnHand(m)' \/ PeerSettled(m)'
  PROVE  NothingForgotten'
<1>1. \A m \in sent : m.n > launched[m.dev] => PeerSettled(m) \/ OnHand(m)
  BY ForgottenIff
<1>2. \A m \in sent : PeerSettled(m) => PeerSettled(m)'
  BY DEF TypeOK, PeerSettled, Refused
<1>3. (\A m \in sent : m.n > launched[m.dev] => PeerSettled(m) \/ OnHand(m))'
  BY <1>1, <1>2
<1>4. (NothingForgotten <=>
         \A m \in sent : m.n > launched[m.dev] => PeerSettled(m) \/ OnHand(m))'
  BY ForgottenIff, PTL
<1> QED  BY <1>3, <1>4

LEMMA SameDeliveries ==
  ASSUME thread' = thread PROVE \A m : Delivered(m)' <=> Delivered(m)
BY DEF Delivered, From

\* The messages stay sound when none is sent.
LEMMA SoundKept ==
  ASSUME Sound, sent' = sent, nsent' = nsent,
         \A m \in Message : Delivered(m)' => Delivered(m) \/ m \in sent
  PROVE  Sound'
BY DEF Sound, Numbered, DeliveredSent, From

LEMMA InitCarried == SharedInit => SharedTypeOK /\ Carried
<1> SUFFICES ASSUME SharedInit PROVE SharedTypeOK /\ Carried
  OBVIOUS
<1>1. Init /\ current \in Device /\ told = <<Stay(current)>> /\ signIns = 0 /\ astray = {}
  BY DEF SharedInit
<1>2. TypeOK /\ Numbered
  BY <1>1, InitInv DEF IInv
<1>3. DeliveredSent
  BY <1>1, InitOrder DEF Order
<1>4. sent = {} /\ \A d \in Device : writes[d] = << >> /\ main[d] = << >> /\ stored[d] = 0
  BY <1>1 DEF Init
<1>5. \A d \in Device : /\ \A i, step, m : ~ Queued(d, i, step, m)
                        /\ \A s, i, m : ~ Holding(d, s, i, m)
  BY <1>4 DEF Queued, Holding
<1>6. told \in Seq(Stays) /\ \A d : Tasks(told, d) = 0
  BY <1>1, TasksNone
<1>7. told # << >> /\ Newest = current
  BY <1>1 DEF Newest, Stay
<1>8. SharedTypeOK
  <2>1. \A d \in Device : Len(writes[d]) - stored[d] = Tasks(told, d)
    BY <1>4, <1>6
  <2> QED  BY <1>1, <1>2, <1>4, <1>6, <1>7, <2>1, SharedPhoneAssumption DEF SharedTypeOK, Stays
<1>9. Owned /\ InFlightDelivered
  BY <1>5 DEF Owned, InFlightDelivered, Held
<1>10. Sound /\ NothingForgotten
  BY <1>2, <1>3, <1>4 DEF Sound, NothingForgotten
<1> QED  BY <1>8, <1>9, <1>10 DEF Carried

LEMMA IdleCarried ==
  ASSUME SharedTypeOK, SharedTypeOK', Carried, Idles PROVE Carried'
<1>1. /\ TypeOK /\ thread' = thread /\ sent' = sent /\ nsent' = nsent
      /\ launched' = launched /\ rejected' = rejected /\ astray' = astray
  BY DEF SharedTypeOK, Idles
<1>2. ASSUME NEW d \in Device
      PROVE  /\ inflight'[d] <= inflight[d] /\ inflight[d] \in Nat /\ inflight'[d] \in Nat
             /\ \A i, step, m : Queued(d, i, step, m)' <=> Queued(d, i, step, m)
             /\ \A s, i, m : s # 2 => (Holding(d, s, i, m)' <=> Holding(d, s, i, m))
             /\ \A m : Held(d, m)' <=> Held(d, m)
  BY DEF Idles, SharedTypeOK, TypeOK
<1>3. Owned'
  BY <1>1, <1>2 DEF Carried, Owned
<1>4. Sound'
  BY <1>1, SameDeliveries, SoundKept DEF Carried
<1>5. InFlightDelivered'
  <2> SUFFICES ASSUME NEW d \in Device, NEW i, NEW m, Queued(d, i, "peerAdd", m),
                      i <= inflight'[d]
               PROVE  Delivered(m)'
    BY <1>2 DEF InFlightDelivered
  <2>1. i \in Nat
    BY PlacesAreNumbers
  <2>2. i <= inflight[d]
    BY <1>2, <2>1
  <2> QED  BY <1>1, <2>2, SameDeliveries DEF Carried, InFlightDelivered
<1>6. ASSUME NEW m, OnHand(m) PROVE OnHand(m)'
  <2>1. PICK d \in Device : \E s, i : Holding(d, s, i, m)
    BY <1>6 DEF OnHand
  <2>2. (\E i : Holding(d, 1, i, m)) \/ Held(d, m)
    BY <2>1, PlacesAreNumbers DEF Held
  <2>3. CASE \E i : Holding(d, 1, i, m)
    BY <1>2, <2>3 DEF OnHand
  <2>4. CASE Held(d, m)
    <3>1. Held(d, m)'
      BY <1>2, <2>4
    <3> QED  BY <3>1 DEF Held, OnHand
  <2> QED  BY <2>2, <2>3, <2>4
<1>7. NothingForgotten'
  BY <1>1, <1>6, SameDeliveries, ForgottenKept DEF Carried
<1> QED  BY <1>3, <1>4, <1>5, <1>7 DEF Carried

LEMMA SendCarried ==
  ASSUME SharedTypeOK, SharedTypeOK', Carried, NEW d \in Device, NEW new, NEW L, Sends(d, new, L)
  PROVE  Carried'
<1>1. /\ TypeOK /\ thread' = thread /\ launched' = launched /\ rejected' = rejected
      /\ astray' = astray /\ inflight' = inflight
      /\ new \in Message /\ new.dev = d /\ new.to # From(new) /\ new.n = nsent[d] + 1
      /\ nsent' = [nsent EXCEPT ![d] = @ + 1] /\ sent' = sent \cup {new} /\ L \in Nat
      /\ \A e \in Device : nsent[e] \in Nat
  <2>1. TypeOK
    BY DEF SharedTypeOK
  <2>2. \A e \in Device : nsent[e] \in 0..MaxSends
    BY <2>1 DEF TypeOK
  <2>3. \A e \in Device : nsent[e] \in Nat
    BY <2>2, ConstantsAssumption
  <2> QED  BY <2>1, <2>3 DEF Sends
<1>2. ASSUME NEW e \in Device
      PROVE  /\ \A i, step, m : Queued(e, i, step, m)' <=>
                  Queued(e, i, step, m) \/ (e = d /\ i = L + 1 /\ step = "ownAdd" /\ m = new)
             /\ \A s, i, m : Holding(e, s, i, m)' <=>
                  Holding(e, s, i, m) \/ (e = d /\ s = 3 /\ i = L + 1 /\ m = new)
  <2>1. CASE e # d
    BY <2>1 DEF Sends, OthersSame
  <2>2. CASE e = d
    <3>1. \A i, step, m : Queued(e, i, step, m)' <=>
            Queued(e, i, step, m) \/ (i = L + 1 /\ step = "ownAdd" /\ m = new)
      BY <2>2 DEF Sends
    <3>2. ASSUME NEW s, NEW i, NEW m
          PROVE  Holding(e, s, i, m)' <=> Holding(e, s, i, m) \/ (s = 3 /\ i = L + 1 /\ m = new)
      <4>1. CASE s \notin 1..3
        <5>1. ~ Holding(e, s, i, m) /\ s # 3
          BY <4>1, PlacesAreNumbers
        <5>2. ~ Holding(e, s, i, m)'
          BY <4>1 DEF Holding
        <5> QED  BY <4>1, <5>1, <5>2
      <4>2. CASE s = 1
        BY <2>2, <4>2 DEF Sends
      <4>3. CASE s = 2
        BY <2>2, <4>3 DEF Sends
      <4>4. CASE s = 3
        BY <2>2, <4>4 DEF Sends
      <4> QED  BY <4>1, <4>2, <4>3, <4>4
    <3> QED  BY <2>2, <3>1, <3>2
  <2> QED  BY <2>1, <2>2
<1>3. \A e \in Device : \A m : Held(e, m)' => Held(e, m) \/ (e = d /\ m = new)
  BY <1>2 DEF Held
<1>4. Owned'
  <2> SUFFICES ASSUME NEW e \in Device
               PROVE  /\ \A i, step, m : Queued(e, i, step, m)' =>
                           m \in sent' /\ (m.dev = e \/ (step # "ownAdd" /\ m \in astray'))
                      /\ \A m : Held(e, m)' => m \in sent' /\ m.dev = e
    BY DEF Owned
  <2>1. \A i, step, m : Queued(e, i, step, m)' =>
          m \in sent' /\ (m.dev = e \/ (step # "ownAdd" /\ m \in astray'))
    BY <1>1, <1>2 DEF Carried, Owned
  <2>2. \A m : Held(e, m)' => m \in sent' /\ m.dev = e
    BY <1>1, <1>3 DEF Carried, Owned
  <2> QED  BY <2>1, <2>2
<1>5. Sound'
  <2>1. \A m \in sent' : m.n <= nsent'[m.dev]
    <3> TAKE m \in sent'
    <3>1. CASE m \in sent
      <4>1. m.n <= nsent[m.dev] /\ m.dev \in Device /\ m.n \in Nat
        BY <1>1, <3>1 DEF Carried, Sound, Numbered, TypeOK, Message
      <4>2. nsent'[m.dev] = nsent[m.dev] \/ nsent'[m.dev] = nsent[m.dev] + 1
        BY <1>1, <4>1 DEF TypeOK
      <4> QED  BY <1>1, <4>1, <4>2
    <3>2. CASE m = new
      <4>1. nsent'[d] = nsent[d] + 1
        BY <1>1 DEF TypeOK
      <4> QED  BY <1>1, <3>2, <4>1
    <3> QED  BY <1>1, <3>1, <3>2
  <2>2. DeliveredSent'
    BY <1>1, DeliveredKept DEF Carried, Sound
  <2>3. \A m \in sent' : m.to # From(m)
    BY <1>1 DEF Carried, Sound
  <2> QED  BY <2>1, <2>2, <2>3 DEF Sound, Numbered, From
<1>6. InFlightDelivered'
  BY <1>1, <1>2, SameDeliveries DEF Carried, InFlightDelivered
<1>7. NothingForgotten'
  <2>1. \A m \in sent : m.n > launched[m.dev] => PeerSettled(m) \/ OnHand(m)
    BY ForgottenIff DEF Carried
  <2>2. \A m : OnHand(m) => OnHand(m)'
    BY <1>2 DEF OnHand
  <2>3. OnHand(new)'
    <3>1. Holding(d, 3, L + 1, new)'
      BY <1>2
    <3> QED  BY <3>1 DEF OnHand
  <2>4. \A m : PeerSettled(m) => PeerSettled(m)'
    BY <1>1, SameDeliveries DEF PeerSettled, Refused
  <2>5. (\A m \in sent : m.n > launched[m.dev] => PeerSettled(m) \/ OnHand(m))'
    BY <1>1, <2>1, <2>2, <2>3, <2>4
  <2>6. (NothingForgotten <=>
           \A m \in sent : m.n > launched[m.dev] => PeerSettled(m) \/ OnHand(m))'
    BY ForgottenIff, PTL
  <2> QED  BY <2>5, <2>6
<1> QED  BY <1>4, <1>5, <1>6, <1>7 DEF Carried

LEMMA ForwardCarried ==
  ASSUME SharedTypeOK, SharedTypeOK', Carried, NEW d \in Device, NEW e \in Device,
         NEW m, NEW L, Forwards(d, e, m, L)
  PROVE  Carried'
<1>1. /\ TypeOK /\ thread' = thread /\ sent' = sent /\ nsent' = nsent
      /\ launched' = launched /\ rejected' = rejected /\ inflight' = inflight
      /\ astray' = IF m.dev = e THEN astray ELSE astray \cup {m}
      /\ L \in Nat
  BY DEF SharedTypeOK, Forwards
<1>2. /\ \A i, step, x : Queued(e, i, step, x) => i \in 1..L
      /\ \A x : Holding(d, 2, 1, x) <=> x = m
      /\ \A f \in Device : \A i, x : f # d => (Holding(f, 2, i, x)' <=> Holding(f, 2, i, x))
      /\ \A i, x : Holding(d, 2, i, x)' <=> i \in Nat \ {0} /\ Holding(d, 2, i + 1, x)
      /\ \A f \in Device : \A i, x : Holding(f, 3, i, x)' <=> Holding(f, 3, i, x)
  BY DEF Forwards, MirroredHandlers
<1>3. ASSUME NEW f \in Device
      PROVE  \A i, step, x : Queued(f, i, step, x)' =>
               Queued(f, i, step, x) \/ (f = e /\ x = m /\ i > L /\ step # "ownAdd")
  <2> SUFFICES ASSUME NEW i, NEW step, NEW x, Queued(f, i, step, x)', ~ Queued(f, i, step, x)
               PROVE  f = e /\ x = m /\ i > L /\ step # "ownAdd"
    OBVIOUS
  <2>1. /\ f = e /\ x = m
        /\ \/ i = L + 1 /\ step = "peerAdd"
           \/ i = L + 2 /\ step = "ownRecent"
           \/ i = L + 3 /\ step = "peerRecent"
    BY DEF Forwards, MirroredQueues
  <2> QED  BY <1>1, <2>1
<1>4. ASSUME NEW f \in Device, NEW i, NEW step, NEW x, Queued(f, i, step, x)
      PROVE  Queued(f, i, step, x)'
  BY <1>4 DEF Forwards, MirroredQueues
<1>5. Holding(e, 1, L + 1, m)'
  <2>1. Queued(e, L + 1, "peerAdd", m)'
    BY DEF Forwards, MirroredQueues
  <2> QED  BY <2>1 DEF Queued, Holding
<1>6. m \in sent /\ m.dev = d
  BY <1>2 DEF Carried, Owned, Held
<1>7. \A f \in Device : \A x : Held(f, x)' => Held(f, x)
  <2> TAKE f \in Device
  <2> TAKE x
  <2> HAVE Held(f, x)'
  <2>1. PICK s, i : s # 1 /\ Holding(f, s, i, x)'
    BY DEF Held
  <2>2. s = 2 \/ s = 3
    BY <2>1 DEF Holding
  <2> QED  BY <1>2, <2>1, <2>2 DEF Held
<1>8. Owned'
  <2> SUFFICES ASSUME NEW f \in Device
               PROVE  /\ \A i, step, x : Queued(f, i, step, x)' =>
                           x \in sent' /\ (x.dev = f \/ (step # "ownAdd" /\ x \in astray'))
                      /\ \A x : Held(f, x)' => x \in sent' /\ x.dev = f
    BY DEF Owned
  <2>1. ASSUME NEW i, NEW step, NEW x, Queued(f, i, step, x)'
        PROVE  x \in sent' /\ (x.dev = f \/ (step # "ownAdd" /\ x \in astray'))
    <3>1. CASE Queued(f, i, step, x)
      BY <1>1, <3>1 DEF Carried, Owned
    <3>2. CASE f = e /\ x = m /\ step # "ownAdd"
      BY <1>1, <1>6, <3>2
    <3> QED  BY <1>3, <2>1, <3>1, <3>2
  <2>2. \A x : Held(f, x)' => x \in sent' /\ x.dev = f
    BY <1>1, <1>7 DEF Carried, Owned
  <2> QED  BY <2>1, <2>2
<1>9. Sound'
  BY <1>1, SameDeliveries, SoundKept DEF Carried
<1>10. InFlightDelivered'
  <2> SUFFICES ASSUME NEW f \in Device, NEW i, NEW x, Queued(f, i, "peerAdd", x)',
                      i <= inflight[f]
               PROVE  Delivered(x)'
    BY <1>1 DEF InFlightDelivered
  <2>1. CASE Queued(f, i, "peerAdd", x)
    BY <1>1, <2>1, SameDeliveries DEF Carried, InFlightDelivered
  <2>2. CASE f = e /\ i > L
    <3>1. /\ inflight[e] \in Nat
          /\ \A j \in 1..inflight[e] : j \in 1..Len(writes[e])
      BY <1>1, AppliedIsPrefix DEF TypeOK
    <3>2. i \in 1..inflight[e]
      <4>1. (Queued(f, i, "peerAdd", x) => i \in Nat \ {0})'
        BY DEF Queued
      <4> QED  BY <2>2, <3>1, <4>1
    <3>3. i \in 1..Len(writes[e])
      BY <3>1, <3>2
    <3>4. Queued(e, i, writes[e][i].step, writes[e][i].msg)
      BY <3>3 DEF Queued
    <3>5. i \in 1..L
      BY <1>2, <3>4
    <3> QED  BY <1>1, <2>2, <3>5
  <2> QED  BY <1>3, <2>1, <2>2
<1>11. ASSUME NEW x, OnHand(x) PROVE OnHand(x)'
  <2>1. PICK f \in Device : \E s, i : Holding(f, s, i, x)
    BY <1>11 DEF OnHand
  <2>2. PICK s, i : Holding(f, s, i, x)
    BY <2>1
  <2>3. s \in 1..3 /\ i \in Nat \ {0}
    BY <2>2, PlacesAreNumbers
  <2>4. CASE s = 1
    <3>1. Queued(f, i, "peerAdd", x)'
      BY <1>4, <2>2, <2>4, PlacesAreNumbers
    <3>2. Holding(f, 1, i, x)'
      BY <3>1 DEF Queued, Holding
    <3> QED  BY <3>2 DEF OnHand
  <2>5. CASE s = 3
    BY <1>2, <2>2, <2>5 DEF OnHand
  <2>6. CASE s = 2 /\ f # d
    BY <1>2, <2>2, <2>6 DEF OnHand
  <2>7. CASE s = 2 /\ f = d /\ i = 1
    BY <1>2, <1>5, <2>2, <2>7 DEF OnHand
  <2>8. CASE s = 2 /\ f = d /\ i # 1
    <3>1. i - 1 \in Nat \ {0} /\ (i - 1) + 1 = i
      BY <2>3, <2>8
    <3>2. Holding(f, 2, i - 1, x)'
      BY <1>2, <2>2, <2>8, <3>1
    <3> QED  BY <3>2 DEF OnHand
  <2> QED  BY <2>3, <2>4, <2>5, <2>6, <2>7, <2>8
<1>12. NothingForgotten'
  BY <1>1, <1>11, SameDeliveries, ForgottenKept DEF Carried
<1> QED  BY <1>8, <1>9, <1>10, <1>12 DEF Carried

LEMMA TakeCarried ==
  ASSUME SharedTypeOK, SharedTypeOK', Carried, NEW d \in Device, NEW M, Takes(d, M)
  PROVE  Carried'
<1>1. /\ TypeOK /\ thread' = thread /\ sent' = sent /\ nsent' = nsent
      /\ launched' = launched /\ rejected \subseteq rejected' /\ astray' = astray
      /\ M \in Nat
  BY DEF SharedTypeOK, Takes
<1>2. /\ \A i, step, m : Queued(d, i, step, m)' <=> i \in Nat \ {0} /\ Queued(d, i + 1, step, m)
      /\ \A i, m : Holding(d, 1, i, m)' <=> i \in Nat \ {0} /\ Holding(d, 1, i + 1, m)
      /\ \A i, m : Holding(d, 2, i, m)' <=> Holding(d, 2, i, m) \/ (i = M + 1 /\ Holding(d, 3, 1, m))
      /\ \A i, m : Holding(d, 3, i, m)' <=> i \in Nat \ {0} /\ Holding(d, 3, i + 1, m)
      /\ \A i \in Nat \ {0} : i <= inflight'[d] => i + 1 <= inflight[d]
      /\ \A step, m : Queued(d, 1, step, m) => 1 <= inflight[d] \/ Refused(step, m)'
  BY DEF Takes
<1>3. ASSUME NEW e \in Device, e # d
      PROVE  /\ inflight'[e] = inflight[e]
             /\ \A i, step, m : Queued(e, i, step, m)' <=> Queued(e, i, step, m)
             /\ \A s, i, m : Holding(e, s, i, m)' <=> Holding(e, s, i, m)
  BY <1>3 DEF Takes, OthersSame
<1>4. \A e \in Device : \A m : Held(e, m)' => Held(e, m)
  <2> TAKE e \in Device
  <2> TAKE m
  <2> HAVE Held(e, m)'
  <2>1. PICK s, i : s # 1 /\ Holding(e, s, i, m)'
    BY DEF Held
  <2>2. s = 2 \/ s = 3
    BY <2>1 DEF Holding
  <2>3. CASE e # d
    BY <1>3, <2>1, <2>3 DEF Held
  <2>4. CASE e = d
    <3>1. 2 # 1 /\ 3 # 1
      OBVIOUS
    <3> QED  BY <1>2, <2>1, <2>2, <2>4, <3>1 DEF Held
  <2> QED  BY <2>3, <2>4
<1>5. Owned'
  <2> SUFFICES ASSUME NEW e \in Device
               PROVE  /\ \A i, step, m : Queued(e, i, step, m)' =>
                           m \in sent' /\ (m.dev = e \/ (step # "ownAdd" /\ m \in astray'))
                      /\ \A m : Held(e, m)' => m \in sent' /\ m.dev = e
    BY DEF Owned
  <2>1. ASSUME NEW i, NEW step, NEW m, Queued(e, i, step, m)'
        PROVE  m \in sent' /\ (m.dev = e \/ (step # "ownAdd" /\ m \in astray'))
    <3>1. Queued(e, i, step, m) \/ Queued(e, i + 1, step, m)
      BY <1>2, <1>3, <2>1
    <3> QED  BY <1>1, <3>1 DEF Carried, Owned
  <2>2. \A m : Held(e, m)' => m \in sent' /\ m.dev = e
    BY <1>1, <1>4 DEF Carried, Owned
  <2> QED  BY <2>1, <2>2
<1>6. Sound'
  BY <1>1, SameDeliveries, SoundKept DEF Carried
<1>7. InFlightDelivered'
  <2> SUFFICES ASSUME NEW e \in Device, NEW i, NEW m, Queued(e, i, "peerAdd", m)',
                      i <= inflight'[e]
               PROVE  Delivered(m)'
    BY DEF InFlightDelivered
  <2>1. CASE e # d
    BY <1>1, <1>3, <2>1, SameDeliveries DEF Carried, InFlightDelivered
  <2>2. CASE e = d
    <3>1. i \in Nat \ {0} /\ Queued(d, i + 1, "peerAdd", m)
      BY <1>2, <2>2
    <3>2. i + 1 <= inflight[d]
      BY <1>2, <2>2, <3>1
    <3> QED  BY <1>1, <3>1, <3>2, SameDeliveries DEF Carried, InFlightDelivered
  <2> QED  BY <2>1, <2>2
<1>8. ASSUME NEW m \in sent, OnHand(m) PROVE OnHand(m)' \/ PeerSettled(m)'
  <2>1. PICK e \in Device : \E s, i : Holding(e, s, i, m)
    BY <1>8 DEF OnHand
  <2>2. PICK s, i : Holding(e, s, i, m)
    BY <2>1
  <2>3. s \in 1..3 /\ i \in Nat \ {0}
    BY <2>2, PlacesAreNumbers
  <2>4. CASE e # d
    BY <1>3, <2>2, <2>4 DEF OnHand
  <2>5. CASE e = d /\ s = 2
    BY <1>2, <2>2, <2>5 DEF OnHand
  <2>6. CASE e = d /\ s # 2 /\ i # 1
    <3>1. i - 1 \in Nat \ {0} /\ (i - 1) + 1 = i
      BY <2>3, <2>6
    <3>2. Holding(d, s, i - 1, m)'
      <4>1. CASE s = 1
        BY <1>2, <2>2, <2>6, <3>1, <4>1
      <4>2. CASE s = 3
        BY <1>2, <2>2, <2>6, <3>1, <4>2
      <4> QED  BY <2>3, <2>6, <4>1, <4>2
    <3> QED  BY <3>2 DEF OnHand
  <2>7. CASE e = d /\ s = 3 /\ i = 1
    BY <1>2, <2>2, <2>7 DEF OnHand
  <2>8. CASE e = d /\ s = 1 /\ i = 1
    <3>1. Queued(d, 1, "peerAdd", m)
      BY <2>2, <2>8, PlacesAreNumbers
    <3>2. 1 <= inflight[d] => Delivered(m)
      BY <3>1 DEF Carried, InFlightDelivered
    <3>3. 1 <= inflight[d] \/ Refused("peerAdd", m)'
      BY <1>2, <3>1
    <3>4. Delivered(m) => Delivered(m)'
      BY <1>1, SameDeliveries
    <3> QED  BY <3>2, <3>3, <3>4 DEF PeerSettled
  <2> QED  BY <2>3, <2>4, <2>5, <2>6, <2>7, <2>8
<1>9. NothingForgotten'
  BY <1>1, <1>8, SameDeliveries, ForgottenKept DEF Carried
<1> QED  BY <1>5, <1>6, <1>7, <1>9 DEF Carried

LEMMA ApplyCarried ==
  ASSUME SharedTypeOK, SharedTypeOK', Carried, NEW d \in Device, NEW n, Applies(d, n)
  PROVE  Carried'
<1>1. /\ TypeOK /\ sent' = sent /\ nsent' = nsent /\ launched' = launched
      /\ rejected' = rejected /\ astray' = astray /\ writes' = writes /\ main' = main
      /\ n = inflight[d] + 1 /\ inflight' = [inflight EXCEPT ![d] = n]
      /\ inflight \in [Device -> Nat]
  BY DEF SharedTypeOK, Applies, TypeOK
<1>2. ASSUME NEW e \in Device
      PROVE  /\ \A i, step, m : Queued(e, i, step, m)' <=> Queued(e, i, step, m)
             /\ \A s, i, m : Holding(e, s, i, m)' <=> Holding(e, s, i, m)
  BY <1>1, SamePlaces
<1>3. /\ \A m \in Message : Delivered(m) => Delivered(m)'
      /\ \A m : Queued(d, n, "peerAdd", m) => Delivered(m)'
      /\ \A m \in Message : Delivered(m)' => Delivered(m) \/ Queued(d, n, "peerAdd", m)
  BY DEF Applies
<1>4. Owned'
  <2>1. \A e \in Device : \A m : Held(e, m)' <=> Held(e, m)
    BY <1>2 DEF Held
  <2> QED  BY <1>1, <1>2, <2>1 DEF Carried, Owned
<1>5. \A e \in Device : \A i, step, m : Queued(e, i, step, m) => m \in sent /\ m \in Message
  BY <1>1 DEF Carried, Owned, TypeOK
<1>6. Sound'
  BY <1>1, <1>3, <1>5, SoundKept DEF Carried
<1>7. InFlightDelivered'
  <2> SUFFICES ASSUME NEW e \in Device, NEW i, NEW m, Queued(e, i, "peerAdd", m),
                      i <= inflight'[e]
               PROVE  Delivered(m)'
    BY <1>2 DEF InFlightDelivered
  <2>1. i \in Nat
    BY PlacesAreNumbers
  <2>2. i <= inflight[e] \/ (e = d /\ i = n)
    BY <1>1, <2>1
  <2> QED  BY <1>3, <1>5, <2>2 DEF Carried, InFlightDelivered
<1>8. \A m : OnHand(m) => OnHand(m)'
  BY <1>2 DEF OnHand
<1>9. NothingForgotten'
  BY <1>1, <1>3, <1>8, ForgottenKept DEF Carried
<1> QED  BY <1>4, <1>6, <1>7, <1>9 DEF Carried

LEMMA DieCarried ==
  ASSUME SharedTypeOK, SharedTypeOK', Carried, Dies PROVE Carried'
<1>1. /\ TypeOK /\ thread' = thread /\ sent' = sent /\ nsent' = nsent
      /\ launched' = nsent /\ rejected' = rejected /\ astray' = astray
  BY DEF SharedTypeOK, Dies
<1>2. ASSUME NEW d \in Device
      PROVE  /\ inflight'[d] = 0
             /\ \A i, step, m : Queued(d, i, step, m)' => Queued(d, i, step, m)
             /\ \A m : ~ Held(d, m)'
  BY DEF Dies, Held
<1>3. Owned'
  BY <1>1, <1>2 DEF Carried, Owned
<1>4. Sound'
  BY <1>1, SameDeliveries, SoundKept DEF Carried
<1>5. InFlightDelivered'
  <2> SUFFICES ASSUME NEW d \in Device, NEW i, NEW m, Queued(d, i, "peerAdd", m)', i <= 0
               PROVE  FALSE
    BY <1>2 DEF InFlightDelivered
  <2>1. i \in Nat \ {0}
    BY <1>2, PlacesAreNumbers
  <2> QED  BY <2>1
<1>6. NothingForgotten'
  <2> SUFFICES ASSUME NEW m \in sent, m.n > nsent[m.dev] PROVE FALSE
    BY <1>1 DEF NothingForgotten
  <2>1. m.n <= nsent[m.dev] /\ m.n \in Nat /\ nsent[m.dev] \in Nat
    BY <1>1 DEF Carried, Sound, Numbered, TypeOK, Message
  <2> QED  BY <2>1
<1> QED  BY <1>3, <1>4, <1>5, <1>6 DEF Carried

\* What a step of the phone does.
Steps ==
  \/ Idles
  \/ \E d \in Device : \E new, L : Sends(d, new, L)
  \/ \E d, e \in Device : \E m, L : Forwards(d, e, m, L)
  \/ \E d \in Device : \E M : Takes(d, M)
  \/ \E d \in Device : \E n : Applies(d, n) /\ Commit(d)
  \/ Dies

LEMMA SharedStep ==
  ASSUME SharedTypeOK, Owned, Sound, [SharedNext]_sharedVars
  PROVE  SharedTypeOK' /\ Steps
<1>1. CASE \E p \in User : SendMessage(p)
  <2>1. PICK p \in User : SendMessage(p)
    BY <1>1
  <2>2. SharedTypeOK'
    BY <2>1, SendShared
  <2>3. \E new, L : Sends(current, new, L)
    BY <2>1, <2>2, SendStep
  <2>4. current \in Device
    BY ToldFacts
  <2> QED  BY <2>2, <2>3, <2>4 DEF Steps
<1>2. CASE SignOut
  <2>1. /\ current' = nobody /\ told' = Append(told, Stay(nobody))
        /\ UNCHANGED <<vars, astray>> /\ signIns' = signIns
    BY <1>2 DEF SignOut
  <2>2. nobody \in Device /\ signIns' \in 0..MaxSignIns
    BY <2>1, SharedPhoneAssumption DEF SharedTypeOK
  <2>3. SharedTypeOK'
    BY <2>1, <2>2, TellShared
  <2>4. Idles
    BY <1>2, <2>2, IdleStep
  <2> QED  BY <2>3, <2>4 DEF Steps
<1>3. CASE ChangeUser
  <2>1. SharedTypeOK'
    BY <1>3, ChangeShared
  <2>2. Idles
    BY <1>3, SharedPhoneAssumption, IdleStep
  <2> QED  BY <2>1, <2>2 DEF Steps
<1>4. CASE KillAll
  BY <1>4, KillShared, DieStep DEF Steps
<1>5. ASSUME NEW d \in Device, SignIn(d) PROVE SharedTypeOK' /\ Steps
  <2>1. /\ current' = d /\ told' = Append(told, Stay(d))
        /\ UNCHANGED <<vars, astray>> /\ signIns' = signIns + 1 /\ signIns < MaxSignIns
    BY <1>5 DEF SignIn
  <2>2. signIns' \in 0..MaxSignIns
    BY <2>1, SharedPhoneAssumption DEF SharedTypeOK
  <2>3. SharedTypeOK'
    BY <2>1, <2>2, TellShared
  <2>4. Idles
    BY <1>5, IdleStep
  <2> QED  BY <2>3, <2>4 DEF Steps
<1>6. ASSUME NEW d \in Device, MirrorAnywhere(d) PROVE SharedTypeOK' /\ Steps
  <2>1. SharedTypeOK'
    BY <1>6, MirrorShared
  <2>2. \E e \in Device : \E m, L : Forwards(d, e, m, L)
    BY <1>6, ForwardStep
  <2> QED  BY <2>1, <2>2 DEF Steps
<1>7. ASSUME NEW d \in Device, Persist(d) PROVE SharedTypeOK' /\ Steps
  <2>1. SharedTypeOK'
    BY <1>7, PersistShared
  <2>2. Idles
    BY <1>7, IdleStep
  <2> QED  BY <2>1, <2>2 DEF Steps
<1>8. ASSUME NEW d \in Device, Serve(d) \/ (UploadDone(d) /\ UNCHANGED phoneVars)
      PROVE  SharedTypeOK' /\ Steps
  <2>1. /\ UNCHANGED phoneVars
        /\ Commit(d) \/ Ack(d) \/ Reject(d) \/ Disconnect(d) \/ UploadDone(d)
    BY <1>8 DEF Serve
  <2>2. SharedTypeOK'
    BY <2>1, ClientShared
  <2>3. CASE Commit(d)
    <3>1. \E n : Applies(d, n)
      BY <2>1, <2>3, ApplyStep
    <3> QED  BY <2>2, <2>3, <3>1 DEF Steps
  <2>4. CASE Ack(d) \/ Reject(d)
    <3>1. \E M : Takes(d, M)
      BY <2>1, <2>4, TakeStep
    <3> QED  BY <2>2, <3>1 DEF Steps
  <2>5. CASE Disconnect(d) \/ UploadDone(d)
    <3>1. Idles
      BY <2>1, <2>5, IdleStep
    <3> QED  BY <2>2, <3>1 DEF Steps
  <2> QED  BY <2>1, <2>3, <2>4, <2>5
<1>9. CASE UNCHANGED sharedVars
  <2>1. SharedTypeOK'
    <3>1. UNCHANGED vars /\ UNCHANGED phoneVars
      BY <1>9 DEF sharedVars
    <3>2. TypeOK' <=> TypeOK
      BY <3>1 DEF TypeOK, vars, backend, client, history
    <3>3. writes' = writes /\ stored' = stored /\ sent' = sent /\ told' = told
          /\ current' = current /\ signIns' = signIns /\ astray' = astray
      BY <3>1 DEF vars, client, history, phoneVars
    <3> QED  BY <3>2, <3>3 DEF SharedTypeOK, Newest
  <2>2. Idles
    BY <1>9, SharedPhoneAssumption, IdleStep
  <2> QED  BY <2>1, <2>2 DEF Steps
<1> QED  BY <1>1, <1>2, <1>3, <1>4, <1>5, <1>6, <1>7, <1>8, <1>9 DEF SharedNext

LEMMA StepCarried ==
  ASSUME SharedTypeOK, Carried, [SharedNext]_sharedVars
  PROVE  SharedTypeOK' /\ Carried' /\ Steps
<1>1. SharedTypeOK' /\ Steps
  BY SharedStep DEF Carried
<1>2. Carried'
  BY <1>1, IdleCarried, SendCarried, ForwardCarried, TakeCarried, ApplyCarried, DieCarried
     DEF Steps
<1> QED  BY <1>1, <1>2

\* Every variable of the shared phone has its type, and the worker queue holds a task
\* for every write that is not persisted (Service.swift:46, SharedPhone.SharedTypeOK).
THEOREM SharedTypeCorrect == SharedSpec => []SharedTypeOK
<1>1. SharedInit => SharedTypeOK /\ Carried
  BY InitCarried
<1>2. (SharedTypeOK /\ Carried) /\ [SharedNext]_sharedVars => (SharedTypeOK /\ Carried)'
  BY StepCarried
<1> QED  BY <1>1, <1>2, PTL DEF SharedSpec

\* Sign-outs lose no message: whatever the order of sign-outs, sign-ins, kills and
\* completions, one sent since the launch has arrived, was refused, or is held by
\* some user's queue or handler (Service.swift:46).
THEOREM NothingForgottenAlways == SharedSpec => []NothingForgotten
<1>1. SharedInit => SharedTypeOK /\ Carried
  BY InitCarried
<1>2. (SharedTypeOK /\ Carried) /\ [SharedNext]_sharedVars => (SharedTypeOK /\ Carried)'
  BY StepCarried
<1>3. SharedTypeOK /\ Carried => NothingForgotten
  BY DEF Carried
<1> QED  BY <1>1, <1>2, <1>3, PTL DEF SharedSpec

-----------------------------------------------------------------------------
(***************************************************************************)
(* The order of delivery.  What is shown in Messaging_proofs of all        *)
(* messages of a device holds here of those that stay in the queue of      *)
(* their own user: what is nearer to its delivery was sent earlier, and    *)
(* what is not delivered was sent after all that is.                       *)
(***************************************************************************)

MyLine(d) ==
  \A s, i, m, t, j, k :
    Holding(d, s, i, m) /\ Mine(d, m) /\ Holding(d, t, j, k) /\ Mine(d, k) /\ Ahead(s, i, t, j) =>
      m.n < k.n

MyNotOvertaken(d) ==
  \A s, i, m : Holding(d, s, i, m) /\ Mine(d, m) =>
    \/ s = 1 /\ Delivered(m)
    \/ \A k \in sent : Mine(d, k) /\ Delivered(k) => k.n < m.n

InTheirOrder == \A d \in Device : MyLine(d) /\ MyNotOvertaken(d)

\* What a queue holds after a step it held before, in the same order.
Follows(d) ==
  /\ \A m : Mine(d, m)' => Mine(d, m)
  /\ \A s, i, m : Holding(d, s, i, m)' /\ Mine(d, m)' =>
       \E s0, i0 : Holding(d, s0, i0, m) /\ (s0 = 1 => s = 1)
  /\ \A s, i, m, t, j, k :
       Holding(d, s, i, m)' /\ Mine(d, m)' /\ Holding(d, t, j, k)' /\ Mine(d, k)'
       /\ Ahead(s, i, t, j) =>
         \E s0, i0, t0, j0 :
           Holding(d, s0, i0, m) /\ Holding(d, t0, j0, k) /\ Ahead(s0, i0, t0, j0)

LEMMA FollowsKept ==
  ASSUME NEW d \in Device, MyLine(d), MyNotOvertaken(d), Follows(d),
         thread' = thread, sent' = sent
  PROVE  MyLine(d)' /\ MyNotOvertaken(d)'
<1>1. MyLine(d)'
  <2> SUFFICES ASSUME NEW s, NEW i, NEW m, NEW t, NEW j, NEW k,
                      Holding(d, s, i, m)', Mine(d, m)', Holding(d, t, j, k)', Mine(d, k)',
                      Ahead(s, i, t, j)
               PROVE  m.n < k.n
    BY DEF MyLine, Ahead
  <2>1. PICK s0, i0, t0, j0 :
          Holding(d, s0, i0, m) /\ Holding(d, t0, j0, k) /\ Ahead(s0, i0, t0, j0)
    BY DEF Follows
  <2>2. Mine(d, m) /\ Mine(d, k)
    BY DEF Follows
  <2> QED  BY <2>1, <2>2 DEF MyLine
<1>2. MyNotOvertaken(d)'
  <2> SUFFICES ASSUME NEW s, NEW i, NEW m, Holding(d, s, i, m)', Mine(d, m)'
               PROVE  \/ s = 1 /\ Delivered(m)'
                      \/ \A k \in sent : Mine(d, k)' /\ Delivered(k)' => k.n < m.n
    BY DEF MyNotOvertaken
  <2>1. PICK s0, i0 : Holding(d, s0, i0, m) /\ (s0 = 1 => s = 1)
    BY DEF Follows
  <2>2. Mine(d, m) /\ \A k : Mine(d, k)' => Mine(d, k)
    BY DEF Follows
  <2>3. \A k : Delivered(k)' <=> Delivered(k)
    BY SameDeliveries
  <2> QED  BY <2>1, <2>2, <2>3 DEF MyNotOvertaken
<1> QED  BY <1>1, <1>2

\* A queue of which only the beginning goes away, or nothing.
LEMMA SameFollows ==
  ASSUME NEW d \in Device, astray \subseteq astray',
         \A s, i, m : Holding(d, s, i, m)' => Holding(d, s, i, m)
  PROVE  Follows(d)
<1>1. \A m : Mine(d, m)' => Mine(d, m)
  BY DEF Mine
<1> QED  BY <1>1 DEF Follows, Ahead

LEMMA InitInTheirOrder == SharedInit => InTheirOrder
BY DEF SharedInit, Init, InTheirOrder, MyLine, MyNotOvertaken, Holding

LEMMA IdleOrder ==
  ASSUME SharedTypeOK, Carried, InTheirOrder, Idles PROVE InTheirOrder'
<1>1. thread' = thread /\ sent' = sent /\ astray' = astray
  BY DEF Idles
<1> SUFFICES ASSUME NEW d \in Device PROVE MyLine(d)' /\ MyNotOvertaken(d)'
  BY DEF InTheirOrder
<1>2. \A s, i, m : s # 2 => (Holding(d, s, i, m)' <=> Holding(d, s, i, m))
  BY DEF Idles
<1>3. PICK y \in {0, 1} : \A i, m : Holding(d, 2, i, m)' => Holding(d, 2, i + y, m)
  BY DEF Idles
<1>4. \A s, i, m : Holding(d, s, i, m)' => s \in 1..3 /\ i \in Nat \ {0}
  BY DEF Holding
<1>5. Follows(d)
  <2>1. \A m : Mine(d, m)' => Mine(d, m)
    BY <1>1 DEF Mine
  <2>2. ASSUME NEW s, NEW i, NEW m, Holding(d, s, i, m)'
        PROVE  \E i0 : /\ Holding(d, s, i0, m)
                       /\ (s = 2 => i0 = i + y) /\ (s # 2 => i0 = i)
    <3>1. CASE s = 2
      BY <1>3, <2>2, <3>1
    <3>2. CASE s # 2
      BY <1>2, <2>2, <3>2
    <3> QED  BY <3>1, <3>2
  <2>3. ASSUME NEW s, NEW i, NEW m, NEW t, NEW j, NEW k,
               Holding(d, s, i, m)', Holding(d, t, j, k)', Ahead(s, i, t, j)
        PROVE  \E s0, i0, t0, j0 :
                 Holding(d, s0, i0, m) /\ Holding(d, t0, j0, k) /\ Ahead(s0, i0, t0, j0)
    <3>1. PICK i0 : Holding(d, s, i0, m) /\ (s = 2 => i0 = i + y) /\ (s # 2 => i0 = i)
      BY <2>2, <2>3
    <3>2. PICK j0 : Holding(d, t, j0, k) /\ (t = 2 => j0 = j + y) /\ (t # 2 => j0 = j)
      BY <2>2, <2>3
    <3>3. i \in Nat /\ j \in Nat /\ s \in 1..3 /\ t \in 1..3 /\ y \in {0, 1}
      BY <1>4, <2>3
    <3>4. Ahead(s, i0, t, j0)
      <4>1. CASE s < t
        BY <4>1 DEF Ahead
      <4>2. CASE s = t /\ i < j
        BY <3>1, <3>2, <3>3, <4>2 DEF Ahead
      <4> QED  BY <2>3, <4>1, <4>2 DEF Ahead
    <3> QED  BY <3>1, <3>2, <3>4
  <2> QED  BY <2>1, <2>2, <2>3 DEF Follows
<1> QED  BY <1>1, <1>5, FollowsKept DEF InTheirOrder

LEMMA DieOrder ==
  ASSUME SharedTypeOK, Carried, InTheirOrder, Dies PROVE InTheirOrder'
<1>1. thread' = thread /\ sent' = sent /\ astray' = astray
  BY DEF Dies
<1> SUFFICES ASSUME NEW d \in Device PROVE MyLine(d)' /\ MyNotOvertaken(d)'
  BY DEF InTheirOrder
<1>2. \A s, i, m : Holding(d, s, i, m)' => Holding(d, s, i, m)
  BY DEF Dies
<1>3. Follows(d)
  BY <1>1, <1>2, SameFollows
<1> QED  BY <1>1, <1>3, FollowsKept DEF InTheirOrder

LEMMA ForwardOrder ==
  ASSUME SharedTypeOK, Carried, InTheirOrder, NEW d \in Device, NEW e \in Device,
         NEW m, NEW L, Forwards(d, e, m, L)
  PROVE  InTheirOrder'
<1>1. /\ thread' = thread /\ sent' = sent /\ L \in Nat
      /\ astray' = IF m.dev = e THEN astray ELSE astray \cup {m}
  BY DEF Forwards
<1>2. /\ \A i, step, x : Queued(e, i, step, x) => i \in 1..L
      /\ \A x : Holding(d, 2, 1, x) <=> x = m
      /\ \A f \in Device : \A i, x : f # d => (Holding(f, 2, i, x)' <=> Holding(f, 2, i, x))
      /\ \A i, x : Holding(d, 2, i, x)' <=> i \in Nat \ {0} /\ Holding(d, 2, i + 1, x)
      /\ \A f \in Device : \A i, x : Holding(f, 3, i, x)' <=> Holding(f, 3, i, x)
  BY DEF Forwards, MirroredHandlers
<1>3. m.dev = d
  BY <1>2 DEF Carried, Owned, Held
<1>4. ASSUME NEW f \in Device
      PROVE  \A i, x : Holding(f, 1, i, x)' => Holding(f, 1, i, x) \/ (f = e /\ x = m /\ i = L + 1)
  <2> SUFFICES ASSUME NEW i, NEW x, Holding(f, 1, i, x)'
               PROVE  Holding(f, 1, i, x) \/ (f = e /\ x = m /\ i = L + 1)
    OBVIOUS
  <2>1. Queued(f, i, "peerAdd", x)'
    BY DEF Holding, Queued
  <2>2. Queued(f, i, "peerAdd", x) \/ (f = e /\ x = m /\ i = L + 1)
    BY <2>1 DEF Forwards, MirroredQueues
  <2> QED  BY <2>2, PlacesAreNumbers
<1> SUFFICES ASSUME NEW f \in Device PROVE MyLine(f)' /\ MyNotOvertaken(f)'
  BY DEF InTheirOrder
<1>5. \A x : Mine(f, x)' => Mine(f, x)
  BY <1>1 DEF Mine
<1>6. Follows(f)
  <2>1. CASE f # d
    <3>1. ~ Mine(f, m)'
      BY <1>3, <2>1 DEF Mine
    <3>2. \A s, i, x : Holding(f, s, i, x)' => s \in 1..3
      BY DEF Holding
    <3>3. \A s, i, x : Holding(f, s, i, x)' /\ Mine(f, x)' => Holding(f, s, i, x)
      <4> TAKE s, i, x
      <4> HAVE Holding(f, s, i, x)' /\ Mine(f, x)'
      <4>1. x # m /\ s \in 1..3
        BY <3>1, <3>2
      <4>2. CASE s = 1
        BY <1>4, <4>1, <4>2
      <4>3. CASE s = 2
        BY <1>2, <2>1, <4>3
      <4>4. CASE s = 3
        BY <1>2, <4>4
      <4> QED  BY <4>1, <4>2, <4>3, <4>4
    <3> QED  BY <1>5, <3>3 DEF Follows
  <2>2. CASE f = d
    <3>1. \A x : Mine(f, x)' /\ x = m => e = d
      BY <1>1, <1>3, <2>2 DEF Mine
    <3>2. ASSUME NEW s, NEW i, NEW x, Holding(f, s, i, x)', Mine(f, x)'
          PROVE  /\ i \in Nat \ {0}
                 /\ \E s0, i0 :
                      /\ Holding(f, s0, i0, x)
                      /\ \/ s = 1 /\ i = L + 1 /\ s0 = 2 /\ i0 = 1 /\ e = d
                         \/ s = 1 /\ (e = d => i < L + 1) /\ s0 = 1 /\ i0 = i
                         \/ s = 2 /\ s0 = 2 /\ i0 = i + 1
                         \/ s = 3 /\ s0 = 3 /\ i0 = i
      <4>1. s \in 1..3 /\ i \in Nat \ {0}
        BY <3>2 DEF Holding
      <4>2. CASE s = 1 /\ Holding(f, 1, i, x)
        <5>1. e = d => i \in 1..L
          BY <1>2, <2>2, <4>2, PlacesAreNumbers
        <5>2. e = d => i < L + 1
          BY <1>1, <5>1
        <5> QED  BY <4>1, <4>2, <5>2
      <4>3. CASE s = 1 /\ ~ Holding(f, 1, i, x)
        <5>1. f = e /\ x = m /\ i = L + 1
          BY <1>4, <3>2, <4>3
        <5>2. Holding(f, 2, 1, x)
          BY <1>2, <2>2, <5>1
        <5> QED  BY <2>2, <4>1, <4>3, <5>1, <5>2
      <4>4. CASE s = 2
        BY <1>2, <2>2, <3>2, <4>1, <4>4
      <4>5. CASE s = 3
        BY <1>2, <3>2, <4>1, <4>5
      <4> QED  BY <4>1, <4>2, <4>3, <4>4, <4>5
    <3>3. \A s, i, x : Holding(f, s, i, x)' /\ Mine(f, x)' =>
            \E s0, i0 : Holding(f, s0, i0, x) /\ (s0 = 1 => s = 1)
      <4> TAKE s, i, x
      <4> HAVE Holding(f, s, i, x)' /\ Mine(f, x)'
      <4> QED  BY <3>2
    <3>4. ASSUME NEW s, NEW i, NEW x, NEW t, NEW j, NEW k,
                 Holding(f, s, i, x)', Mine(f, x)', Holding(f, t, j, k)', Mine(f, k)',
                 Ahead(s, i, t, j)
          PROVE  \E s0, i0, t0, j0 :
                   Holding(f, s0, i0, x) /\ Holding(f, t0, j0, k) /\ Ahead(s0, i0, t0, j0)
      <4>1. PICK s0, i0 :
              /\ Holding(f, s0, i0, x)
              /\ \/ s = 1 /\ i = L + 1 /\ s0 = 2 /\ i0 = 1 /\ e = d
                 \/ s = 1 /\ (e = d => i < L + 1) /\ s0 = 1 /\ i0 = i
                 \/ s = 2 /\ s0 = 2 /\ i0 = i + 1
                 \/ s = 3 /\ s0 = 3 /\ i0 = i
        BY <3>2, <3>4
      <4>2. PICK t0, j0 :
              /\ Holding(f, t0, j0, k)
              /\ \/ t = 1 /\ j = L + 1 /\ t0 = 2 /\ j0 = 1 /\ e = d
                 \/ t = 1 /\ (e = d => j < L + 1) /\ t0 = 1 /\ j0 = j
                 \/ t = 2 /\ t0 = 2 /\ j0 = j + 1
                 \/ t = 3 /\ t0 = 3 /\ j0 = j
        BY <3>2, <3>4
      <4>3. i \in Nat \ {0} /\ j \in Nat \ {0}
        BY <3>2, <3>4
      <4>4. Ahead(s0, i0, t0, j0)
        <5>1. CASE s < t
          BY <1>1, <4>1, <4>2, <4>3, <5>1 DEF Ahead
        <5>2. CASE s = t /\ i < j
          BY <1>1, <4>1, <4>2, <4>3, <5>2 DEF Ahead
        <5> QED  BY <3>4, <5>1, <5>2 DEF Ahead
      <4> QED  BY <4>1, <4>2, <4>4
    <3> QED  BY <1>5, <3>3, <3>4 DEF Follows
  <2> QED  BY <2>1, <2>2
<1> QED  BY <1>1, <1>6, FollowsKept DEF InTheirOrder

LEMMA TakeOrder ==
  ASSUME SharedTypeOK, Carried, InTheirOrder, NEW d \in Device, NEW M, Takes(d, M)
  PROVE  InTheirOrder'
<1>1. thread' = thread /\ sent' = sent /\ astray' = astray /\ M \in Nat
  BY DEF Takes
<1>2. /\ \A i, m : Holding(d, 1, i, m)' <=> i \in Nat \ {0} /\ Holding(d, 1, i + 1, m)
      /\ \A i, m : Holding(d, 2, i, m)' <=> Holding(d, 2, i, m) \/ (i = M + 1 /\ Holding(d, 3, 1, m))
      /\ \A i, m : Holding(d, 3, i, m)' <=> i \in Nat \ {0} /\ Holding(d, 3, i + 1, m)
      /\ \A i, m : Holding(d, 2, i, m) => i \in 1..M
  BY DEF Takes
<1> SUFFICES ASSUME NEW f \in Device PROVE MyLine(f)' /\ MyNotOvertaken(f)'
  BY DEF InTheirOrder
<1>3. Follows(f)
  <2>1. CASE f # d
    <3>1. \A s, i, m : Holding(f, s, i, m)' => Holding(f, s, i, m)
      BY <2>1 DEF Takes, OthersSame
    <3> QED  BY <1>1, <3>1, SameFollows
  <2>2. CASE f = d
    <3>1. \A x : Mine(f, x)' => Mine(f, x)
      BY <1>1 DEF Mine
    <3>2. ASSUME NEW s, NEW i, NEW x, Holding(f, s, i, x)'
          PROVE  /\ i \in Nat \ {0}
                 /\ \E s0, i0 :
                      /\ Holding(f, s0, i0, x)
                      /\ \/ s = 1 /\ s0 = 1 /\ i0 = i + 1
                         \/ s = 2 /\ s0 = 2 /\ i0 = i /\ i <= M
                         \/ s = 2 /\ s0 = 3 /\ i0 = 1 /\ i = M + 1
                         \/ s = 3 /\ s0 = 3 /\ i0 = i + 1
      <4>1. s \in 1..3 /\ i \in Nat \ {0}
        BY <3>2 DEF Holding
      <4>2. CASE s = 1
        BY <1>2, <2>2, <3>2, <4>1, <4>2
      <4>3. CASE s = 2 /\ Holding(f, 2, i, x)
        <5>1. i <= M
          BY <1>1, <1>2, <2>2, <4>3
        <5> QED  BY <4>1, <4>3, <5>1
      <4>4. CASE s = 2 /\ ~ Holding(f, 2, i, x)
        <5>1. i = M + 1 /\ Holding(f, 3, 1, x)
          BY <1>2, <2>2, <3>2, <4>4
        <5> QED  BY <4>1, <4>4, <5>1
      <4>5. CASE s = 3
        BY <1>2, <2>2, <3>2, <4>1, <4>5
      <4> QED  BY <4>1, <4>2, <4>3, <4>4, <4>5
    <3>3. \A s, i, x : Holding(f, s, i, x)' /\ Mine(f, x)' =>
            \E s0, i0 : Holding(f, s0, i0, x) /\ (s0 = 1 => s = 1)
      <4> TAKE s, i, x
      <4> HAVE Holding(f, s, i, x)' /\ Mine(f, x)'
      <4> QED  BY <3>2
    <3>4. ASSUME NEW s, NEW i, NEW x, NEW t, NEW j, NEW k,
                 Holding(f, s, i, x)', Holding(f, t, j, k)', Ahead(s, i, t, j)
          PROVE  \E s0, i0, t0, j0 :
                   Holding(f, s0, i0, x) /\ Holding(f, t0, j0, k) /\ Ahead(s0, i0, t0, j0)
      <4>1. PICK s0, i0 :
              /\ Holding(f, s0, i0, x)
              /\ \/ s = 1 /\ s0 = 1 /\ i0 = i + 1
                 \/ s = 2 /\ s0 = 2 /\ i0 = i /\ i <= M
                 \/ s = 2 /\ s0 = 3 /\ i0 = 1 /\ i = M + 1
                 \/ s = 3 /\ s0 = 3 /\ i0 = i + 1
        BY <3>2, <3>4
      <4>2. PICK t0, j0 :
              /\ Holding(f, t0, j0, k)
              /\ \/ t = 1 /\ t0 = 1 /\ j0 = j + 1
                 \/ t = 2 /\ t0 = 2 /\ j0 = j /\ j <= M
                 \/ t = 2 /\ t0 = 3 /\ j0 = 1 /\ j = M + 1
                 \/ t = 3 /\ t0 = 3 /\ j0 = j + 1
        BY <3>2, <3>4
      <4>3. i \in Nat \ {0} /\ j \in Nat \ {0}
        BY <3>2, <3>4
      <4>4. Ahead(s0, i0, t0, j0)
        <5>1. CASE s < t
          BY <1>1, <4>1, <4>2, <4>3, <5>1 DEF Ahead
        <5>2. CASE s = t /\ i < j
          BY <1>1, <4>1, <4>2, <4>3, <5>2 DEF Ahead
        <5> QED  BY <3>4, <5>1, <5>2 DEF Ahead
      <4> QED  BY <4>1, <4>2, <4>4
    <3> QED  BY <3>1, <3>3, <3>4 DEF Follows
  <2> QED  BY <2>1, <2>2
<1> QED  BY <1>1, <1>3, FollowsKept DEF InTheirOrder

LEMMA SendOrder ==
  ASSUME SharedTypeOK, Carried, InTheirOrder, NEW d \in Device, NEW new, NEW L, Sends(d, new, L)
  PROVE  InTheirOrder'
<1>1. /\ thread' = thread /\ astray' = astray /\ sent' = sent \cup {new} /\ L \in Nat
      /\ new \in Message /\ new.dev = d /\ new.n = nsent[d] + 1
  BY DEF Sends
<1>2. /\ nsent[d] \in Nat /\ \A k \in sent : k \in Message /\ k.n \in Nat /\ k.n <= nsent[k.dev]
  <2>1. TypeOK
    BY DEF SharedTypeOK
  <2>2. nsent[d] \in 0..MaxSends /\ sent \subseteq Message
    BY <2>1 DEF TypeOK
  <2> QED  BY <2>2, ConstantsAssumption DEF Carried, Sound, Numbered, Message
<1>3. \A k \in sent : k.dev = d => k.n < new.n
  BY <1>1, <1>2
<1>4. ~ Delivered(new)
  <2>1. new \notin sent
    BY <1>1, <1>2
  <2> QED  BY <1>1, <2>1 DEF Carried, Sound, DeliveredSent
<1>5. \A k : Delivered(k)' <=> Delivered(k)
  BY <1>1, SameDeliveries
<1>6. \A e, k : Mine(e, k)' <=> Mine(e, k)
  BY <1>1 DEF Mine
<1> SUFFICES ASSUME NEW e \in Device PROVE MyLine(e)' /\ MyNotOvertaken(e)'
  BY DEF InTheirOrder
<1>7. MyLine(e) /\ MyNotOvertaken(e)
  BY DEF InTheirOrder
<1>8. \A s, i, m : Holding(e, s, i, m)' =>
        Holding(e, s, i, m) \/ (e = d /\ s = 3 /\ i = L + 1 /\ m = new)
  <2>1. CASE e # d
    BY <2>1 DEF Sends, OthersSame
  <2>2. CASE e = d
    <3> TAKE s, i, m
    <3> HAVE Holding(e, s, i, m)'
    <3>1. s \in 1..3
      BY DEF Holding
    <3>2. CASE s = 1
      BY <2>2, <3>2 DEF Sends
    <3>3. CASE s = 2
      BY <2>2, <3>3 DEF Sends
    <3>4. CASE s = 3
      BY <2>2, <3>4 DEF Sends
    <3> QED  BY <3>1, <3>2, <3>3, <3>4
  <2> QED  BY <2>1, <2>2
<1>9. \A s, i, m : Holding(e, s, i, m) =>
        s \in 1..3 /\ i \in Nat /\ (Mine(e, m) => m \in sent) /\ (e = d /\ s = 3 => i \in 1..L)
  <2> TAKE s, i, m
  <2> HAVE Holding(e, s, i, m)
  <2>1. s \in 1..3 /\ i \in Nat
    BY PlacesAreNumbers
  <2>2. m \in sent
    <3>1. CASE s = 1
      BY <3>1, PlacesAreNumbers DEF Carried, Owned
    <3>2. CASE s # 1
      BY <3>2 DEF Carried, Owned, Held
    <3> QED  BY <3>1, <3>2
  <2>3. e = d /\ s = 3 => i \in 1..L
    BY PlacesAreNumbers DEF Sends
  <2> QED  BY <2>1, <2>2, <2>3
<1>10. MyLine(e)'
  <2> SUFFICES ASSUME NEW s, NEW i, NEW m, NEW t, NEW j, NEW k,
                      Holding(e, s, i, m)', Mine(e, m), Holding(e, t, j, k)', Mine(e, k),
                      Ahead(s, i, t, j)
               PROVE  m.n < k.n
    BY <1>6 DEF MyLine, Ahead
  <2>1. CASE Holding(e, s, i, m) /\ Holding(e, t, j, k)
    BY <1>7, <2>1 DEF MyLine
  <2>2. CASE Holding(e, s, i, m) /\ ~ Holding(e, t, j, k)
    <3>1. e = d /\ k = new /\ m \in sent /\ m.dev = d
      BY <1>8, <1>9, <2>2 DEF Mine
    <3> QED  BY <1>3, <3>1
  <2>3. CASE ~ Holding(e, s, i, m)
    <3>1. e = d /\ s = 3 /\ i = L + 1
      BY <1>8, <2>3
    <3>2. t \in 1..3 /\ (t = 3 => j \in 1..L \/ j = L + 1)
      BY <1>8, <1>9, <3>1
    <3> QED  BY <1>1, <3>1, <3>2 DEF Ahead
  <2> QED  BY <2>1, <2>2, <2>3
<1>11. MyNotOvertaken(e)'
  <2> SUFFICES ASSUME NEW s, NEW i, NEW m, Holding(e, s, i, m)', Mine(e, m)
               PROVE  \/ s = 1 /\ Delivered(m)
                      \/ \A k \in sent' : Mine(e, k) /\ Delivered(k) => k.n < m.n
    BY <1>5, <1>6 DEF MyNotOvertaken
  <2>1. CASE Holding(e, s, i, m)
    BY <1>1, <1>4, <1>7, <2>1 DEF MyNotOvertaken
  <2>2. CASE ~ Holding(e, s, i, m)
    <3>1. e = d /\ m = new
      BY <1>8, <2>2
    <3> QED  BY <1>1, <1>3, <1>4, <3>1 DEF Mine
  <2> QED  BY <2>1, <2>2
<1> QED  BY <1>10, <1>11

LEMMA ApplyOrder ==
  ASSUME SharedTypeOK, Carried, InTheirOrder, NEW d \in Device, NEW n, Applies(d, n)
  PROVE  InTheirOrder'
<1>1. /\ sent' = sent /\ astray' = astray /\ writes' = writes /\ main' = main
      /\ n = inflight[d] + 1
  BY DEF Applies
<1>2. /\ \A m \in Message : Delivered(m) => Delivered(m)'
      /\ \A m : Queued(d, n, "peerAdd", m) => Delivered(m)'
      /\ \A m \in Message : Delivered(m)' => Delivered(m) \/ Queued(d, n, "peerAdd", m)
  BY DEF Applies
<1>3. inflight[d] \in Nat /\ sent \subseteq Message
  BY DEF SharedTypeOK, TypeOK
<1> SUFFICES ASSUME NEW e \in Device PROVE MyLine(e)' /\ MyNotOvertaken(e)'
  BY DEF InTheirOrder
<1>4. \A s, i, m : Holding(e, s, i, m)' <=> Holding(e, s, i, m)
  BY <1>1, SamePlaces
<1>5. \A m : Mine(e, m)' <=> Mine(e, m)
  BY <1>1 DEF Mine
<1>6. MyLine(e) /\ MyNotOvertaken(e)
  BY DEF InTheirOrder
<1>7. MyLine(e)'
  BY <1>4, <1>5, <1>6 DEF MyLine, Ahead
<1>8. MyNotOvertaken(e)'
  <2> SUFFICES ASSUME NEW s, NEW i, NEW m, Holding(e, s, i, m), Mine(e, m),
                      ~ (s = 1 /\ Delivered(m)'), NEW k \in sent, Mine(e, k), Delivered(k)'
               PROVE  k.n < m.n
    BY <1>1, <1>4, <1>5 DEF MyNotOvertaken
  <2>1. m \in sent /\ s \in 1..3 /\ i \in Nat \ {0}
    <3>1. CASE s = 1
      BY <3>1, PlacesAreNumbers DEF Carried, Owned
    <3>2. CASE s # 1
      BY <3>2, PlacesAreNumbers DEF Carried, Owned, Held
    <3> QED  BY <3>1, <3>2
  <2>2. ~ (s = 1 /\ Delivered(m))
    BY <1>2, <1>3, <2>1
  <2>3. CASE Delivered(k)
    BY <1>6, <2>2, <2>3 DEF MyNotOvertaken
  <2>4. CASE ~ Delivered(k)
    <3>1. Queued(d, n, "peerAdd", k)
      BY <1>2, <1>3, <2>4
    <3>2. e = d
      BY <3>1 DEF Carried, Owned, Mine
    <3>3. Holding(e, 1, n, k)
      BY <3>1, <3>2, PlacesAreNumbers
    <3>4. CASE Ahead(1, n, s, i)
      BY <1>6, <3>3, <3>4 DEF MyLine
    <3>5. CASE ~ Ahead(1, n, s, i)
      <4>1. s = 1 /\ i <= n
        BY <1>1, <1>3, <2>1, <3>5 DEF Ahead
      <4>2. CASE i = n
        BY <1>2, <3>2, <4>1, <4>2, PlacesAreNumbers
      <4>3. CASE i # n
        <5>1. i <= inflight[d]
          BY <1>1, <1>3, <2>1, <4>1, <4>3
        <5> QED  BY <2>2, <3>2, <4>1, <5>1, PlacesAreNumbers DEF Carried, InFlightDelivered
      <4> QED  BY <4>2, <4>3
    <3> QED  BY <3>4, <3>5
  <2> QED  BY <2>3, <2>4
<1> QED  BY <1>7, <1>8

LEMMA StepInTheirOrder ==
  ASSUME SharedTypeOK, Carried, InTheirOrder, [SharedNext]_sharedVars PROVE InTheirOrder'
<1>1. Steps
  BY StepCarried
<1> QED  BY <1>1, IdleOrder, SendOrder, ForwardOrder, TakeOrder, ApplyOrder, DieOrder DEF Steps

\* A message of a user overtakes an earlier one only when the handler of one of the
\* two ran while the phone was somebody else's: the completion handler issues its
\* writes for whoever is signed in then (Service.swift:46).
THEOREM OvertakenOnlyAstrayAlways == SharedSpec => []OvertakenOnlyAstray
<1>1. SharedInit => SharedTypeOK /\ Carried /\ InTheirOrder
  BY InitCarried, InitInTheirOrder
<1>2. (SharedTypeOK /\ Carried /\ InTheirOrder) /\ [SharedNext]_sharedVars
      => (SharedTypeOK /\ Carried /\ InTheirOrder)'
  BY StepCarried, StepInTheirOrder
<1>3. SharedTypeOK /\ Carried /\ InTheirOrder => OvertakenOnlyAstray
  <2> SUFFICES ASSUME SharedTypeOK, Carried, InTheirOrder, NEW m \in sent, NEW k \in sent,
                      k.dev = m.dev, k.n < m.n, k.n > launched[k.dev], Delivered(m),
                      {k, m} \cap astray = {}
               PROVE  PeerSettled(k)
    BY DEF OvertakenOnlyAstray, PeerSettled
  <2>1. CASE ~ PeerSettled(k)
    <3>1. OnHand(k)
      BY <2>1, ForgottenIff DEF Carried
    <3>2. PICK e \in Device : \E s, i : Holding(e, s, i, k)
      BY <3>1 DEF OnHand
    <3>3. PICK s, i : Holding(e, s, i, k)
      BY <3>2
    <3>4. k \notin astray /\ m \notin astray
      OBVIOUS
    <3>5. k.dev = e
      <4>1. CASE s = 1
        BY <3>3, <3>4, <4>1, PlacesAreNumbers DEF Carried, Owned
      <4>2. CASE s # 1
        BY <3>3, <4>2 DEF Carried, Owned, Held
      <4> QED  BY <4>1, <4>2
    <3>6. Mine(e, k) /\ Mine(e, m)
      BY <3>4, <3>5 DEF Mine
    <3>7. ~ Delivered(k)
      BY <2>1 DEF PeerSettled
    <3>8. m.n < k.n
      BY <3>3, <3>6, <3>7 DEF InTheirOrder, MyNotOvertaken
    <3>9. m.n \in Nat /\ k.n \in Nat
      <4>1. TypeOK
        BY DEF SharedTypeOK
      <4>2. m \in Message /\ k \in Message
        BY <4>1 DEF TypeOK
      <4> QED  BY <4>2 DEF Message
    <3> QED  BY <3>8, <3>9
  <2> QED  BY <2>1
<1> QED  BY <1>1, <1>2, <1>3, PTL DEF SharedSpec

-----------------------------------------------------------------------------
(***************************************************************************)
(* The channel.  What has arrived are the messages of OwnArrived.  A send  *)
(* adds none, nor does a handler: a message that goes astray has not       *)
(* arrived yet, as its handler was still to come.  The backend adds one at *)
(* most, which MyNotOvertaken and MyLine put after all those before it.    *)
(***************************************************************************)

OwnArrived == {m \in sent \ astray : Delivered(m)}

\* Steps that deliver nothing of its own sender's queue.
LEMMA QuietStep ==
  ASSUME sent' = sent, astray' = astray, \A m \in sent : Delivered(m)' <=> Delivered(m)
  PROVE  UNCHANGED OwnChannel!vars
BY DEF OwnChannel!vars

LEMMA StillStep ==
  ASSUME thread' = thread, sent' = sent, astray' = astray
  PROVE  UNCHANGED OwnChannel!vars
BY QuietStep, SameDeliveries

LEMMA SendOwn ==
  ASSUME SharedTypeOK, Carried, NEW d \in Device, NEW new, NEW L, Sends(d, new, L)
  PROVE  OwnChannel!Next
<1>1. /\ new \in Message /\ new.dev = d /\ new.n = nsent[d] + 1
      /\ thread' = thread /\ sent' = sent \cup {new} /\ astray' = astray
  BY DEF Sends
<1>2. sent \subseteq Message /\ nsent[d] \in Nat
  BY ConstantsAssumption DEF SharedTypeOK, TypeOK
<1>3. \A k \in sent : k.dev = d => k.n < new.n
  <2> SUFFICES ASSUME NEW k \in sent, k.dev = d PROVE k.n < new.n
    OBVIOUS
  <2>1. k.n <= nsent[d] /\ k.n \in Nat
    BY <1>2 DEF Carried, Sound, Numbered, Message
  <2> QED  BY <1>1, <1>2, <2>1
<1>4. ~ Delivered(new)
  <2>1. new \notin sent
    BY <1>1, <1>2, <1>3
  <2> QED  BY <1>1, <2>1 DEF Carried, Sound, DeliveredSent
<1>5. \A m : Delivered(m)' <=> Delivered(m)
  BY <1>1, SameDeliveries
<1>6. OwnArrived' = OwnArrived
  BY <1>1, <1>4, <1>5 DEF OwnArrived
<1>7. OwnChannel!Send(new)
  BY <1>1, <1>3, <1>6 DEF OwnChannel!Send, OwnArrived
<1> QED  BY <1>1, <1>7 DEF OwnChannel!Next

LEMMA ForwardOwn ==
  ASSUME SharedTypeOK, Carried, InTheirOrder, NEW d \in Device, NEW e \in Device,
         NEW m, NEW L, Forwards(d, e, m, L)
  PROVE  UNCHANGED OwnChannel!vars
<1>1. /\ thread' = thread /\ sent' = sent
      /\ astray' = IF m.dev = e THEN astray ELSE astray \cup {m}
      /\ Holding(d, 2, 1, m)
  BY DEF Forwards
<1>2. \A k : Delivered(k)' <=> Delivered(k)
  BY <1>1, SameDeliveries
<1>3. m \notin OwnArrived
  <2> SUFFICES ASSUME m \in sent, m \notin astray, Delivered(m) PROVE FALSE
    BY DEF OwnArrived
  <2>1. Held(d, m)
    BY <1>1 DEF Held
  <2>2. Mine(d, m)
    BY <2>1 DEF Carried, Owned, Mine
  <2>3. MyNotOvertaken(d)
    BY DEF InTheirOrder
  <2>4. m.n < m.n
    BY <1>1, <2>2, <2>3 DEF MyNotOvertaken
  <2>5. m \in Message
    BY DEF SharedTypeOK, TypeOK
  <2> QED  BY <2>4, <2>5 DEF Message
<1>4. OwnArrived' = OwnArrived
  BY <1>1, <1>2, <1>3 DEF OwnArrived
<1> QED  BY <1>1, <1>4 DEF OwnChannel!vars, OwnArrived

LEMMA ApplyOwn ==
  ASSUME SharedTypeOK, Carried, InTheirOrder, NEW d \in Device, NEW n, Applies(d, n)
  PROVE  [OwnChannel!Next]_(OwnChannel!vars)
<1>1. /\ sent' = sent /\ astray' = astray
      /\ \A m \in Message : Delivered(m) => Delivered(m)'
      /\ \A m \in Message : Delivered(m)' => Delivered(m) \/ Queued(d, n, "peerAdd", m)
  BY DEF Applies
<1>2. sent \subseteq Message
  BY DEF SharedTypeOK, TypeOK
<1>3. CASE \A m \in sent : Delivered(m)' => Delivered(m) \/ m \in astray
  <2>1. OwnArrived' = OwnArrived
    BY <1>1, <1>2, <1>3 DEF OwnArrived
  <2> QED  BY <1>1, <2>1 DEF OwnChannel!vars, OwnArrived
<1>4. ASSUME NEW m \in sent, m \notin astray, Delivered(m)', ~ Delivered(m)
      PROVE  OwnChannel!Next
  <2>1. Queued(d, n, "peerAdd", m)
    BY <1>1, <1>2, <1>4
  <2>2. Holding(d, 1, n, m) /\ Mine(d, m)
    BY <1>4, <2>1, PlacesAreNumbers DEF Carried, Owned, Mine
  <2>3. \A k \in OwnArrived : k.dev = m.dev => k.n < m.n
    BY <1>4, <2>2 DEF OwnArrived, InTheirOrder, MyNotOvertaken, Mine
  <2>4. \A k \in Message : Queued(d, n, "peerAdd", k) => k = m
    BY <2>1 DEF Queued
  <2>5. OwnArrived' = OwnArrived \cup {m}
    BY <1>1, <1>2, <1>4, <2>4 DEF OwnArrived
  <2>6. OwnChannel!Deliver(m)
    BY <1>1, <1>4, <2>3, <2>5 DEF OwnChannel!Deliver, OwnArrived
  <2> QED  BY <1>2, <2>6 DEF OwnChannel!Next
<1> QED  BY <1>3, <1>4

LEMMA StepOwn ==
  ASSUME SharedTypeOK, Carried, InTheirOrder, [SharedNext]_sharedVars
  PROVE  [OwnChannel!Next]_(OwnChannel!vars)
<1>1. Steps
  BY StepCarried
<1>2. CASE Idles \/ Dies \/ \E d \in Device : \E M : Takes(d, M)
  <2>1. thread' = thread /\ sent' = sent /\ astray' = astray
    BY <1>2 DEF Idles, Dies, Takes
  <2> QED  BY <2>1, StillStep
<1> QED  BY <1>1, <1>2, SendOwn, ForwardOwn, ApplyOwn DEF Steps

\* The phone implements the channel of Messaging for the messages that stay with their
\* sender: in the order in which they were sent, each at most once, and none late,
\* whoever signs in and out, whatever is killed, sent again and refused (Service.swift:46).
THEOREM SharedRefinement == SharedSpec => ImplementsOwnDelivery
<1>1. SharedInit => SharedTypeOK /\ Carried /\ InTheirOrder
  BY InitCarried, InitInTheirOrder
<1>2. (SharedTypeOK /\ Carried /\ InTheirOrder) /\ [SharedNext]_sharedVars
      => (SharedTypeOK /\ Carried /\ InTheirOrder)'
  BY StepCarried, StepInTheirOrder
<1>3. SharedInit => OwnChannel!Init
  BY DEF SharedInit, Init, OwnChannel!Init
<1>4. (SharedTypeOK /\ Carried /\ InTheirOrder) /\ [SharedNext]_sharedVars
      => [OwnChannel!Next]_(OwnChannel!vars)
  BY StepOwn
<1> QED
  BY <1>1, <1>2, <1>3, <1>4, PTL DEF SharedSpec, ImplementsOwnDelivery, OwnChannel!Spec

-----------------------------------------------------------------------------
(***************************************************************************)
(* The latest-message documents.  A message that went through the queue of *)
(* somebody else takes no part in the order; its write may set a document  *)
(* back, and be overtaken.  The others are followed as in                  *)
(* Messaging_proofs: their writes are in line (MyWritesInLine), ahead of   *)
(* those their handlers still have to issue (MyWritesFirst); what is in    *)
(* flight shows in its document (MyInFlightShown); and a message of this   *)
(* launch is refused, or under way, or shown for good (MyNoneLost).        *)
(***************************************************************************)

\* What its handlers still have to issue for d was sent after m.
MyBehind(d, m) == \A k : Held(d, k) /\ Mine(d, k) => m.n < k.n

\* The document shows m, a later message of the same user or one of another user,
\* unless one of the two went astray.
MyShows(step, m) ==
  LET r == recent[Owner(step, m)][Peer(step, m)] IN
  r # NoMessage /\ (r.dev = m.dev => r.n >= m.n \/ {r, m} \cap astray # {})

\* What will write the document again for its user is later.
MyLast(step, m) ==
  /\ MyBehind(m.dev, m)
  /\ \A i, k : Queued(m.dev, i, step, k) /\ Mine(m.dev, k) => m.n < k.n

MyWritesInLine ==
  \A d \in Device : \A step, i, j, m, k :
    /\ IsRecent(step) /\ i < j
    /\ Queued(d, i, step, m) /\ Mine(d, m)
    /\ Queued(d, j, step, k) /\ Mine(d, k)
    => m.n < k.n

MyWritesFirst ==
  \A d \in Device : \A step, i, m :
    IsRecent(step) /\ Queued(d, i, step, m) /\ Mine(d, m) => MyBehind(d, m)

MyInFlightShown ==
  \A d \in Device : \A step, i, m :
    IsRecent(step) /\ Queued(d, i, step, m) /\ i <= inflight[d] => MyShows(step, m)

MyOnItsWay(step, m) ==
  \/ Refused(step, m)
  \/ Held(m.dev, m)
  \/ \E e \in Device : \E i : Queued(e, i, step, m)
  \/ MyShows(step, m) /\ (m \in astray \/ MyLast(step, m))

MyNoneLost ==
  \A step, m : IsRecent(step) /\ m \in sent /\ m.n > launched[m.dev] => MyOnItsWay(step, m)

Shown == MyWritesInLine /\ MyWritesFirst /\ MyInFlightShown /\ MyNoneLost

LEMMA InitShown == SharedInit => Shown
<1> SUFFICES ASSUME SharedInit PROVE Shown
  OBVIOUS
<1>1. sent = {} /\ \A d \in Device : \A i, step, m : ~ Queued(d, i, step, m)
  BY DEF SharedInit, Init, Queued
<1> QED
  BY <1>1 DEF Shown, MyWritesInLine, MyWritesFirst, MyInFlightShown, MyNoneLost

LEMMA MyShowsKept ==
  ASSUME recent' = recent, astray \subseteq astray'
  PROVE  \A step, m : MyShows(step, m) => MyShows(step, m)'
<1> SUFFICES ASSUME NEW step, NEW m, MyShows(step, m) PROVE MyShows(step, m)'
  OBVIOUS
<1>1. PICK r : r = recent[Owner(step, m)][Peer(step, m)]
  OBVIOUS
<1>2. r # NoMessage /\ (r.dev = m.dev => r.n >= m.n \/ {r, m} \cap astray # {})
  BY <1>1 DEF MyShows
<1>3. r = recent'[Owner(step, m)][Peer(step, m)]
  BY <1>1
<1>4. r # NoMessage /\ (r.dev = m.dev => r.n >= m.n \/ {r, m} \cap astray' # {})
  BY <1>2
<1> QED  BY <1>3, <1>4 DEF MyShows, Owner, Peer, From

\* What the queues and handlers hold was sent, and belongs to the user of the queue
\* unless it is astray.
LEMMA Entries ==
  ASSUME SharedTypeOK, Owned, NEW d \in Device, NEW m
  PROVE  /\ Held(d, m) => m \in sent /\ m.dev = d /\ m.n \in Nat
         /\ \A i, step : Queued(d, i, step, m) =>
              m \in sent /\ (m.dev = d \/ m \in astray) /\ m.n \in Nat /\ i \in Nat \ {0}
<1>1. TypeOK
  BY DEF SharedTypeOK
<1>2. sent \subseteq Message /\ \A k \in Message : k.n \in Nat
  BY <1>1 DEF TypeOK, Message
<1>3. \A k \in sent : k.n \in Nat
  BY <1>2
<1> QED  BY <1>3, PlacesAreNumbers DEF Owned

\* A queue that neither grows nor is shown less.
LEMMA ShownKept ==
  ASSUME SharedTypeOK, Carried, Shown,
         \A d \in Device : /\ inflight'[d] <= inflight[d] /\ inflight'[d] \in Nat
                           /\ \A i, step, m : Queued(d, i, step, m)' <=> Queued(d, i, step, m)
                           /\ \A m : Held(d, m)' <=> Held(d, m),
         recent' = recent, sent' = sent, launched' = launched, rejected' = rejected,
         astray' = astray
  PROVE  Shown'
<1>1. \A d, m : Mine(d, m)' <=> Mine(d, m)
  BY DEF Mine
<1>2. \A step, m : MyShows(step, m) => MyShows(step, m)'
  BY MyShowsKept
<1>3. \A d \in Device : \A m : MyBehind(d, m)' <=> MyBehind(d, m)
  BY <1>1 DEF MyBehind
<1>4. MyWritesInLine'
  BY <1>1 DEF Shown, MyWritesInLine
<1>5. MyWritesFirst'
  BY <1>1, <1>3 DEF Shown, MyWritesFirst
<1>6. MyInFlightShown'
  <2> SUFFICES ASSUME NEW d \in Device, NEW step, NEW i, NEW m,
                      IsRecent(step), Queued(d, i, step, m), i <= inflight'[d]
               PROVE  MyShows(step, m)'
    BY DEF MyInFlightShown
  <2>1. i \in Nat /\ inflight[d] \in Nat /\ inflight'[d] \in Nat /\ inflight'[d] <= inflight[d]
    BY PlacesAreNumbers DEF SharedTypeOK, TypeOK
  <2>2. i <= inflight[d]
    BY <2>1
  <2> QED  BY <1>2, <2>2 DEF Shown, MyInFlightShown
<1>7. MyNoneLost'
  <2> SUFFICES ASSUME NEW step, NEW m, IsRecent(step), m \in sent, m.n > launched[m.dev]
               PROVE  MyOnItsWay(step, m)'
    BY DEF MyNoneLost
  <2>1. MyOnItsWay(step, m) /\ m.dev \in Device
    BY DEF Shown, MyNoneLost, SharedTypeOK, TypeOK, Message
  <2>2. MyLast(step, m) => MyLast(step, m)'
    BY <1>1, <1>3, <2>1 DEF MyLast
  <2>3. Refused(step, m) => Refused(step, m)'
    BY DEF Refused
  <2> QED  BY <1>2, <2>1, <2>2, <2>3 DEF MyOnItsWay
<1> QED  BY <1>4, <1>5, <1>6, <1>7 DEF Shown

LEMMA IdleShown ==
  ASSUME SharedTypeOK, SharedTypeOK', Carried, Shown, Idles PROVE Shown'
<1>1. \A d \in Device : inflight'[d] \in Nat
  BY DEF SharedTypeOK, TypeOK
<1> QED  BY <1>1, ShownKept DEF Idles

LEMMA DieShown ==
  ASSUME SharedTypeOK, SharedTypeOK', Carried, Shown, Dies PROVE Shown'
<1>1. /\ recent' = recent /\ sent' = sent /\ launched' = nsent /\ astray' = astray
      /\ \A d \in Device : /\ inflight'[d] = 0
                           /\ \A i, step, m : Queued(d, i, step, m)' => Queued(d, i, step, m)
                           /\ \A m : ~ Held(d, m)'
  BY DEF Dies, Held
<1>2. \A d, m : Mine(d, m)' <=> Mine(d, m)
  BY <1>1 DEF Mine
<1>3. MyWritesInLine'
  BY <1>1, <1>2 DEF Shown, MyWritesInLine
<1>4. MyWritesFirst'
  BY <1>1 DEF MyWritesFirst, MyBehind
<1>5. MyInFlightShown'
  <2> SUFFICES ASSUME NEW d \in Device, NEW step, NEW i, NEW m, Queued(d, i, step, m), i <= 0
               PROVE  FALSE
    BY <1>1 DEF MyInFlightShown
  <2> QED  BY PlacesAreNumbers
<1>6. MyNoneLost'
  <2> SUFFICES ASSUME NEW m \in sent, m.n > nsent[m.dev] PROVE FALSE
    BY <1>1 DEF MyNoneLost
  <2>1. TypeOK
    BY DEF SharedTypeOK
  <2>2. m.n <= nsent[m.dev] /\ m.n \in Nat /\ nsent[m.dev] \in Nat
    BY <2>1 DEF Carried, Sound, Numbered, TypeOK, Message
  <2> QED  BY <2>2
<1> QED  BY <1>3, <1>4, <1>5, <1>6 DEF Shown

LEMMA SendShown ==
  ASSUME SharedTypeOK, SharedTypeOK', Carried, Shown, NEW d \in Device, NEW new, NEW L,
         Sends(d, new, L)
  PROVE  Shown'
<1>1. /\ recent' = recent /\ launched' = launched /\ rejected' = rejected
      /\ astray' = astray /\ inflight' = inflight
      /\ sent' = sent \cup {new} /\ L \in Nat
      /\ new \in Message /\ new.dev = d /\ new.n = nsent[d] + 1
  BY DEF Sends
<1>2. \A k \in sent : k.dev = d => k.n < new.n
  <2>1. TypeOK
    BY DEF SharedTypeOK
  <2>2. nsent[d] \in 0..MaxSends /\ sent \subseteq Message
    BY <2>1 DEF TypeOK
  <2>3. /\ nsent[d] \in Nat
        /\ \A k \in sent : k \in Message /\ k.n \in Nat /\ k.n <= nsent[k.dev]
    BY <2>2, ConstantsAssumption DEF Carried, Sound, Numbered, Message
  <2> QED  BY <1>1, <2>3
<1>3. /\ \A e, m : Mine(e, m)' <=> Mine(e, m)
      /\ \A step, m : MyShows(step, m) => MyShows(step, m)'
  BY <1>1, MyShowsKept DEF Mine
<1>4. ASSUME NEW e \in Device
      PROVE  /\ \A i, step, m : IsRecent(step) =>
                  (Queued(e, i, step, m)' <=> Queued(e, i, step, m))
             /\ \A m : Held(e, m) => Held(e, m)'
             /\ \A m : Held(e, m)' => Held(e, m) \/ (e = d /\ m = new)
  <2>1. CASE e # d
    BY <2>1 DEF Sends, OthersSame, Held
  <2>2. CASE e = d
    <3>1. \A i, step, m : IsRecent(step) => (Queued(e, i, step, m)' <=> Queued(e, i, step, m))
      BY <2>2 DEF Sends, IsRecent
    <3>2. \A s, i, m : Holding(e, s, i, m) => s \in 1..3
      BY DEF Holding
    <3>3. \A s, i, m : Holding(e, s, i, m)' => s \in 1..3
      BY DEF Holding
    <3>4. \A i, m : Holding(e, 2, i, m)' <=> Holding(e, 2, i, m)
      BY <2>2 DEF Sends
    <3>5. \A i, m : Holding(e, 3, i, m)' <=> Holding(e, 3, i, m) \/ (i = L + 1 /\ m = new)
      BY <2>2 DEF Sends
    <3>6. ASSUME NEW m, Held(e, m) PROVE Held(e, m)'
      <4>1. PICK s, i : s # 1 /\ Holding(e, s, i, m)
        BY <3>6 DEF Held
      <4>2. s = 2 \/ s = 3
        BY <3>2, <4>1
      <4> QED  BY <3>4, <3>5, <4>1, <4>2 DEF Held
    <3>7. ASSUME NEW m, Held(e, m)' PROVE Held(e, m) \/ m = new
      <4>1. PICK s, i : s # 1 /\ Holding(e, s, i, m)'
        BY <3>7 DEF Held
      <4>2. s = 2 \/ s = 3
        BY <3>3, <4>1
      <4> QED  BY <3>4, <3>5, <4>1, <4>2 DEF Held
    <3> QED  BY <2>2, <3>1, <3>6, <3>7
  <2> QED  BY <2>1, <2>2
<1>5. ASSUME NEW e \in Device, NEW m \in sent, m.dev = e, MyBehind(e, m)
      PROVE  MyBehind(e, m)'
  <2> SUFFICES ASSUME NEW k, Held(e, k)', Mine(e, k) PROVE m.n < k.n
    BY <1>3 DEF MyBehind
  <2> QED  BY <1>2, <1>4, <1>5 DEF MyBehind
<1>6. MyWritesInLine'
  BY <1>3, <1>4 DEF Shown, MyWritesInLine
<1>7. MyWritesFirst'
  <2> SUFFICES ASSUME NEW e \in Device, NEW step, NEW i, NEW m,
                      IsRecent(step), Queued(e, i, step, m), Mine(e, m)
               PROVE  MyBehind(e, m)'
    BY <1>3, <1>4 DEF MyWritesFirst
  <2>1. m \in sent /\ m.dev = e
    BY DEF Mine, Carried, Owned
  <2>2. MyBehind(e, m)
    BY DEF Shown, MyWritesFirst
  <2> QED  BY <1>5, <2>1, <2>2
<1>8. MyInFlightShown'
  BY <1>1, <1>3, <1>4 DEF Shown, MyInFlightShown
<1>9. MyNoneLost'
  <2> SUFFICES ASSUME NEW step, NEW m, IsRecent(step), m \in sent', m.n > launched[m.dev]
               PROVE  MyOnItsWay(step, m)'
    BY <1>1 DEF MyNoneLost
  <2>1. CASE m = new
    <3>1. Holding(d, 3, L + 1, new)'
      BY DEF Sends
    <3> QED  BY <1>1, <2>1, <3>1 DEF MyOnItsWay, Held
  <2>2. CASE m \in sent
    <3>1. MyOnItsWay(step, m) /\ m.dev \in Device
      BY <2>2 DEF Shown, MyNoneLost, SharedTypeOK, TypeOK, Message
    <3>2. MyLast(step, m) => MyLast(step, m)'
      <4>1. \A i, k : Queued(m.dev, i, step, k)' <=> Queued(m.dev, i, step, k)
        BY <1>4, <3>1
      <4>2. MyBehind(m.dev, m) => MyBehind(m.dev, m)'
        BY <1>5, <2>2, <3>1
      <4> QED  BY <1>3, <4>1, <4>2 DEF MyLast
    <3>3. Refused(step, m) => Refused(step, m)'
      BY <1>1 DEF Refused
    <3> QED  BY <1>1, <1>3, <1>4, <3>1, <3>2, <3>3 DEF MyOnItsWay
  <2> QED  BY <1>1, <2>1, <2>2
<1> QED  BY <1>6, <1>7, <1>8, <1>9 DEF Shown

\* The handlers that are left when one of them writes.
LEMMA ForwardHolds ==
  ASSUME NEW d \in Device, NEW e \in Device, NEW m, NEW L, Forwards(d, e, m, L)
  PROVE  /\ Held(d, m)
         /\ \A f \in Device : \A x : Held(f, x)' => Held(f, x)
         /\ \A f \in Device : \A x : Held(f, x) => Held(f, x)' \/ x = m
         /\ \A x : Held(d, x)' => \E s, i : Holding(d, s, i, x) /\ Ahead(2, 1, s, i)
<1>1. /\ \A x : Holding(d, 2, 1, x) <=> x = m
      /\ \A f \in Device : \A i, x : f # d => (Holding(f, 2, i, x)' <=> Holding(f, 2, i, x))
      /\ \A i, x : Holding(d, 2, i, x)' <=> i \in Nat \ {0} /\ Holding(d, 2, i + 1, x)
      /\ \A f \in Device : \A i, x : Holding(f, 3, i, x)' <=> Holding(f, 3, i, x)
  BY DEF Forwards, MirroredHandlers
<1>2. Held(d, m)
  <2>1. Holding(d, 2, 1, m) /\ 2 # 1
    BY <1>1
  <2> QED  BY <2>1 DEF Held
<1>3. \A f, s, i, x : Holding(f, s, i, x)' => s \in 1..3 /\ i \in Nat \ {0}
  BY DEF Holding
<1>4. ASSUME NEW x, Held(d, x)'
      PROVE  \E s, i : s # 1 /\ Holding(d, s, i, x) /\ Ahead(2, 1, s, i)
  <2>1. PICK s, i : s # 1 /\ Holding(d, s, i, x)'
    BY <1>4 DEF Held
  <2>2. (s = 2 \/ s = 3) /\ i \in Nat \ {0}
    BY <1>3, <2>1
  <2>3. CASE s = 2
    <3>1. Holding(d, 2, i + 1, x) /\ 1 < i + 1 /\ 2 # 1
      BY <1>1, <2>1, <2>2, <2>3
    <3> QED  BY <3>1 DEF Ahead
  <2>4. CASE s = 3
    <3>1. Holding(d, 3, i, x) /\ 2 < 3 /\ 3 # 1
      BY <1>1, <2>1, <2>4
    <3> QED  BY <3>1 DEF Ahead
  <2> QED  BY <2>2, <2>3, <2>4
<1>5. ASSUME NEW f \in Device, NEW x, Held(f, x)' PROVE Held(f, x)
  <2>1. CASE f = d
    BY <1>4, <1>5, <2>1 DEF Held
  <2>2. CASE f # d
    <3>1. PICK s, i : s # 1 /\ Holding(f, s, i, x)'
      BY <1>5 DEF Held
    <3>2. s = 2 \/ s = 3
      BY <1>3, <3>1
    <3> QED  BY <1>1, <2>2, <3>1, <3>2 DEF Held
  <2> QED  BY <2>1, <2>2
<1>6. ASSUME NEW f \in Device, NEW x, Held(f, x), x # m PROVE Held(f, x)'
  <2>1. PICK s, i : s # 1 /\ Holding(f, s, i, x)
    BY <1>6 DEF Held
  <2>2. (s = 2 \/ s = 3) /\ i \in Nat \ {0}
    BY <2>1, PlacesAreNumbers
  <2>3. CASE s = 3
    <3>1. Holding(f, 3, i, x)' /\ 3 # 1
      BY <1>1, <2>1, <2>3
    <3> QED  BY <3>1 DEF Held
  <2>4. CASE s = 2 /\ f # d
    <3>1. Holding(f, 2, i, x)' /\ 2 # 1
      BY <1>1, <2>1, <2>4
    <3> QED  BY <3>1 DEF Held
  <2>5. CASE s = 2 /\ f = d
    <3>1. i # 1
      BY <1>1, <1>6, <2>1, <2>5
    <3>2. i - 1 \in Nat \ {0} /\ (i - 1) + 1 = i
      BY <2>2, <3>1
    <3>3. Holding(f, 2, i - 1, x)' /\ 2 # 1
      BY <1>1, <2>1, <2>5, <3>2
    <3> QED  BY <3>3 DEF Held
  <2> QED  BY <2>2, <2>3, <2>4, <2>5
<1> QED  BY <1>2, <1>4, <1>5, <1>6

LEMMA ForwardShown ==
  ASSUME SharedTypeOK, SharedTypeOK', Carried, InTheirOrder, Shown,
         NEW d \in Device, NEW e \in Device, NEW m, NEW L, Forwards(d, e, m, L)
  PROVE  Shown'
<1>1. /\ recent' = recent /\ sent' = sent /\ launched' = launched /\ rejected' = rejected
      /\ inflight' = inflight /\ astray' = IF m.dev = e THEN astray ELSE astray \cup {m}
      /\ L \in Nat /\ \A i, step, x : Queued(e, i, step, x) => i \in 1..L
  BY DEF Forwards
<1>2. /\ Held(d, m)
      /\ \A f \in Device : \A x : Held(f, x)' => Held(f, x)
      /\ \A f \in Device : \A x : Held(f, x) => Held(f, x)' \/ x = m
      /\ \A x : Held(d, x)' => \E s, i : Holding(d, s, i, x) /\ Ahead(2, 1, s, i)
  BY ForwardHolds
<1>3. m \in sent /\ m.dev = d
  BY <1>2, Entries DEF Carried
<1>4. /\ \A f, x : Mine(f, x)' => Mine(f, x)
      /\ \A step, x : MyShows(step, x) => MyShows(step, x)'
      /\ \A x : x \in astray => x \in astray'
  BY <1>1, MyShowsKept DEF Mine
<1>5. ASSUME NEW f \in Device, Mine(f, m)' PROVE f = e /\ f = d /\ Mine(d, m)
  BY <1>1, <1>3, <1>5 DEF Mine
<1>6. ASSUME NEW f \in Device, NEW i, NEW step, NEW x
      PROVE  /\ Queued(f, i, step, x) => Queued(f, i, step, x)'
             /\ Queued(f, i, step, x)' =>
                  Queued(f, i, step, x) \/ (f = e /\ x = m /\ i > L)
             /\ Queued(f, i, step, x)' /\ IsRecent(step) /\ f = e /\ i > L =>
                  x = m /\ i = IF step = "ownRecent" THEN L + 2 ELSE L + 3
  <2>1. Queued(f, i, step, x)' <=>
          \/ Queued(f, i, step, x)
          \/ /\ f = e /\ x = m
             /\ \/ i = L + 1 /\ step = "peerAdd"
                \/ i = L + 2 /\ step = "ownRecent"
                \/ i = L + 3 /\ step = "peerRecent"
    BY DEF Forwards, MirroredQueues
  <2>2. f = e /\ i > L => ~ Queued(f, i, step, x)
    BY <1>1
  <2> QED  BY <1>1, <2>1, <2>2 DEF IsRecent
<1>7. MyBehind(d, m)' \/ ~ Mine(d, m)
  <2> SUFFICES ASSUME Mine(d, m), NEW k, Held(d, k)', Mine(d, k)' PROVE m.n < k.n
    BY DEF MyBehind
  <2>1. PICK s, i : Holding(d, s, i, k) /\ Ahead(2, 1, s, i)
    BY <1>2
  <2>2. Holding(d, 2, 1, m)
    BY DEF Forwards
  <2>3. Mine(d, k)
    BY <1>4
  <2> QED  BY <2>1, <2>2, <2>3 DEF InTheirOrder, MyLine
<1>8. \A f \in Device : \A x : MyBehind(f, x) => MyBehind(f, x)'
  BY <1>2, <1>4 DEF MyBehind
<1>9. MyWritesInLine'
  <2> SUFFICES ASSUME NEW f \in Device, NEW step, NEW i, NEW j, NEW x, NEW k,
                      IsRecent(step), i < j, Queued(f, i, step, x)', Mine(f, x)',
                      Queued(f, j, step, k)', Mine(f, k)'
               PROVE  x.n < k.n
    BY DEF MyWritesInLine
  <2>1. Mine(f, x) /\ Mine(f, k)
    BY <1>4
  <2>2. CASE Queued(f, i, step, x) /\ Queued(f, j, step, k)
    BY <2>1, <2>2 DEF Shown, MyWritesInLine
  <2>3. CASE Queued(f, i, step, x) /\ ~ Queued(f, j, step, k)
    <3>1. f = d /\ k = m
      BY <1>5, <1>6, <2>3
    <3>2. MyBehind(d, x)
      BY <2>1, <2>3, <3>1 DEF Shown, MyWritesFirst
    <3> QED  BY <1>2, <2>1, <3>1, <3>2 DEF MyBehind
  <2>4. CASE ~ Queued(f, i, step, x)
    <3>1. f = e /\ i > L
      BY <1>6, <2>4
    <3>2. i = IF step = "ownRecent" THEN L + 2 ELSE L + 3
      BY <1>6, <3>1
    <3>3. j \in Nat
      <4>1. (Queued(f, j, step, k) => j \in Nat)'
        BY DEF Queued
      <4> QED  BY <4>1
    <3>4. j > L
      BY <1>1, <3>2, <3>3
    <3>5. j = i
      BY <1>6, <3>1, <3>2, <3>4
    <3> QED  BY <1>1, <3>2, <3>5
  <2> QED  BY <2>2, <2>3, <2>4
<1>10. MyWritesFirst'
  <2> SUFFICES ASSUME NEW f \in Device, NEW step, NEW i, NEW x,
                      IsRecent(step), Queued(f, i, step, x)', Mine(f, x)'
               PROVE  MyBehind(f, x)'
    BY DEF MyWritesFirst
  <2>1. CASE Queued(f, i, step, x)
    BY <1>4, <1>8, <2>1 DEF Shown, MyWritesFirst
  <2>2. CASE ~ Queued(f, i, step, x)
    BY <1>5, <1>6, <1>7, <2>2
  <2> QED  BY <2>1, <2>2
<1>11. MyInFlightShown'
  <2> SUFFICES ASSUME NEW f \in Device, NEW step, NEW i, NEW x,
                      IsRecent(step), Queued(f, i, step, x)', i <= inflight[f]
               PROVE  MyShows(step, x)'
    BY <1>1 DEF MyInFlightShown
  <2>1. CASE Queued(f, i, step, x)
    BY <1>4, <2>1 DEF Shown, MyInFlightShown
  <2>2. CASE ~ Queued(f, i, step, x)
    <3>1. f = e /\ i > L
      BY <1>6, <2>2
    <3>2. /\ inflight[e] \in Nat
          /\ \A j \in 1..inflight[e] : j \in 1..Len(writes[e])
      BY AppliedIsPrefix DEF SharedTypeOK, TypeOK
    <3>3. i \in 1..inflight[e]
      <4>1. (Queued(f, i, step, x) => i \in Nat \ {0})'
        BY DEF Queued
      <4> QED  BY <3>1, <3>2, <4>1
    <3>4. Queued(e, i, writes[e][i].step, writes[e][i].msg)
      BY <3>2, <3>3 DEF Queued
    <3>5. i \in 1..L
      BY <1>1, <3>4
    <3> QED  BY <1>1, <3>1, <3>5
  <2> QED  BY <2>1, <2>2
<1>12. MyNoneLost'
  <2> SUFFICES ASSUME NEW step, NEW x, IsRecent(step), x \in sent, x.n > launched[x.dev]
               PROVE  MyOnItsWay(step, x)'
    BY <1>1 DEF MyNoneLost
  <2>1. MyOnItsWay(step, x) /\ x.dev \in Device
    BY DEF Shown, MyNoneLost, SharedTypeOK, TypeOK, Message
  <2>2. CASE Refused(step, x)
    BY <1>1, <2>2 DEF MyOnItsWay, Refused
  <2>3. CASE Held(x.dev, x)
    <3>1. CASE x # m
      BY <1>2, <2>1, <2>3, <3>1 DEF MyOnItsWay
    <3>2. CASE x = m
      <4>1. \E i : Queued(e, i, step, m)'
        <5>1. CASE step = "ownRecent"
          BY <5>1 DEF Forwards, MirroredQueues
        <5>2. CASE step = "peerRecent"
          BY <5>2 DEF Forwards, MirroredQueues
        <5> QED  BY <5>1, <5>2 DEF IsRecent
      <4> QED  BY <3>2, <4>1 DEF MyOnItsWay
    <3> QED  BY <3>1, <3>2
  <2>4. CASE \E f \in Device : \E i : Queued(f, i, step, x)
    BY <1>6, <2>4 DEF MyOnItsWay
  <2>5. CASE MyShows(step, x) /\ x \in astray
    BY <1>4, <2>5 DEF MyOnItsWay
  <2>6. CASE MyShows(step, x) /\ MyLast(step, x)
    <3>1. MyBehind(x.dev, x)'
      BY <1>8, <2>1, <2>6 DEF MyLast
    <3>2. ASSUME NEW i, NEW k, Queued(x.dev, i, step, k)', Mine(x.dev, k)'
          PROVE  x.n < k.n
      <4>1. CASE Queued(x.dev, i, step, k)
        BY <1>4, <2>6, <3>2, <4>1 DEF MyLast
      <4>2. CASE ~ Queued(x.dev, i, step, k)
        <5>1. k = m /\ x.dev = d /\ Mine(d, m)
          BY <1>5, <1>6, <2>1, <3>2, <4>2
        <5> QED  BY <1>2, <2>6, <5>1 DEF MyLast, MyBehind
      <4> QED  BY <4>1, <4>2
    <3>3. MyLast(step, x)'
      BY <3>1, <3>2 DEF MyLast
    <3> QED  BY <1>4, <2>6, <3>3 DEF MyOnItsWay
  <2> QED  BY <2>1, <2>2, <2>3, <2>4, <2>5, <2>6 DEF MyOnItsWay
<1> QED  BY <1>9, <1>10, <1>11, <1>12 DEF Shown

LEMMA TakeShown ==
  ASSUME SharedTypeOK, SharedTypeOK', Carried, Shown, NEW d \in Device, NEW M, Takes(d, M)
  PROVE  Shown'
<1>1. /\ recent' = recent /\ sent' = sent /\ launched' = launched
      /\ rejected \subseteq rejected' /\ astray' = astray
  BY DEF Takes
<1>2. /\ \A i, step, m : Queued(d, i, step, m)' <=> i \in Nat \ {0} /\ Queued(d, i + 1, step, m)
      /\ \A i, m : Holding(d, 2, i, m)' <=> Holding(d, 2, i, m) \/ (i = M + 1 /\ Holding(d, 3, 1, m))
      /\ \A i, m : Holding(d, 3, i, m)' <=> i \in Nat \ {0} /\ Holding(d, 3, i + 1, m)
      /\ \A i \in Nat \ {0} : i <= inflight'[d] => i + 1 <= inflight[d]
      /\ \A step, m : Queued(d, 1, step, m) => 1 <= inflight[d] \/ Refused(step, m)'
  BY DEF Takes
<1>3. ASSUME NEW e \in Device, e # d
      PROVE  /\ inflight'[e] = inflight[e]
             /\ \A i, step, m : Queued(e, i, step, m)' <=> Queued(e, i, step, m)
             /\ \A m : Held(e, m)' <=> Held(e, m)
  BY <1>3 DEF Takes, OthersSame, Held
<1>4. ASSUME NEW m PROVE Held(d, m)' <=> Held(d, m)
  <2>0. 2 # 1 /\ 3 # 1
    OBVIOUS
  <2>1. ASSUME Held(d, m)' PROVE Held(d, m)
    <3>1. PICK s, i : s # 1 /\ Holding(d, s, i, m)'
      BY <2>1 DEF Held
    <3>2. s = 2 \/ s = 3
      BY <3>1 DEF Holding
    <3> QED  BY <1>2, <2>0, <3>1, <3>2 DEF Held
  <2>2. ASSUME Held(d, m) PROVE Held(d, m)'
    <3>1. PICK s, i : s # 1 /\ Holding(d, s, i, m)
      BY <2>2 DEF Held
    <3>2. (s = 2 \/ s = 3) /\ i \in Nat \ {0}
      BY <3>1, PlacesAreNumbers
    <3>3. CASE s = 2 \/ i = 1
      BY <1>2, <2>0, <3>1, <3>2, <3>3 DEF Held
    <3>4. CASE s = 3 /\ i # 1
      <4>1. i - 1 \in Nat \ {0} /\ (i - 1) + 1 = i
        BY <3>2, <3>4
      <4>2. Holding(d, 3, i - 1, m)'
        BY <1>2, <3>1, <3>4, <4>1
      <4> QED  BY <2>0, <4>2 DEF Held
    <3> QED  BY <3>2, <3>3, <3>4
  <2> QED  BY <2>1, <2>2
<1>5. /\ \A e, m : Mine(e, m)' <=> Mine(e, m)
      /\ \A step, m : MyShows(step, m) => MyShows(step, m)'
  BY <1>1, MyShowsKept DEF Mine
<1>6. \A e \in Device : \A m : MyBehind(e, m)' <=> MyBehind(e, m)
  BY <1>3, <1>4, <1>5 DEF MyBehind
<1>7. MyWritesInLine'
  <2> SUFFICES ASSUME NEW e \in Device, NEW step, NEW i, NEW j, NEW m, NEW k,
                      IsRecent(step), i < j, Queued(e, i, step, m)', Mine(e, m),
                      Queued(e, j, step, k)', Mine(e, k)
               PROVE  m.n < k.n
    BY <1>5 DEF MyWritesInLine
  <2>1. CASE e # d
    BY <1>3, <2>1 DEF Shown, MyWritesInLine
  <2>2. CASE e = d
    <3>1. /\ Queued(d, i + 1, step, m) /\ Queued(d, j + 1, step, k)
          /\ i \in Nat /\ j \in Nat
      BY <1>2, <2>2
    <3>2. i + 1 < j + 1
      BY <3>1
    <3> QED  BY <2>2, <3>1, <3>2 DEF Shown, MyWritesInLine
  <2> QED  BY <2>1, <2>2
<1>8. MyWritesFirst'
  <2> SUFFICES ASSUME NEW e \in Device, NEW step, NEW i, NEW m,
                      IsRecent(step), Queued(e, i, step, m)', Mine(e, m)
               PROVE  MyBehind(e, m)
    BY <1>5, <1>6 DEF MyWritesFirst
  <2>1. \E j : Queued(e, j, step, m)
    BY <1>2, <1>3
  <2> QED  BY <2>1 DEF Shown, MyWritesFirst
<1>9. MyInFlightShown'
  <2> SUFFICES ASSUME NEW e \in Device, NEW step, NEW i, NEW m,
                      IsRecent(step), Queued(e, i, step, m)', i <= inflight'[e]
               PROVE  MyShows(step, m)
    BY <1>5 DEF MyInFlightShown
  <2>1. CASE e # d
    BY <1>3, <2>1 DEF Shown, MyInFlightShown
  <2>2. CASE e = d
    <3>1. i \in Nat \ {0} /\ Queued(d, i + 1, step, m)
      BY <1>2, <2>2
    <3>2. i + 1 <= inflight[d]
      BY <1>2, <2>2, <3>1
    <3> QED  BY <3>1, <3>2 DEF Shown, MyInFlightShown
  <2> QED  BY <2>1, <2>2
<1>10. MyNoneLost'
  <2> SUFFICES ASSUME NEW step, NEW m, IsRecent(step), m \in sent, m.n > launched[m.dev]
               PROVE  MyOnItsWay(step, m)'
    BY <1>1 DEF MyNoneLost
  <2>1. MyOnItsWay(step, m) /\ m.dev \in Device
    BY DEF Shown, MyNoneLost, SharedTypeOK, TypeOK, Message
  <2>2. CASE Refused(step, m)
    BY <1>1, <2>2 DEF MyOnItsWay, Refused
  <2>3. CASE Held(m.dev, m)
    <3>1. Held(m.dev, m)'
      BY <1>3, <1>4, <2>1, <2>3
    <3> QED  BY <3>1 DEF MyOnItsWay
  <2>4. CASE MyShows(step, m) /\ (m \in astray \/ MyLast(step, m))
    <3>1. MyLast(step, m) => MyLast(step, m)'
      <4>1. \A i, k : Queued(m.dev, i, step, k)' => \E j : Queued(m.dev, j, step, k)
        BY <1>2, <1>3, <2>1
      <4> QED  BY <1>5, <1>6, <2>1, <4>1 DEF MyLast
    <3> QED  BY <1>1, <1>5, <2>4, <3>1 DEF MyOnItsWay
  <2>5. CASE \E e \in Device : \E i : Queued(e, i, step, m)
    <3>1. PICK e \in Device : \E i : Queued(e, i, step, m)
      BY <2>5
    <3>2. PICK i : Queued(e, i, step, m)
      BY <3>1
    <3>3. CASE e # d
      <4>1. Queued(e, i, step, m)'
        BY <1>3, <3>2, <3>3
      <4> QED  BY <4>1 DEF MyOnItsWay
    <3>4. CASE e = d /\ i # 1
      <4>1. i - 1 \in Nat \ {0} /\ (i - 1) + 1 = i
        BY <3>2, <3>4, PlacesAreNumbers
      <4>2. Queued(d, i - 1, step, m)'
        BY <1>2, <3>2, <3>4, <4>1
      <4> QED  BY <4>2 DEF MyOnItsWay
    <3>5. CASE e = d /\ i = 1 /\ Refused(step, m)'
      BY <3>5 DEF MyOnItsWay
    <3>6. CASE e = d /\ i = 1 /\ 1 <= inflight[d]
      <4>1. MyShows(step, m)'
        BY <1>5, <3>2, <3>6 DEF Shown, MyInFlightShown
      <4>2. CASE m \in astray
        BY <1>1, <4>1, <4>2 DEF MyOnItsWay
      <4>3. CASE m \notin astray
        <5>1. m.dev = d /\ Mine(d, m)
          BY <3>2, <3>6, <4>3 DEF Carried, Owned, Mine
        <5>2. MyBehind(d, m)'
          BY <1>6, <3>2, <3>6, <5>1 DEF Shown, MyWritesFirst
        <5>3. ASSUME NEW j, NEW k, Queued(d, j, step, k)', Mine(d, k)'
              PROVE  m.n < k.n
          <6>1. j \in Nat \ {0} /\ Queued(d, j + 1, step, k)
            BY <1>2, <5>3
          <6>2. 1 < j + 1
            BY <6>1
          <6> QED  BY <1>5, <3>2, <3>6, <5>1, <5>3, <6>1, <6>2 DEF Shown, MyWritesInLine
        <5>4. MyLast(step, m)'
          BY <5>1, <5>2, <5>3 DEF MyLast
        <5> QED  BY <4>1, <5>4 DEF MyOnItsWay
      <4> QED  BY <4>2, <4>3
    <3> QED  BY <1>2, <3>2, <3>3, <3>4, <3>5, <3>6
  <2> QED  BY <2>1, <2>2, <2>3, <2>4, <2>5 DEF MyOnItsWay
<1> QED  BY <1>7, <1>8, <1>9, <1>10 DEF Shown

\* A write applied by the backend leaves shown what was, except what its own user
\* sent later.
LEMMA ApplyShows ==
  ASSUME SharedTypeOK, Carried, NEW d \in Device, NEW n, Applies(d, n), Commit(d),
         NEW step, NEW m \in sent, IsRecent(step), MyShows(step, m)
  PROVE  \/ MyShows(step, m)'
         \/ /\ Mine(d, m)
            /\ \E k : Queued(d, n, step, k) /\ Mine(d, k) /\ ~ (k.n >= m.n)
<1>0. /\ TypeOK /\ astray' = astray /\ n = inflight[d] + 1
      /\ \A f \in Device : \A i, s, k : Queued(f, i, s, k) =>
           k \in sent /\ (k.dev = f \/ k \in astray)
      /\ \A k \in sent : k.to # From(k)
  BY DEF SharedTypeOK, Applies, Carried, Owned, Sound
<1>1. n \in 1..Len(writes[d])
  BY <1>0, NextWrite DEF Commit
<1>2. PICK v \in Write : v = writes[d][n]
  BY <1>0, NextWrite DEF Commit
<1>3. AddDocument(v) \/ SetData(v)
  BY <1>0, <1>2 DEF Commit, AddDocument, SetData
<1>4. Queued(d, n, v.step, v.msg)
  BY <1>1, <1>2 DEF Queued
<1>5. v.msg \in sent /\ v.msg \in Message /\ m \in Message
  BY <1>0, <1>4 DEF TypeOK
<1>6. Owner(step, m) \in User /\ Peer(step, m) \in User
  BY <1>5, UsersOfStep DEF IsRecent, Step
<1>7. PICK o, p : o = Owner(step, m) /\ p = Peer(step, m)
  OBVIOUS
<1>8. PICK r, q : r = recent[o][p] /\ q = recent'[o][p]
  OBVIOUS
<1>9. /\ r # NoMessage /\ (r.dev = m.dev => r.n >= m.n \/ {r, m} \cap astray # {})
      /\ MyShows(step, m)' <=>
           q # NoMessage /\ (q.dev = m.dev => q.n >= m.n \/ {q, m} \cap astray # {})
  BY <1>0, <1>7, <1>8 DEF MyShows, Owner, Peer, From
<1>10. CASE q = r
  BY <1>9, <1>10
<1>11. CASE q # r
  <2>1. /\ IsRecent(v.step) /\ q = v.msg
        /\ o = Owner(v.step, v.msg) /\ p = Peer(v.step, v.msg)
    <3>1. SetData(v)
      BY <1>3, <1>8, <1>11 DEF AddDocument
    <3>2. Owner(v.step, v.msg) \in User /\ Peer(v.step, v.msg) \in User
      BY <1>5, UsersOfStep DEF Write
    <3>3. recent'[o][p] = IF o = Owner(v.step, v.msg) /\ p = Peer(v.step, v.msg)
                          THEN v.msg ELSE recent[o][p]
      BY <1>0, <1>6, <1>7, <3>1, <3>2 DEF SetData, TypeOK
    <3> QED  BY <1>8, <1>11, <3>1, <3>3 DEF SetData, IsRecent
  <2>2. q # NoMessage
    BY <1>5, <2>1, ConstantsAssumption
  <2>3. CASE q.dev # m.dev \/ q \in astray \/ m \in astray
    BY <1>9, <2>2, <2>3
  <2>4. CASE q.dev = m.dev /\ q \notin astray /\ m \notin astray
    <3>1. q.dev = d /\ Mine(d, m) /\ Mine(d, q)
      BY <1>0, <1>4, <2>1, <2>4 DEF Mine
    <3>2. From(m) = From(q) /\ m.to # From(m) /\ q.to # From(q)
      BY <1>0, <1>5, <2>1, <2>4 DEF From
    <3>3. v.step = step
      BY <1>7, <2>1, <3>2, DocumentsApart
    <3>4. Queued(d, n, step, q)
      BY <1>4, <2>1, <3>3
    <3> QED  BY <1>9, <2>2, <3>1, <3>4
  <2> QED  BY <2>3, <2>4
<1> QED  BY <1>10, <1>11

\* The write just applied shows in its document.
LEMMA ApplyShown ==
  ASSUME SharedTypeOK, NEW d \in Device, NEW n, Applies(d, n), Commit(d),
         NEW step, NEW m, IsRecent(step), Queued(d, n, step, m)
  PROVE  MyShows(step, m)'
<1>0. TypeOK /\ n = inflight[d] + 1
  BY DEF SharedTypeOK, Applies
<1>1. PICK v \in Write : v = writes[d][n]
  BY <1>0, NextWrite DEF Commit
<1>2. v.step = step /\ v.msg = m
  BY <1>1 DEF Queued
<1>3. SetData(v)
  BY <1>0, <1>1, <1>2 DEF Commit, SetData, AddDocument, IsRecent
<1>4. Owner(v.step, v.msg) \in User /\ Peer(v.step, v.msg) \in User /\ m \in Message
  BY <1>2, UsersOfStep DEF Write
<1>5. PICK o, p : o = Owner(step, m) /\ p = Peer(step, m)
  OBVIOUS
<1>6. recent'[o][p] = m
  BY <1>0, <1>2, <1>3, <1>4, <1>5 DEF SetData, TypeOK
<1>7. m # NoMessage /\ m.n >= m.n
  BY <1>4, ConstantsAssumption DEF Message
<1> QED  BY <1>5, <1>6, <1>7 DEF MyShows, Owner, Peer, From

LEMMA CommitShown ==
  ASSUME SharedTypeOK, SharedTypeOK', Carried, Shown, NEW d \in Device, NEW n,
         Applies(d, n), Commit(d)
  PROVE  Shown'
<1>1. /\ sent' = sent /\ launched' = launched /\ rejected' = rejected /\ astray' = astray
      /\ writes' = writes /\ main' = main
      /\ n = inflight[d] + 1 /\ inflight' = [inflight EXCEPT ![d] = n]
  BY DEF Applies
<1>2. inflight \in [Device -> Nat] /\ n \in Nat
  BY <1>1 DEF SharedTypeOK, TypeOK
<1>3. ASSUME NEW e \in Device
      PROVE  /\ \A i, step, m : Queued(e, i, step, m)' <=> Queued(e, i, step, m)
             /\ \A m : Held(e, m)' <=> Held(e, m)
  BY <1>1, SamePlaces DEF Held
<1>4. \A e, m : Mine(e, m)' <=> Mine(e, m)
  BY <1>1 DEF Mine
<1>5. \A e \in Device : \A m : MyBehind(e, m)' <=> MyBehind(e, m)
  BY <1>3, <1>4 DEF MyBehind
<1>6. ASSUME NEW step, NEW m \in sent, IsRecent(step), MyShows(step, m),
             \A k : Queued(d, n, step, k) /\ Mine(d, k) /\ Mine(d, m) => m.n < k.n
      PROVE  MyShows(step, m)'
  <2>1. \A k \in sent : k.n \in Nat
    <3>1. TypeOK
      BY DEF SharedTypeOK
    <3>2. sent \subseteq Message
      BY <3>1 DEF TypeOK
    <3> QED  BY <3>2 DEF Message
  <2>2. ASSUME NEW k, Queued(d, n, step, k), Mine(d, k), Mine(d, m) PROVE k.n >= m.n
    <3>1. k \in sent
      BY <2>2 DEF Carried, Owned
    <3>2. m.n < k.n
      BY <1>6, <2>2
    <3> QED  BY <2>1, <3>1, <3>2
  <2> QED  BY <1>6, <2>2, ApplyShows
<1>7. MyWritesInLine' /\ MyWritesFirst'
  BY <1>3, <1>4, <1>5 DEF Shown, MyWritesInLine, MyWritesFirst
<1>8. MyInFlightShown'
  <2> SUFFICES ASSUME NEW e \in Device, NEW step, NEW i, NEW m,
                      IsRecent(step), Queued(e, i, step, m), i <= inflight'[e]
               PROVE  MyShows(step, m)'
    BY <1>3 DEF MyInFlightShown
  <2>1. m \in sent /\ (m.dev = e \/ m \in astray) /\ i \in Nat
    BY Entries DEF Carried
  <2>2. CASE e = d /\ i = n
    BY <2>2, ApplyShown
  <2>3. CASE ~ (e = d /\ i = n)
    <3>1. i <= inflight[e] /\ (e = d => i < n)
      BY <1>1, <1>2, <2>1, <2>3
    <3>2. MyShows(step, m)
      BY <3>1 DEF Shown, MyInFlightShown
    <3>3. ASSUME NEW k, Queued(d, n, step, k), Mine(d, k), Mine(d, m) PROVE m.n < k.n
      <4>1. e = d
        BY <2>1, <3>3 DEF Mine
      <4> QED  BY <3>1, <3>3, <4>1 DEF Shown, MyWritesInLine
    <3> QED  BY <1>6, <2>1, <3>2, <3>3
  <2> QED  BY <2>2, <2>3
<1>9. MyNoneLost'
  <2> SUFFICES ASSUME NEW step, NEW m, IsRecent(step), m \in sent, m.n > launched[m.dev]
               PROVE  MyOnItsWay(step, m)'
    BY <1>1 DEF MyNoneLost
  <2>1. MyOnItsWay(step, m) /\ m.dev \in Device
    BY DEF Shown, MyNoneLost, SharedTypeOK, TypeOK, Message
  <2>2. CASE Refused(step, m) \/ Held(m.dev, m) \/ \E e \in Device : \E i : Queued(e, i, step, m)
    BY <1>1, <1>3, <2>1, <2>2 DEF MyOnItsWay, Refused
  <2>3. CASE MyShows(step, m) /\ (m \in astray \/ MyLast(step, m))
    <3>1. ASSUME NEW k, Queued(d, n, step, k), Mine(d, k), Mine(d, m) PROVE m.n < k.n
      BY <2>3, <3>1 DEF MyLast, Mine
    <3>2. MyShows(step, m)'
      BY <1>6, <2>3, <3>1
    <3>3. MyLast(step, m) => MyLast(step, m)'
      BY <1>3, <1>4, <1>5, <2>1 DEF MyLast
    <3> QED  BY <1>1, <2>3, <3>2, <3>3 DEF MyOnItsWay
  <2> QED  BY <2>1, <2>2, <2>3 DEF MyOnItsWay
<1> QED  BY <1>7, <1>8, <1>9 DEF Shown

LEMMA StepShown ==
  ASSUME SharedTypeOK, Carried, InTheirOrder, Shown, [SharedNext]_sharedVars PROVE Shown'
<1>1. SharedTypeOK' /\ Steps
  BY StepCarried
<1> QED  BY <1>1, IdleShown, SendShown, ForwardShown, TakeShown, CommitShown, DieShown DEF Steps

\* When all queues are empty, the latest-message documents show the last message of
\* each sender since the launch or a later one, unless it was refused or one of the
\* two went through the queue of somebody else (Service.swift:55).
THEOREM RecentUnlessAstrayAlways == SharedSpec => []RecentUnlessAstray
<1>1. SharedInit => SharedTypeOK /\ Carried /\ InTheirOrder /\ Shown
  BY InitCarried, InitInTheirOrder, InitShown
<1>2. (SharedTypeOK /\ Carried /\ InTheirOrder /\ Shown) /\ [SharedNext]_sharedVars
      => (SharedTypeOK /\ Carried /\ InTheirOrder /\ Shown)'
  BY StepCarried, StepInTheirOrder, StepShown
<1>3. SharedTypeOK /\ Carried /\ InTheirOrder /\ Shown => RecentUnlessAstray
  <2> SUFFICES ASSUME SharedTypeOK, Shown, NEW m \in sent, \A d \in Device : Quiet(d),
                      m.n > launched[m.dev], NEW step \in {"ownRecent", "peerRecent"}
               PROVE  Refused(step, m) \/ MyShows(step, m)
    BY DEF RecentUnlessAstray, MyShows
  <2>1. m.dev \in Device /\ IsRecent(step)
    BY DEF SharedTypeOK, TypeOK, Message, IsRecent
  <2>2. MyOnItsWay(step, m)
    BY <2>1 DEF Shown, MyNoneLost
  <2>3. ~ Held(m.dev, m) /\ \A d \in Device : \A i : ~ Queued(d, i, step, m)
    BY <2>1 DEF Quiet, Held, Holding, Queued
  <2> QED  BY <2>2, <2>3 DEF MyOnItsWay
<1> QED  BY <1>1, <1>2, <1>3, PTL DEF SharedSpec
=============================================================================
