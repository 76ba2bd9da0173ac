--------------------------- MODULE ChatView_proofs ---------------------------
(***************************************************************************)
(* Machine-checked proofs about ChatView, for every value of its           *)
(* constants: its types, what its screens show, in which order, and what   *)
(* the latest-message documents show.                                      *)
(***************************************************************************)
EXTENDS ChatView, Messaging_proofs, FiniteSetTheorems

-----------------------------------------------------------------------------
(***************************************************************************)
(* What the chat needs to know of the upload, besides its own invariants:  *)
(* the copy of a message is written for the sender once, until it is       *)
(* refused, and a thread holds messages that were sent between its users.  *)
(***************************************************************************)

\* Place i of the queue of d holds the write of the sender's copy of m.
First(d, i, m) ==
  i \in 1..Len(writes[d]) /\ writes[d][i].step = "ownAdd" /\ writes[d][i].msg = m

FirstOnce ==
  \A d \in Device : \A i, m : First(d, i, m) =>
    /\ ~ Refused("ownAdd", m)
    /\ \A j : First(d, j, m) => j = i

RefusedSent == \A step, m : Refused(step, m) => m \in sent

\* A message from one of the two users, for the other.
Parties(m, o, p) == (From(m) = o /\ m.to = p) \/ (From(m) = p /\ m.to = o)

ThreadsSent ==
  \A o, p \in User : \A m \in thread[o][p] : m \in sent /\ Parties(m, o, p)

Copies == FirstOnce /\ RefusedSent /\ ThreadsSent /\ IsFiniteSet(sent)

Base == IInv /\ Order /\ Copies

LEMMA InitBase == Init => Base
<1> SUFFICES ASSUME Init PROVE Base
  OBVIOUS
<1>1. FirstOnce
  BY DEF Init, FirstOnce, First
<1>2. RefusedSent /\ IsFiniteSet(sent)
  BY FS_EmptySet DEF Init, RefusedSent, Refused
<1>3. ThreadsSent
  BY DEF Init, ThreadsSent
<1> QED  BY <1>1, <1>2, <1>3, InitInv, InitOrder DEF Base, Copies

\* The writes of the sender's copies that are left keep their order: they stay
\* where they are, or each of a device moves up one place.
LEMMA FirstsMoved ==
  ASSUME TypeOK', FirstOnce, rejected' = rejected,
         \A d \in Device : \E g \in {0, 1} : \A i, m : First(d, i, m)' => First(d, i + g, m)
  PROVE  FirstOnce'
<1> SUFFICES ASSUME NEW d \in Device, NEW i, NEW m, First(d, i, m)'
             PROVE  /\ ~ Refused("ownAdd", m)'
                    /\ \A j : First(d, j, m)' => j = i
  BY DEF FirstOnce
<1>1. PICK g \in {0, 1} : \A k, x : First(d, k, x)' => First(d, k + g, x)
  OBVIOUS
<1>2. First(d, i + g, m) /\ i \in Nat
  <2>1. Len(writes'[d]) \in Nat
    BY DEF TypeOK
  <2> QED  BY <1>1, <2>1 DEF First
<1>3. ~ Refused("ownAdd", m)'
  BY <1>2 DEF FirstOnce, Refused
<1>4. ASSUME NEW j, First(d, j, m)' PROVE j = i
  <2>1. First(d, j + g, m) /\ j \in Nat
    <3>1. Len(writes'[d]) \in Nat
      BY DEF TypeOK
    <3> QED  BY <1>1, <1>4, <3>1 DEF First
  <2>2. \A x, y : First(d, x, m) /\ First(d, y, m) => x = y
    BY DEF FirstOnce
  <2>3. j + g = i + g
    BY <1>2, <2>1, <2>2
  <2> QED  BY <1>2, <2>1, <2>3
<1> QED  BY <1>3, <1>4

\* Sending puts the write of the first copy of a new message at the end of the queue.
LEMMA SendFirsts ==
  ASSUME Base, NEW d \in Device, NEW p \in User, Send(d, p),
         NEW m, m = [dev |-> d, to |-> p, n |-> nsent[d] + 1]
  PROVE  /\ m \notin sent /\ sent' = sent \cup {m}
         /\ \A e \in Device : \A i, x : First(e, i, x)' =>
              First(e, i, x) \/ (e = d /\ i = Len(writes[d]) + 1 /\ x = m)
<1>1. /\ TypeOK /\ sent' = sent \cup {m}
      /\ writes' = [writes EXCEPT ![d] = Append(@, FirstWrite(m))]
  BY DEF Base, IInv, Send
<1>2. PICK L \in Nat : L = Len(writes[d])
  <2>1. writes[d] \in Seq(Write)
    BY <1>1 DEF TypeOK
  <2> QED  BY <2>1
<1>3. PICK w : w = FirstWrite(m)
  OBVIOUS
<1>4. /\ Len(writes'[d]) = L + 1 /\ writes'[d][L + 1] = w
      /\ \A i \in 1..L : writes'[d][i] = writes[d][i]
      /\ \A e \in Device : e # d => writes'[e] = writes[e]
  <2>1. writes \in [Device -> Seq(Write)] /\ writes[d] \in Seq(Write)
    BY <1>1 DEF TypeOK
  <2>2. writes'[d] = Append(writes[d], w) /\ \A e \in Device : e # d => writes'[e] = writes[e]
    BY <1>1, <1>3, <2>1
  <2> QED  BY <1>2, <2>1, <2>2
<1>5. m \notin sent
  <2>1. nsent[d] \in Nat /\ m.n = nsent[d] + 1 /\ m.dev = d
    BY <1>1 DEF TypeOK
  <2>2. m \in sent => m.n <= nsent[d]
    BY <2>1 DEF Base, IInv, Numbered
  <2> QED  BY <2>1, <2>2
<1>6. w.msg = m
  BY <1>3 DEF FirstWrite, Mutation
<1>7. ASSUME NEW e \in Device, NEW i, NEW x, First(e, i, x)'
      PROVE  First(e, i, x) \/ (e = d /\ i = L + 1 /\ x = m)
  <2>1. CASE e # d
    BY <1>4, <1>7, <2>1 DEF First
  <2>2. CASE e = d
    <3>1. i \in 1..(L + 1) /\ writes'[d][i].step = "ownAdd" /\ writes'[d][i].msg = x
      BY <1>4, <1>7, <2>2 DEF First
    <3>2. CASE i = L + 1
      BY <1>4, <1>6, <2>2, <3>1, <3>2
    <3>3. CASE i # L + 1
      <4>1. i \in 1..L
        BY <3>1, <3>3
      <4> QED  BY <1>2, <1>4, <2>2, <3>1, <4>1 DEF First
    <3> QED  BY <3>2, <3>3
  <2> QED  BY <2>1, <2>2
<1> QED  BY <1>1, <1>2, <1>5, <1>7

\* Sending: the copy is the only one of its message, which is new.
LEMMA SendCopies ==
  ASSUME Base, TypeOK', NEW d \in Device, NEW p \in User, Send(d, p) PROVE Copies'
<1>1. PICK m : m = [dev |-> d, to |-> p, n |-> nsent[d] + 1]
  OBVIOUS
<1>2. /\ TypeOK /\ thread' = thread /\ rejected' = rejected /\ sent' = sent \cup {m}
  BY <1>1 DEF Base, IInv, Send, backend
<1>3. PICK L \in Nat : L = Len(writes[d])
  BY <1>2, LengthsAreNat
<1>4. /\ m \notin sent
      /\ \A e \in Device : \A i, x : First(e, i, x)' =>
           First(e, i, x) \/ (e = d /\ i = L + 1 /\ x = m)
  BY <1>1, <1>3, SendFirsts
<1>5. \A e \in Device : \A i, x : First(e, i, x) => x \in sent
  BY DEF Base, Order, OwnMessages, First
<1>6. FirstOnce'
  <2> SUFFICES ASSUME NEW e \in Device, NEW i, NEW x, First(e, i, x)'
               PROVE  /\ ~ Refused("ownAdd", x)'
                      /\ \A j : First(e, j, x)' => j = i
    BY DEF FirstOnce
  <2>1. CASE x # m
    <3>1. First(e, i, x) /\ \A j : First(e, j, x)' => First(e, j, x)
      BY <1>4, <2>1
    <3> QED  BY <1>2, <3>1 DEF Base, Copies, FirstOnce, Refused
  <2>2. CASE x = m
    <3>1. \A j : First(e, j, x)' => j = L + 1
      BY <1>4, <1>5, <2>2
    <3>2. ~ Refused("ownAdd", x)'
      BY <1>2, <1>4, <2>2 DEF Base, Copies, RefusedSent, Refused
    <3> QED  BY <3>1, <3>2
  <2> QED  BY <2>1, <2>2
<1>7. RefusedSent' /\ IsFiniteSet(sent')
  BY <1>2, FS_AddElement DEF Base, Copies, RefusedSent, Refused
<1>8. ThreadsSent'
  BY <1>2 DEF Base, Copies, ThreadsSent, Parties, From
<1> QED  BY <1>6, <1>7, <1>8 DEF Copies

\* Steps that leave the sender's copies and the threads alone.
LEMMA CopiesUnmoved ==
  ASSUME TypeOK', Copies, thread' = thread, rejected' = rejected, sent' = sent,
         \A d \in Device : \E g \in {0, 1} : \A i, m : First(d, i, m)' => First(d, i + g, m)
  PROVE  Copies'
<1>1. FirstOnce'
  BY FirstsMoved DEF Copies
<1> QED  BY <1>1 DEF Copies, RefusedSent, Refused, ThreadsSent, Parties, From

LEMMA CommitCopies ==
  ASSUME Base, TypeOK', NEW d \in Device, Commit(d) PROVE Copies'
<1>1. /\ TypeOK /\ writes' = writes /\ rejected' = rejected /\ sent' = sent
  BY DEF Base, IInv, Commit, history
<1>2. PICK w \in Write : w = writes[d][inflight[d] + 1]
  BY <1>1, NextWrite DEF Commit
<1>3. w.msg \in sent /\ w.msg \in Message
  BY <1>1, <1>2, NextWrite DEF Base, Order, OwnMessages, Commit, Write
<1>4. AddDocument(w) \/ SetData(w)
  BY <1>2 DEF Commit
<1>5. FirstOnce' /\ RefusedSent' /\ IsFiniteSet(sent')
  BY <1>1 DEF Base, Copies, FirstOnce, First, RefusedSent, Refused
<1>6. ASSUME NEW o \in User, NEW p \in User, NEW m \in thread'[o][p]
      PROVE  m \in sent /\ Parties(m, o, p)
  <2>1. CASE m \in thread[o][p]
    BY <2>1 DEF Base, Copies, ThreadsSent
  <2>2. CASE m \notin thread[o][p]
    <3>1. AddDocument(w)
      BY <1>4, <1>6, <2>2 DEF SetData
    <3>2. Owner(w.step, w.msg) \in User /\ Peer(w.step, w.msg) \in User
      BY <1>3, UsersOfStep DEF Write
    <3>3. m = w.msg /\ o = Owner(w.step, w.msg) /\ p = Peer(w.step, w.msg)
      BY <1>1, <1>6, <2>2, <3>1, <3>2 DEF AddDocument, TypeOK
    <3> QED  BY <1>3, <3>3 DEF Owner, Peer, Parties
  <2> QED  BY <2>1, <2>2
<1>7. ThreadsSent'
  BY <1>1, <1>6 DEF ThreadsSent, Parties, From
<1> QED  BY <1>5, <1>7 DEF Copies

\* The oldest write leaves the queue, refused or not.
LEMMA PoppedFirsts ==
  ASSUME TypeOK, TypeOK', NEW d \in Device, stored[d] > 0, writes' = [writes EXCEPT ![d] = Tail(@)]
  PROVE  /\ \A i, m : First(d, i, m)' => First(d, i + 1, m) /\ i \in Nat /\ i > 0
         /\ \A e \in Device : e # d => \A i, m : First(e, i, m)' => First(e, i, m)
<1>1. PICK L \in Nat : L = Len(writes[d])
  BY LengthsAreNat
<1>2. L > 0 /\ writes[d] \in Seq(Write)
  BY <1>1 DEF TypeOK
<1>3. Len(writes'[d]) = L - 1 /\ \A i \in 1..(L - 1) : writes'[d][i] = writes[d][i + 1]
  BY <1>1, <1>2 DEF TypeOK
<1>4. ASSUME NEW i, NEW m, First(d, i, m)' PROVE First(d, i + 1, m) /\ i \in Nat /\ i > 0
  <2>1. i \in 1..(L - 1) /\ i + 1 \in 1..L
    BY <1>3, <1>4 DEF First
  <2> QED  BY <1>1, <1>3, <1>4, <2>1 DEF First
<1>5. ASSUME NEW e \in Device, e # d, NEW i, NEW m, First(e, i, m)' PROVE First(e, i, m)
  BY <1>5 DEF First, TypeOK
<1> QED  BY <1>4, <1>5

LEMMA AckCopies ==
  ASSUME Base, TypeOK', NEW d \in Device, Ack(d) PROVE Copies'
<1>1. /\ TypeOK /\ thread' = thread /\ rejected' = rejected /\ sent' = sent
      /\ writes' = [writes EXCEPT ![d] = Tail(@)] /\ stored[d] > 0
  <2>1. TypeOK /\ inflight[d] > 0
    BY DEF Base, IInv, Ack
  <2>2. inflight[d] \in Nat /\ stored[d] \in Nat /\ inflight[d] <= stored[d]
    BY <2>1 DEF TypeOK
  <2> QED  BY <2>1, <2>2 DEF Ack, backend, history
<1>2. ASSUME NEW e \in Device
      PROVE  \E g \in {0, 1} : \A i, m : First(e, i, m)' => First(e, i + g, m)
  <2>1. CASE e = d
    BY <1>1, <2>1, PoppedFirsts
  <2>2. CASE e # d
    <3>1. \A i, m : First(e, i, m)' => First(e, i, m) /\ i \in Nat
      <4>1. Len(writes'[e]) \in Nat
        BY DEF TypeOK
      <4> QED  BY <1>1, <2>2, <4>1, PoppedFirsts DEF First
    <3>2. \A i, m : First(e, i, m)' => First(e, i + 0, m)
      BY <3>1
    <3> QED  BY <3>2
  <2> QED  BY <2>1, <2>2
<1> QED  BY <1>1, <1>2, CopiesUnmoved DEF Base

\* A refused copy was the only one of its message.
LEMMA RejectCopies ==
  ASSUME Base, TypeOK', NEW d \in Device, Reject(d) PROVE Copies'
<1>1. /\ TypeOK /\ thread' = thread /\ sent' = sent
      /\ writes' = [writes EXCEPT ![d] = Tail(@)] /\ stored[d] > 0
      /\ rejected' = rejected \cup {<<Head(writes[d]).step, Head(writes[d]).msg>>}
  BY DEF Base, IInv, Reject, backend
<1>2. PICK w \in Write : w = Head(writes[d])
  BY <1>1, OldestWrite
<1>3. w = writes[d][1] /\ 1 \in 1..Len(writes[d])
  BY <1>1, <1>2, OldestWrite
<1>4. w.msg \in sent /\ w.msg.dev = d
  BY <1>3 DEF Base, Order, OwnMessages
<1>5. \A step, m : Refused(step, m)' <=> Refused(step, m) \/ (step = w.step /\ m = w.msg)
  BY <1>1, <1>2 DEF Refused
<1>6. FirstOnce'
  <2> SUFFICES ASSUME NEW e \in Device, NEW i, NEW m, First(e, i, m)'
               PROVE  /\ ~ Refused("ownAdd", m)'
                      /\ \A j : First(e, j, m)' => j = i
    BY DEF FirstOnce
  <2>1. \A x, y, k : First(e, x, k) /\ First(e, y, k) => x = y /\ ~ Refused("ownAdd", k)
    BY DEF Base, Copies, FirstOnce
  <2>2. CASE e # d
    <3>1. \A j : First(e, j, m)' => First(e, j, m)
      BY <1>1, <2>2, PoppedFirsts
    <3>2. m.dev = e
      BY <3>1 DEF Base, Order, OwnMessages, First
    <3> QED  BY <1>4, <1>5, <2>1, <2>2, <3>1, <3>2
  <2>3. CASE e = d
    <3>1. \A j : First(e, j, m)' => First(e, j + 1, m) /\ j \in Nat /\ j > 0
      BY <1>1, <2>3, PoppedFirsts
    <3>2. First(e, i + 1, m) /\ i \in Nat /\ i > 0
      BY <3>1
    <3>3. \A j : First(e, j, m)' => j = i
      <4> SUFFICES ASSUME NEW j, First(e, j, m)' PROVE j = i
        OBVIOUS
      <4>1. First(e, j + 1, m) /\ j \in Nat
        BY <3>1
      <4>2. j + 1 = i + 1
        BY <2>1, <3>2, <4>1
      <4> QED  BY <3>2, <4>1, <4>2
    <3>4. ~ (w.step = "ownAdd" /\ m = w.msg)
      <4> SUFFICES ASSUME w.step = "ownAdd", m = w.msg PROVE FALSE
        OBVIOUS
      <4>1. First(e, 1, m)
        BY <1>3, <2>3 DEF First
      <4>2. i + 1 = 1
        BY <2>1, <3>2, <4>1
      <4> QED  BY <3>2, <4>2
    <3> QED  BY <1>5, <2>1, <3>2, <3>3, <3>4
  <2> QED  BY <2>2, <2>3
<1> QED  BY <1>1, <1>4, <1>5, <1>6 DEF Base, Copies, RefusedSent, ThreadsSent, Parties, From

\* The writes a handler adds, and a kill cuts off, are those of no first copy, or
\* the last ones: the others stay where they are.
LEMMA MirrorFirsts ==
  ASSUME TypeOK, TypeOK', NEW d \in Device, Mirror(d),
         NEW e \in Device, NEW i, NEW x, First(e, i, x)'
  PROVE  First(e, i, x)
<1>1. PICK L \in Nat : L = Len(writes[d])
  BY LengthsAreNat
<1>2. /\ Len(writes'[d]) = L + 3
      /\ \A k \in 1..L : writes'[d][k] = writes[d][k]
      /\ writes'[d][L + 1].step = "peerAdd"
      /\ writes'[d][L + 2].step = "ownRecent"
      /\ writes'[d][L + 3].step = "peerRecent"
      /\ \A b \in Device : b # d => writes'[b] = writes[b]
  <2>1. /\ Len(writes'[d]) = Len(writes[d]) + 3
        /\ \A k \in 1..Len(writes[d]) : writes'[d][k] = writes[d][k]
        /\ writes'[d][Len(writes[d]) + 1].step = "peerAdd"
        /\ writes'[d][Len(writes[d]) + 2].step = "ownRecent"
        /\ writes'[d][Len(writes[d]) + 3].step = "peerRecent"
    BY MirrorAppends
  <2>2. \A b \in Device : b # d => writes'[b] = writes[b]
    BY DEF TypeOK, Mirror
  <2> QED  BY <1>1, <2>1, <2>2
<1>3. \A k \in (L + 1)..(L + 3) : writes'[d][k].step # "ownAdd"
  <2>1. \A k \in (L + 1)..(L + 3) : k = L + 1 \/ k = L + 2 \/ k = L + 3
    OBVIOUS
  <2> QED  BY <1>2, <2>1
<1>4. CASE e # d
  <2>1. writes'[e] = writes[e]
    BY <1>2, <1>4
  <2> QED  BY <2>1 DEF First
<1>5. CASE e = d
  <2>1. i \in 1..(L + 3) /\ ~ (i \in (L + 1)..(L + 3))
    BY <1>2, <1>3, <1>5 DEF First
  <2>2. i \in 1..L
    BY <2>1
  <2> QED  BY <1>1, <1>2, <1>5, <2>2 DEF First
<1> QED  BY <1>4, <1>5

LEMMA KillFirsts ==
  ASSUME TypeOK, NEW d \in Device, Kill(d), NEW e \in Device, NEW i, NEW x, First(e, i, x)'
  PROVE  First(e, i, x) /\ (e = d => i <= stored[d])
<1>1. /\ stored[d] \in Nat /\ Len(writes[d]) \in Nat /\ stored[d] <= Len(writes[d])
      /\ writes[d] \in Seq(Write)
      /\ writes'[d] = Restored(writes[d], stored[d])
      /\ \A b \in Device : b # d => writes'[b] = writes[b]
  BY DEF TypeOK, Kill
<1>2. \A k \in 1..stored[d] : k \in 1..Len(writes[d]) /\ writes[d][k] \in Write
  BY <1>1
<1>3. Len(Restored(writes[d], stored[d])) = stored[d]
  BY <1>1, RestoredType
<1>4. /\ Len(writes'[d]) = stored[d]
      /\ \A k \in 1..stored[d] : /\ writes'[d][k].step = writes[d][k].step
                                /\ writes'[d][k].msg = writes[d][k].msg
  BY <1>1, <1>2, <1>3 DEF Restored, Write
<1>5. CASE e # d
  <2>1. writes'[e] = writes[e]
    BY <1>1, <1>5
  <2> QED  BY <1>5, <2>1 DEF First
<1>6. CASE e = d
  <2>1. i \in 1..stored[d] /\ i <= stored[d]
    BY <1>1, <1>4, <1>6 DEF First
  <2> QED  BY <1>2, <1>4, <1>6, <2>1 DEF First
<1> QED  BY <1>5, <1>6

\* A first copy stays where it is in each queue.
LEMMA StayCopies ==
  ASSUME Copies, TypeOK', thread' = thread, rejected' = rejected, sent' = sent,
         \A e \in Device : \A i, x : First(e, i, x)' => First(e, i, x)
  PROVE  Copies'
<1>1. ASSUME NEW e \in Device
      PROVE  \E g \in {0, 1} : \A i, m : First(e, i, m)' => First(e, i + g, m)
  <2>1. \A i, x : First(e, i, x)' => i + 0 = i
    <3>1. Len(writes'[e]) \in Nat
      BY DEF TypeOK
    <3> QED  BY <3>1 DEF First
  <2>2. \A i, m : First(e, i, m)' => First(e, i + 0, m)
    BY <2>1
  <2> QED  BY <2>2
<1> QED  BY <1>1, CopiesUnmoved

LEMMA MirrorCopies ==
  ASSUME Base, TypeOK', NEW d \in Device, Mirror(d) PROVE Copies'
<1>1. TypeOK /\ Copies /\ thread' = thread /\ rejected' = rejected /\ sent' = sent
  BY DEF Base, IInv, Mirror, backend, history
<1>2. \A e \in Device : \A i, x : First(e, i, x)' => First(e, i, x)
  BY <1>1, MirrorFirsts
<1> QED  BY <1>1, <1>2, StayCopies

LEMMA KillCopies ==
  ASSUME Base, TypeOK', NEW d \in Device, Kill(d) PROVE Copies'
<1>1. TypeOK /\ Copies /\ thread' = thread /\ rejected' = rejected /\ sent' = sent
  BY DEF Base, IInv, Kill, backend
<1>2. \A e \in Device : \A i, x : First(e, i, x)' => First(e, i, x)
  BY <1>1, KillFirsts
<1> QED  BY <1>1, <1>2, StayCopies

LEMMA SameFirsts ==
  ASSUME Copies, TypeOK', thread' = thread, rejected' = rejected, sent' = sent, writes' = writes
  PROVE  Copies'
BY DEF Copies, FirstOnce, First, RefusedSent, Refused, ThreadsSent, Parties, From

LEMMA NextBase ==
  ASSUME Base, [Next]_vars PROVE Base'
<1>1. TypeOK' /\ IInv' /\ Order'
  BY NextType, NextInv, StepOrder DEF Base, IInv
<1>2. Copies
  BY DEF Base
<1>3. CASE UNCHANGED vars
  BY <1>1, <1>2, <1>3, SameFirsts DEF Base, vars, backend, client, history
<1>4. ASSUME NEW d \in Device, NEW p \in User, Type(d, p) PROVE Base'
  BY <1>1, <1>2, <1>4, SameFirsts DEF Base, Type, backend, history
<1>5. ASSUME NEW d \in Device, NEW p \in User, Send(d, p) PROVE Base'
  BY <1>1, <1>5, SendCopies DEF Base
<1>6. ASSUME NEW d \in Device, Mirror(d) PROVE Base'
  BY <1>1, <1>6, MirrorCopies DEF Base
<1>7. ASSUME NEW d \in Device, UploadDone(d) PROVE Base'
  BY <1>1, <1>2, <1>7, SameFirsts DEF Base, UploadDone, backend, history
<1>8. ASSUME NEW d \in Device, WriteLocally(d) PROVE Base'
  BY <1>1, <1>2, <1>8, SameFirsts DEF Base, WriteLocally, backend, history
<1>9. ASSUME NEW d \in Device, Commit(d) PROVE Base'
  BY <1>1, <1>9, CommitCopies DEF Base
<1>10. ASSUME NEW d \in Device, Ack(d) PROVE Base'
  BY <1>1, <1>10, AckCopies DEF Base
<1>11. ASSUME NEW d \in Device, Reject(d) PROVE Base'
  BY <1>1, <1>11, RejectCopies DEF Base
<1>12. ASSUME NEW d \in Device, Disconnect(d) PROVE Base'
  BY <1>1, <1>2, <1>12, SameFirsts DEF Base, Disconnect, backend, history
<1>13. ASSUME NEW d \in Device, Kill(d) PROVE Base'
  BY <1>1, <1>13, KillCopies DEF Base
<1> QED
  BY <1>3, <1>4, <1>5, <1>6, <1>7, <1>8, <1>9, <1>10, <1>11, <1>12, <1>13 DEF Next

-----------------------------------------------------------------------------
(***************************************************************************)
(* The chat.  A document is told to a screen when it becomes visible, and  *)
(* is then at some place of that screen: in what it shows (0), or in the   *)
(* k-th snapshot of the main queue.                                        *)
(***************************************************************************)

\* Place i of the k-th snapshot is m.
Dispatched(k, i, m) ==
  k \in 1..Len(events) /\ i \in 1..Len(events[k].added) /\ events[k].added[i] = m

\* Place i of screen c or, if k # 0, of its snapshot k, is m.
Occurs(c, k, i, m) ==
  \/ k = 0 /\ c \in 1..Len(shown) /\ i \in 1..Len(shown[c]) /\ shown[c][i] = m
  \/ Dispatched(k, i, m) /\ c \in events[k].to

\* What was visible: it stays so unless its copy is refused.
Lasting(m) ==
  \/ m \in known
  \/ m.dev = viewer /\ m.to = partner /\ (Waiting(m) \/ Refused("ownAdd", m))

Addressed == \A k \in 1..Len(events) : events[k].to \subseteq 1..Len(shown)

\* A screen whose listener has not been added has been told nothing.
NotYet ==
  /\ adding \cap listening = {}
  /\ \A c \in adding : \A k, i, m : ~ Occurs(c, k, i, m)

Cached == known \subseteq thread[me][partner]

\* A listening screen has been told all that is visible.
Heard == \A c \in listening : \A m \in Visible : \E k, i : Occurs(c, k, i, m)

\* Only what has been visible is told, shown and seen.
Backing ==
  /\ \A k, i, m : Dispatched(k, i, m) => Lasting(m)
  /\ \A c \in 1..Len(shown) : \A i \in 1..Len(shown[c]) : shown[c][i] \in seen
  /\ \A m \in seen : Lasting(m)

\* The copy was refused after the backend had applied it, and has come back.
AskedAgain(m) == m \in known /\ m.dev = viewer /\ Refused("ownAdd", m)

\* A message is at one place of a screen, or at two if it was asked again.
Once(c) ==
  \A m, k, i, l, j :
    Occurs(c, k, i, m) /\ Occurs(c, l, j, m) /\ ~ (k = l /\ i = j) =>
      /\ AskedAgain(m)
      /\ \A q, r : Occurs(c, q, r, m) => (q = k /\ r = i) \/ (q = l /\ r = j)

AllOnce == \A c : Once(c)

Screens == /\ ChatTypeOK /\ Addressed /\ NotYet /\ Cached
           /\ Heard /\ Backing /\ AllOnce

CInv == Base /\ Screens

-----------------------------------------------------------------------------
(* What the Firestore client has.                                          *)

\* Every step of the chat is a step of the upload, or leaves it alone.
LEMMA ChatIsUpload == ChatNext => [Next]_vars
<1> SUFFICES ASSUME ChatNext PROVE [Next]_vars
  OBVIOUS
<1>1. ASSUME NEW d \in Device, NEW p \in User, SendMessage(d, p) PROVE Next
  BY <1>1 DEF SendMessage, Next
<1>2. ASSUME NEW d \in Device, Upload(d) PROVE Next
  BY <1>2 DEF Upload, Next
<1>3. ASSUME NEW d \in Device, Acknowledge(d) PROVE Next
  BY <1>3 DEF Acknowledge, Next
<1>4. ASSUME NEW d \in Device, Relaunch(d) PROVE Next
  BY <1>4 DEF Relaunch, Next
<1>5. ASSUME \/ OpenChat \/ CloseChat \/ HandleSnapshot \/ Listen \/ Watch \/ RejectListen
      PROVE  UNCHANGED vars
  BY <1>5 DEF OpenChat, CloseChat, HandleSnapshot, Listen, Watch, RejectListen
<1> QED  BY <1>1, <1>2, <1>3, <1>4, <1>5 DEF ChatNext

LEMMA Me == viewer \in Device /\ me \in User /\ partner \in User /\ partner # me
BY ConstantsAssumption, ChatViewAssumption DEF me

\* What waits on the device is a message of the device.
LEMMA WaitingSent ==
  ASSUME Base, NEW m, Waiting(m)
  PROVE  m \in sent /\ m \in Message /\ m.dev = viewer /\ \E i : First(viewer, i, m)
<1>1. TypeOK
  BY DEF Base, IInv
<1>2. PICK i \in 1..stored[viewer] : writes[viewer][i].step = "ownAdd" /\ writes[viewer][i].msg = m
  BY DEF Waiting
<1>3. i \in 1..Len(writes[viewer])
  BY <1>1, <1>2, Me DEF TypeOK
<1> QED  BY <1>1, <1>2, <1>3, Me DEF Base, Order, OwnMessages, First, TypeOK

LEMMA VisibleIs ==
  ASSUME Base
  PROVE  \A m : m \in Visible <=>
           m \in known \/ (m.dev = viewer /\ m.to = partner /\ Waiting(m))
BY WaitingSent DEF Visible

\* The visible documents are finitely many messages.
LEMMA VisibleFinite ==
  Base /\ Cached => IsFiniteSet(Visible) /\ Visible \subseteq Message
<1> SUFFICES ASSUME Base, Cached PROVE IsFiniteSet(Visible) /\ Visible \subseteq Message
  OBVIOUS
<1>1. thread[me][partner] \subseteq sent
  BY Me DEF Base, Copies, ThreadsSent
<1>2. Visible \subseteq sent
  BY <1>1 DEF Visible, Cached
<1>3. sent \subseteq Message /\ IsFiniteSet(sent)
  BY DEF Base, IInv, TypeOK, Copies
<1> QED  BY <1>2, <1>3, FS_Subset

\* What is visible lasts, and what lasts is visible, unless it is refused: then
\* it is visible only when it has come back from the backend.
LEMMA VisibleLasting ==
  Base => \A m : /\ m \in Visible => Lasting(m)
                 /\ Lasting(m) /\ m \notin Visible =>
                      m \notin known /\ m.dev = viewer /\ Refused("ownAdd", m)
                 /\ m \in Visible /\ Refused("ownAdd", m) => m \in known
<1> SUFFICES ASSUME Base, NEW m
             PROVE  /\ m \in Visible => Lasting(m)
                    /\ Lasting(m) /\ m \notin Visible =>
                         m \notin known /\ m.dev = viewer /\ Refused("ownAdd", m)
                    /\ m \in Visible /\ Refused("ownAdd", m) => m \in known
  OBVIOUS
<1>1. m \in Visible <=> m \in known \/ (m.dev = viewer /\ m.to = partner /\ Waiting(m))
  BY VisibleIs
<1>2. ASSUME Refused("ownAdd", m), Waiting(m) PROVE FALSE
  <2>1. PICK i : First(viewer, i, m)
    BY <1>2, WaitingSent
  <2> QED  BY <1>2, <2>1, Me DEF Base, Copies, FirstOnce
<1> QED  BY <1>1, <1>2 DEF Lasting

\* What waits is the first copies among the persisted writes.
LEMMA WaitingIs ==
  TypeOK => \A m : Waiting(m) <=> \E i : First(viewer, i, m) /\ i <= stored[viewer]
<1> SUFFICES ASSUME TypeOK
             PROVE  \A m : Waiting(m) <=> \E i : First(viewer, i, m) /\ i <= stored[viewer]
  OBVIOUS
<1>1. stored[viewer] \in Nat /\ Len(writes[viewer]) \in Nat /\ stored[viewer] <= Len(writes[viewer])
  BY Me DEF TypeOK
<1>2. \A i : i \in 1..stored[viewer] <=> i \in 1..Len(writes[viewer]) /\ i <= stored[viewer]
  BY <1>1
<1> QED  BY <1>2 DEF Waiting, First

-----------------------------------------------------------------------------
(* Snapshots.                                                              *)

\* A snapshot lists each of its documents once, by time.
LEMMA OrderedDocuments ==
  ASSUME time \in [Message -> 0..MaxTime], NEW S \in SUBSET Message, IsFiniteSet(S),
         NEW s \in Ordered(S)
  PROVE  /\ s \in Seq(Message)
         /\ \A i \in 1..Len(s) : s[i] \in S
         /\ \A i, j \in 1..Len(s) : s[i] = s[j] => i = j
         /\ \A i, j \in 1..Len(s) : i < j => time[s[i]] < time[s[j]]
         /\ \A m \in S : \E i \in 1..Len(s) : s[i] = m
<1> DEFINE n == Cardinality(S)
<1>1. n \in Nat
  BY FS_CardinalityType
<1>2. s \in [1..n -> S] /\ \A i, j \in 1..n : i < j => time[s[i]] < time[s[j]]
  BY DEF Ordered
<1>3. s \in Seq(Message) /\ Len(s) = n
  BY <1>1, <1>2
<1>4. \A i, j \in 1..n : s[i] = s[j] => i = j
  <2> SUFFICES ASSUME NEW i \in 1..n, NEW j \in 1..n, s[i] = s[j] PROVE i = j
    OBVIOUS
  <2>1. time[s[i]] \in Int /\ time[s[i]] = time[s[j]]
    BY <1>2, ChatViewAssumption
  <2>2. ~ (i < j) /\ ~ (j < i)
    BY <1>2, <2>1
  <2> QED  BY <1>1, <2>2
<1>5. s \in Surjection(1..n, S)
  <2>1. s \in Injection(1..n, S)
    BY <1>2, <1>4 DEF Injection, IsInjective
  <2>2. Cardinality(1..n) = n
    <3> HIDE DEF n
    <3>1. 1 \in Int /\ n \in Int
      BY <1>1
    <3>2. Cardinality(1..n) = IF 1 > n THEN 0 ELSE n - 1 + 1
      BY <3>1, FS_Interval
    <3> QED  BY <1>1, <3>2
  <2> QED  BY <2>1, <2>2, FS_Injection
<1>6. \A m \in S : \E i \in 1..n : s[i] = m
  BY <1>5 DEF Surjection
<1> HIDE DEF n
<1> QED  BY <1>2, <1>3, <1>4, <1>6

\* The documents, each once and by time, are put on the main queue for these screens.
Appends(to, docs, added) ==
  /\ \A i \in 1..Len(added) : added[i] \in docs
  /\ \A i, j \in 1..Len(added) : added[i] = added[j] => i = j
  /\ \A i, j \in 1..Len(added) : i < j => time[added[i]] < time[added[j]]
  /\ \A m \in docs : \E i \in 1..Len(added) : added[i] = m
  /\ Len(events') = Len(events) + 1
  /\ \A k \in 1..Len(events) : events'[k] = events[k]
  /\ events'[Len(events) + 1].to = to
  /\ events'[Len(events) + 1].added = added

\* What telling documents to screens adds to the main queue.
LEMMA Tells ==
  ASSUME ChatTypeOK, Addressed, NEW to, to \subseteq 1..Len(shown),
         NEW docs \in SUBSET Message, IsFiniteSet(docs),
         events' \in Told(to, docs), shown' = shown
  PROVE  /\ events' \in Seq(Snapshot) /\ Addressed'
         /\ \/ events' = events /\ (to = {} \/ docs = {})
            \/ \E added \in Seq(Message) : Appends(to, docs, added)
<1>1. /\ events \in Seq(Snapshot) /\ time \in [Message -> 0..MaxTime]
      /\ Len(shown) \in Nat /\ Len(shown) <= MaxChats
  BY DEF ChatTypeOK
<1>2. CASE to = {} \/ docs = {}
  <2>1. events' = events
    BY <1>2 DEF Told
  <2> QED  BY <1>1, <1>2, <2>1 DEF Addressed
<1>3. CASE ~ (to = {} \/ docs = {})
  <2>1. PICK added \in Ordered(docs) : events' = Append(events, [to |-> to, added |-> added])
    BY <1>3 DEF Told
  <2>2. /\ added \in Seq(Message)
        /\ \A i \in 1..Len(added) : added[i] \in docs
        /\ \A i, j \in 1..Len(added) : added[i] = added[j] => i = j
        /\ \A i, j \in 1..Len(added) : i < j => time[added[i]] < time[added[j]]
        /\ \A m \in docs : \E i \in 1..Len(added) : added[i] = m
    BY <1>1, OrderedDocuments
  <2>3. PICK e : e = [to |-> to, added |-> added]
    OBVIOUS
  <2>4. e \in Snapshot /\ e.to = to /\ e.added = added
    <3>1. to \subseteq Screen
      BY <1>1, ChatViewAssumption DEF Screen
    <3> QED  BY <2>2, <2>3, <3>1 DEF Snapshot
  <2>5. events' = Append(events, e)
    BY <2>1, <2>3
  <2>6. /\ events' \in Seq(Snapshot) /\ Len(events) \in Nat /\ Len(events') = Len(events) + 1
        /\ \A k \in 1..Len(events) : events'[k] = events[k]
        /\ events'[Len(events) + 1] = e
    BY <1>1, <2>4, <2>5
  <2>7. Addressed'
    <3> SUFFICES ASSUME NEW k \in 1..Len(events') PROVE events'[k].to \subseteq 1..Len(shown)
      BY DEF Addressed
    <3>1. k \in 1..Len(events) \/ k = Len(events) + 1
      BY <2>6
    <3> QED  BY <2>4, <2>6, <3>1 DEF Addressed
  <2>8. Appends(to, docs, added)
    BY <2>2, <2>4, <2>6 DEF Appends
  <2> QED  BY <2>2, <2>6, <2>7, <2>8
<1> QED  BY <1>2, <1>3

\* Where the documents told are then: at the places of before, and in the last snapshot.
LEMMA Places ==
  ASSUME ChatTypeOK, NEW to, NEW added \in Seq(Message), shown' = shown,
         Len(events') = Len(events) + 1,
         \A k \in 1..Len(events) : events'[k] = events[k],
         events'[Len(events) + 1].to = to,
         events'[Len(events) + 1].added = added,
         NEW c, NEW k, NEW i, NEW m
  PROVE  Occurs(c, k, i, m)' <=>
           \/ Occurs(c, k, i, m)
           \/ c \in to /\ k = Len(events) + 1 /\ i \in 1..Len(added) /\ added[i] = m
<1>1. Len(events) \in Nat
  BY DEF ChatTypeOK
<1>2. k \in 1..Len(events') <=> k \in 1..Len(events) \/ k = Len(events) + 1
  BY <1>1
<1>3. ~ (Len(events) + 1 \in 1..Len(events)) /\ Len(events) + 1 # 0
  BY <1>1
<1>4. CASE k = Len(events) + 1
  BY <1>2, <1>3, <1>4 DEF Occurs, Dispatched
<1>5. CASE k # Len(events) + 1
  BY <1>2, <1>5 DEF Occurs, Dispatched
<1> QED  BY <1>4, <1>5

\* Telling a screen what is not yet at a place of it, or was refused and has come back.
LEMMA ToldOnce ==
  ASSUME ChatTypeOK, Addressed, AllOnce, NEW to, to \subseteq 1..Len(shown),
         NEW docs \in SUBSET Message, IsFiniteSet(docs),
         events' \in Told(to, docs), shown' = shown,
         \A m : AskedAgain(m) => AskedAgain(m)',
         \A c \in to : \A m \in docs : \A k, i :
           Occurs(c, k, i, m) => ~ AskedAgain(m) /\ AskedAgain(m)'
  PROVE  AllOnce'
<1> SUFFICES ASSUME NEW c, NEW m, NEW k, NEW i, NEW l, NEW j,
                    Occurs(c, k, i, m)', Occurs(c, l, j, m)', ~ (k = l /\ i = j)
             PROVE  /\ AskedAgain(m)'
                    /\ \A q, r : Occurs(c, q, r, m)' => (q = k /\ r = i) \/ (q = l /\ r = j)
  BY DEF AllOnce, Once
<1>1. \A a, b, x, y : Occurs(c, a, b, m) /\ Occurs(c, x, y, m) /\ ~ (a = x /\ b = y) =>
        /\ AskedAgain(m)
        /\ \A q, r : Occurs(c, q, r, m) => (q = a /\ r = b) \/ (q = x /\ r = y)
  BY DEF AllOnce, Once
<1>2. CASE events' = events
  <2>1. \A a, b : Occurs(c, a, b, m)' <=> Occurs(c, a, b, m)
    BY <1>2 DEF Occurs, Dispatched
  <2> QED  BY <1>1, <2>1
<1>3. ASSUME NEW added \in Seq(Message), Appends(to, docs, added)
      PROVE  /\ AskedAgain(m)'
             /\ \A q, r : Occurs(c, q, r, m)' => (q = k /\ r = i) \/ (q = l /\ r = j)
  <2> DEFINE New(a, b) == c \in to /\ a = Len(events) + 1 /\ b \in 1..Len(added) /\ added[b] = m
  <2>1. \A a, b : Occurs(c, a, b, m)' <=> Occurs(c, a, b, m) \/ New(a, b)
    BY <1>3, Places DEF Appends
  <2>2. \A a, b, x, y : New(a, b) /\ New(x, y) => a = x /\ b = y
    BY <1>3 DEF Appends
  <2>3. \A a, b, x, y : New(a, b) /\ Occurs(c, x, y, m) => ~ AskedAgain(m) /\ AskedAgain(m)'
    BY <1>3 DEF Appends
  <2> HIDE DEF New
  <2> QED  BY <1>1, <2>1, <2>2, <2>3
<1>4. events' = events \/ \E added \in Seq(Message) : Appends(to, docs, added)
  BY Tells
<1> QED  BY <1>2, <1>3, <1>4

-----------------------------------------------------------------------------
(* The steps of the chat.                                                  *)

\* All that is told to a screen, or shown by it, has been visible.
LEMMA OccursLasting ==
  ASSUME Backing, NEW c, NEW k, NEW i, NEW m, Occurs(c, k, i, m) PROVE Lasting(m)
BY DEF Backing, Occurs, Dispatched

\* A step after which the listeners hear of what has become visible.
LEMMA Hears ==
  ASSUME CInv, Base', Cached', known \subseteq known', rejected \subseteq rejected',
         \A m : Lasting(m) => Lasting(m)',
         time' \in [Message -> 0..MaxTime], answers' \in [Message -> SUBSET Message],
         finished' \in [Message -> SUBSET Message],
         UNCHANGED <<listening, screens, seen>>, Hear
  PROVE  Screens'
<1>1. /\ ChatTypeOK /\ Addressed /\ AllOnce /\ Backing /\ NotYet /\ Heard /\ Base
      /\ listening' = listening /\ adding' = adding /\ shown' = shown /\ open' = open
      /\ seen' = seen
  BY DEF CInv, Screens, screens
<1>2. PICK docs : docs = Visible' \ Visible
  OBVIOUS
<1>3. (Base /\ Cached)' => (IsFiniteSet(Visible) /\ Visible \subseteq Message)'
  BY VisibleFinite, PTL
<1>4. docs \in SUBSET Message /\ IsFiniteSet(docs)
  BY <1>2, <1>3, FS_Difference
<1>5. listening \subseteq 1..Len(shown) /\ adding \subseteq 1..Len(shown)
  BY <1>1 DEF ChatTypeOK
<1>6. events' \in Told(listening, docs)
  BY <1>2 DEF Hear
<1>7. Base' => (\A m : /\ m \in Visible => Lasting(m)
                       /\ Lasting(m) /\ m \notin Visible =>
                            m \notin known /\ m.dev = viewer /\ Refused("ownAdd", m)
                       /\ m \in Visible /\ Refused("ownAdd", m) => m \in known)'
  BY VisibleLasting, PTL
<1>8. \A m \in docs : Lasting(m)'
  BY <1>2, <1>7
<1>9. \A m : Refused("ownAdd", m) => Refused("ownAdd", m)'
  BY DEF Refused
<1>10. AllOnce'
  <2>1. \A m : AskedAgain(m) => AskedAgain(m)'
    BY <1>9 DEF AskedAgain
  <2>2. ASSUME NEW m \in docs, NEW c, NEW k, NEW i, Occurs(c, k, i, m)
        PROVE  ~ AskedAgain(m) /\ AskedAgain(m)'
    <3>1. Lasting(m) /\ m \notin Visible
      BY <1>1, <1>2, <2>2, OccursLasting
    <3>2. m \notin known /\ m.dev = viewer /\ Refused("ownAdd", m)
      BY <1>1, <3>1, VisibleLasting
    <3>3. (m \in Visible)' /\ Refused("ownAdd", m)'
      BY <1>2, <1>9, <3>2
    <3>4. m \in known'
      BY <1>7, <3>3
    <3> QED  BY <3>2, <3>3, <3>4 DEF AskedAgain
  <2> QED  BY <1>1, <1>4, <1>5, <1>6, <2>1, <2>2, ToldOnce
<1>11. events' \in Seq(Snapshot) /\ Addressed'
  BY <1>1, <1>4, <1>5, <1>6, Tells
<1>12. ChatTypeOK'
  <2>1. TypeOK'
    BY DEF Base, IInv
  <2>2. known' \in SUBSET Message
    BY <2>1, Me DEF TypeOK, Cached
  <2> QED  BY <1>1, <1>11, <2>1, <2>2 DEF ChatTypeOK
<1>13. CASE events' = events /\ (listening = {} \/ docs = {})
  <2>1. \A c, k, i, m : Occurs(c, k, i, m)' <=> Occurs(c, k, i, m)
    BY <1>1, <1>13 DEF Occurs, Dispatched
  <2>2. NotYet'
    BY <1>1, <2>1 DEF NotYet
  <2>3. Heard'
    BY <1>1, <1>2, <1>13, <2>1 DEF Heard
  <2>4. Backing'
    <3>1. \A k, i, m : Dispatched(k, i, m)' => Dispatched(k, i, m)
      BY <1>13 DEF Dispatched
    <3> QED  BY <1>1, <3>1 DEF Backing
  <2> QED  BY <1>10, <1>11, <1>12, <2>2, <2>3, <2>4 DEF Screens
<1>14. ASSUME NEW added \in Seq(Message), Appends(listening, docs, added)
       PROVE  Screens'
  <2>1. \A c, k, i, m : Occurs(c, k, i, m)' <=>
          \/ Occurs(c, k, i, m)
          \/ /\ c \in listening /\ k = Len(events) + 1
             /\ i \in 1..Len(added) /\ added[i] = m
    BY <1>1, <1>14, Places DEF Appends
  <2>2. NotYet'
    BY <1>1, <2>1 DEF NotYet
  <2>3. Heard'
    <3> SUFFICES ASSUME NEW c \in listening, NEW m, m \in Visible'
                 PROVE  \E k, i : Occurs(c, k, i, m)'
      BY <1>1 DEF Heard
    <3>1. CASE m \in Visible
      BY <1>1, <2>1, <3>1 DEF Heard
    <3>2. CASE m \notin Visible
      <4>1. PICK i \in 1..Len(added) : added[i] = m
        BY <1>2, <1>14, <3>2 DEF Appends
      <4>2. PICK k : k = Len(events) + 1
        OBVIOUS
      <4>3. Occurs(c, k, i, m)'
        BY <2>1, <4>1, <4>2
      <4> QED  BY <4>3
    <3> QED  BY <3>1, <3>2
  <2>4. Backing'
    <3>1. ASSUME NEW k, NEW i, NEW m, Dispatched(k, i, m)' PROVE Lasting(m)'
      <4>1. k \in 1..Len(events) \/ k = Len(events) + 1
        <5>1. Len(events) \in Nat
          BY <1>1 DEF ChatTypeOK
        <5>2. Len(events') = Len(events) + 1
          BY <1>14 DEF Appends
        <5> QED  BY <3>1, <5>1, <5>2 DEF Dispatched
      <4>2. CASE k \in 1..Len(events)
        <5>1. Dispatched(k, i, m)
          BY <1>14, <3>1, <4>2 DEF Dispatched, Appends
        <5> QED  BY <1>1, <5>1 DEF Backing
      <4>3. CASE k = Len(events) + 1
        <5>1. m \in docs
          BY <1>14, <3>1, <4>3 DEF Dispatched, Appends
        <5> QED  BY <1>8, <5>1
      <4> QED  BY <4>1, <4>2, <4>3
    <3>2. \A m \in seen' : Lasting(m)'
      BY <1>1 DEF Backing
    <3>3. \A c \in 1..Len(shown') : \A i \in 1..Len(shown'[c]) : shown'[c][i] \in seen'
      BY <1>1 DEF Backing
    <3> QED  BY <3>1, <3>2, <3>3 DEF Backing
  <2> QED  BY <1>10, <1>11, <1>12, <2>2, <2>3, <2>4, <1>1 DEF Screens, Cached
<1>15. \/ events' = events /\ (listening = {} \/ docs = {})
       \/ \E added \in Seq(Message) : Appends(listening, docs, added)
  BY <1>1, <1>4, <1>5, <1>6, Tells
<1> QED  BY <1>13, <1>14, <1>15

\* When the oldest write leaves the queue, the others wait on.
LEMMA WaitingPopped ==
  ASSUME TypeOK, NEW m, Waiting(m),
         writes'[viewer] = Tail(writes[viewer]), stored'[viewer] = stored[viewer] - 1
  PROVE  Waiting(m)' \/ (Head(writes[viewer]).step = "ownAdd" /\ Head(writes[viewer]).msg = m)
<1>1. PICK i \in 1..stored[viewer] : writes[viewer][i].step = "ownAdd" /\ writes[viewer][i].msg = m
  BY DEF Waiting
<1>2. PICK n \in Nat : n = stored[viewer]
  BY Me DEF TypeOK
<1>3. writes[viewer] \in Seq(Write) /\ n <= Len(writes[viewer])
  BY <1>2, Me DEF TypeOK
<1>4. PICK L \in Nat : L = Len(writes[viewer])
  BY <1>3
<1>5. CASE i = 1
  BY <1>1, <1>2, <1>3, <1>4, <1>5
<1>6. CASE i # 1
  <2>1. PICK j \in 1..(n - 1) : j + 1 = i
    <3>1. i - 1 \in 1..(n - 1) /\ (i - 1) + 1 = i
      BY <1>1, <1>2, <1>6
    <3> QED  BY <3>1
  <2>2. j \in 1..(L - 1) /\ writes[viewer] # << >>
    BY <1>2, <1>3, <1>4, <2>1
  <2>3. Tail(writes[viewer])[j] = writes[viewer][j + 1]
    BY <1>3, <1>4, <2>2
  <2>4. j \in 1..stored'[viewer] /\ writes'[viewer][j] = writes[viewer][i]
    BY <1>2, <2>1, <2>3
  <2> QED  BY <1>1, <2>4 DEF Waiting
<1> QED  BY <1>5, <1>6

\* The persisted writes of the sender's copies stay until they are acknowledged or
\* refused.
LEMMA WaitingKept ==
  ASSUME Base, TypeOK', NEW d \in Device,
         \/ \E p \in User : Send(d, p)
         \/ Mirror(d) \/ UploadDone(d) \/ WriteLocally(d) \/ Commit(d)
         \/ Reject(d) \/ Disconnect(d) \/ Kill(d),
         NEW m, Waiting(m)
  PROVE  Waiting(m)' \/ Refused("ownAdd", m)'
<1>1. TypeOK
  BY DEF Base, IInv
<1>2. PICK i \in 1..stored[viewer] : writes[viewer][i].step = "ownAdd" /\ writes[viewer][i].msg = m
  BY DEF Waiting
<1>3. /\ stored[viewer] \in Nat /\ writes[viewer] \in Seq(Write)
      /\ i \in 1..Len(writes[viewer])
  <2>1. /\ stored[viewer] \in Nat /\ writes[viewer] \in Seq(Write)
        /\ stored[viewer] <= Len(writes[viewer])
    BY <1>1, Me DEF TypeOK
  <2>2. Len(writes[viewer]) \in Nat
    BY <2>1
  <2> QED  BY <1>2, <2>1, <2>2
<1>4. ASSUME i \in 1..stored'[viewer], writes'[viewer][i].step = writes[viewer][i].step,
             writes'[viewer][i].msg = writes[viewer][i].msg
      PROVE  Waiting(m)'
  BY <1>2, <1>4 DEF Waiting
<1>5. CASE writes'[viewer] = writes[viewer] /\ stored'[viewer] = stored[viewer]
  BY <1>2, <1>4, <1>5
<1>6. CASE d # viewer
  <2>1. writes'[viewer] = writes[viewer] /\ stored'[viewer] = stored[viewer]
    BY <1>1, <1>6, Me DEF TypeOK, Send, Mirror, UploadDone, WriteLocally, Commit, Reject,
                          Disconnect, Kill
  <2> QED  BY <1>5, <2>1
<1>7. CASE UploadDone(d) \/ Commit(d) \/ Disconnect(d)
  <2>1. writes' = writes /\ stored' = stored
    BY <1>7 DEF UploadDone, Commit, Disconnect
  <2> QED  BY <1>5, <2>1
<1>8. ASSUME NEW p \in User, Send(d, p), d = viewer PROVE Waiting(m)'
  <2>1. PICK w : w = FirstWrite([dev |-> d, to |-> p, n |-> nsent[d] + 1])
    OBVIOUS
  <2>2. writes'[viewer] = Append(writes[viewer], w) /\ stored' = stored
    BY <1>1, <1>8, <2>1 DEF TypeOK, Send
  <2>3. writes'[viewer][i] = writes[viewer][i]
    BY <1>3, <2>2
  <2> QED  BY <1>2, <1>4, <2>2, <2>3
<1>9. CASE Mirror(d) /\ d = viewer
  <2>1. writes'[viewer][i] = writes[viewer][i]
    BY <1>1, <1>3, <1>9, MirrorAppends
  <2> QED  BY <1>2, <1>4, <1>9, <2>1 DEF Mirror
<1>10. CASE WriteLocally(d) /\ d = viewer
  <2>1. writes' = writes /\ stored'[viewer] = stored[viewer] + 1
    BY <1>1, <1>10 DEF TypeOK, WriteLocally
  <2>2. i \in 1..stored'[viewer]
    BY <1>2, <1>3, <2>1
  <2> QED  BY <1>4, <2>1, <2>2
<1>11. CASE Kill(d) /\ d = viewer
  <2>1. writes'[viewer] = Restored(writes[viewer], stored[viewer]) /\ stored' = stored
    BY <1>1, <1>11 DEF TypeOK, Kill
  <2>2. writes[viewer][i] \in Write
    BY <1>3
  <2>3. writes'[viewer][i] = [writes[viewer][i] EXCEPT !.cb = FALSE]
    BY <1>2, <2>1 DEF Restored
  <2>4. writes'[viewer][i].step = writes[viewer][i].step /\ writes'[viewer][i].msg = writes[viewer][i].msg
    BY <2>2, <2>3 DEF Write
  <2> QED  BY <1>2, <1>4, <2>1, <2>4
<1>12. CASE Reject(d) /\ d = viewer
  <2>1. writes'[viewer] = Tail(writes[viewer]) /\ stored'[viewer] = stored[viewer] - 1
    BY <1>1, <1>12 DEF TypeOK, Reject
  <2>2. Waiting(m)' \/ (Head(writes[d]).step = "ownAdd" /\ Head(writes[d]).msg = m)
    BY <1>1, <1>12, <2>1, WaitingPopped
  <2>3. <<Head(writes[d]).step, Head(writes[d]).msg>> \in rejected'
    BY <1>12 DEF Reject
  <2> QED  BY <2>2, <2>3 DEF Refused
<1> QED  BY <1>6, <1>7, <1>8, <1>9, <1>10, <1>11, <1>12

\* No step of the upload takes a message from a thread, or a refusal back.
LEMMA NothingTaken ==
  ASSUME TypeOK, Next
  PROVE  (\A o, p \in User : thread[o][p] \subseteq thread'[o][p]) /\ rejected \subseteq rejected'
<1> PICK d \in Device :
       \/ \E p \in User : Type(d, p) \/ Send(d, p)
       \/ Mirror(d) \/ UploadDone(d) \/ WriteLocally(d) \/ Commit(d) \/ Ack(d)
       \/ Reject(d) \/ Disconnect(d) \/ Kill(d)
  BY DEF Next
<1>1. CASE Commit(d)
  <2>1. PICK w \in Write : w = writes[d][inflight[d] + 1]
    BY <1>1, NextWrite DEF Commit
  <2>2. AddDocument(w) \/ SetData(w)
    BY <1>1, <2>1 DEF Commit
  <2> QED  BY <1>1, <2>2, CommitEffect DEF Commit, history
<1>2. CASE ~ Commit(d)
  BY <1>2 DEF Type, Send, Mirror, UploadDone, WriteLocally, Ack, Reject, Disconnect, Kill,
              backend, history
<1> QED  BY <1>1, <1>2

\* What was visible lasts.
LEMMA LastingKept ==
  ASSUME TypeOK, Next, known \subseteq known',
         \A m : Waiting(m) /\ m.to = partner => Waiting(m)' \/ Refused("ownAdd", m)' \/ m \in known'
  PROVE  \A m : Lasting(m) => Lasting(m)'
BY NothingTaken DEF Lasting, Refused

\* A write that is acknowledged leaves the queue for the cache.
LEMMA WaitingAcknowledged ==
  ASSUME TypeOK, NEW d \in Device, Acknowledge(d), NEW m, Waiting(m), m.to = partner
  PROVE  Waiting(m)' \/ m \in known'
<1>1. Ack(d)
  BY DEF Acknowledge
<1>2. PICK w : w = Head(writes[d])
  OBVIOUS
<1>3. known' = IF d = viewer /\ w.step = "ownAdd" /\ w.msg.to = partner
               THEN known \cup {w.msg} ELSE known
  BY <1>2 DEF Acknowledge
<1>4. CASE d # viewer
  <2>1. writes'[viewer] = writes[viewer] /\ stored'[viewer] = stored[viewer]
    BY <1>1, <1>4, Me DEF Ack, TypeOK
  <2> QED  BY <2>1 DEF Waiting
<1>5. CASE d = viewer
  <2>1. writes'[viewer] = Tail(writes[viewer]) /\ stored'[viewer] = stored[viewer] - 1
    BY <1>1, <1>5 DEF Ack, TypeOK
  <2>2. Waiting(m)' \/ (w.step = "ownAdd" /\ w.msg = m)
    BY <1>2, <1>5, <2>1, WaitingPopped
  <2> QED  BY <1>3, <1>5, <2>2
<1> QED  BY <1>4, <1>5

LEMMA UploadStep ==
  ASSUME CInv, Base', NEW d \in Device, Upload(d) PROVE Screens'
<1>1. /\ UNCHANGED <<stamps, known, listening, screens, seen>> /\ Hear
      /\ Mirror(d) \/ UploadDone(d) \/ WriteLocally(d) \/ Commit(d) \/ Reject(d) \/ Disconnect(d)
  BY DEF Upload
<1>2. Next
  BY <1>1 DEF Next
<1>3. TypeOK /\ TypeOK' /\ Base /\ ChatTypeOK /\ Cached
  BY DEF CInv, Screens, Base, IInv
<1>4. \A m : Waiting(m) => Waiting(m)' \/ Refused("ownAdd", m)'
  BY <1>1, <1>3, WaitingKept
<1>5. known' = known
  BY <1>1
<1>6. (\A m : Lasting(m) => Lasting(m)') /\ rejected \subseteq rejected'
  BY <1>2, <1>3, <1>4, <1>5, LastingKept, NothingTaken
<1>7. Cached'
  BY <1>2, <1>3, <1>5, Me, NothingTaken DEF Cached, me
<1> QED  BY <1>1, <1>3, <1>5, <1>6, <1>7, Hears DEF ChatTypeOK, stamps

\* A message waits only if it did, when its device sends another.
LEMMA SendWaiting ==
  ASSUME Base, TypeOK', NEW d \in Device, NEW p \in User, Send(d, p), NEW m, Waiting(m)'
  PROVE  Waiting(m)
<1>1. TypeOK /\ stored' = stored
  BY DEF Base, IInv, Send
<1>2. PICK i \in 1..stored'[viewer] : /\ writes'[viewer][i].step = "ownAdd"
                                     /\ writes'[viewer][i].msg = m
  BY DEF Waiting
<1>3. /\ i \in 1..Len(writes'[viewer]) /\ i <= stored[viewer] /\ i \in Nat
      /\ Len(writes[viewer]) \in Nat /\ stored[viewer] \in Nat
      /\ stored[viewer] <= Len(writes[viewer])
  <2>1. stored'[viewer] \in Nat /\ Len(writes'[viewer]) \in Nat
        /\ stored'[viewer] <= Len(writes'[viewer])
    BY Me DEF TypeOK
  <2>2. Len(writes[viewer]) \in Nat /\ stored[viewer] <= Len(writes[viewer])
    BY <1>1, Me DEF TypeOK
  <2> QED  BY <1>1, <1>2, <2>1, <2>2
<1>4. First(viewer, i, m)'
  BY <1>2, <1>3 DEF First
<1>5. First(viewer, i, m) \/ (d = viewer /\ i = Len(writes[d]) + 1)
  <2>1. PICK k : k = [dev |-> d, to |-> p, n |-> nsent[d] + 1]
    OBVIOUS
  <2>2. \A e \in Device : \A j, x : First(e, j, x)' =>
          First(e, j, x) \/ (e = d /\ j = Len(writes[d]) + 1 /\ x = k)
    BY <2>1, SendFirsts
  <2> QED  BY <1>4, <2>2, Me
<1>6. First(viewer, i, m)
  BY <1>3, <1>5
<1> QED  BY <1>1, <1>3, <1>6, WaitingIs

\* Sending makes nothing visible.
LEMMA SendMessageStep ==
  ASSUME CInv, Base', NEW d \in Device, NEW p \in User, SendMessage(d, p) PROVE Screens'
<1>1. /\ Send(d, p) /\ UNCHANGED chatVars
  BY DEF SendMessage
<1>2. Next
  BY <1>1 DEF Next
<1>3. TypeOK /\ TypeOK' /\ Base /\ ChatTypeOK /\ Cached
  BY DEF CInv, Screens, Base, IInv
<1>4. known' = known /\ UNCHANGED <<listening, screens, seen>> /\ events' = events
  BY <1>1 DEF chatVars
<1>5. \A m : Waiting(m) => Waiting(m)' \/ Refused("ownAdd", m)'
  BY <1>1, <1>3, WaitingKept
<1>6. (\A m : Lasting(m) => Lasting(m)') /\ rejected \subseteq rejected'
  BY <1>2, <1>3, <1>4, <1>5, LastingKept, NothingTaken
<1>7. Cached'
  BY <1>2, <1>3, <1>4, Me, NothingTaken DEF Cached, me
<1>8. /\ time' \in [Message -> 0..MaxTime] /\ answers' \in [Message -> SUBSET Message]
      /\ finished' \in [Message -> SUBSET Message]
  <2>1. PICK m : m = [dev |-> d, to |-> p, n |-> nsent[d] + 1]
    OBVIOUS
  <2>2. /\ \E t \in 1..MaxTime : time' = [time EXCEPT ![m] = t]
        /\ answers' = [answers EXCEPT ![m] =
                         IF d = viewer THEN Contents(open) ELSE thread[account[d]][p]]
        /\ finished' = [finished EXCEPT ![m] = {k \in sent : ~ Unfinished(k)}]
    BY <2>1 DEF SendMessage
  <2>3. Contents(open) \subseteq Message \/ d # viewer
    <3> SUFFICES ASSUME d = viewer PROVE Contents(open) \subseteq Message
      OBVIOUS
    <3>1. open \in 1..Len(shown)
      BY <1>3, Me DEF SendMessage, ChatTypeOK
    <3>2. shown[open] \in Seq(Message)
      BY <1>3, <3>1 DEF ChatTypeOK
    <3> QED  BY <3>2 DEF Contents
  <2>4. thread[account[d]][p] \subseteq Message
    BY <1>3, ConstantsAssumption DEF TypeOK
  <2>5. /\ time \in [Message -> 0..MaxTime] /\ answers \in [Message -> SUBSET Message]
        /\ finished \in [Message -> SUBSET Message] /\ sent \subseteq Message
    BY <1>3 DEF ChatTypeOK, TypeOK
  <2>6. \A t \in 1..MaxTime : t \in 0..MaxTime
    BY ChatViewAssumption
  <2> QED  BY <2>2, <2>3, <2>4, <2>5, <2>6
<1>9. Hear
  <2>1. \A m : Waiting(m)' => Waiting(m)
    BY <1>1, <1>3, SendWaiting
  <2>2. (Base => \A m : m \in Visible <=>
           m \in known \/ (m.dev = viewer /\ m.to = partner /\ Waiting(m)))'
    BY VisibleIs, PTL
  <2>3. Visible' \ Visible = {}
    BY <1>3, <1>4, <2>1, <2>2, VisibleIs
  <2> QED  BY <1>4, <2>3 DEF Hear, Told
<1> QED  BY <1>3, <1>4, <1>6, <1>7, <1>8, <1>9, Hears

LEMMA WatchStep ==
  ASSUME CInv, Base', Watch PROVE Screens'
<1>1. /\ known' = known \cup thread[me][partner]
      /\ UNCHANGED <<vars, stamps, listening, screens, seen>> /\ Hear
  BY DEF Watch
<1>2. TypeOK /\ ChatTypeOK /\ Cached
  BY DEF CInv, Screens, Base, IInv
<1>3. UNCHANGED <<thread, writes, stored, rejected>>
  BY <1>1 DEF vars, backend, client, history
<1>4. \A m : Lasting(m) => Lasting(m)'
  BY <1>1, <1>3 DEF Lasting, Waiting, Refused
<1>5. Cached'
  BY <1>1, <1>2, <1>3 DEF Cached
<1> QED  BY <1>1, <1>2, <1>3, <1>4, <1>5, Hears DEF ChatTypeOK, stamps

\* An acknowledged copy has been applied.
LEMMA AcknowledgeStep ==
  ASSUME CInv, Base', NEW d \in Device, Acknowledge(d) PROVE Screens'
<1>1. /\ Ack(d) /\ UNCHANGED <<stamps, listening, screens, seen>> /\ Hear
  BY DEF Acknowledge
<1>2. Next
  BY <1>1 DEF Next
<1>3. TypeOK /\ TypeOK' /\ Base /\ ChatTypeOK /\ Cached
  BY DEF CInv, Screens, Base, IInv
<1>4. PICK w : w = Head(writes[d])
  OBVIOUS
<1>5. known' = IF d = viewer /\ w.step = "ownAdd" /\ w.msg.to = partner
               THEN known \cup {w.msg} ELSE known
  BY <1>4 DEF Acknowledge
<1>6. inflight[d] > 0 /\ inflight[d] \in Nat /\ stored[d] > 0
  BY <1>1, <1>3 DEF Ack, TypeOK
<1>7. w = writes[d][1] /\ 1 \in 1..Len(writes[d]) /\ 1 \in 1..inflight[d]
  BY <1>3, <1>4, <1>6, OldestWrite
<1>8. w.msg.dev = d /\ (w.step = "ownAdd" => Kept(w.msg))
  BY <1>3, <1>7 DEF Base, Order, OwnMessages, IInv, Applied
<1>9. \A m : Waiting(m) /\ m.to = partner => Waiting(m)' \/ Refused("ownAdd", m)' \/ m \in known'
  BY <1>3, WaitingAcknowledged
<1>10. known \subseteq known'
  BY <1>5
<1>11. (\A m : Lasting(m) => Lasting(m)') /\ rejected \subseteq rejected'
  BY <1>2, <1>3, <1>9, <1>10, LastingKept, NothingTaken
<1>12. thread[me][partner] \subseteq thread'[me][partner]
  BY <1>2, <1>3, Me, NothingTaken
<1>13. d = viewer /\ w.step = "ownAdd" /\ w.msg.to = partner => w.msg \in thread[me][partner]
  BY <1>8 DEF Kept, From, me
<1>14. Cached'
  BY <1>3, <1>5, <1>12, <1>13 DEF Cached, me
<1> QED  BY <1>1, <1>3, <1>10, <1>11, <1>14, Hears DEF ChatTypeOK, stamps

-----------------------------------------------------------------------------
(* The main queue of the device.                                           *)

\* Where a place of a screen was before the first snapshot was handled: what that
\* snapshot has added follows the n documents shown before.
Was(n, k, i) ==
  IF k # 0 THEN <<k + 1, i>> ELSE IF i <= n THEN <<0, i>> ELSE <<1, i - n>>

LEMMA WasOnce ==
  ASSUME NEW n \in Nat, NEW k \in Nat, NEW i \in Nat \ {0}, NEW l \in Nat, NEW j \in Nat \ {0},
         Was(n, k, i)[1] = Was(n, l, j)[1], Was(n, k, i)[2] = Was(n, l, j)[2]
  PROVE  k = l /\ i = j
<1>1. CASE k # 0
  <2>1. Was(n, k, i)[1] = k + 1 /\ Was(n, k, i)[2] = i
    BY <1>1 DEF Was
  <2>2. l # 0
    BY <1>1, <2>1 DEF Was
  <2>3. Was(n, l, j)[1] = l + 1 /\ Was(n, l, j)[2] = j
    BY <2>2 DEF Was
  <2>4. k + 1 = l + 1 /\ i = j
    BY <2>1, <2>3
  <2> QED  BY <2>4
<1>2. CASE k = 0 /\ i <= n
  <2>1. Was(n, k, i)[1] = 0 /\ Was(n, k, i)[2] = i
    BY <1>2 DEF Was
  <2>2. l = 0 /\ j <= n
    BY <2>1 DEF Was
  <2> QED  BY <1>2, <2>1, <2>2 DEF Was
<1>3. CASE k = 0 /\ ~ (i <= n)
  <2>1. Was(n, k, i)[1] = 1 /\ Was(n, k, i)[2] = i - n
    BY <1>3 DEF Was
  <2>2. l = 0 /\ ~ (j <= n)
    BY <2>1 DEF Was
  <2>3. Was(n, l, j)[2] = j - n
    BY <2>2 DEF Was
  <2> QED  BY <1>3, <2>1, <2>2, <2>3
<1> QED  BY <1>1, <1>2, <1>3

\* Handling the first snapshot moves the places of its screens.
LEMMA HandledPlaces ==
  ASSUME ChatTypeOK, HandleSnapshot
  PROVE  /\ events[1] \in Snapshot /\ events # << >> /\ events' \in Seq(Snapshot)
         /\ \A k, i, m : Dispatched(k, i, m)' => k \in Nat \ {0} /\ Dispatched(k + 1, i, m)
         /\ \A k, i, m : Dispatched(k, i, m) => k = 1 \/ Dispatched(k - 1, i, m)'
         /\ \A k \in 1..Len(events') : k + 1 \in 1..Len(events) /\ events'[k] = events[k + 1]
         /\ \A k \in 1..Len(events) : k # 1 => k - 1 \in 1..Len(events') /\ events'[k - 1] = events[k]
         /\ shown' \in Seq(Seq(Message)) /\ Len(shown') = Len(shown)
         /\ \A c \in 1..Len(shown) :
              shown'[c] = IF c \in events[1].to THEN shown[c] \o events[1].added ELSE shown[c]
<1>1. events \in Seq(Snapshot) /\ shown \in Seq(Seq(Message)) /\ events # << >>
  BY DEF ChatTypeOK, HandleSnapshot
<1>2. PICK K \in Nat : K = Len(events)
  BY <1>1
<1>3. K > 0 /\ Head(events) = events[1] /\ events[1] \in Snapshot
  BY <1>1, <1>2
<1>4. events' \in Seq(Snapshot) /\ Len(events') = K - 1 /\ \A k \in 1..(K - 1) : events'[k] = events[k + 1]
  BY <1>1, <1>2, <1>3 DEF HandleSnapshot
<1>5. \A k \in 1..Len(events') : k + 1 \in 1..Len(events) /\ events'[k] = events[k + 1] /\ k \in Nat \ {0}
  BY <1>2, <1>3, <1>4
<1>6. \A k \in 1..Len(events) : k # 1 => k - 1 \in 1..Len(events') /\ events'[k - 1] = events[k]
  <2> SUFFICES ASSUME NEW k \in 1..Len(events), k # 1
               PROVE  k - 1 \in 1..Len(events') /\ events'[k - 1] = events[k]
    OBVIOUS
  <2>1. k - 1 \in 1..(K - 1) /\ (k - 1) + 1 = k
    BY <1>2, <1>3
  <2> QED  BY <1>4, <2>1
<1>7. \A k, i, m : Dispatched(k, i, m)' => k \in Nat \ {0} /\ Dispatched(k + 1, i, m)
  BY <1>5 DEF Dispatched
<1>8. \A k, i, m : Dispatched(k, i, m) => k = 1 \/ Dispatched(k - 1, i, m)'
  BY <1>6 DEF Dispatched
<1>9. PICK e : e = events[1]
  OBVIOUS
<1>10. e.added \in Seq(Message)
  BY <1>3, <1>9 DEF Snapshot
<1>11. shown' = [c \in 1..Len(shown) |-> IF c \in e.to THEN shown[c] \o e.added ELSE shown[c]]
  BY <1>3, <1>9 DEF HandleSnapshot, Show
<1>12. Len(shown) \in Nat
  BY <1>1
<1>13. \A c \in 1..Len(shown) :
         (IF c \in e.to THEN shown[c] \o e.added ELSE shown[c]) \in Seq(Message)
  <2> SUFFICES ASSUME NEW c \in 1..Len(shown)
               PROVE  shown[c] \o e.added \in Seq(Message) /\ shown[c] \in Seq(Message)
    OBVIOUS
  <2>1. shown[c] \in Seq(Message)
    BY <1>1
  <2> QED  BY <1>10, <2>1
<1>14. shown' \in [1..Len(shown) -> Seq(Message)]
  BY <1>11, <1>13
<1>15. shown' \in Seq(Seq(Message)) /\ Len(shown') = Len(shown)
  BY <1>12, <1>14
<1> QED  BY <1>1, <1>3, <1>4, <1>5, <1>6, <1>7, <1>8, <1>9, <1>11, <1>15

\* The places of one screen, before and after.
LEMMA HandledPlace ==
  ASSUME ChatTypeOK, Addressed, HandleSnapshot, NEW c
  PROVE  \E n \in Nat :
           /\ \A k, i, m : Occurs(c, k, i, m)' =>
                /\ k \in Nat /\ i \in Nat \ {0}
                /\ Occurs(c, Was(n, k, i)[1], Was(n, k, i)[2], m)
           /\ \A k, i, m : Occurs(c, k, i, m) => \E l, j : Occurs(c, l, j, m)'
<1>1. PICK e : e = events[1]
  OBVIOUS
<1>2. /\ events \in Seq(Snapshot) /\ e.added \in Seq(Message) /\ events # << >>
      /\ shown \in Seq(Seq(Message)) /\ 1 \in 1..Len(events) /\ Len(shown) \in Nat
      /\ e.to \subseteq 1..Len(shown)
  <2>1. events \in Seq(Snapshot) /\ events # << >> /\ events[1] \in Snapshot
        /\ shown \in Seq(Seq(Message))
    BY HandledPlaces DEF ChatTypeOK
  <2>2. 1 \in 1..Len(events)
    BY <2>1
  <2> QED  BY <1>1, <2>1, <2>2 DEF Snapshot, Addressed
<1>3. /\ \A k \in 1..Len(events') : k + 1 \in 1..Len(events) /\ events'[k] = events[k + 1]
      /\ \A k \in 1..Len(events) : k # 1 => k - 1 \in 1..Len(events') /\ events'[k - 1] = events[k]
      /\ \A k, i, m : Dispatched(k, i, m)' => k \in Nat \ {0} /\ Dispatched(k + 1, i, m)
      /\ \A k, i, m : Dispatched(k, i, m) => k = 1 \/ Dispatched(k - 1, i, m)'
      /\ events' \in Seq(Snapshot)
      /\ Len(shown') = Len(shown)
      /\ \A b \in 1..Len(shown) :
           shown'[b] = IF b \in e.to THEN shown[b] \o e.added ELSE shown[b]
  BY <1>1, HandledPlaces
\* A place in a snapshot that is not the first.
<1>4. ASSUME NEW k, NEW i, NEW m, Occurs(c, k, i, m)', k # 0
      PROVE  k \in Nat /\ i \in Nat \ {0} /\ Occurs(c, k + 1, i, m)
  <2>1. Dispatched(k, i, m)' /\ c \in events'[k].to
    BY <1>4 DEF Occurs
  <2>2. k \in 1..Len(events') /\ i \in 1..Len(events'[k].added)
    BY <2>1 DEF Dispatched
  <2>3. events'[k].added \in Seq(Message)
    <3>1. events'[k] \in Snapshot
      BY <1>3, <2>2
    <3> QED  BY <3>1 DEF Snapshot
  <2> QED  BY <1>3, <2>1, <2>2, <2>3 DEF Occurs
<1>5. ASSUME NEW k, NEW i, NEW m, Dispatched(k, i, m), c \in events[k].to, k # 1
      PROVE  \E l, j : Occurs(c, l, j, m)'
  <2>1. k \in 1..Len(events)
    BY <1>5 DEF Dispatched
  <2>2. Dispatched(k - 1, i, m)' /\ c \in events'[k - 1].to
    BY <1>3, <1>5, <2>1
  <2>3. PICK l : l = k - 1
    OBVIOUS
  <2>4. Dispatched(l, i, m)' /\ c \in events'[l].to
    BY <2>2, <2>3
  <2>5. Occurs(c, l, i, m)'
    BY <2>4 DEF Occurs
  <2> QED  BY <2>5
<1>6. CASE c \in e.to
  <2>1. c \in 1..Len(shown) /\ shown[c] \in Seq(Message) /\ shown'[c] = shown[c] \o e.added
    <3>1. c \in 1..Len(shown)
      BY <1>2, <1>6
    <3>2. shown'[c] = IF c \in e.to THEN shown[c] \o e.added ELSE shown[c]
      BY <1>3, <3>1
    <3>3. shown[c] \in Seq(Message)
      BY <1>2, <3>1
    <3> QED  BY <1>6, <3>1, <3>2, <3>3
  <2>2. PICK n \in Nat : n = Len(shown[c])
    BY <2>1
  <2>3. PICK A \in Nat : A = Len(e.added)
    BY <1>2
  <2>4. /\ Len(shown'[c]) = n + A
        /\ \A i \in 1..n : shown'[c][i] = shown[c][i]
        /\ \A i \in 1..A : shown'[c][n + i] = e.added[i]
    <3>1. PICK s \in Seq(Message) : s = shown[c]
      BY <2>1
    <3>2. PICK a \in Seq(Message) : a = e.added
      BY <1>2
    <3>3. PICK t : t = s \o a
      OBVIOUS
    <3>4. Len(s) = n /\ Len(a) = A /\ shown'[c] = t
      BY <2>1, <2>2, <2>3, <3>1, <3>2, <3>3
    <3>5. Len(t) = n + A /\ \A i \in 1..(n + A) : t[i] = IF i <= n THEN s[i] ELSE a[i - n]
      <4>1. /\ Len(s \o a) = Len(s) + Len(a)
            /\ \A i \in 1..(Len(s) + Len(a)) :
                 (s \o a)[i] = IF i <= Len(s) THEN s[i] ELSE a[i - Len(s)]
        BY ConcatProperties
      <4> QED  BY <3>3, <3>4, <4>1
    <3>6. \A i \in 1..n : i \in 1..(n + A) /\ i <= n
      OBVIOUS
    <3>7. \A i \in 1..A : n + i \in 1..(n + A) /\ ~ (n + i <= n) /\ (n + i) - n = i
      OBVIOUS
    <3> QED  BY <3>1, <3>2, <3>4, <3>5, <3>6, <3>7
  <2>5. ASSUME NEW k, NEW i, NEW m, Occurs(c, k, i, m)'
        PROVE  /\ k \in Nat /\ i \in Nat \ {0}
               /\ Occurs(c, Was(n, k, i)[1], Was(n, k, i)[2], m)
    <3>1. CASE k # 0
      BY <1>4, <2>5, <3>1 DEF Was
    <3>2. CASE k = 0
      <4>1. i \in 1..(n + A) /\ shown'[c][i] = m
        BY <2>4, <2>5, <3>2 DEF Occurs, Dispatched
      <4>2. CASE i <= n
        <5>1. i \in 1..n
          BY <4>1, <4>2
        <5>2. Occurs(c, 0, i, m)
          BY <2>1, <2>2, <2>4, <4>1, <5>1 DEF Occurs
        <5> QED  BY <3>2, <4>2, <5>1, <5>2 DEF Was
      <4>3. CASE ~ (i <= n)
        <5>1. PICK j \in 1..A : n + j = i
          <6>1. i - n \in 1..A /\ n + (i - n) = i
            BY <4>1, <4>3
          <6> QED  BY <6>1
        <5>2. e.added[j] = m /\ i - n = j
          BY <2>4, <4>1, <5>1
        <5>3. Dispatched(1, j, m) /\ c \in events[1].to
          BY <1>1, <1>2, <1>6, <2>3, <5>1, <5>2 DEF Dispatched
        <5>4. Occurs(c, 1, j, m)
          BY <5>3 DEF Occurs
        <5> QED  BY <3>2, <4>1, <4>3, <5>2, <5>4 DEF Was
      <4> QED  BY <4>2, <4>3
    <3> QED  BY <3>1, <3>2
  <2>6. ASSUME NEW k, NEW i, NEW m, Occurs(c, k, i, m) PROVE \E l, j : Occurs(c, l, j, m)'
    <3>1. CASE k = 0 /\ i \in 1..n /\ shown[c][i] = m
      <4>1. c \in 1..Len(shown') /\ i \in 1..Len(shown'[c]) /\ shown'[c][i] = m
        <5>1. i \in 1..(n + A)
          BY <3>1
        <5> QED  BY <1>3, <2>1, <2>4, <3>1, <5>1
      <4>2. Occurs(c, 0, i, m)'
        BY <4>1 DEF Occurs
      <4> QED  BY <4>2
    <3>2. CASE Dispatched(k, i, m) /\ k = 1
      <4>1. i \in 1..A /\ e.added[i] = m
        BY <1>1, <2>3, <3>2 DEF Dispatched
      <4>2. PICK j \in 1..(n + A) : j = n + i
        BY <4>1
      <4>3. c \in 1..Len(shown') /\ j \in 1..Len(shown'[c]) /\ shown'[c][j] = m
        BY <1>3, <2>1, <2>4, <4>1, <4>2
      <4>4. Occurs(c, 0, j, m)'
        BY <4>3 DEF Occurs
      <4> QED  BY <4>4
    <3>3. CASE Dispatched(k, i, m) /\ c \in events[k].to /\ k # 1
      BY <1>5, <3>3
    <3> QED  BY <2>2, <2>6, <3>1, <3>2, <3>3 DEF Occurs
  <2> QED  BY <2>5, <2>6
<1>7. CASE c \notin e.to
  <2>1. c \in 1..Len(shown) => shown[c] \in Seq(Message) /\ shown'[c] = shown[c]
    BY <1>2, <1>3, <1>7
  <2>2. PICK n \in Nat : c \in 1..Len(shown) => n = Len(shown[c])
    BY <2>1
  <2>3. ASSUME NEW k, NEW i, NEW m, Occurs(c, k, i, m)'
        PROVE  /\ k \in Nat /\ i \in Nat \ {0}
               /\ Occurs(c, Was(n, k, i)[1], Was(n, k, i)[2], m)
    <3>1. CASE k # 0
      BY <1>4, <2>3, <3>1 DEF Was
    <3>2. CASE k = 0
      <4>1. c \in 1..Len(shown) /\ i \in 1..n /\ shown[c][i] = m
        <5>1. ~ (0 \in 1..Len(events'))
          OBVIOUS
        <5>2. c \in 1..Len(shown') /\ i \in 1..Len(shown'[c]) /\ shown'[c][i] = m
          BY <2>3, <3>2, <5>1 DEF Occurs, Dispatched
        <5> QED  BY <1>3, <2>1, <2>2, <5>2
      <4>2. Occurs(c, 0, i, m)
        BY <2>2, <4>1 DEF Occurs
      <4> QED  BY <3>2, <4>1, <4>2 DEF Was
    <3> QED  BY <3>1, <3>2
  <2>4. ASSUME NEW k, NEW i, NEW m, Occurs(c, k, i, m) PROVE \E l, j : Occurs(c, l, j, m)'
    <3>1. CASE k = 0 /\ c \in 1..Len(shown) /\ i \in 1..Len(shown[c]) /\ shown[c][i] = m
      <4>1. c \in 1..Len(shown') /\ i \in 1..Len(shown'[c]) /\ shown'[c][i] = m
        BY <1>3, <2>1, <3>1
      <4>2. Occurs(c, 0, i, m)'
        BY <4>1 DEF Occurs
      <4> QED  BY <4>2
    <3>2. CASE Dispatched(k, i, m) /\ c \in events[k].to
      BY <1>1, <1>5, <1>7, <3>2
    <3> QED  BY <2>4, <3>1, <3>2 DEF Occurs
  <2> QED  BY <2>3, <2>4
<1> QED  BY <1>6, <1>7

LEMMA HandleSnapshotStep ==
  ASSUME CInv, Base', HandleSnapshot PROVE Screens'
<1>1. /\ ChatTypeOK /\ Addressed /\ NotYet /\ Cached /\ Heard /\ Backing /\ AllOnce /\ Base
      /\ UNCHANGED <<vars, stamps, known, adding, listening, open>>
  BY DEF CInv, Screens, HandleSnapshot
<1>2. UNCHANGED <<thread, writes, stored, rejected, sent, time, answers, finished>>
  BY <1>1 DEF vars, backend, client, history, stamps
<1>3. /\ events[1] \in Snapshot /\ events # << >> /\ events' \in Seq(Snapshot)
      /\ \A k, i, m : Dispatched(k, i, m)' => Dispatched(k + 1, i, m)
      /\ \A k \in 1..Len(events') : k + 1 \in 1..Len(events) /\ events'[k] = events[k + 1]
      /\ shown' \in Seq(Seq(Message)) /\ Len(shown') = Len(shown)
      /\ \A c \in 1..Len(shown) :
           shown'[c] = IF c \in events[1].to THEN shown[c] \o events[1].added ELSE shown[c]
  BY <1>1, HandledPlaces
<1>4. PICK e : e = events[1]
  OBVIOUS
<1>5. e.added \in Seq(Message) /\ 1 \in 1..Len(events) /\ e.to \subseteq 1..Len(shown)
  <2>1. e.added \in Seq(Message)
    BY <1>3, <1>4 DEF Snapshot
  <2>2. 1 \in 1..Len(events)
    <3>1. events \in Seq(Snapshot)
      BY <1>1 DEF ChatTypeOK
    <3> QED  BY <1>3, <3>1
  <2> QED  BY <1>1, <1>4, <2>1, <2>2 DEF Addressed
<1>6. seen' = seen \cup {e.added[i] : i \in 1..Len(e.added)}
  <2>1. Head(events) = e
    <3>1. events \in Seq(Snapshot)
      BY <1>1 DEF ChatTypeOK
    <3> QED  BY <1>3, <1>4, <3>1
  <2> QED  BY <2>1 DEF HandleSnapshot
<1>7. ChatTypeOK'
  <2>1. TypeOK'
    BY DEF Base, IInv
  <2>2. seen' \in SUBSET Message
    BY <1>1, <1>5, <1>6 DEF ChatTypeOK
  <2> QED  BY <1>1, <1>2, <1>3, <2>1, <2>2 DEF ChatTypeOK
<1>8. Addressed'
  BY <1>1, <1>3 DEF Addressed
<1>9. \A m : Lasting(m) <=> Lasting(m)'
  BY <1>1, <1>2 DEF Lasting, Waiting, Refused
<1>10. Visible' = Visible /\ Cached'
  BY <1>1, <1>2 DEF Visible, Waiting, Cached, me
<1>11. ASSUME NEW c
       PROVE  \E n \in Nat :
                /\ \A k, i, m : Occurs(c, k, i, m)' =>
                     /\ k \in Nat /\ i \in Nat \ {0}
                     /\ Occurs(c, Was(n, k, i)[1], Was(n, k, i)[2], m)
                /\ \A k, i, m : Occurs(c, k, i, m) => \E l, j : Occurs(c, l, j, m)'
  BY <1>1, HandledPlace
<1>12. NotYet'
  <2> SUFFICES ASSUME NEW c \in adding, NEW k, NEW i, NEW m, Occurs(c, k, i, m)' PROVE FALSE
    BY <1>1 DEF NotYet
  <2> QED  BY <1>1, <1>11 DEF NotYet
<1>13. Heard'
  <2> SUFFICES ASSUME NEW c \in listening, NEW m, m \in Visible PROVE \E k, i : Occurs(c, k, i, m)'
    BY <1>1, <1>10 DEF Heard
  <2>1. PICK k, i : Occurs(c, k, i, m)
    BY <1>1 DEF Heard
  <2> QED  BY <1>11, <2>1
<1>14. Backing'
  <2>1. \A k, i, m : Dispatched(k, i, m)' => Lasting(m)'
    BY <1>1, <1>3, <1>9 DEF Backing
  <2>2. \A i \in 1..Len(e.added) : Lasting(e.added[i])
    <3> SUFFICES ASSUME NEW i \in 1..Len(e.added) PROVE Lasting(e.added[i])
      OBVIOUS
    <3>1. Dispatched(1, i, e.added[i])
      BY <1>4, <1>5 DEF Dispatched
    <3> QED  BY <1>1, <3>1 DEF Backing
  <2>3. \A m \in seen' : Lasting(m)
    BY <1>1, <1>6, <2>2 DEF Backing
  <2>4. \A m \in seen' : Lasting(m)'
    BY <1>9, <2>3
  <2>5. ASSUME NEW c \in 1..Len(shown), NEW i \in 1..Len(shown'[c]) PROVE shown'[c][i] \in seen'
    <3>1. shown[c] \in Seq(Message)
      BY <1>1 DEF ChatTypeOK
    <3>2. shown'[c] = IF c \in e.to THEN shown[c] \o e.added ELSE shown[c]
      BY <1>3, <1>4
    <3>3. CASE c \notin e.to
      BY <1>1, <1>6, <2>5, <3>2, <3>3 DEF Backing
    <3>4. CASE c \in e.to
      <4>1. PICK s \in Seq(Message) : s = shown[c]
        BY <3>1
      <4>2. PICK a \in Seq(Message) : a = e.added
        BY <1>5
      <4>3. PICK n \in Nat : n = Len(s)
        OBVIOUS
      <4>4. PICK A \in Nat : A = Len(a)
        OBVIOUS
      <4>5. /\ Len(s \o a) = Len(s) + Len(a)
            /\ \A j \in 1..(Len(s) + Len(a)) :
                 (s \o a)[j] = IF j <= Len(s) THEN s[j] ELSE a[j - Len(s)]
        BY ConcatProperties
      <4>6. PICK t : t = s \o a
        OBVIOUS
      <4>7. i \in 1..(n + A) /\ shown'[c] = t
            /\ t[i] = IF i <= n THEN s[i] ELSE a[i - n]
        BY <2>5, <3>2, <3>4, <4>1, <4>2, <4>3, <4>4, <4>5, <4>6
      <4>8. CASE i <= n
        <5>1. i \in 1..n /\ t[i] = s[i]
          BY <4>7, <4>8
        <5>2. s[i] \in seen
          BY <1>1, <4>1, <4>3, <5>1 DEF Backing
        <5> QED  BY <1>6, <4>7, <5>1, <5>2
      <4>9. CASE ~ (i <= n)
        <5>1. i - n \in 1..A /\ t[i] = a[i - n]
          BY <4>7, <4>9
        <5> QED  BY <1>6, <4>2, <4>4, <4>7, <5>1
      <4> QED  BY <4>8, <4>9
    <3> QED  BY <3>3, <3>4
  <2> QED  BY <1>3, <2>1, <2>4, <2>5 DEF Backing
<1>15. \A m : AskedAgain(m) => AskedAgain(m)'
  BY <1>1, <1>2 DEF AskedAgain, Refused
<1>16. ASSUME NEW c PROVE Once(c)'
  <2>1. PICK n \in Nat : \A k, i, m : Occurs(c, k, i, m)' =>
                           /\ k \in Nat /\ i \in Nat \ {0}
                           /\ Occurs(c, Was(n, k, i)[1], Was(n, k, i)[2], m)
    BY <1>11
  <2>2. ASSUME NEW m, NEW k, NEW i, NEW l, NEW j,
               Occurs(c, k, i, m)', Occurs(c, l, j, m)', ~ (k = l /\ i = j)
        PROVE  ~ (Was(n, k, i)[1] = Was(n, l, j)[1] /\ Was(n, k, i)[2] = Was(n, l, j)[2])
    <3>1. k \in Nat /\ i \in Nat \ {0} /\ l \in Nat /\ j \in Nat \ {0}
      BY <2>1, <2>2
    <3> QED  BY <2>2, <3>1, WasOnce
  <2>3. \A m, k, i, l, j :
          Occurs(c, k, i, m) /\ Occurs(c, l, j, m) /\ ~ (k = l /\ i = j) =>
            /\ AskedAgain(m)
            /\ \A q, r : Occurs(c, q, r, m) => (q = k /\ r = i) \/ (q = l /\ r = j)
    BY <1>1 DEF AllOnce, Once
  <2> SUFFICES ASSUME NEW m, NEW k, NEW i, NEW l, NEW j,
                      Occurs(c, k, i, m)', Occurs(c, l, j, m)', ~ (k = l /\ i = j)
               PROVE  /\ AskedAgain(m)'
                      /\ \A q, r : Occurs(c, q, r, m)' => (q = k /\ r = i) \/ (q = l /\ r = j)
    BY DEF Once
  <2>4. PICK k1, i1, l1, j1 : k1 = Was(n, k, i)[1] /\ i1 = Was(n, k, i)[2]
                              /\ l1 = Was(n, l, j)[1] /\ j1 = Was(n, l, j)[2]
    OBVIOUS
  <2>5. Occurs(c, k1, i1, m) /\ Occurs(c, l1, j1, m) /\ ~ (k1 = l1 /\ i1 = j1)
    BY <2>1, <2>2, <2>4
  <2>6. AskedAgain(m) /\ \A q, r : Occurs(c, q, r, m) => (q = k1 /\ r = i1) \/ (q = l1 /\ r = j1)
    BY <2>3, <2>5
  <2>7. ASSUME NEW q, NEW r, Occurs(c, q, r, m)', ~ (q = k /\ r = i), ~ (q = l /\ r = j)
        PROVE  FALSE
    <3>1. PICK q1, r1 : q1 = Was(n, q, r)[1] /\ r1 = Was(n, q, r)[2]
      OBVIOUS
    <3>2. Occurs(c, q1, r1, m)
      BY <2>1, <2>7, <3>1
    <3>3. ~ (q1 = k1 /\ r1 = i1) /\ ~ (q1 = l1 /\ r1 = j1)
      BY <2>2, <2>4, <2>7, <3>1
    <3> QED  BY <2>6, <3>2, <3>3
  <2> QED  BY <1>15, <2>6, <2>7
<1>17. AllOnce'
  BY <1>16 DEF AllOnce
<1> QED  BY <1>7, <1>8, <1>10, <1>12, <1>13, <1>14, <1>17 DEF Screens

-----------------------------------------------------------------------------
(* Screens and listeners.                                                  *)

\* A new listener hears of all that is visible, each document once.
LEMMA ListenStep ==
  ASSUME CInv, Base', Listen PROVE Screens'
<1>1. /\ ChatTypeOK /\ Addressed /\ NotYet /\ Cached /\ Heard /\ Backing /\ AllOnce /\ Base
      /\ UNCHANGED <<vars, stamps, known, shown, open, seen>>
  BY DEF CInv, Screens, Listen
<1>2. UNCHANGED <<thread, writes, stored, rejected, sent, time, answers, finished>>
  BY <1>1 DEF vars, backend, client, history, stamps
<1>3. adding # {} /\ adding \subseteq 1..Len(shown) /\ listening \subseteq 1..Len(shown)
      /\ Len(shown) \in Nat
  BY <1>1 DEF ChatTypeOK, Listen
<1>4. PICK c : c = CHOOSE k \in adding : \A l \in adding : k <= l
  OBVIOUS
<1>5. c \in adding
  <2>1. adding \in SUBSET Nat
    BY <1>3
  <2>2. \E k \in adding : \A l \in adding : k <= l
    BY <1>3, <2>1, LeastExists
  <2> QED  BY <1>4, <2>2
<1>6. /\ adding' = adding \ {c} /\ listening' = listening \cup {c}
      /\ events' \in Told({c}, Visible)
  BY <1>4 DEF Listen
<1>7. Visible \subseteq Message /\ IsFiniteSet(Visible)
  BY <1>1, VisibleFinite
<1>8. {c} \subseteq 1..Len(shown)
  BY <1>3, <1>5
<1>9. \A k, i, m : ~ Occurs(c, k, i, m)
  BY <1>1, <1>5 DEF NotYet
<1>10. \A m : Lasting(m) <=> Lasting(m)'
  BY <1>1, <1>2 DEF Lasting, Waiting, Refused
<1>11. Visible' = Visible /\ Cached'
  BY <1>1, <1>2 DEF Visible, Waiting, Cached, me
<1>12. PICK docs : docs = Visible
  OBVIOUS
<1>13. docs \in SUBSET Message /\ IsFiniteSet(docs) /\ events' \in Told({c}, docs)
       /\ shown' = shown
  BY <1>1, <1>6, <1>7, <1>12
<1>14. AllOnce'
  <2>1. \A m : AskedAgain(m) => AskedAgain(m)'
    BY <1>1, <1>2 DEF AskedAgain, Refused
  <2>2. \A x \in {c} : \A m \in docs : \A k, i :
          Occurs(x, k, i, m) => ~ AskedAgain(m) /\ AskedAgain(m)'
    BY <1>9
  <2>3. ChatTypeOK /\ Addressed /\ AllOnce
    BY <1>1
  <2> QED  BY ONLY <1>8, <1>13, <2>1, <2>2, <2>3, ToldOnce
<1>15. /\ events' \in Seq(Snapshot) /\ Addressed'
       /\ \/ events' = events /\ ({c} = {} \/ docs = {})
          \/ \E added \in Seq(Message) : Appends({c}, docs, added)
  <2>1. ChatTypeOK /\ Addressed
    BY <1>1
  <2> QED  BY ONLY <1>8, <1>13, <2>1, Tells
<1>16. ChatTypeOK'
  <2>1. TypeOK'
    BY DEF Base, IInv
  <2> QED  BY <1>1, <1>2, <1>3, <1>5, <1>6, <1>15, <2>1 DEF ChatTypeOK
<1>17. CASE events' = events /\ docs = {}
  <2>1. \A x, k, i, m : Occurs(x, k, i, m)' <=> Occurs(x, k, i, m)
    BY <1>1, <1>17 DEF Occurs, Dispatched
  <2>2. NotYet'
    BY <1>1, <1>6, <2>1 DEF NotYet
  <2>3. Heard'
    BY <1>11, <1>12, <1>17 DEF Heard
  <2>4. Backing'
    <3>1. \A k, i, m : Dispatched(k, i, m)' => Dispatched(k, i, m)
      BY <1>17 DEF Dispatched
    <3> QED  BY <1>1, <1>10, <3>1 DEF Backing
  <2> QED  BY <1>11, <1>14, <1>15, <1>16, <2>2, <2>3, <2>4 DEF Screens
<1>18. ASSUME NEW added \in Seq(Message), Appends({c}, docs, added) PROVE Screens'
  <2>1. PICK n : n = Len(events) + 1
    OBVIOUS
  <2>2. \A x, k, i, m : Occurs(x, k, i, m)' <=>
          \/ Occurs(x, k, i, m)
          \/ x \in {c} /\ k = n /\ i \in 1..Len(added) /\ added[i] = m
    <3>1. PICK to : to = {c}
      OBVIOUS
    <3>2. /\ ChatTypeOK /\ shown' = shown /\ added \in Seq(Message)
          /\ Len(events') = Len(events) + 1
          /\ \A k \in 1..Len(events) : events'[k] = events[k]
          /\ events'[Len(events) + 1].to = to
          /\ events'[Len(events) + 1].added = added
      BY <1>1, <1>13, <1>18, <3>1 DEF Appends
    <3> SUFFICES ASSUME NEW x, NEW k, NEW i, NEW m
                 PROVE  Occurs(x, k, i, m)' <=>
                          \/ Occurs(x, k, i, m)
                          \/ x \in {c} /\ k = n /\ i \in 1..Len(added) /\ added[i] = m
      OBVIOUS
    <3>3. Occurs(x, k, i, m)' <=>
            \/ Occurs(x, k, i, m)
            \/ x \in to /\ k = Len(events) + 1 /\ i \in 1..Len(added) /\ added[i] = m
      BY ONLY <3>2, Places
    <3> QED  BY ONLY <2>1, <3>1, <3>3
  <2>3. NotYet'
    BY <1>1, <1>6, <2>2 DEF NotYet
  <2>4. Heard'
    <3> SUFFICES ASSUME NEW x \in listening', NEW m, m \in Visible
                 PROVE  \E k, i : Occurs(x, k, i, m)'
      BY <1>11 DEF Heard
    <3>1. CASE x = c
      <4>1. PICK i \in 1..Len(added) : added[i] = m
        BY <1>12, <1>18 DEF Appends
      <4>2. Occurs(c, n, i, m)'
        BY <2>2, <4>1
      <4> QED  BY <3>1, <4>2
    <3>2. CASE x # c
      BY <1>1, <1>6, <2>2, <3>2 DEF Heard
    <3> QED  BY <3>1, <3>2
  <2>5. Backing'
    <3>1. ASSUME NEW k, NEW i, NEW m, Dispatched(k, i, m)' PROVE Lasting(m)'
      <4>1. Len(events') = Len(events) + 1 /\ Len(events) \in Nat
        BY <1>1, <1>18 DEF Appends, ChatTypeOK
      <4>2. k \in 1..Len(events) \/ k = Len(events) + 1
        BY <3>1, <4>1 DEF Dispatched
      <4>3. CASE k \in 1..Len(events)
        <5>1. Dispatched(k, i, m)
          BY <1>18, <3>1, <4>3 DEF Dispatched, Appends
        <5> QED  BY <1>1, <1>10, <5>1 DEF Backing
      <4>4. CASE k = Len(events) + 1
        <5>1. m \in Visible
          BY <1>12, <1>18, <3>1, <4>4 DEF Dispatched, Appends
        <5> QED  BY <1>1, <1>10, <5>1, VisibleLasting
      <4> QED  BY <4>2, <4>3, <4>4
    <3> QED  BY <1>1, <1>10, <3>1 DEF Backing
  <2> QED  BY <1>11, <1>14, <1>15, <1>16, <2>3, <2>4, <2>5 DEF Screens
<1> QED  BY <1>15, <1>17, <1>18

\* A new screen shows nothing, and has been told nothing.
LEMMA OpenedPlaces ==
  ASSUME ChatTypeOK, OpenChat
  PROVE  \A c, k, i, m : Occurs(c, k, i, m)' <=> Occurs(c, k, i, m)
<1>1. shown \in Seq(Seq(Message)) /\ events' = events
  BY DEF ChatTypeOK, OpenChat
<1>3. PICK n \in Nat : n = Len(shown)
  BY <1>1
<1>4. PICK z : z = << >>
  OBVIOUS
<1>5. z \in Seq(Message) /\ Len(z) = 0
  BY <1>4
<1>7. /\ Len(shown') = n + 1
      /\ \A c \in 1..n : shown'[c] = shown[c]
      /\ shown'[n + 1] = z
  BY <1>1, <1>3, <1>4, <1>5 DEF OpenChat
<1>8. \A c \in 1..(n + 1) : c \in 1..n \/ c = n + 1
  OBVIOUS
<1>9. \A c, k, i, m : Occurs(c, k, i, m)' <=> Occurs(c, k, i, m)
  <2>1. \A k, i, m : Dispatched(k, i, m)' <=> Dispatched(k, i, m)
    BY <1>1 DEF Dispatched
  <2>2. ASSUME NEW c
        PROVE  \A i, m : (c \in 1..Len(shown') /\ i \in 1..Len(shown'[c]) /\ shown'[c][i] = m)
                      <=> (c \in 1..Len(shown) /\ i \in 1..Len(shown[c]) /\ shown[c][i] = m)
    <3>1. CASE c \in 1..n
      <4>1. c \in 1..(n + 1)
        BY <3>1
      <4> QED  BY <1>3, <1>7, <3>1, <4>1
    <3>2. CASE c = n + 1
      <4>1. c \notin 1..n /\ \A i : i \notin 1..Len(shown'[c])
        BY <1>5, <1>7, <3>2
      <4> QED  BY <1>3, <4>1
    <3>3. CASE c \notin 1..(n + 1)
      <4>1. c \notin 1..n
        BY <3>3
      <4> QED  BY <1>3, <1>7, <3>3, <4>1
    <3> QED  BY <1>8, <3>1, <3>2, <3>3
  <2> SUFFICES ASSUME NEW c, NEW k, NEW i, NEW m
               PROVE  Occurs(c, k, i, m)' <=> Occurs(c, k, i, m)
    OBVIOUS
  <2>3. (k = 0 /\ c \in 1..Len(shown) /\ i \in 1..Len(shown[c]) /\ shown[c][i] = m)'
        <=> (k = 0 /\ c \in 1..Len(shown) /\ i \in 1..Len(shown[c]) /\ shown[c][i] = m)
    BY <2>2
  <2>4. (Dispatched(k, i, m) /\ c \in events[k].to)' <=> Dispatched(k, i, m) /\ c \in events[k].to
    BY <1>1, <2>1
  <2> QED  BY ONLY <2>3, <2>4 DEF Occurs
<1> QED  BY <1>9

\* A new screen shows nothing, and is to be told everything.
LEMMA OpenChatStep ==
  ASSUME CInv, Base', OpenChat PROVE Screens'
<1>1. /\ ChatTypeOK /\ Addressed /\ NotYet /\ Cached /\ Heard /\ Backing /\ AllOnce /\ Base
      /\ UNCHANGED <<vars, stamps, known, listening, events, seen>>
  BY DEF CInv, Screens, OpenChat
<1>2. UNCHANGED <<thread, writes, stored, rejected, sent, time, answers, finished>>
  BY <1>1 DEF vars, backend, client, history, stamps
<1>3. PICK n \in Nat : n = Len(shown)
  BY <1>1 DEF ChatTypeOK
<1>4. PICK z : z = << >>
  OBVIOUS
<1>5. z \in Seq(Message) /\ Len(z) = 0
  BY <1>4
<1>6. /\ shown \in Seq(Seq(Message)) /\ shown' = Append(shown, z) /\ n < MaxChats
      /\ open' = n + 1 /\ adding' = adding \cup {n + 1}
  BY <1>1, <1>3, <1>4 DEF OpenChat, ChatTypeOK
<1>7. /\ shown' \in Seq(Seq(Message)) /\ Len(shown') = n + 1
      /\ \A c \in 1..n : shown'[c] = shown[c]
      /\ shown'[n + 1] = z
  BY <1>3, <1>5, <1>6
<1>8. \A c \in 1..(n + 1) : c \in 1..n \/ c = n + 1
  OBVIOUS
<1>9. \A c, k, i, m : Occurs(c, k, i, m)' <=> Occurs(c, k, i, m)
  BY <1>1, OpenedPlaces
<1>10. ChatTypeOK'
  <2>1. TypeOK'
    BY DEF Base, IInv
  <2>2. \A c \in 1..n : c \in 1..(n + 1)
    OBVIOUS
  <2>3. n + 1 \in 1..(n + 1) /\ n + 1 \in 0..(n + 1) /\ n + 1 <= MaxChats
    BY <1>6, ChatViewAssumption
  <2> QED  BY <1>1, <1>2, <1>3, <1>6, <1>7, <2>1, <2>2, <2>3 DEF ChatTypeOK
<1>11. Addressed'
  <2>1. \A c \in 1..n : c \in 1..(n + 1)
    OBVIOUS
  <2> QED  BY <1>1, <1>3, <1>7, <2>1 DEF Addressed
<1>12. NotYet'
  <2>1. ~ (n + 1 \in 1..n)
    OBVIOUS
  <2>2. n + 1 \notin listening
    BY <1>1, <1>3, <2>1 DEF ChatTypeOK
  <2>3. \A k, i, m : ~ Occurs(n + 1, k, i, m)
    BY <1>1, <1>3, <2>1 DEF Occurs, Dispatched, Addressed
  <2> QED  BY <1>1, <1>6, <1>9, <2>2, <2>3 DEF NotYet
<1>13. Visible' = Visible /\ Cached'
  BY <1>1, <1>2 DEF Visible, Waiting, Cached, me
<1>14. Heard'
  BY <1>1, <1>9, <1>13 DEF Heard
<1>15. Backing'
  <2>1. \A m : Lasting(m) <=> Lasting(m)'
    BY <1>1, <1>2 DEF Lasting, Waiting, Refused
  <2>2. \A k, i, m : Dispatched(k, i, m)' => Dispatched(k, i, m)
    BY <1>1 DEF Dispatched
  <2>3. ASSUME NEW c \in 1..Len(shown'), NEW i \in 1..Len(shown'[c]) PROVE shown'[c][i] \in seen
    <3>1. CASE c \in 1..n
      BY <1>1, <1>3, <1>7, <2>3, <3>1 DEF Backing
    <3>2. CASE c = n + 1
      BY <1>5, <1>7, <2>3, <3>2
    <3> QED  BY <1>7, <1>8, <2>3, <3>1, <3>2
  <2> QED  BY <1>1, <2>1, <2>2, <2>3 DEF Backing
<1>16. AllOnce'
  <2>1. \A m : AskedAgain(m) <=> AskedAgain(m)'
    BY <1>1, <1>2 DEF AskedAgain, Refused
  <2> QED  BY <1>1, <1>9, <2>1 DEF AllOnce, Once
<1> QED  BY <1>10, <1>11, <1>12, <1>13, <1>14, <1>15, <1>16 DEF Screens

\* Steps after which what the screens show, and were told, is as before.
LEMMA SameScreens ==
  ASSUME CInv, Base', UNCHANGED <<vars, stamps, known, adding, shown, events, seen>>,
         listening' \subseteq listening, open' \in 0..Len(shown)
  PROVE  Screens'
<1>1. /\ ChatTypeOK /\ Addressed /\ NotYet /\ Cached /\ Heard /\ Backing /\ AllOnce /\ Base
  BY DEF CInv, Screens
<1>2. UNCHANGED <<thread, writes, stored, rejected, sent, time, answers, finished>>
  BY DEF vars, backend, client, history, stamps
<1>3. \A c, k, i, m : Occurs(c, k, i, m)' <=> Occurs(c, k, i, m)
  BY DEF Occurs, Dispatched
<1>4. ChatTypeOK'
  <2>1. TypeOK'
    BY DEF Base, IInv
  <2> QED  BY <1>1, <1>2, <2>1 DEF ChatTypeOK
<1>5. Addressed' /\ NotYet'
  BY <1>1, <1>3 DEF Addressed, NotYet
<1>6. Visible' = Visible /\ Cached'
  BY <1>1, <1>2 DEF Visible, Waiting, Cached, me
<1>7. Heard'
  BY <1>1, <1>3, <1>6 DEF Heard
<1>8. \A m : (Lasting(m) <=> Lasting(m)') /\ (AskedAgain(m) <=> AskedAgain(m)')
  BY <1>2 DEF Lasting, Waiting, Refused, AskedAgain
<1>9. Backing'
  BY <1>1, <1>8 DEF Backing, Dispatched
<1>10. AllOnce'
  BY <1>1, <1>3, <1>8 DEF AllOnce, Once
<1> QED  BY <1>4, <1>5, <1>6, <1>7, <1>9, <1>10 DEF Screens

\* A kill takes the screens, and leaves what is persisted.
LEMMA RelaunchStep ==
  ASSUME CInv, Base', NEW d \in Device, Relaunch(d) PROVE Screens'
<1>1. /\ Kill(d) /\ UNCHANGED stamps
  BY DEF Relaunch
<1>2. Next
  BY <1>1 DEF Next
<1>3. TypeOK /\ TypeOK' /\ Base /\ ChatTypeOK /\ Cached /\ Backing
  BY DEF CInv, Screens, Base, IInv
<1>4. known' = known /\ seen' = seen /\ sent' = sent
  BY <1>1 DEF Relaunch, chatVars, Kill
<1>5. \A m : Waiting(m) => Waiting(m)' \/ Refused("ownAdd", m)'
  BY <1>1, <1>3, WaitingKept
<1>6. (\A m : Lasting(m) => Lasting(m)') /\ rejected \subseteq rejected'
  BY <1>2, <1>3, <1>4, <1>5, LastingKept, NothingTaken
<1>7. Cached'
  BY <1>2, <1>3, <1>4, Me, NothingTaken DEF Cached, me
<1>8. CASE d # viewer
  <2>1. UNCHANGED chatVars
    BY <1>8 DEF Relaunch
  <2>2. UNCHANGED <<listening, screens, seen>> /\ events' = events
    BY <2>1 DEF chatVars
  <2>3. writes'[viewer] = writes[viewer] /\ stored' = stored
    BY <1>1, <1>3, <1>8, Me DEF Kill, TypeOK
  <2>4. Visible' = Visible
    BY <1>4, <2>3 DEF Visible, Waiting
  <2>5. Hear
    BY <2>2, <2>4 DEF Hear, Told
  <2> QED  BY <1>1, <1>3, <1>4, <1>6, <1>7, <2>2, <2>5, Hears DEF ChatTypeOK, stamps
<1>9. CASE d = viewer
  <2>1. PICK z : z = << >>
    OBVIOUS
  <2>2. adding' = {} /\ listening' = {} /\ events' = z /\ shown' = z /\ open' = 0
    BY <1>9, <2>1 DEF Relaunch
  <2>3. z \in Seq(Snapshot) /\ z \in Seq(Seq(Message)) /\ Len(z) = 0
    BY <2>1
  <2>4. \A c, k, i, m : ~ Dispatched(k, i, m)' /\ ~ Occurs(c, k, i, m)'
    BY <2>2, <2>3 DEF Dispatched, Occurs
  <2>5. ChatTypeOK'
    BY <1>1, <1>3, <1>4, <2>2, <2>3, ChatViewAssumption DEF ChatTypeOK, stamps
  <2>6. Addressed' /\ NotYet' /\ Heard' /\ AllOnce'
    BY <2>2, <2>3, <2>4 DEF Addressed, NotYet, Heard, AllOnce, Once
  <2>7. Backing'
    BY <1>3, <1>4, <1>6, <2>2, <2>3, <2>4 DEF Backing
  <2> QED  BY <1>7, <2>5, <2>6, <2>7 DEF Screens
<1> QED  BY <1>8, <1>9

-----------------------------------------------------------------------------
LEMMA InitScreens == ChatInit => CInv
<1> SUFFICES ASSUME ChatInit PROVE CInv
  OBVIOUS
<1>1. Base
  BY InitBase DEF ChatInit
<1>2. PICK z : z = << >>
  OBVIOUS
<1>3. /\ time = [m \in Message |-> 0] /\ answers = [m \in Message |-> {}]
      /\ finished = [m \in Message |-> {}]
      /\ known = {} /\ adding = {} /\ listening = {} /\ events = z /\ shown = z
      /\ open = 0 /\ seen = {}
  BY <1>2 DEF ChatInit
<1>4. z \in Seq(Snapshot) /\ z \in Seq(Seq(Message)) /\ Len(z) = 0
  BY <1>2
<1>5. \A c, k, i, m : ~ Dispatched(k, i, m) /\ ~ Occurs(c, k, i, m)
  BY <1>3, <1>4 DEF Dispatched, Occurs
<1>6. ChatTypeOK
  BY <1>1, <1>3, <1>4, ChatViewAssumption DEF Base, IInv, ChatTypeOK
<1>7. Addressed /\ NotYet /\ Cached /\ Heard /\ Backing /\ AllOnce
  BY <1>3, <1>4, <1>5 DEF Addressed, NotYet, Cached, Heard, Backing, AllOnce, Once
<1> QED  BY <1>1, <1>6, <1>7 DEF CInv, Screens

LEMMA NextScreens ==
  ASSUME CInv, [ChatNext]_allVars PROVE CInv'
<1>1. Base'
  <2>1. [Next]_vars
    BY ChatIsUpload DEF allVars
  <2> QED  BY <2>1, NextBase DEF CInv
<1>2. CASE UNCHANGED allVars
  <2>1. open' \in 0..Len(shown)
    BY <1>2 DEF CInv, Screens, ChatTypeOK, allVars, chatVars, screens
  <2> QED  BY <1>1, <1>2, <2>1, SameScreens DEF allVars, chatVars, screens, CInv
<1>3. ASSUME NEW d \in Device, NEW p \in User, SendMessage(d, p) PROVE CInv'
  BY <1>1, <1>3, SendMessageStep DEF CInv
<1>4. ASSUME NEW d \in Device, Upload(d) PROVE CInv'
  BY <1>1, <1>4, UploadStep DEF CInv
<1>5. ASSUME NEW d \in Device, Acknowledge(d) PROVE CInv'
  BY <1>1, <1>5, AcknowledgeStep DEF CInv
<1>6. ASSUME NEW d \in Device, Relaunch(d) PROVE CInv'
  BY <1>1, <1>6, RelaunchStep DEF CInv
<1>7. CASE OpenChat
  BY <1>1, <1>7, OpenChatStep DEF CInv
<1>8. CASE CloseChat
  <2>1. 0 \in 0..Len(shown)
    BY DEF CInv, Screens, ChatTypeOK
  <2> QED  BY <1>1, <1>8, <2>1, SameScreens DEF CloseChat, CInv
<1>9. CASE HandleSnapshot
  BY <1>1, <1>9, HandleSnapshotStep DEF CInv
<1>10. CASE Listen
  BY <1>1, <1>10, ListenStep DEF CInv
<1>11. CASE Watch
  BY <1>1, <1>11, WatchStep DEF CInv
<1>12. CASE RejectListen
  <2>1. open \in 0..Len(shown)
    BY DEF CInv, Screens, ChatTypeOK
  <2> QED  BY <1>1, <1>12, <2>1, SameScreens DEF RejectListen, CInv, screens
<1> QED
  BY <1>2, <1>3, <1>4, <1>5, <1>6, <1>7, <1>8, <1>9, <1>10, <1>11, <1>12 DEF ChatNext

LEMMA ChatInvariance == ChatSpec => []CInv
<1>1. ChatInit => CInv
  BY InitScreens
<1>2. CInv /\ [ChatNext]_allVars => CInv'
  BY NextScreens
<1> QED  BY <1>1, <1>2, PTL DEF ChatSpec

-----------------------------------------------------------------------------
(***************************************************************************)
(* The order of a conversation.  When a document becomes visible, nothing  *)
(* that follows or answers it is on a screen yet: what the viewer sends    *)
(* becomes visible in the order of its queue (StoredInLine), what another  *)
(* device sends comes in the order of its writes (KnownInLine), and a      *)
(* message of another device comes no earlier than what it answers         *)
(* (AnswersLast).  The documents of one snapshot are in the order of their *)
(* timestamps.                                                             *)
(*                                                                         *)
(* The last one needs a partner with one device: on a second one the       *)
(* partner may see a message of the first before its copy for the viewer   *)
(* is written, and the answer may overtake that copy.                      *)
(***************************************************************************)

PartnerHasOneDevice ==
  \A d, e \in Device : account[d] = partner /\ account[e] = partner => d = e

\* The cache holds of the messages of another device those written first.
KnownInLine ==
  \A m \in known : \A k \in thread[me][partner] :
    k.dev = m.dev /\ k.n < m.n /\ m.dev # viewer => k \in known

\* The viewer's own messages are visible before the backend has them.
OwnThread == \A k \in thread[me][partner] : k.dev = viewer => Lasting(k)

\* The first copies in a queue are in the order of sending, after all those that are
\* written; a copy sent again after a kill or a disconnection is written already.
FirstsInLine ==
  \A d \in Device : \A i, j, m, k : First(d, i, m) /\ First(d, j, k) /\ i < j => m.n < k.n

FirstsLast ==
  \A d \in Device : \A i, k : First(d, i, k) =>
    Kept(k) \/ \A m \in Message : m.dev = d /\ Kept(m) => m.n < k.n

\* What is not persisted yet was sent after all of the viewer's messages that have been
\* visible.
StoredInLine ==
  \A i, k, m :
    First(viewer, i, k) /\ i > stored[viewer] /\ Lasting(m) /\ m.dev = viewer => ~ (k.n < m.n)

\* What a message answers has been visible, or is in the thread while the message is
\* not known yet; copies that were refused apart.
AnswersLast ==
  \A m \in sent : \A k \in answers[m] :
    \/ Lasting(k)
    \/ Refused("ownAdd", k)
    \/ k.dev = m.dev /\ k.n < m.n
    \/ k \in thread[me][partner] /\ m.dev # viewer /\ m \notin known

Leading ==
  KnownInLine /\ OwnThread /\ FirstsInLine /\ FirstsLast /\ StoredInLine /\ AnswersLast

\* InConversationOrder, also among the snapshots on their way to a screen.
InOrder ==
  \A c, q, i, r, j, m, k :
    Occurs(c, q, i, m) /\ Occurs(c, r, j, k) /\ Ahead(q, i, r, j) /\ Precedes(k, m) =>
      time[m] < time[k] \/ Refused("ownAdd", k)

-----------------------------------------------------------------------------
(* What has been visible.                                                  *)

\* It was sent, by one of the two for the other.
LEMMA LastingSent ==
  ASSUME Base, Cached, NEW m, Lasting(m) PROVE m \in sent /\ m \in Message
<1>1. sent \subseteq Message
  BY DEF Base, IInv, TypeOK
<1>2. m \in known => m \in sent
  BY Me DEF Cached, Base, Copies, ThreadsSent
<1>3. Waiting(m) => m \in sent
  BY WaitingSent
<1> QED  BY <1>1, <1>2, <1>3 DEF Lasting, Base, Copies, RefusedSent

\* What the viewer's screens are told of other devices is in the cache.
LEMMA LastingKnown ==
  ASSUME NEW m, Lasting(m), m.dev # viewer PROVE m \in known
BY DEF Lasting

LEMMA OldestWaits ==
  ASSUME TypeOK, stored[viewer] > 0, NEW m,
         Head(writes[viewer]).step = "ownAdd", Head(writes[viewer]).msg = m
  PROVE  Waiting(m) /\ First(viewer, 1, m)
<1>1. Head(writes[viewer]) = writes[viewer][1] /\ 1 \in 1..Len(writes[viewer])
  BY Me, OldestWrite
<1>2. stored[viewer] \in Nat
  BY Me DEF TypeOK
<1>3. First(viewer, 1, m) /\ 1 <= stored[viewer]
  BY <1>1, <1>2 DEF First
<1> QED  BY <1>3, WaitingIs

\* The first copies in the queue of d move up g places.
Moves(d, g) == \A i, m : First(d, i, m)' => First(d, i + g, m) /\ i \in Nat

\* A step of the upload of d that sends nothing.
Moving(d) ==
  \/ Mirror(d) \/ UploadDone(d) \/ WriteLocally(d) \/ Commit(d) \/ Ack(d) \/ Reject(d)
  \/ Disconnect(d) \/ Kill(d)

\* In such a step the first copies of a queue move up, and the persisted ones with
\* them, unless one more is persisted.
LEMMA FirstsMove ==
  ASSUME TypeOK, TypeOK', NEW d \in Device, Moving(d), NEW e \in Device
  PROVE  \E g \in {0, 1} :
           /\ Moves(e, g)
           /\ \/ stored[e] = stored'[e] + g
              \/ WriteLocally(d) /\ d = e /\ g = 0 /\ stored'[e] = stored[e] + 1
<1>1. /\ \A i, m : First(e, i, m)' => i \in Nat /\ i + 0 = i
      /\ stored[e] \in Nat /\ stored'[e] \in Nat /\ stored'[e] + 0 = stored'[e]
  <2>1. Len(writes'[e]) \in Nat /\ stored[e] \in Nat /\ stored'[e] \in Nat
    BY DEF TypeOK
  <2> QED  BY <2>1 DEF First
<1>2. ASSUME \A i, m : First(e, i, m)' => First(e, i, m),
             \/ stored'[e] = stored[e]
             \/ WriteLocally(d) /\ d = e /\ stored'[e] = stored[e] + 1
      PROVE  \E g \in {0, 1} :
               /\ Moves(e, g)
               /\ \/ stored[e] = stored'[e] + g
                  \/ WriteLocally(d) /\ d = e /\ g = 0 /\ stored'[e] = stored[e] + 1
  <2>1. Moves(e, 0)
    BY <1>1, <1>2 DEF Moves
  <2> QED  BY <1>1, <1>2, <2>1
<1>3. CASE UploadDone(d) \/ Commit(d) \/ Disconnect(d)
  <2>1. writes' = writes /\ stored' = stored
    BY <1>3 DEF UploadDone, Commit, Disconnect
  <2> QED  BY <1>2, <2>1 DEF First
<1>4. CASE WriteLocally(d)
  <2>1. /\ writes' = writes
        /\ stored'[e] = stored[e] \/ (d = e /\ stored'[e] = stored[e] + 1)
    BY <1>4 DEF WriteLocally, TypeOK
  <2> QED  BY <1>2, <1>4, <2>1 DEF First
<1>5. CASE Mirror(d)
  <2>1. \A i, m : First(e, i, m)' => First(e, i, m)
    BY <1>5, MirrorFirsts
  <2> QED  BY <1>2, <1>5, <2>1 DEF Mirror
<1>6. CASE Kill(d)
  <2>1. \A i, m : First(e, i, m)' => First(e, i, m)
    BY <1>6, KillFirsts
  <2> QED  BY <1>2, <1>6, <2>1 DEF Kill
<1>7. CASE Ack(d) \/ Reject(d)
  <2>1. /\ stored[d] > 0 /\ writes' = [writes EXCEPT ![d] = Tail(@)]
        /\ stored' = [stored EXCEPT ![d] = @ - 1]
    <3>1. inflight[d] \in Nat /\ stored[d] \in Nat /\ inflight[d] <= stored[d]
      BY DEF TypeOK
    <3>2. stored[d] > 0
      <4>1. Ack(d) => inflight[d] > 0
        BY DEF Ack
      <4>2. Reject(d) => stored[d] > 0
        BY DEF Reject
      <4> QED  BY <1>7, <3>1, <4>1, <4>2
    <3>3. CASE Ack(d)
      BY <3>2, <3>3 DEF Ack
    <3>4. CASE Reject(d)
      BY <3>2, <3>4 DEF Reject
    <3> QED  BY <1>7, <3>3, <3>4
  <2>2. CASE d = e
    <3>1. Moves(e, 1)
      BY <1>1, <2>1, <2>2, PoppedFirsts DEF Moves
    <3>2. stored[e] = stored'[e] + 1
      <4>1. stored'[e] = stored[e] - 1
        BY <2>1, <2>2 DEF TypeOK
      <4> QED  BY <1>1, <4>1
    <3> QED  BY <3>1, <3>2
  <2>3. CASE d # e
    <3>1. \A i, m : First(e, i, m)' => First(e, i, m)
      BY <2>1, <2>3, PoppedFirsts
    <3>2. stored'[e] = stored[e]
      BY <2>1, <2>3 DEF TypeOK
    <3> QED  BY <1>2, <3>1, <3>2
  <2> QED  BY <2>2, <2>3
<1> QED  BY <1>3, <1>4, <1>5, <1>6, <1>7 DEF Moving

\* The steps of the upload in the chat.
Carrying(d) == Upload(d) \/ Acknowledge(d) \/ Relaunch(d)

LEMMA CarryingIs ==
  ASSUME NEW d \in Device, Carrying(d)
  PROVE  Moving(d) /\ sent' = sent /\ time' = time /\ answers' = answers /\ Next
<1>1. Moving(d)
  <2>1. CASE Upload(d)
    <3>1. Mirror(d) \/ UploadDone(d) \/ WriteLocally(d) \/ Commit(d) \/ Reject(d) \/ Disconnect(d)
      BY <2>1 DEF Upload
    <3> QED  BY <3>1 DEF Moving
  <2>2. CASE Acknowledge(d)
    <3>1. Ack(d)
      BY <2>2 DEF Acknowledge
    <3> QED  BY <3>1 DEF Moving
  <2>3. CASE Relaunch(d)
    <3>1. Kill(d)
      BY <2>3 DEF Relaunch
    <3> QED  BY <3>1 DEF Moving
  <2> QED  BY <2>1, <2>2, <2>3 DEF Carrying
<1>2. time' = time /\ answers' = answers
  BY DEF Carrying, Upload, Acknowledge, Relaunch, stamps
<1>3. sent' = sent
  <2>1. CASE Mirror(d) \/ UploadDone(d) \/ Commit(d) \/ Ack(d)
    BY <2>1 DEF Mirror, UploadDone, Commit, Ack, history
  <2>2. CASE Reject(d) \/ Disconnect(d) \/ Kill(d) \/ WriteLocally(d)
    BY <2>2 DEF Reject, Disconnect, Kill, WriteLocally, history
  <2> QED  BY <1>1, <2>1, <2>2 DEF Moving
<1>4. Next
  BY <1>1 DEF Moving, Next
<1> QED  BY <1>1, <1>2, <1>3, <1>4

\* The cache changes only with an acknowledgement to the viewer.
LEMMA CarryingKnown ==
  ASSUME NEW d \in Device, Carrying(d)
  PROVE  \/ known' = known
         \/ /\ Ack(d) /\ d = viewer /\ Head(writes[d]).step = "ownAdd"
            /\ Head(writes[d]).msg.to = partner
            /\ known' = known \cup {Head(writes[d]).msg}
BY DEF Carrying, Upload, Acknowledge, Relaunch, chatVars

LEMMA LastingCarried ==
  ASSUME Base, TypeOK', NEW d \in Device, Carrying(d)
  PROVE  \A m : Lasting(m) => Lasting(m)'
<1>1. TypeOK
  BY DEF Base, IInv
<1>2. known \subseteq known' /\ Next
  BY CarryingKnown, CarryingIs
<1>3. ASSUME NEW m, Waiting(m), m.to = partner
      PROVE  Waiting(m)' \/ Refused("ownAdd", m)' \/ m \in known'
  <2>1. CASE Acknowledge(d)
    BY <1>1, <1>3, <2>1, WaitingAcknowledged
  <2>2. CASE Upload(d) \/ Relaunch(d)
    <3>1. \/ Mirror(d) \/ UploadDone(d) \/ WriteLocally(d) \/ Commit(d)
          \/ Reject(d) \/ Disconnect(d) \/ Kill(d)
      BY <2>2 DEF Upload, Relaunch
    <3> QED  BY <1>3, <3>1, WaitingKept
  <2> QED  BY <2>1, <2>2 DEF Carrying
<1> QED  BY <1>1, <1>2, <1>3, LastingKept

\* Of the viewer's own messages only the one that is being persisted becomes visible.
LEMMA NewlyLasting ==
  ASSUME Base, TypeOK', NEW d \in Device, Carrying(d), NEW m, Lasting(m)', m.dev = viewer
  PROVE  Lasting(m) \/ (WriteLocally(d) /\ d = viewer /\ First(viewer, stored[viewer] + 1, m))
<1>0. TypeOK
  BY DEF Base, IInv
<1>1. CASE m \in known' /\ m \notin known
  <2>1. /\ Ack(d) /\ d = viewer /\ Head(writes[d]).step = "ownAdd"
        /\ m = Head(writes[d]).msg /\ m.to = partner
    BY <1>1, CarryingKnown
  <2>2. stored[viewer] > 0
    <3>1. inflight[d] \in Nat /\ stored[d] \in Nat /\ inflight[d] <= stored[d]
      BY <1>0 DEF TypeOK
    <3> QED  BY <2>1, <3>1 DEF Ack
  <2>3. Waiting(m)
    BY <2>1, <2>2, <1>0, OldestWaits
  <2> QED  BY <2>1, <2>3 DEF Lasting
<1>2. CASE Refused("ownAdd", m)' /\ ~ Refused("ownAdd", m) /\ m.to = partner
  <2>1. Reject(d) /\ Head(writes[d]).step = "ownAdd" /\ Head(writes[d]).msg = m /\ stored[d] > 0
    <3>1. Moving(d)
      BY CarryingIs
    <3>2. CASE Mirror(d) \/ UploadDone(d) \/ Commit(d) \/ Ack(d)
      BY <1>2, <3>2 DEF Refused, Mirror, UploadDone, Commit, Ack, history
    <3>3. CASE Disconnect(d) \/ Kill(d) \/ WriteLocally(d)
      BY <1>2, <3>3 DEF Refused, Disconnect, Kill, WriteLocally, history
    <3>4. CASE Reject(d)
      BY <1>2, <3>4 DEF Reject, Refused
    <3> QED  BY <3>1, <3>2, <3>3, <3>4 DEF Moving
  <2>2. Head(writes[d]) = writes[d][1] /\ 1 \in 1..Len(writes[d])
    BY <2>1, <1>0, OldestWrite
  <2>3. m.dev = d
    BY <2>1, <2>2 DEF Base, Order, OwnMessages
  <2>4. Waiting(m)
    BY <2>1, <2>3, <1>0, OldestWaits
  <2>5. m.dev = viewer /\ m.to = partner
    BY <1>2
  <2>6. Lasting(m)
    BY <2>4, <2>5 DEF Lasting
  <2> QED  BY <2>6
<1>3. CASE Waiting(m)' /\ m.to = partner
  <2>1. PICK i : First(viewer, i, m)' /\ i <= stored'[viewer]
    <3>1. PICK i \in 1..stored'[viewer] : /\ writes'[viewer][i].step = "ownAdd"
                                         /\ writes'[viewer][i].msg = m
      BY <1>3 DEF Waiting
    <3>2. i \in 1..Len(writes'[viewer]) /\ i <= stored'[viewer]
      <4>1. stored'[viewer] \in Nat /\ Len(writes'[viewer]) \in Nat
            /\ stored'[viewer] <= Len(writes'[viewer])
        BY Me DEF TypeOK
      <4> QED  BY <3>1, <4>1
    <3> QED  BY <3>1, <3>2 DEF First
  <2>2. stored[viewer] \in Nat /\ stored'[viewer] \in Nat
    BY <1>0, Me DEF TypeOK
  <2>3. PICK g \in {0, 1} :
          /\ Moves(viewer, g)
          /\ \/ stored[viewer] = stored'[viewer] + g
             \/ /\ WriteLocally(d) /\ d = viewer /\ g = 0
                /\ stored'[viewer] = stored[viewer] + 1
    BY <1>0, Me, CarryingIs, FirstsMove
  <2>4. First(viewer, i + g, m) /\ i \in Nat
    BY <2>1, <2>3 DEF Moves
  <2>5. i + g <= stored[viewer] => Lasting(m)
    BY <1>0, <1>3, <2>4, WaitingIs DEF Lasting
  <2>6. CASE stored[viewer] = stored'[viewer] + g
    BY <2>1, <2>2, <2>4, <2>5, <2>6
  <2>7. CASE WriteLocally(d) /\ d = viewer /\ g = 0 /\ stored'[viewer] = stored[viewer] + 1
    <3>1. i + g = stored[viewer] + 1 \/ i + g <= stored[viewer]
      BY <2>1, <2>2, <2>4, <2>7
    <3> QED  BY <2>4, <2>5, <2>7, <3>1
  <2> QED  BY <2>3, <2>6, <2>7
<1> QED  BY <1>1, <1>2, <1>3 DEF Lasting

\* The messages of the conversation, in the threads of the two users.
LEMMA Between ==
  ASSUME Base, NEW o \in User, NEW p \in User, {o, p} = {me, partner}, NEW m \in thread[o][p]
  PROVE  /\ m \in sent /\ m \in Message /\ m.dev \in Device /\ m.n \in Int
         /\ (From(m) = me /\ m.to = partner) \/ (From(m) = partner /\ m.to = me)
<1>1. m \in sent /\ Parties(m, o, p) /\ m \in Message
  BY DEF Base, Copies, ThreadsSent, IInv, TypeOK
<1>2. m.dev \in Device /\ m.n \in Int
  BY <1>1 DEF Message
<1> QED  BY <1>1, <1>2 DEF Parties

\* The write by which a step adds a document to a thread: the next in the pipeline.
LEMMA CommittedInto ==
  ASSUME Base, NEW d \in Device, Moving(d), NEW o \in User, NEW p \in User,
         NEW k \in thread'[o][p], k \notin thread[o][p]
  PROVE  /\ Commit(d) /\ inflight[d] + 1 \in 1..stored[d] /\ k.dev = d /\ k \in Message
         /\ \/ First(d, inflight[d] + 1, k) /\ From(k) = o /\ k.to = p
            \/ Holding(d, 1, inflight[d] + 1, k) /\ From(k) = p /\ k.to = o
<1>1. TypeOK
  BY DEF Base, IInv
<1>2. Commit(d)
  <2>1. CASE Mirror(d) \/ UploadDone(d) \/ Ack(d)
    BY <2>1 DEF Mirror, UploadDone, Ack, backend
  <2>2. CASE Reject(d) \/ Disconnect(d) \/ Kill(d) \/ WriteLocally(d)
    BY <2>2 DEF Reject, Disconnect, Kill, WriteLocally, backend
  <2> QED  BY <2>1, <2>2 DEF Moving
<1>3. PICK w \in Write : w = writes[d][inflight[d] + 1] /\ (AddDocument(w) \/ SetData(w))
  BY <1>1, <1>2, NextWrite DEF Commit
<1>4. inflight[d] + 1 \in 1..stored[d] /\ inflight[d] + 1 \in 1..Len(writes[d])
  BY <1>1, <1>2 DEF Commit, TypeOK
<1>5. w.msg \in sent /\ w.msg.dev = d /\ w.msg \in Message
  BY <1>3, <1>4 DEF Base, Order, OwnMessages, Write
<1>6. AddDocument(w)
  BY <1>3 DEF SetData
<1>7. Owner(w.step, w.msg) \in User /\ Peer(w.step, w.msg) \in User
  BY <1>5, UsersOfStep DEF Write
<1>8. k = w.msg /\ Owner(w.step, w.msg) = o /\ Peer(w.step, w.msg) = p
  BY <1>1, <1>6, <1>7 DEF AddDocument, TypeOK
<1>9. CASE w.step = "ownAdd"
  <2>1. From(k) = o /\ k.to = p
    BY <1>8, <1>9 DEF Owner, Peer
  <2> QED  BY <1>2, <1>3, <1>4, <1>5, <1>8, <1>9, <2>1 DEF First
<1>10. CASE w.step = "peerAdd"
  <2>1. From(k) = p /\ k.to = o
    BY <1>8, <1>10 DEF Owner, Peer
  <2> QED  BY <1>2, <1>3, <1>4, <1>5, <1>8, <1>10, <2>1 DEF Holding
<1> QED  BY <1>6, <1>9, <1>10 DEF AddDocument

\* A new copy in a sender's thread is its first copy.
LEMMA NewlyKept ==
  ASSUME Base, NEW d \in Device, Moving(d), NEW m \in Message, Kept(m)', ~ Kept(m)
  PROVE  Commit(d) /\ m.dev = d /\ First(d, inflight[d] + 1, m)
<1>1. From(m) \in User /\ m.to \in User
  BY ConstantsAssumption DEF From, Message
<1>2. m \in thread'[From(m)][m.to] /\ m \notin thread[From(m)][m.to]
  BY DEF Kept, From
<1>3. /\ Commit(d) /\ m.dev = d
      /\ \/ First(d, inflight[d] + 1, m)
         \/ Holding(d, 1, inflight[d] + 1, m) /\ From(m) = m.to
  BY <1>1, <1>2, CommittedInto
<1>4. Holding(d, 1, inflight[d] + 1, m) => m \in sent
  BY HeldIsSent DEF Base, Order, IInv
<1> QED  BY <1>3, <1>4 DEF Base, Order, OwnMessages

-----------------------------------------------------------------------------
(* Every step keeps what leads the documents to the screens in order.      *)

LEMMA SameLeading ==
  ASSUME Leading, UNCHANGED <<vars, stamps, known>> PROVE Leading'
<1>1. UNCHANGED <<thread, writes, stored, rejected, sent, answers, known>>
  BY DEF vars, backend, client, history, stamps
<1>2. \A m : Lasting(m)' <=> Lasting(m)
  BY <1>1 DEF Lasting, Waiting, Refused
<1>3. \A d, i, m : First(d, i, m)' <=> First(d, i, m)
  BY <1>1 DEF First
<1>4. thread'[me][partner] = thread[me][partner] /\ \A m : Kept(m)' <=> Kept(m)
  BY <1>1 DEF Kept, From
<1>5. KnownInLine'
  BY <1>1, <1>4 DEF Leading, KnownInLine, me
<1>6. OwnThread'
  BY <1>2, <1>4 DEF Leading, OwnThread, me
<1>7. FirstsInLine' /\ StoredInLine'
  BY <1>1, <1>2, <1>3 DEF Leading, FirstsInLine, StoredInLine
<1>8. FirstsLast'
  BY <1>3, <1>4 DEF Leading, FirstsLast
<1>9. AnswersLast'
  BY <1>1, <1>2, <1>4 DEF Leading, AnswersLast, Refused, me
<1> QED  BY <1>5, <1>6, <1>7, <1>8, <1>9 DEF Leading

\* What the sender of a new message had before it.
LEMMA SentAnswers ==
  ASSUME PartnerHasOneDevice, CInv, NEW d \in Device, NEW p \in User, SendMessage(d, p),
         NEW m, m = [dev |-> d, to |-> p, n |-> nsent[d] + 1], NEW k \in answers'[m]
  PROVE  \/ Lasting(k) \/ Refused("ownAdd", k)
         \/ k.dev = m.dev /\ k.n < m.n
         \/ k \in thread[me][partner] /\ m.dev # viewer /\ m \notin known
<1>1. /\ ChatTypeOK /\ TypeOK /\ Base /\ Backing /\ Cached
      /\ {account[d], p} = {me, partner} /\ (d = viewer => open # 0)
      /\ Send(d, p)
      /\ answers' = [answers EXCEPT ![m] =
                       IF d = viewer THEN Contents(open) ELSE thread[account[d]][p]]
  BY DEF CInv, Screens, Base, IInv, SendMessage
<1>2. m \in Message /\ m.dev = d /\ m.n = nsent[d] + 1 /\ nsent[d] \in Nat
  <2>1. nsent[d] \in 0..MaxSends /\ nsent[d] < MaxSends
    BY <1>1 DEF TypeOK, Send
  <2>2. nsent[d] + 1 \in 1..MaxSends
    BY <2>1, ConstantsAssumption
  <2> QED  BY <2>1, <2>2 DEF Message
<1>3. k \in (IF d = viewer THEN Contents(open) ELSE thread[account[d]][p])
  BY <1>1, <1>2 DEF ChatTypeOK
<1>4. CASE d = viewer
  <2>1. open \in 1..Len(shown)
    BY <1>1, <1>4 DEF ChatTypeOK
  <2>2. k \in seen
    BY <1>1, <1>3, <1>4, <2>1 DEF Contents, Backing
  <2> QED  BY <1>1, <2>2 DEF Backing
<1>5. CASE d # viewer
  <2>1. m \notin known
    <3>1. m \notin sent
      BY <1>1, <1>2, SendFirsts
    <3>2. known \subseteq sent
      BY <1>1, Me DEF Cached, Base, Copies, ThreadsSent
    <3> QED  BY <3>1, <3>2
  <2>2. k \in thread[account[d]][p]
    BY <1>3, <1>5
  <2>3. CASE account[d] = me /\ p = partner
    BY <1>2, <1>5, <2>1, <2>2, <2>3
  <2>4. CASE account[d] = partner /\ p = me
    <3>1. /\ k \in sent /\ k \in Message /\ k.dev \in Device /\ k.n \in Int
          /\ (From(k) = me /\ k.to = partner) \/ (From(k) = partner /\ k.to = me)
      BY <1>1, <2>2, <2>4, Me, Between
    <3>2. CASE From(k) = partner
      <4>1. k.dev = d
        BY <2>4, <3>1, <3>2 DEF PartnerHasOneDevice, From
      <4>2. k.n <= nsent[d]
        BY <1>1, <3>1, <4>1 DEF Base, IInv, Numbered
      <4> QED  BY <1>2, <3>1, <4>1, <4>2
    <3>3. CASE From(k) = me /\ k.to = partner
      <4>1. Delivered(k)
        BY <2>2, <2>4, <3>3 DEF Delivered
      <4>2. Kept(k) \/ Refused("ownAdd", k)
        BY <1>1, <3>1, <4>1 DEF Base, IInv, Backed, OwnSettled
      <4>3. Kept(k) => k \in thread[me][partner]
        BY <3>3 DEF Kept
      <4> QED  BY <1>2, <1>5, <2>1, <4>2, <4>3
    <3> QED  BY <3>1, <3>2, <3>3
  <2> QED  BY <1>1, <2>3, <2>4, Me
<1> QED  BY <1>4, <1>5

LEMMA SendLasting ==
  ASSUME CInv, Base', NEW d \in Device, NEW p \in User, SendMessage(d, p)
  PROVE  \A m : Lasting(m)' <=> Lasting(m)
<1>1. /\ Send(d, p) /\ known' = known /\ Base /\ TypeOK /\ TypeOK'
  BY DEF SendMessage, chatVars, CInv, Base, IInv
<1>2. rejected' = rejected
  BY <1>1 DEF Send
<1>3. \A m : Waiting(m)' => Waiting(m)
  BY <1>1, SendWaiting
<1>4. \A m : Waiting(m) => Waiting(m)' \/ Refused("ownAdd", m)'
  BY <1>1, WaitingKept
<1> QED  BY <1>1, <1>2, <1>3, <1>4 DEF Lasting, Refused

\* A new message is the last of its device, in the queue and by number.
LEMMA SendLeading ==
  ASSUME PartnerHasOneDevice, CInv, CInv', Leading, NEW d \in Device, NEW p \in User,
         SendMessage(d, p)
  PROVE  Leading'
<1>1. /\ Send(d, p) /\ UNCHANGED chatVars /\ Base /\ TypeOK /\ ChatTypeOK /\ Base' /\ Cached
  BY DEF SendMessage, CInv, Screens, Base, IInv
<1>2. known' = known /\ thread' = thread /\ stored' = stored /\ rejected' = rejected
  BY <1>1 DEF chatVars, Send, backend
<1>3. \A m : (Lasting(m)' <=> Lasting(m)) /\ (Kept(m)' <=> Kept(m))
  BY <1>1, <1>2, SendLasting DEF Kept, From
<1>4. PICK w : w = [dev |-> d, to |-> p, n |-> nsent[d] + 1]
  OBVIOUS
<1>5. /\ w \notin sent /\ sent' = sent \cup {w}
      /\ \A e \in Device : \A i, x : First(e, i, x)' =>
           First(e, i, x) \/ (e = d /\ i = Len(writes[d]) + 1 /\ x = w)
  BY <1>1, <1>4, SendFirsts
<1>6. w.dev = d /\ w.n = nsent[d] + 1 /\ nsent[d] \in Nat
  BY <1>1, <1>4 DEF TypeOK
<1>7. \A m \in sent : m.dev = d => m.n \in Int /\ m.n < w.n
  <2> SUFFICES ASSUME NEW m \in sent, m.dev = d PROVE m.n \in Int /\ m.n < w.n
    OBVIOUS
  <2>1. m \in Message /\ m.n <= nsent[d]
    BY <1>1 DEF TypeOK, Base, IInv, Numbered
  <2>2. m.n \in Int
    BY <2>1 DEF Message
  <2> QED  BY <1>6, <2>1, <2>2
<1>8. \A e \in Device : \A i, x : First(e, i, x) =>
        x \in sent /\ x.dev = e /\ i <= Len(writes[e]) /\ i \in Nat
  <2>1. \A e \in Device : Len(writes[e]) \in Nat
    BY <1>1 DEF TypeOK
  <2> QED  BY <1>1, <2>1 DEF First, Base, Order, OwnMessages
<1>9. KnownInLine' /\ OwnThread'
  BY <1>2, <1>3 DEF Leading, KnownInLine, OwnThread, me
<1>10. FirstsInLine'
  <2> SUFFICES ASSUME NEW e \in Device, NEW i, NEW j, NEW m, NEW k,
                      First(e, i, m)', First(e, j, k)', i < j
               PROVE  m.n < k.n
    BY DEF FirstsInLine
  <2>1. Len(writes[e]) \in Nat
    BY <1>1 DEF TypeOK
  <2>2. CASE First(e, i, m) /\ First(e, j, k)
    BY <2>2 DEF Leading, FirstsInLine
  <2>3. CASE First(e, i, m) /\ e = d /\ k = w
    BY <1>7, <1>8, <2>3
  <2>4. CASE e = d /\ i = Len(writes[d]) + 1
    <3>1. j <= Len(writes[d]) + 1 /\ j \in Nat
      <4>1. j = Len(writes[d]) + 1 \/ First(e, j, k)
        BY <1>5
      <4> QED  BY <1>8, <2>1, <2>4, <4>1
    <3> QED  BY <2>1, <2>4, <3>1
  <2> QED  BY <1>5, <2>2, <2>3, <2>4
<1>11. FirstsLast'
  <2> SUFFICES ASSUME NEW e \in Device, NEW i, NEW k, First(e, i, k)'
               PROVE  Kept(k) \/ \A m \in Message : m.dev = e /\ Kept(m) => m.n < k.n
    BY <1>3 DEF FirstsLast
  <2>1. CASE First(e, i, k)
    BY <2>1 DEF Leading, FirstsLast
  <2>2. CASE e = d /\ k = w
    <3>1. \A m \in Message : Kept(m) => m \in sent
      BY <1>1, ConstantsAssumption DEF Kept, From, Message, Base, Copies, ThreadsSent
    <3> QED  BY <1>7, <2>2, <3>1
  <2> QED  BY <1>5, <2>1, <2>2
<1>12. StoredInLine'
  <2> SUFFICES ASSUME NEW i, NEW k, NEW m,
                      First(viewer, i, k)', i > stored[viewer], Lasting(m), m.dev = viewer
               PROVE  ~ (k.n < m.n)
    BY <1>2, <1>3 DEF StoredInLine
  <2>1. CASE First(viewer, i, k)
    BY <2>1 DEF Leading, StoredInLine
  <2>2. CASE viewer = d /\ k = w
    <3>1. m \in sent
      BY <1>1, LastingSent
    <3> QED  BY <1>6, <1>7, <2>2, <3>1
  <2> QED  BY <1>5, <2>1, <2>2, Me
<1>13. AnswersLast'
  <2> SUFFICES ASSUME NEW m \in sent', NEW k \in answers'[m]
               PROVE  \/ Lasting(k) \/ Refused("ownAdd", k)
                      \/ k.dev = m.dev /\ k.n < m.n
                      \/ k \in thread[me][partner] /\ m.dev # viewer /\ m \notin known
    BY <1>2, <1>3 DEF AnswersLast, Refused, me
  <2>1. CASE m = w
    BY <1>4, <2>1, SentAnswers
  <2>2. CASE m # w
    <3>1. m \in sent /\ m \in Message
      BY <1>1, <1>5, <2>2 DEF TypeOK
    <3>2. answers'[m] = answers[m]
      BY <1>1, <1>4, <2>2, <3>1 DEF SendMessage, ChatTypeOK
    <3> QED  BY <3>1, <3>2 DEF Leading, AnswersLast
  <2> QED  BY <2>1, <2>2
<1> QED  BY <1>9, <1>10, <1>11, <1>12, <1>13 DEF Leading

\* The copies are written in the order of the queue.
LEMMA MovedFirsts ==
  ASSUME Base, TypeOK', FirstsInLine, FirstsLast, NEW d \in Device, Moving(d)
  PROVE  FirstsInLine' /\ FirstsLast'
<1>1. TypeOK
  BY DEF Base, IInv
<1>2. ASSUME NEW e \in Device PROVE \E g \in {0, 1} : Moves(e, g)
  BY <1>1, FirstsMove
<1>3. ASSUME NEW e \in Device, NEW i, NEW j, NEW m, NEW k,
             First(e, i, m)', First(e, j, k)', i < j
      PROVE  m.n < k.n
  <2>1. PICK g \in {0, 1} : Moves(e, g)
    BY <1>2
  <2>2. First(e, i + g, m) /\ First(e, j + g, k) /\ i \in Nat /\ j \in Nat
    BY <1>3, <2>1 DEF Moves
  <2>3. i + g < j + g
    BY <1>3, <2>2
  <2> QED  BY <2>2, <2>3 DEF FirstsInLine
<1>4. \A m \in Message : Kept(m) => Kept(m)'
  <2>1. Next
    BY DEF Moving, Next
  <2> QED  BY <1>1, <2>1, NothingTaken, ConstantsAssumption DEF Kept, From, Message
<1>5. ASSUME NEW e \in Device, NEW i, NEW k, First(e, i, k)', ~ Kept(k)',
             NEW m \in Message, m.dev = e, Kept(m)'
      PROVE  m.n < k.n
  <2>1. PICK j : First(e, j, k) /\ j \in 1..Len(writes[e])
    <3>1. PICK g \in {0, 1} : Moves(e, g)
      BY <1>2
    <3> QED  BY <1>5, <3>1 DEF Moves, First
  <2>2. k \in Message
    BY <1>1, <2>1 DEF First, Base, Order, OwnMessages, TypeOK
  <2>3. ~ Kept(k)
    BY <1>4, <1>5, <2>2
  <2>4. CASE Kept(m)
    BY <1>5, <2>1, <2>3, <2>4 DEF FirstsLast
  <2>5. CASE ~ Kept(m)
    <3>1. Commit(d) /\ d = e /\ First(d, inflight[d] + 1, m)
      BY <1>5, <2>5, NewlyKept
    <3>2. inflight[d] \in Nat /\ j \in Nat
      BY <1>1, <2>1 DEF TypeOK
    <3>3. ~ (j \in 1..inflight[d])
      BY <2>1, <2>3, <3>1 DEF First, Base, IInv, Applied
    <3>4. j # inflight[d] + 1
      BY <1>5, <2>1, <3>1 DEF First
    <3>5. inflight[d] + 1 < j
      BY <2>1, <3>2, <3>3, <3>4
    <3> QED  BY <2>1, <3>1, <3>5 DEF FirstsInLine
  <2> QED  BY <2>4, <2>5
<1>6. FirstsInLine'
  BY <1>3 DEF FirstsInLine
<1>7. FirstsLast'
  BY <1>5 DEF FirstsLast
<1> QED  BY <1>6, <1>7

\* A document is written to the thread after all earlier ones of its device.
LEMMA CommittedLast ==
  ASSUME Base, FirstsLast, NEW d \in Device, Moving(d),
         NEW k \in thread'[me][partner], k \notin thread[me][partner],
         NEW m \in thread[me][partner], m.dev = k.dev
  PROVE  ~ (k.n < m.n)
<1>1. /\ inflight[d] + 1 \in 1..stored[d] /\ k.dev = d /\ k \in Message
      /\ \/ First(d, inflight[d] + 1, k) /\ From(k) = me /\ k.to = partner
         \/ Holding(d, 1, inflight[d] + 1, k) /\ From(k) = partner /\ k.to = me
  BY Me, CommittedInto
<1>2. /\ m \in Message /\ m.n \in Int
      /\ (From(m) = me /\ m.to = partner) \/ (From(m) = partner /\ m.to = me)
  BY Me, Between
<1>3. From(m) = From(k) /\ me # partner /\ k.n \in Int
  BY <1>1, Me DEF From, Message
<1>4. CASE First(d, inflight[d] + 1, k) /\ From(k) = me /\ k.to = partner
  <2>1. Kept(m) /\ ~ Kept(k)
    BY <1>2, <1>3, <1>4 DEF Kept
  <2>2. m.n < k.n
    BY <1>1, <1>2, <1>4, <2>1 DEF FirstsLast
  <2> QED  BY <1>2, <1>3, <2>2
<1>5. CASE Holding(d, 1, inflight[d] + 1, k) /\ From(k) = partner /\ k.to = me
  <2>1. Delivered(m) /\ ~ Delivered(k)
    BY <1>2, <1>3, <1>5 DEF Delivered
  <2>2. m.n < k.n
    BY <1>1, <1>2, <1>5, <2>1 DEF Base, Order, NotOvertaken
  <2> QED  BY <1>2, <1>3, <2>2
<1> QED  BY <1>1, <1>4, <1>5

LEMMA CarriedLeading ==
  ASSUME CInv, CInv', Leading, NEW d \in Device, Carrying(d) PROVE Leading'
<1>1. Base /\ TypeOK /\ TypeOK' /\ Cached /\ Base'
  BY DEF CInv, Screens, Base, IInv
<1>2. Moving(d) /\ sent' = sent /\ answers' = answers /\ Next
  BY CarryingIs
<1>3. \A m : Lasting(m) => Lasting(m)'
  BY <1>1, LastingCarried
<1>4. \/ known' = known
      \/ \E w : known' = known \cup {w} /\ w.dev = viewer
  <2>1. \/ known' = known
        \/ known' = known \cup {Head(writes[d]).msg} /\ Ack(d) /\ d = viewer
    BY CarryingKnown
  <2>2. Ack(d) => Head(writes[d]).msg.dev = d
    <3>1. inflight[d] \in Nat /\ stored[d] \in Nat /\ inflight[d] <= stored[d]
      BY <1>1 DEF TypeOK
    <3>2. Ack(d) => stored[d] > 0
      BY <3>1 DEF Ack
    <3>3. Ack(d) => Head(writes[d]) = writes[d][1] /\ 1 \in 1..Len(writes[d])
      BY <1>1, <3>2, OldestWrite
    <3> QED  BY <1>1, <3>3 DEF Base, Order, OwnMessages
  <2> QED  BY <2>1, <2>2
<1>5. thread[me][partner] \subseteq thread'[me][partner] /\ rejected \subseteq rejected'
  BY <1>1, <1>2, Me, NothingTaken
<1>6. KnownInLine'
  <2> SUFFICES ASSUME NEW m \in known', NEW k \in thread'[me][partner],
                      k.dev = m.dev, k.n < m.n, m.dev # viewer
               PROVE  k \in known'
    BY DEF KnownInLine, me
  <2>1. m \in known /\ m \in thread[me][partner]
    BY <1>1, <1>4 DEF Cached
  <2>2. CASE k \in thread[me][partner]
    BY <1>4, <2>1, <2>2 DEF Leading, KnownInLine
  <2>3. CASE k \notin thread[me][partner]
    BY <1>1, <1>2, <2>1, <2>3, CommittedLast DEF Leading
  <2> QED  BY <2>2, <2>3
<1>7. OwnThread'
  <2> SUFFICES ASSUME NEW k \in thread'[me][partner], k.dev = viewer PROVE Lasting(k)
    BY <1>3 DEF OwnThread, me
  <2>1. CASE k \in thread[me][partner]
    BY <2>1 DEF Leading, OwnThread
  <2>2. CASE k \notin thread[me][partner]
    <3>1. /\ inflight[d] + 1 \in 1..stored[d] /\ d = viewer
          /\ First(d, inflight[d] + 1, k) /\ k.to = partner
      BY <1>1, <1>2, <2>2, Me, CommittedInto DEF From, me
    <3>2. Waiting(k)
      BY <3>1 DEF Waiting, First
    <3> QED  BY <3>1, <3>2 DEF Lasting
  <2> QED  BY <2>1, <2>2
<1>8. FirstsInLine' /\ FirstsLast'
  BY <1>1, <1>2, MovedFirsts DEF Leading
<1>9. StoredInLine'
  <2> SUFFICES ASSUME NEW i, NEW k, NEW m, First(viewer, i, k)', i > stored'[viewer],
                      Lasting(m)', m.dev = viewer
               PROVE  ~ (k.n < m.n)
    BY DEF StoredInLine
  <2>1. stored[viewer] \in Nat /\ stored'[viewer] \in Nat
    BY <1>1, Me DEF TypeOK
  <2>2. PICK g \in {0, 1} :
          /\ Moves(viewer, g)
          /\ \/ stored[viewer] = stored'[viewer] + g
             \/ WriteLocally(d) /\ g = 0 /\ stored'[viewer] = stored[viewer] + 1
    BY <1>1, <1>2, Me, FirstsMove
  <2>3. First(viewer, i + g, k) /\ i \in Nat /\ i + g > stored[viewer]
    BY <2>1, <2>2 DEF Moves
  <2>4. \/ Lasting(m)
        \/ WriteLocally(d) /\ d = viewer /\ First(viewer, stored[viewer] + 1, m)
    BY <1>1, NewlyLasting
  <2>5. CASE Lasting(m)
    BY <2>3, <2>5 DEF Leading, StoredInLine
  <2>6. CASE WriteLocally(d) /\ d = viewer /\ First(viewer, stored[viewer] + 1, m)
    <3>1. stored'[viewer] = stored[viewer] + 1
      BY <1>1, <2>6 DEF WriteLocally, TypeOK
    <3>2. stored[viewer] + 1 < i + g
      BY <2>1, <2>2, <2>3, <3>1
    <3>3. m.n < k.n
      BY <2>3, <2>6, <3>2, Me DEF Leading, FirstsInLine
    <3>4. m \in Message /\ k \in Message
      BY <1>1, <2>3, <2>6, Me DEF First, Base, Order, OwnMessages, TypeOK
    <3>5. m.n \in Int /\ k.n \in Int
      BY <3>4 DEF Message
    <3> QED  BY <3>3, <3>5
  <2> QED  BY <2>4, <2>5, <2>6
<1>10. AnswersLast'
  BY <1>2, <1>3, <1>4, <1>5 DEF Leading, AnswersLast, Refused, me
<1> QED  BY <1>6, <1>7, <1>8, <1>9, <1>10 DEF Leading

LEMMA WatchLeading ==
  ASSUME Leading, Watch PROVE Leading'
<1>1. known' = known \cup thread[me][partner] /\ UNCHANGED <<vars, stamps>>
  BY DEF Watch
<1>2. UNCHANGED <<thread, writes, stored, rejected, sent, answers>>
  BY <1>1 DEF vars, backend, client, history, stamps
<1>3. \A m : Lasting(m)' <=> Lasting(m) \/ m \in thread[me][partner]
  BY <1>1, <1>2 DEF Lasting, Waiting, Refused
<1>4. \A d, i, m : (First(d, i, m)' <=> First(d, i, m)) /\ (Kept(m)' <=> Kept(m))
  BY <1>2 DEF First, Kept, From
<1>5. KnownInLine' /\ OwnThread'
  BY <1>1, <1>2, <1>3 DEF KnownInLine, OwnThread, me
<1>6. FirstsInLine' /\ FirstsLast' /\ StoredInLine'
  BY <1>2, <1>3, <1>4 DEF Leading, FirstsInLine, FirstsLast, StoredInLine, OwnThread
<1>7. AnswersLast'
  BY <1>2, <1>3 DEF Leading, AnswersLast, Refused
<1> QED  BY <1>5, <1>6, <1>7 DEF Leading

-----------------------------------------------------------------------------
(* What is told to a screen follows what it was told before.               *)

LEMMA NowLasting == ASSUME Base', NEW k, k \in Visible' PROVE Lasting(k)'
<1>1. Base' => (\A m : /\ m \in Visible => Lasting(m)
                       /\ Lasting(m) /\ m \notin Visible =>
                            m \notin known /\ m.dev = viewer /\ Refused("ownAdd", m)
                       /\ m \in Visible /\ Refused("ownAdd", m) => m \in known)'
  BY VisibleLasting, PTL
<1> QED  BY <1>1

\* A message becomes visible after those it follows and answers, or again.
LEMMA NewlyVisible ==
  ASSUME CInv, CInv', Leading,
         Watch \/ \E d \in Device : Carrying(d),
         NEW m, Lasting(m), NEW k, k \in Visible', k \notin Visible, Precedes(k, m)
  PROVE  Refused("ownAdd", k)
<1>1. Base /\ TypeOK /\ TypeOK' /\ Base' /\ Cached /\ m \in sent
  BY LastingSent DEF CInv, Screens, Base, IInv
<1>2. CASE Lasting(k)
  BY <1>1, <1>2, VisibleLasting
<1>3. CASE ~ Lasting(k) /\ ~ Refused("ownAdd", k)
  <2>2. Lasting(k)'
    BY <1>1, NowLasting
  <2>3. k.dev = m.dev /\ k.n < m.n
    <3>1. \/ Lasting(k) \/ Refused("ownAdd", k)
          \/ k.dev = m.dev /\ k.n < m.n
          \/ m.dev # viewer /\ m \notin known
      BY <1>1 DEF Precedes, Leading, AnswersLast
    <3> QED  BY <1>3, <3>1, LastingKnown
  <2>4. m.dev # viewer => m \in known
    BY LastingKnown
  <2>5. CASE Watch
    <3>1. known' = known \cup thread[me][partner] /\ UNCHANGED <<writes, stored, rejected>>
      BY <2>5 DEF Watch, vars, client, history
    <3>2. k \in thread[me][partner]
      BY <1>3, <2>2, <3>1 DEF Lasting, Waiting, Refused
    <3> QED  BY <1>3, <2>3, <2>4, <3>2 DEF Lasting, Leading, OwnThread, KnownInLine
  <2>6. ASSUME NEW d \in Device, Carrying(d) PROVE FALSE
    <3>1. CASE k.dev = viewer
      <4>1. WriteLocally(d) /\ d = viewer /\ First(viewer, stored[viewer] + 1, k)
        BY <1>1, <1>3, <2>2, <2>6, <3>1, NewlyLasting
      <4>2. stored[viewer] + 1 > stored[viewer]
        <5>1. stored[viewer] \in Nat
          BY <1>1, Me DEF TypeOK
        <5> QED  BY <5>1
      <4> QED  BY <2>3, <3>1, <4>1, <4>2 DEF Leading, StoredInLine
    <3>2. CASE k.dev # viewer
      <4>1. k \in known' /\ k \notin known
        BY <1>3, <2>2, <3>2 DEF Lasting
      <4>2. Ack(d) /\ d = viewer /\ k = Head(writes[d]).msg
        BY <2>6, <4>1, CarryingKnown
      <4>3. stored[d] > 0
        <5>1. inflight[d] \in Nat /\ stored[d] \in Nat /\ inflight[d] <= stored[d]
          BY <1>1, <2>6 DEF TypeOK
        <5> QED  BY <4>2, <5>1 DEF Ack
      <4>4. k.dev = d
        BY <1>1, <2>6, <4>2, <4>3, OldestWrite DEF Base, Order, OwnMessages
      <4> QED  BY <3>2, <4>2, <4>4
    <3> QED  BY <3>1, <3>2
  <2> QED  BY <2>5, <2>6
<1> QED  BY <1>2, <1>3

\* Steps that put no document on a screen.
LEMMA OrderKept ==
  ASSUME InOrder, time' = time, answers' = answers, rejected \subseteq rejected',
         \A c, q, i, m : Occurs(c, q, i, m)' => Occurs(c, q, i, m)
  PROVE  InOrder'
<1> SUFFICES ASSUME NEW c, NEW q, NEW i, NEW r, NEW j, NEW m, NEW k,
                    Occurs(c, q, i, m)', Occurs(c, r, j, k)', Ahead(q, i, r, j),
                    Precedes(k, m)'
             PROVE  time[m] < time[k] \/ Refused("ownAdd", k)'
  BY DEF InOrder, Ahead
<1>1. Occurs(c, q, i, m) /\ Occurs(c, r, j, k) /\ Precedes(k, m)
  BY DEF Precedes
<1> QED  BY <1>1 DEF InOrder, Refused

\* The documents of a snapshot are in order; none was refused that should be before.
LEMMA ToldInOrder ==
  ASSUME ChatTypeOK, Addressed, InOrder, NEW to, to \subseteq 1..Len(shown),
         NEW docs \in SUBSET Message, IsFiniteSet(docs),
         events' \in Told(to, docs), shown' = shown,
         time' = time, answers' = answers, rejected \subseteq rejected',
         \A c \in to : \A k \in docs : \A q, i, m :
           Occurs(c, q, i, m) /\ Precedes(k, m) => Refused("ownAdd", k)
  PROVE  InOrder'
<1>1. CASE events' = events
  <2>1. \A c, q, i, m : Occurs(c, q, i, m)' => Occurs(c, q, i, m)
    BY <1>1 DEF Occurs, Dispatched
  <2> QED  BY <2>1, OrderKept
<1>2. ASSUME NEW added \in Seq(Message), Appends(to, docs, added) PROVE InOrder'
  <2> SUFFICES ASSUME NEW c, NEW q, NEW i, NEW r, NEW j, NEW m, NEW k,
                      Occurs(c, q, i, m)', Occurs(c, r, j, k)', Ahead(q, i, r, j),
                      Precedes(k, m)'
               PROVE  time[m] < time[k] \/ Refused("ownAdd", k)'
    BY DEF InOrder, Ahead
  <2> DEFINE New(b, x, y) == c \in to /\ b = Len(events) + 1 /\ x \in 1..Len(added) /\ added[x] = y
  <2>1. \A b, x, y : Occurs(c, b, x, y)' <=> Occurs(c, b, x, y) \/ New(b, x, y)
    BY <1>2, Places DEF Appends
  <2>2. Precedes(k, m)
    BY DEF Precedes
  <2>3. CASE Occurs(c, q, i, m) /\ Occurs(c, r, j, k)
    BY <2>2, <2>3 DEF InOrder, Refused
  <2>4. CASE Occurs(c, q, i, m) /\ New(r, j, k)
    BY <1>2, <2>2, <2>4 DEF Appends, Refused
  <2>5. CASE New(q, i, m) /\ Occurs(c, r, j, k)
    <3>1. Len(events) \in Nat
      BY DEF ChatTypeOK
    <3>2. r = 0 \/ r \in 1..Len(events)
      BY <2>5 DEF Occurs, Dispatched
    <3>3. r \in Nat /\ r < Len(events) + 1 /\ q = Len(events) + 1
      BY <2>5, <3>1, <3>2
    <3> QED  BY <3>1, <3>3 DEF Ahead
  <2>6. CASE New(q, i, m) /\ New(r, j, k)
    <3>1. i \in 1..Len(added) /\ j \in 1..Len(added) /\ i < j
      <4>1. q = r /\ q \in Nat
        BY <2>6 DEF ChatTypeOK
      <4> QED  BY <2>6, <4>1 DEF Ahead
    <3> QED  BY <1>2, <2>6, <3>1 DEF Appends
  <2> HIDE DEF New
  <2> QED  BY <2>1, <2>3, <2>4, <2>5, <2>6
<1>3. events' = events \/ \E added \in Seq(Message) : Appends(to, docs, added)
  BY Tells
<1> QED  BY <1>1, <1>2, <1>3

\* A step after which the listeners hear of what has become visible.
LEMMA HearsInOrder ==
  ASSUME CInv, CInv', Leading, InOrder,
         Watch \/ \E d \in Device : Carrying(d),
         Hear, shown' = shown, time' = time, answers' = answers, rejected \subseteq rejected'
  PROVE  InOrder'
<1>1. ChatTypeOK /\ Addressed /\ Backing /\ listening \subseteq 1..Len(shown)
  BY DEF CInv, Screens, ChatTypeOK
<1>2. PICK docs : docs = Visible' \ Visible
  OBVIOUS
<1>3. (Base /\ Cached)' => (IsFiniteSet(Visible) /\ Visible \subseteq Message)'
  BY VisibleFinite, PTL
<1>4. docs \in SUBSET Message /\ IsFiniteSet(docs) /\ events' \in Told(listening, docs)
  BY <1>2, <1>3, FS_Difference DEF Hear, CInv, Screens
<1>5. ASSUME NEW c \in listening, NEW k \in docs, NEW q, NEW i, NEW m,
             Occurs(c, q, i, m), Precedes(k, m)
      PROVE  Refused("ownAdd", k)
  <2>1. Lasting(m)
    BY <1>1, <1>5, OccursLasting
  <2> QED  BY <1>2, <1>5, <2>1, NewlyVisible
<1> QED  BY <1>1, <1>4, <1>5, ToldInOrder

\* The places of a screen keep their order when a snapshot is handled.
LEMMA WasAhead ==
  ASSUME NEW n \in Nat, NEW k \in Nat, NEW i \in Nat \ {0}, NEW l \in Nat, NEW j \in Nat \ {0},
         Ahead(k, i, l, j)
  PROVE  Ahead(Was(n, k, i)[1], Was(n, k, i)[2], Was(n, l, j)[1], Was(n, l, j)[2])
<1>1. CASE k # 0
  <2>1. l # 0
    BY <1>1 DEF Ahead
  <2>2. /\ Was(n, k, i)[1] = k + 1 /\ Was(n, k, i)[2] = i
        /\ Was(n, l, j)[1] = l + 1 /\ Was(n, l, j)[2] = j
    BY <1>1, <2>1 DEF Was
  <2>3. Ahead(k + 1, i, l + 1, j)
    BY DEF Ahead
  <2> QED  BY <2>2, <2>3
<1>2. CASE k = 0 /\ l # 0
  <2>1. Was(n, k, i)[1] \in {0, 1} /\ Was(n, l, j)[1] = l + 1
    BY <1>2 DEF Was
  <2>2. Was(n, k, i)[1] < l + 1
    BY <1>2, <2>1
  <2> QED  BY <2>1, <2>2 DEF Ahead
<1>3. CASE k = 0 /\ l = 0
  <2>1. i < j
    BY <1>3 DEF Ahead
  <2>2. CASE i <= n /\ j <= n
    <3>1. /\ Was(n, k, i)[1] = 0 /\ Was(n, k, i)[2] = i
          /\ Was(n, l, j)[1] = 0 /\ Was(n, l, j)[2] = j
      BY <1>3, <2>2 DEF Was
    <3> QED  BY <2>1, <3>1 DEF Ahead
  <2>3. CASE i <= n /\ ~ (j <= n)
    <3>1. Was(n, k, i)[1] = 0 /\ Was(n, l, j)[1] = 1
      BY <1>3, <2>3 DEF Was
    <3> QED  BY <3>1 DEF Ahead
  <2>4. CASE ~ (i <= n)
    <3>1. ~ (j <= n)
      BY <2>1, <2>4
    <3>2. /\ Was(n, k, i)[1] = 1 /\ Was(n, k, i)[2] = i - n
          /\ Was(n, l, j)[1] = 1 /\ Was(n, l, j)[2] = j - n
      BY <1>3, <2>4, <3>1 DEF Was
    <3>3. i - n < j - n
      BY <2>1
    <3> QED  BY <3>2, <3>3 DEF Ahead
  <2> QED  BY <2>2, <2>3, <2>4
<1> QED  BY <1>1, <1>2, <1>3

LEMMA HandledInOrder ==
  ASSUME CInv, InOrder, HandleSnapshot PROVE InOrder'
<1>1. ChatTypeOK /\ Addressed
  BY DEF CInv, Screens
<1>2. UNCHANGED <<rejected, time, answers>>
  BY DEF HandleSnapshot, vars, history, stamps
<1> SUFFICES ASSUME NEW c, NEW q, NEW i, NEW r, NEW j, NEW m, NEW k,
                    Occurs(c, q, i, m)', Occurs(c, r, j, k)', Ahead(q, i, r, j),
                    Precedes(k, m)'
             PROVE  time[m] < time[k] \/ Refused("ownAdd", k)
  BY <1>2 DEF InOrder, Ahead, Refused
<1>3. PICK n \in Nat : \A b, x, y : Occurs(c, b, x, y)' =>
                         /\ b \in Nat /\ x \in Nat \ {0}
                         /\ Occurs(c, Was(n, b, x)[1], Was(n, b, x)[2], y)
  BY <1>1, HandledPlace
<1>4. q \in Nat /\ i \in Nat \ {0} /\ r \in Nat /\ j \in Nat \ {0}
  BY <1>3
<1>5. Ahead(Was(n, q, i)[1], Was(n, q, i)[2], Was(n, r, j)[1], Was(n, r, j)[2])
  BY <1>4, WasAhead
<1>6. Precedes(k, m)
  BY <1>2 DEF Precedes
<1> QED  BY <1>3, <1>5, <1>6 DEF InOrder

\* A new listener is told everything at once.
LEMMA ListenInOrder ==
  ASSUME CInv, InOrder, Listen PROVE InOrder'
<1>1. /\ ChatTypeOK /\ Addressed /\ NotYet /\ Cached /\ Base
      /\ UNCHANGED <<vars, stamps, shown>>
  BY DEF CInv, Screens, Listen
<1>2. UNCHANGED <<rejected, time, answers>>
  BY <1>1 DEF vars, history, stamps
<1>3. PICK c : c = CHOOSE k \in adding : \A l \in adding : k <= l
  OBVIOUS
<1>4. c \in adding /\ adding \subseteq 1..Len(shown)
  <2>1. adding # {} /\ adding \subseteq 1..Len(shown) /\ Len(shown) \in Nat
    BY <1>1 DEF ChatTypeOK, Listen
  <2>2. \E k \in adding : \A l \in adding : k <= l
    BY <2>1, LeastExists
  <2> QED  BY <1>3, <2>1, <2>2
<1>5. PICK docs, to : docs = Visible /\ to = {c}
  OBVIOUS
<1>6. /\ docs \in SUBSET Message /\ IsFiniteSet(docs) /\ to \subseteq 1..Len(shown)
      /\ events' \in Told(to, docs)
  BY <1>1, <1>3, <1>4, <1>5, VisibleFinite DEF Listen
<1>7. \A x \in to : \A q, i, m : ~ Occurs(x, q, i, m)
  BY <1>1, <1>4, <1>5 DEF NotYet
<1>8. \A x \in to : \A k \in docs : \A q, i, m :
        Occurs(x, q, i, m) /\ Precedes(k, m) => Refused("ownAdd", k)
  BY <1>7
<1>9. shown' = shown /\ time' = time /\ answers' = answers /\ rejected \subseteq rejected'
  BY <1>1, <1>2
<1>10. ChatTypeOK /\ Addressed /\ InOrder
  BY <1>1
<1> QED  BY ONLY <1>6, <1>8, <1>9, <1>10, ToldInOrder

\* A new message is on no screen yet.
LEMMA SentInOrder ==
  ASSUME CInv, InOrder, NEW d \in Device, NEW p \in User, SendMessage(d, p) PROVE InOrder'
<1>1. /\ ChatTypeOK /\ TypeOK /\ Base /\ Backing /\ Cached
      /\ Send(d, p) /\ UNCHANGED chatVars
  BY DEF CInv, Screens, Base, IInv, SendMessage
<1>2. PICK w : w = [dev |-> d, to |-> p, n |-> nsent[d] + 1]
  OBVIOUS
<1>3. w \notin sent
  BY <1>1, <1>2, SendFirsts
<1>4. \A m \in Message : m # w => time'[m] = time[m] /\ answers'[m] = answers[m]
  BY <1>1, <1>2 DEF SendMessage, ChatTypeOK
<1>5. \A c, q, i, m : Occurs(c, q, i, m)' <=> Occurs(c, q, i, m)
  BY <1>1 DEF chatVars, screens, Occurs, Dispatched
<1>6. rejected' = rejected
  BY <1>1 DEF Send
<1> SUFFICES ASSUME NEW c, NEW q, NEW i, NEW r, NEW j, NEW m, NEW k,
                    Occurs(c, q, i, m)', Occurs(c, r, j, k)', Ahead(q, i, r, j),
                    Precedes(k, m)'
             PROVE  time'[m] < time'[k] \/ Refused("ownAdd", k)
  BY <1>6 DEF InOrder, Ahead, Refused
<1>7. m \in sent /\ m \in Message /\ k \in sent /\ k \in Message
  <2>1. Lasting(m) /\ Lasting(k)
    BY <1>1, <1>5, OccursLasting
  <2> QED  BY <1>1, <2>1, LastingSent
<1>8. time'[m] = time[m] /\ time'[k] = time[k] /\ answers'[m] = answers[m]
  BY <1>3, <1>4, <1>7
<1>9. Precedes(k, m)
  BY <1>8 DEF Precedes
<1> QED  BY <1>5, <1>8, <1>9 DEF InOrder

\* A kill takes the screens of the device.
LEMMA RelaunchedInOrder ==
  ASSUME CInv, InOrder, NEW d \in Device, Relaunch(d) PROVE InOrder'
<1>1. time' = time /\ answers' = answers /\ rejected' = rejected
  BY DEF Relaunch, stamps, Kill
<1>2. CASE d # viewer
  <2>1. shown' = shown /\ events' = events
    BY <1>2 DEF Relaunch, chatVars, screens
  <2>2. \A c, q, i, m : Occurs(c, q, i, m)' => Occurs(c, q, i, m)
    BY <2>1 DEF Occurs, Dispatched
  <2> QED  BY <1>1, <2>2, OrderKept
<1>3. CASE d = viewer
  <2>1. PICK z : z = << >>
    OBVIOUS
  <2>2. Len(z) = 0 /\ shown' = z /\ events' = z
    BY <1>3, <2>1 DEF Relaunch
  <2>3. \A c, q, i, m : ~ Occurs(c, q, i, m)'
    BY <2>2 DEF Occurs, Dispatched
  <2> QED  BY <1>1, <2>3, OrderKept
<1> QED  BY <1>2, <1>3

-----------------------------------------------------------------------------
OInv == CInv /\ Leading /\ InOrder

LEMMA InitInOrder == ChatInit => OInv
<1> SUFFICES ASSUME ChatInit PROVE OInv
  OBVIOUS
<1>1. CInv
  BY InitScreens
<1>2. PICK z : z = << >>
  OBVIOUS
<1>3. Len(z) = 0 /\ events = z /\ shown = z
  BY <1>2 DEF ChatInit
<1>4. \A c, q, i, m : ~ Occurs(c, q, i, m)
  BY <1>3 DEF Occurs, Dispatched
<1>5. /\ known = {} /\ sent = {} /\ thread[me][partner] = {}
      /\ \A d \in Device : writes[d] = z
  BY <1>2, Me DEF ChatInit, Init
<1>6. \A d \in Device : \A i, m : ~ First(d, i, m)
  BY <1>3, <1>5 DEF First
<1>7. Leading
  BY <1>5, <1>6, Me DEF Leading, KnownInLine, OwnThread, FirstsInLine, FirstsLast,
               StoredInLine, AnswersLast
<1> QED  BY <1>1, <1>4, <1>7 DEF OInv, InOrder

LEMMA NextInOrder ==
  ASSUME PartnerHasOneDevice, OInv, [ChatNext]_allVars PROVE OInv'
<1>1. CInv /\ CInv' /\ Leading /\ InOrder
  BY NextScreens DEF OInv
<1>2. ASSUME UNCHANGED <<vars, stamps, known, shown, events>> PROVE OInv'
  <2>1. UNCHANGED <<rejected, time, answers>>
    BY <1>2 DEF vars, history, stamps
  <2>2. \A c, q, i, m : Occurs(c, q, i, m)' => Occurs(c, q, i, m)
    BY <1>2 DEF Occurs, Dispatched
  <2>3. InOrder' /\ Leading'
    BY <1>1, <1>2, <2>1, <2>2, OrderKept, SameLeading
  <2> QED  BY <1>1, <2>3 DEF OInv
<1>3. CASE UNCHANGED allVars
  BY <1>2, <1>3 DEF allVars, chatVars, screens
<1>4. ASSUME NEW d \in Device, NEW p \in User, SendMessage(d, p) PROVE OInv'
  BY <1>1, <1>4, SendLeading, SentInOrder DEF OInv
<1>5. ASSUME NEW d \in Device, Upload(d) \/ Acknowledge(d) PROVE OInv'
  <2>1. Carrying(d) /\ Hear /\ shown' = shown
    BY <1>5 DEF Carrying, Upload, Acknowledge, screens
  <2>2. time' = time /\ answers' = answers /\ Next
    BY <2>1, CarryingIs
  <2>3. rejected \subseteq rejected'
    BY <1>1, <2>2, NothingTaken DEF CInv, Base, IInv
  <2>4. InOrder'
    BY <1>1, <2>1, <2>2, <2>3, HearsInOrder
  <2> QED  BY <1>1, <2>1, <2>4, CarriedLeading DEF OInv
<1>6. ASSUME NEW d \in Device, Relaunch(d) PROVE OInv'
  <2>1. Carrying(d)
    BY <1>6 DEF Carrying
  <2> QED  BY <1>1, <1>6, <2>1, CarriedLeading, RelaunchedInOrder DEF OInv
<1>7. CASE OpenChat
  <2>1. UNCHANGED <<vars, stamps, known>>
    BY <1>7 DEF OpenChat
  <2>2. UNCHANGED <<rejected, time, answers>>
    BY <2>1 DEF vars, history, stamps
  <2>3. \A c, q, i, m : Occurs(c, q, i, m)' => Occurs(c, q, i, m)
    BY <1>1, <1>7, OpenedPlaces DEF CInv, Screens
  <2>4. InOrder' /\ Leading'
    BY <1>1, <2>1, <2>2, <2>3, OrderKept, SameLeading
  <2> QED  BY <1>1, <2>4 DEF OInv
<1>8. CASE CloseChat \/ RejectListen
  BY <1>2, <1>8 DEF CloseChat, RejectListen, screens
<1>9. CASE HandleSnapshot
  <2>1. UNCHANGED <<vars, stamps, known>>
    BY <1>9 DEF HandleSnapshot
  <2> QED  BY <1>1, <1>9, <2>1, HandledInOrder, SameLeading DEF OInv
<1>10. CASE Listen
  <2>1. UNCHANGED <<vars, stamps, known>>
    BY <1>10 DEF Listen
  <2> QED  BY <1>1, <1>10, <2>1, ListenInOrder, SameLeading DEF OInv
<1>11. CASE Watch
  <2>1. Hear /\ shown' = shown /\ UNCHANGED <<vars, stamps>>
    BY <1>11 DEF Watch, screens
  <2>2. UNCHANGED <<rejected, time, answers>>
    BY <2>1 DEF vars, history, stamps
  <2>3. InOrder'
    BY <1>1, <1>11, <2>1, <2>2, HearsInOrder
  <2> QED  BY <1>1, <1>11, <2>3, WatchLeading DEF OInv
<1> QED
  BY <1>3, <1>4, <1>5, <1>6, <1>7, <1>8, <1>9, <1>10, <1>11 DEF ChatNext

-----------------------------------------------------------------------------
(***************************************************************************)
(* The latest-message documents, which both users overwrite.  A document   *)
(* is abreast of a message m when it shows none that was over before m was *)
(* sent.  A message that is over stays over (OverStays) and the backend    *)
(* applies writes of messages under way only, so that a document stays     *)
(* abreast (StaysAbreast).  The write of m brings it abreast               *)
(* (FlightAbreast).  Hence a message of this launch is refused, or on its  *)
(* way, or its documents are abreast of it (AllAbreast).                   *)
(***************************************************************************)

\* What was over when a message was sent is sent, and over.
FinishedOver == \A m \in sent : \A k \in finished[m] : k \in sent /\ ~ Unfinished(k)

\* The document shows nothing that was over when m was sent.
Abreast(step, m) == recent[Owner(step, m)][Peer(step, m)] \notin finished[m]

\* The write of the document is in the queue.
InQueue(step, m) == \E i : Queued(m.dev, i, step, m)

FlightAbreast ==
  \A d \in Device : \A step, i, m :
    IsRecent(step) /\ Queued(d, i, step, m) /\ i <= inflight[d] => Abreast(step, m)

AllAbreast ==
  \A step : \A m \in sent : IsRecent(step) /\ m.n > launched[m.dev] =>
    Refused(step, m) \/ Held(m.dev, m) \/ InQueue(step, m) \/ Abreast(step, m)

FInv == FinishedOver /\ FlightAbreast /\ AllAbreast

\* What a device holds or has queued for a message is to be done.
LEMMA UnfinishedIs ==
  ASSUME NEW d, NEW m, d = m.dev
  PROVE  /\ Held(d, m) => Unfinished(m)
         /\ \A i, step : Queued(d, i, step, m) => Unfinished(m)
BY DEF Held, Holding, Queued, Unfinished

-----------------------------------------------------------------------------
(* The steps of a device, on its writes and its handlers.                  *)

\* The number of a message is one its device has reached.
LEMMA SentNumber ==
  ASSUME TypeOK, Numbered, NEW m \in sent
  PROVE  m.dev \in Device /\ m.n \in Int /\ nsent[m.dev] \in Int /\ m.n <= nsent[m.dev]
<1>1. m.dev \in Device /\ m.n \in 1..MaxSends
  BY DEF TypeOK, Message
<1>2. nsent[m.dev] \in 0..MaxSends
  BY <1>1 DEF TypeOK
<1> QED  BY <1>1, <1>2, ConstantsAssumption DEF Numbered

\* Nothing new in the two queues.
LEMMA SameUnfinished ==
  ASSUME NEW m, writes' = writes, main' = main
  PROVE  Unfinished(m)' => Unfinished(m)
BY DEF Unfinished

\* A message that is over stays over.
LEMMA OverStays ==
  ASSUME IInv, Order, TypeOK', [Next]_vars, NEW m \in sent, Unfinished(m)'
  PROVE  Unfinished(m)
<1>1. TypeOK /\ OwnMessages /\ m.dev \in Device
  BY DEF IInv, Order, TypeOK, Message
<1>2. CASE writes' = writes /\ main' = main
  BY <1>2, SameUnfinished
<1>3. ASSUME NEW d \in Device, NEW p \in User, Send(d, p) PROVE Unfinished(m)
  <2>1. PICK new : new = [dev |-> d, to |-> p, n |-> nsent[d] + 1]
    OBVIOUS
  <2>2. /\ writes' = [writes EXCEPT ![d] = Append(@, FirstWrite(new))] /\ main' = main
    BY <1>3, <2>1 DEF Send
  <2>3. m # new
    <3>1. m.n <= nsent[m.dev] /\ m.n \in Int /\ nsent[m.dev] \in Int
      BY <1>1, SentNumber DEF IInv
    <3> QED  BY <2>1, <3>1
  <2>4. FirstWrite(new).msg = new
    BY DEF FirstWrite, Mutation
  <2>5. ASSUME NEW i \in 1..Len(writes'[m.dev]), writes'[m.dev][i].msg = m
        PROVE  \E j \in 1..Len(writes[m.dev]) : writes[m.dev][j].msg = m
    <3>1. CASE m.dev # d
      BY <1>1, <2>2, <2>5, <3>1 DEF TypeOK
    <3>2. CASE m.dev = d
      <4>1. PICK w : w = FirstWrite(new)
        OBVIOUS
      <4>2. writes'[d] = Append(writes[d], w) /\ writes[d] \in Seq(Write)
        BY <1>1, <2>2, <4>1 DEF TypeOK
      <4>3. i \in 1..Len(writes[d]) \/ writes'[d][i] = w
        BY <2>5, <3>2, <4>2
      <4>4. i \in 1..Len(writes[d]) => writes'[d][i] = writes[d][i]
        BY <4>2
      <4> QED  BY <2>3, <2>4, <2>5, <3>2, <4>1, <4>3, <4>4
    <3> QED  BY <3>1, <3>2
  <2> QED  BY <2>2, <2>5 DEF Unfinished
<1>4. ASSUME NEW d \in Device, Mirror(d) PROVE Unfinished(m)
  <2>1. PICK L, M : L = Len(writes[d]) /\ M = Len(main[d])
    OBVIOUS
  <2>2. L \in Nat /\ M \in Nat
    BY <1>1, <2>1, LengthsAreNat
  <2>3. PICK k : k = Head(main[d]).msg
    OBVIOUS
  <2>4. /\ Len(writes'[d]) = L + 3
        /\ \A i \in 1..L : writes'[d][i] = writes[d][i]
        /\ writes'[d][L + 1].msg = k /\ writes'[d][L + 2].msg = k /\ writes'[d][L + 3].msg = k
    BY <1>1, <1>4, <2>1, <2>3, MirrorAppends
  <2>5. /\ main[d] # << >> /\ main'[d] = Tail(main[d]) /\ Head(main[d]).step = "ownAdd"
        /\ \A e \in Device : e # d => main'[e] = main[e] /\ writes'[e] = writes[e]
    BY <1>1, <1>4 DEF Mirror, TypeOK
  <2>6. /\ main[d][1].msg = k /\ main[d][1].step = "ownAdd" /\ 1 \in 1..M
        /\ Len(main'[d]) = M - 1
        /\ \A i \in 1..(M - 1) : main'[d][i] = main[d][i + 1]
    BY <1>1, <2>1, <2>3, <2>5, NextHandler
  <2>7. CASE m.dev # d
    BY <1>1, <2>5, <2>7 DEF Unfinished
  <2>8. CASE m.dev = d
    <3>1. CASE m = k
      BY <2>1, <2>6, <2>8, <3>1 DEF Unfinished
    <3>2. CASE m # k
      <4>1. ASSUME NEW i \in 1..Len(writes'[d]), writes'[d][i].msg = m PROVE Unfinished(m)
        <5>1. i \in 1..L \/ i = L + 1 \/ i = L + 2 \/ i = L + 3
          BY <2>2, <2>4
        <5>2. i \in 1..L
          BY <2>4, <3>2, <4>1, <5>1
        <5> QED  BY <2>1, <2>4, <2>8, <4>1, <5>2 DEF Unfinished
      <4>2. ASSUME NEW i \in 1..Len(main'[d]), main'[d][i].msg = m, main'[d][i].step = "ownAdd"
            PROVE  Unfinished(m)
        <5>1. i + 1 \in 1..M /\ main'[d][i] = main[d][i + 1]
          BY <2>2, <2>6
        <5> QED  BY <2>1, <2>8, <4>2, <5>1 DEF Unfinished
      <4> QED  BY <2>8, <4>1, <4>2 DEF Unfinished
    <3> QED  BY <3>1, <3>2
  <2> QED  BY <2>7, <2>8
<1>5. ASSUME NEW d \in Device, UploadDone(d) PROVE Unfinished(m)
  <2>1. /\ writes' = writes /\ main[d] # << >> /\ main'[d] = Tail(main[d])
        /\ \A e \in Device : e # d => main'[e] = main[e]
    BY <1>1, <1>5 DEF UploadDone, TypeOK
  <2>2. /\ Len(main'[d]) = Len(main[d]) - 1 /\ Len(main[d]) \in Nat
        /\ \A i \in 1..(Len(main[d]) - 1) : main'[d][i] = main[d][i + 1]
    BY <1>1, <2>1, NextHandler, LengthsAreNat
  <2>3. ASSUME NEW i \in 1..Len(main'[m.dev]), main'[m.dev][i].msg = m,
               main'[m.dev][i].step = "ownAdd"
        PROVE  Unfinished(m)
    <3>1. CASE m.dev # d
      BY <1>1, <2>1, <2>3, <3>1 DEF Unfinished
    <3>2. CASE m.dev = d
      <4>1. i + 1 \in 1..Len(main[d]) /\ main'[d][i] = main[d][i + 1]
        BY <2>2, <3>2
      <4> QED  BY <2>3, <3>2, <4>1 DEF Unfinished
    <3> QED  BY <3>1, <3>2
  <2> QED  BY <2>1, <2>3 DEF Unfinished
<1>6. ASSUME NEW d \in Device, NEW ok \in BOOLEAN, stored[d] > 0,
             writes' = [writes EXCEPT ![d] = Tail(@)],
             main' = [main EXCEPT ![d] = Notify(@, Head(writes[d]), ok)]
      PROVE  Unfinished(m)
  <2>1. PICK w, c : w = Head(writes[d]) /\ c = [step |-> w.step, msg |-> w.msg, ok |-> ok]
    OBVIOUS
  <2>2. /\ w = writes[d][1] /\ 1 \in 1..Len(writes[d])
        /\ writes'[d] = Tail(writes[d]) /\ Len(writes[d]) \in Nat
        /\ Len(writes'[d]) = Len(writes[d]) - 1
        /\ \A i \in 1..(Len(writes[d]) - 1) : writes'[d][i] = writes[d][i + 1]
        /\ \A e \in Device : e # d => writes'[e] = writes[e] /\ main'[e] = main[e]
    <3>1. writes'[d] = Tail(writes[d]) /\ Len(writes[d]) \in Nat
          /\ \A e \in Device : e # d => writes'[e] = writes[e] /\ main'[e] = main[e]
      BY <1>1, <1>6, LengthsAreNat DEF TypeOK
    <3> QED  BY <1>1, <1>6, <2>1, <3>1, OldestWrite
  <2>3. main'[d] = Append(main[d], c) \/ main'[d] = main[d]
    BY <1>1, <1>6, <2>1 DEF TypeOK, Notify
  <2>4. ASSUME NEW i \in 1..Len(writes'[m.dev]), writes'[m.dev][i].msg = m
        PROVE  Unfinished(m)
    <3>1. CASE m.dev # d
      BY <1>1, <2>2, <2>4, <3>1 DEF Unfinished
    <3>2. CASE m.dev = d
      <4>1. PICK L \in Nat : L = Len(writes[d])
        BY <2>2
      <4>2. i \in 1..(L - 1)
        BY <2>2, <3>2, <4>1
      <4>3. i + 1 \in 1..L /\ writes'[d][i] = writes[d][i + 1]
        BY <2>2, <4>1, <4>2
      <4> QED  BY <2>4, <3>2, <4>1, <4>3 DEF Unfinished
    <3> QED  BY <3>1, <3>2
  <2>5. ASSUME NEW i \in 1..Len(main'[m.dev]), main'[m.dev][i].msg = m,
               main'[m.dev][i].step = "ownAdd"
        PROVE  Unfinished(m)
    <3>1. CASE m.dev # d \/ main'[d] = main[d]
      BY <1>1, <2>2, <2>5, <3>1 DEF Unfinished
    <3>2. CASE m.dev = d /\ main'[d] = Append(main[d], c)
      <4>1. main[d] \in Seq(Completion)
        BY <1>1 DEF TypeOK
      <4>2. (i \in 1..Len(main[d]) /\ main'[d][i] = main[d][i]) \/ main'[d][i] = c
        BY <2>5, <3>2, <4>1
      <4>3. CASE i \in 1..Len(main[d]) /\ main'[d][i] = main[d][i]
        BY <2>5, <3>2, <4>3 DEF Unfinished
      <4>4. CASE main'[d][i] = c
        <5>1. w.msg = m
          BY <2>1, <2>5, <3>2, <4>4
        <5> QED  BY <2>2, <3>2, <5>1 DEF Unfinished
      <4> QED  BY <4>2, <4>3, <4>4
    <3> QED  BY <2>3, <3>1, <3>2
  <2> QED  BY <2>4, <2>5 DEF Unfinished
<1>7. ASSUME NEW d \in Device, Ack(d) PROVE Unfinished(m)
  <2>1. stored[d] > 0
    BY <1>1, <1>7 DEF Ack, TypeOK
  <2> QED  BY <1>6, <1>7, <2>1 DEF Ack
<1>8. ASSUME NEW d \in Device, Reject(d) PROVE Unfinished(m)
  BY <1>6, <1>8 DEF Reject
<1>9. ASSUME NEW d \in Device, Kill(d) PROVE Unfinished(m)
  <2>1. /\ writes'[d] = Restored(writes[d], stored[d]) /\ main'[d] = << >>
        /\ \A e \in Device : e # d => writes'[e] = writes[e] /\ main'[e] = main[e]
        /\ writes[d] \in Seq(Write) /\ stored[d] \in Nat /\ stored[d] <= Len(writes[d])
        /\ Len(writes[d]) \in Nat
    BY <1>1, <1>9 DEF Kill, TypeOK
  <2>2. CASE m.dev # d
    BY <1>1, <2>1, <2>2 DEF Unfinished
  <2>3. CASE m.dev = d
    <3>1. Len(writes'[d]) = stored[d] /\ Len(main'[d]) = 0
      BY <2>1, RestoredType
    <3>2. PICK i \in 1..stored[d] : writes'[d][i].msg = m
      BY <2>3, <3>1 DEF Unfinished
    <3>3. i \in 1..Len(writes[d]) /\ writes[d][i] \in Write
      BY <2>1
    <3>4. writes[d][i].msg = m
      BY <2>1, <3>2, <3>3 DEF Restored, Write
    <3> QED  BY <2>3, <3>3, <3>4 DEF Unfinished
  <2> QED  BY <2>2, <2>3
<1>10. ASSUME NEW d \in Device, NEW p \in User,
              Type(d, p) \/ WriteLocally(d) \/ Commit(d) \/ Disconnect(d)
       PROVE  Unfinished(m)
  BY <1>2, <1>10 DEF Type, WriteLocally, Commit, Disconnect
<1>11. CASE UNCHANGED vars
  BY <1>2, <1>11 DEF vars, client
<1> QED
  BY <1>3, <1>4, <1>5, <1>7, <1>8, <1>9, <1>10, <1>11, ConstantsAssumption DEF Next

\* What waits for a handler of a device waits on, or the handler runs and issues the
\* writes of both documents.
LEMMA HeldGoesOn ==
  ASSUME IInv, Order, TypeOK', [Next]_vars, NEW m \in sent, Held(m.dev, m),
         m.n > launched'[m.dev]
  PROVE  \/ Held(m.dev, m)'
         \/ InQueue("ownRecent", m)' /\ InQueue("peerRecent", m)'
<1>1. TypeOK /\ OwnMessages /\ m.dev \in Device
  BY DEF IInv, Order, TypeOK, Message
<1>2. PICK s, i : s # 1 /\ Holding(m.dev, s, i, m)
  BY DEF Held
<1>3. PICK L, M : L = Len(writes[m.dev]) /\ M = Len(main[m.dev])
  OBVIOUS
<1>4. L \in Nat /\ M \in Nat
  BY <1>1, <1>3, LengthsAreNat
<1>5. \/ s = 2 /\ i \in 1..M /\ main[m.dev][i].step = "ownAdd" /\ main[m.dev][i].msg = m
      \/ /\ s = 3 /\ i \in 1..L /\ writes[m.dev][i].step = "ownAdd"
         /\ writes[m.dev][i].cb /\ writes[m.dev][i].msg = m
  BY <1>2, <1>3 DEF Holding
<1>6. CASE writes'[m.dev] = writes[m.dev] /\ main'[m.dev] = main[m.dev]
  BY <1>6 DEF Held, Holding
<1>7. ASSUME NEW d \in Device, NEW p \in User, Send(d, p), m.dev = d PROVE Held(m.dev, m)'
  <2>1. PICK w : w = FirstWrite([dev |-> d, to |-> p, n |-> nsent[d] + 1])
    OBVIOUS
  <2>2. writes'[d] = Append(writes[d], w) /\ writes[d] \in Seq(Write) /\ main' = main
    BY <1>1, <1>7, <2>1 DEF Send, TypeOK
  <2>3. \A j \in 1..L : j \in 1..Len(writes'[d]) /\ writes'[d][j] = writes[d][j]
    BY <1>3, <1>4, <1>7, <2>2
  <2>4. Holding(d, s, i, m)'
    BY <1>3, <1>5, <1>7, <2>2, <2>3 DEF Holding
  <2> QED  BY <1>2, <1>7, <2>4 DEF Held
<1>8. ASSUME NEW d \in Device, Mirror(d), m.dev = d
      PROVE  \/ Held(m.dev, m)'
             \/ InQueue("ownRecent", m)' /\ InQueue("peerRecent", m)'
  <2>1. PICK k : k = Head(main[d]).msg
    OBVIOUS
  <2>2. /\ Len(writes'[d]) = L + 3
        /\ \A j \in 1..L : writes'[d][j] = writes[d][j]
        /\ writes'[d][L + 2].msg = k /\ writes'[d][L + 3].msg = k
        /\ writes'[d][L + 2].step = "ownRecent" /\ writes'[d][L + 3].step = "peerRecent"
    BY <1>1, <1>3, <1>8, <2>1, MirrorAppends
  <2>3. /\ main[d][1].msg = k /\ Len(main'[d]) = M - 1
        /\ \A j \in 1..(M - 1) : main'[d][j] = main[d][j + 1]
    <3>1. main[d] # << >> /\ main'[d] = Tail(main[d])
      BY <1>1, <1>8 DEF Mirror, TypeOK
    <3> QED  BY <1>1, <1>3, <1>8, <2>1, <3>1, NextHandler
  <2>4. CASE s = 3
    <3>1. i \in 1..L /\ i \in 1..(L + 3)
      BY <1>4, <1>5, <2>4
    <3>2. Holding(d, 3, i, m)'
      BY <1>5, <1>8, <2>2, <2>4, <3>1 DEF Holding
    <3> QED  BY <1>8, <3>2 DEF Held
  <2>5. CASE s = 2 /\ i = 1
    <3>1. k = m /\ L + 2 \in 1..(L + 3) /\ L + 3 \in 1..(L + 3)
      BY <1>4, <1>5, <1>8, <2>3, <2>5
    <3>2. Queued(d, L + 2, "ownRecent", m)' /\ Queued(d, L + 3, "peerRecent", m)'
      BY <2>2, <3>1 DEF Queued
    <3> QED  BY <1>8, <3>2 DEF InQueue
  <2>6. CASE s = 2 /\ i # 1
    <3>1. i \in 1..M
      BY <1>5, <2>6
    <3>2. i - 1 \in 1..(M - 1) /\ (i - 1) + 1 = i
      BY <1>4, <2>6, <3>1
    <3>3. main'[d][i - 1] = main[d][i]
      BY <2>3, <3>2
    <3>4. Holding(d, 2, i - 1, m)'
      BY <1>5, <1>8, <2>3, <2>6, <3>2, <3>3 DEF Holding
    <3> QED  BY <1>8, <3>4 DEF Held
  <2> QED  BY <1>5, <2>4, <2>5, <2>6
<1>9. ASSUME NEW d \in Device, UploadDone(d), m.dev = d PROVE Held(m.dev, m)'
  <2>1. writes' = writes /\ main[d] # << >> /\ main'[d] = Tail(main[d])
        /\ Head(main[d]).step = "peerAdd"
    BY <1>1, <1>9 DEF UploadDone, TypeOK
  <2>2. /\ main[d][1].step = "peerAdd" /\ Len(main'[d]) = M - 1
        /\ \A j \in 1..(M - 1) : main'[d][j] = main[d][j + 1]
    BY <1>1, <1>3, <1>9, <2>1, NextHandler
  <2>3. CASE s = 3
    <3>1. Holding(d, 3, i, m)'
      BY <1>3, <1>5, <1>9, <2>1, <2>3 DEF Holding
    <3> QED  BY <1>9, <3>1 DEF Held
  <2>4. CASE s = 2
    <3>1. i \in 1..M /\ i # 1
      BY <1>5, <1>9, <2>2, <2>4
    <3>2. i - 1 \in 1..(M - 1) /\ (i - 1) + 1 = i
      BY <1>4, <3>1
    <3>3. main'[d][i - 1] = main[d][i]
      BY <2>2, <3>2
    <3>4. Holding(d, 2, i - 1, m)'
      BY <1>5, <1>9, <2>2, <2>4, <3>2, <3>3 DEF Holding
    <3> QED  BY <1>9, <3>4 DEF Held
  <2> QED  BY <1>5, <2>3, <2>4
<1>10. ASSUME NEW d \in Device, NEW ok \in BOOLEAN, stored[d] > 0, m.dev = d,
              writes' = [writes EXCEPT ![d] = Tail(@)],
              main' = [main EXCEPT ![d] = Notify(@, Head(writes[d]), ok)]
       PROVE  Held(m.dev, m)'
  <2>1. PICK w, c : w = Head(writes[d]) /\ c = [step |-> w.step, msg |-> w.msg, ok |-> ok]
    OBVIOUS
  <2>2. /\ w = writes[d][1] /\ w \in Write /\ Len(writes'[d]) = L - 1
        /\ \A j \in 1..(L - 1) : writes'[d][j] = writes[d][j + 1]
    <3>1. writes'[d] = Tail(writes[d])
      BY <1>1, <1>10 DEF TypeOK
    <3> QED  BY <1>1, <1>3, <1>10, <2>1, <3>1, OldestWrite
  <2>3. /\ \A j \in 1..M : main'[d][j] = main[d][j] /\ j \in 1..Len(main'[d])
        /\ w.cb => M + 1 \in 1..Len(main'[d]) /\ main'[d][M + 1] = c
    <3>1. /\ main'[d] = IF w.cb THEN Append(main[d], c) ELSE main[d]
          /\ main[d] \in Seq(Completion)
      BY <1>1, <1>10, <2>1 DEF TypeOK, Notify
    <3>2. CASE w.cb
      <4>1. main'[d] = Append(main[d], c) /\ main[d] \in Seq(Completion) /\ M = Len(main[d])
        BY <1>3, <1>10, <3>1, <3>2
      <4>2. /\ Len(main'[d]) = M + 1 /\ main'[d][M + 1] = c
            /\ \A j \in 1..M : main'[d][j] = main[d][j]
        BY ONLY <4>1, <1>4
      <4> QED  BY <1>4, <4>2
    <3>3. CASE ~ w.cb
      BY <1>3, <1>10, <3>1, <3>3
    <3> QED  BY <3>2, <3>3
  <2>4. CASE s = 2
    <3>1. Holding(d, 2, i, m)'
      BY <1>5, <1>10, <2>3, <2>4 DEF Holding
    <3> QED  BY <1>10, <3>1 DEF Held
  <2>5. CASE s = 3 /\ i = 1
    <3>1. w.cb /\ c.step = "ownAdd" /\ c.msg = m
      BY <1>5, <1>10, <2>1, <2>2, <2>5
    <3>2. Holding(d, 2, M + 1, m)'
      BY <2>3, <3>1 DEF Holding
    <3> QED  BY <1>10, <3>2 DEF Held
  <2>6. CASE s = 3 /\ i # 1
    <3>1. /\ i \in 1..L /\ writes[d][i].step = "ownAdd"
          /\ writes[d][i].cb /\ writes[d][i].msg = m
      BY <1>5, <1>10, <2>6
    <3>2. i - 1 \in 1..(L - 1) /\ (i - 1) + 1 = i
      BY <1>4, <2>6, <3>1
    <3>3. writes'[d][i - 1] = writes[d][i] /\ i - 1 \in 1..Len(writes'[d])
      BY <2>2, <3>2
    <3>4. Holding(d, 3, i - 1, m)'
      BY <3>1, <3>3 DEF Holding
    <3> QED  BY <1>10, <3>4 DEF Held
  <2> QED  BY <1>5, <2>4, <2>5, <2>6
<1>11. ASSUME NEW d \in Device, Ack(d), m.dev = d PROVE Held(m.dev, m)'
  <2>1. stored[d] > 0
    BY <1>1, <1>11 DEF Ack, TypeOK
  <2> QED  BY <1>10, <1>11, <2>1 DEF Ack
<1>12. ASSUME NEW d \in Device, Reject(d), m.dev = d PROVE Held(m.dev, m)'
  BY <1>10, <1>12 DEF Reject
<1>13. ASSUME NEW d \in Device, Kill(d) PROVE m.dev # d
  <2>1. m.n <= nsent[m.dev] /\ m.n \in Int /\ nsent[m.dev] \in Int
    BY <1>1, SentNumber DEF IInv
  <2>2. m.dev = d => launched'[m.dev] = nsent[m.dev]
    BY <1>1, <1>13 DEF Kill, TypeOK
  <2> QED  BY <2>1, <2>2
<1>14. ASSUME NEW d \in Device, NEW p \in User, d # m.dev,
              Send(d, p) \/ Mirror(d) \/ UploadDone(d) \/ Ack(d) \/ Reject(d) \/ Kill(d)
       PROVE  writes'[m.dev] = writes[m.dev] /\ main'[m.dev] = main[m.dev]
  BY <1>1, <1>14 DEF Send, Mirror, UploadDone, Ack, Reject, Kill, TypeOK
<1>15. ASSUME NEW d \in Device, NEW p \in User,
              Type(d, p) \/ WriteLocally(d) \/ Commit(d) \/ Disconnect(d)
       PROVE  writes' = writes /\ main' = main
  BY <1>15 DEF Type, WriteLocally, Commit, Disconnect
<1>16. CASE UNCHANGED vars
  BY <1>6, <1>16 DEF vars, client
<1>17. CASE Next
  <2>1. PICK d \in Device : \/ \E p \in User : Type(d, p) \/ Send(d, p)
                           \/ Mirror(d) \/ UploadDone(d) \/ WriteLocally(d)
                           \/ Commit(d) \/ Ack(d) \/ Reject(d) \/ Disconnect(d) \/ Kill(d)
    BY <1>17 DEF Next
  <2>2. PICK p \in User : TRUE
    BY <1>1, ConstantsAssumption
  <2>3. CASE d = m.dev
    BY <1>6, <1>7, <1>8, <1>9, <1>11, <1>12, <1>13, <1>15, <2>1, <2>2, <2>3
  <2>4. CASE d # m.dev
    BY <1>6, <1>14, <1>15, <2>1, <2>2, <2>4
  <2> QED  BY <2>3, <2>4
<1> QED  BY <1>16, <1>17

\* A queued write of a document stays in the queue until it is refused or, in
\* flight, acknowledged.
LEMMA QueuedGoesOn ==
  ASSUME IInv, Order, TypeOK', [Next]_vars, NEW m \in sent, NEW step, NEW i,
         Queued(m.dev, i, step, m), m.n > launched'[m.dev]
  PROVE  InQueue(step, m)' \/ Refused(step, m)' \/ i <= inflight[m.dev]
<1>1. TypeOK /\ m.dev \in Device
  BY DEF IInv, TypeOK, Message
<1>2. PICK L \in Nat : L = Len(writes[m.dev])
  BY <1>1, LengthsAreNat
<1>3. i \in 1..L /\ writes[m.dev][i].step = step /\ writes[m.dev][i].msg = m
  BY <1>2 DEF Queued
<1>4. CASE writes'[m.dev] = writes[m.dev]
  BY <1>4 DEF Queued, InQueue
<1>5. ASSUME NEW d \in Device, NEW p \in User, Send(d, p), m.dev = d PROVE InQueue(step, m)'
  <2>1. PICK w : w = FirstWrite([dev |-> d, to |-> p, n |-> nsent[d] + 1])
    OBVIOUS
  <2>2. writes'[d] = Append(writes[d], w) /\ writes[d] \in Seq(Write)
    BY <1>1, <1>5, <2>1 DEF Send, TypeOK
  <2>3. i \in 1..Len(writes'[d]) /\ writes'[d][i] = writes[d][i]
    BY <1>2, <1>3, <1>5, <2>2
  <2>4. Queued(d, i, step, m)'
    BY <1>3, <1>5, <2>3 DEF Queued
  <2> QED  BY <1>5, <2>4 DEF InQueue
<1>6. ASSUME NEW d \in Device, Mirror(d), m.dev = d PROVE InQueue(step, m)'
  <2>1. Len(writes'[d]) = L + 3 /\ \A j \in 1..L : writes'[d][j] = writes[d][j]
    BY <1>1, <1>2, <1>6, MirrorAppends
  <2>2. i \in 1..(L + 3)
    BY <1>3
  <2>3. Queued(d, i, step, m)'
    BY <1>3, <1>6, <2>1, <2>2 DEF Queued
  <2> QED  BY <1>6, <2>3 DEF InQueue
<1>7. ASSUME NEW d \in Device, stored[d] > 0, m.dev = d,
             writes' = [writes EXCEPT ![d] = Tail(@)], i # 1
      PROVE  InQueue(step, m)'
  <2>1. Len(writes'[d]) = L - 1 /\ \A j \in 1..(L - 1) : writes'[d][j] = writes[d][j + 1]
    <3>1. writes'[d] = Tail(writes[d])
      BY <1>1, <1>7 DEF TypeOK
    <3> QED  BY <1>1, <1>2, <1>7, <3>1, OldestWrite
  <2>2. i - 1 \in 1..(L - 1) /\ (i - 1) + 1 = i
    BY <1>3, <1>7
  <2>3. writes'[d][i - 1] = writes[d][i] /\ i - 1 \in 1..Len(writes'[d])
    BY <2>1, <2>2
  <2>4. Queued(d, i - 1, step, m)'
    BY <1>3, <1>7, <2>3 DEF Queued
  <2> QED  BY <1>7, <2>4 DEF InQueue
<1>8. ASSUME NEW d \in Device, Ack(d), m.dev = d
      PROVE  InQueue(step, m)' \/ i <= inflight[m.dev]
  <2>1. stored[d] > 0 /\ inflight[d] > 0 /\ inflight[d] \in Nat
    BY <1>1, <1>8 DEF Ack, TypeOK
  <2>2. i # 1 => InQueue(step, m)'
    BY <1>7, <1>8, <2>1 DEF Ack
  <2> QED  BY <1>8, <2>1, <2>2
<1>9. ASSUME NEW d \in Device, Reject(d), m.dev = d
      PROVE  InQueue(step, m)' \/ Refused(step, m)'
  <2>1. stored[d] > 0 /\ rejected' = rejected \cup {<<Head(writes[d]).step, Head(writes[d]).msg>>}
    BY <1>9 DEF Reject
  <2>2. i # 1 => InQueue(step, m)'
    BY <1>7, <1>9, <2>1 DEF Reject
  <2>3. i = 1 => Refused(step, m)'
    <3>1. Head(writes[d]) = writes[d][1]
      BY <1>1, <2>1, OldestWrite
    <3> QED  BY <1>3, <1>9, <2>1, <3>1 DEF Refused
  <2> QED  BY <2>2, <2>3
<1>10. ASSUME NEW d \in Device, Kill(d) PROVE m.dev # d
  <2>1. m.n <= nsent[m.dev] /\ m.n \in Int /\ nsent[m.dev] \in Int
    BY <1>1, SentNumber DEF IInv
  <2>2. m.dev = d => launched'[m.dev] = nsent[m.dev]
    BY <1>1, <1>10 DEF Kill, TypeOK
  <2> QED  BY <2>1, <2>2
<1>11. ASSUME NEW d \in Device, NEW p \in User, d # m.dev,
              Send(d, p) \/ Mirror(d) \/ Ack(d) \/ Reject(d) \/ Kill(d)
       PROVE  writes'[m.dev] = writes[m.dev]
  BY <1>1, <1>11 DEF Send, Mirror, Ack, Reject, Kill, TypeOK
<1>12. ASSUME NEW d \in Device, NEW p \in User,
              \/ Type(d, p) \/ UploadDone(d) \/ WriteLocally(d) \/ Commit(d) \/ Disconnect(d)
       PROVE  writes' = writes
  BY <1>12 DEF Type, UploadDone, WriteLocally, Commit, Disconnect
<1>13. CASE UNCHANGED vars
  BY <1>4, <1>13 DEF vars, client
<1>14. CASE Next
  <2>1. PICK d \in Device : \/ \E p \in User : Type(d, p) \/ Send(d, p)
                           \/ Mirror(d) \/ UploadDone(d) \/ WriteLocally(d)
                           \/ Commit(d) \/ Ack(d) \/ Reject(d) \/ Disconnect(d) \/ Kill(d)
    BY <1>14 DEF Next
  <2>2. PICK p \in User : TRUE
    BY <1>1, ConstantsAssumption
  <2>3. CASE d = m.dev
    BY <1>4, <1>5, <1>6, <1>8, <1>9, <1>10, <1>12, <2>1, <2>2, <2>3
  <2>4. CASE d # m.dev
    BY <1>4, <1>11, <1>12, <2>1, <2>2, <2>4
  <2> QED  BY <2>3, <2>4
<1> QED  BY <1>13, <1>14

\* A write in flight was in flight, or is the one just applied.
LEMMA FlightWas ==
  ASSUME IInv, TypeOK', [Next]_vars, NEW d \in Device, NEW step, IsRecent(step), NEW m, NEW i,
         Queued(d, i, step, m)', i <= inflight'[d]
  PROVE  \E j : /\ Queued(d, j, step, m)
                /\ j <= inflight[d] \/ (Commit(d) /\ j = inflight[d] + 1)
<1>1. TypeOK
  BY DEF IInv
<1>2. PICK L \in Nat, n \in Nat : L = Len(writes[d]) /\ n = inflight[d] /\ n <= L
  <2>1. Len(writes[d]) \in Nat /\ inflight[d] \in Nat /\ inflight[d] <= Len(writes[d])
    BY <1>1 DEF TypeOK
  <2> QED  BY <2>1
<1>3. i \in Nat \ {0} /\ i \in 1..Len(writes'[d])
  <2>1. Len(writes'[d]) \in Nat
    BY <1>1, LengthsAreNat
  <2> QED  BY <2>1 DEF Queued
<1>4. CASE writes'[d] = writes[d] /\ inflight'[d] = inflight[d]
  BY <1>4 DEF Queued
<1>5. ASSUME NEW e \in Device, NEW p \in User, Send(e, p)
      PROVE  Queued(d, i, step, m) /\ i <= inflight[d]
  <2>1. PICK w : w = FirstWrite([dev |-> e, to |-> p, n |-> nsent[e] + 1])
    OBVIOUS
  <2>2. /\ writes'[d] = IF d = e THEN Append(writes[d], w) ELSE writes[d]
        /\ writes[d] \in Seq(Write) /\ inflight' = inflight
    BY <1>1, <1>5, <2>1 DEF Send, TypeOK
  <2>3. i \in 1..L /\ writes'[d][i] = writes[d][i]
    BY <1>2, <1>3, <2>2
  <2> QED  BY <1>2, <2>2, <2>3 DEF Queued
<1>6. ASSUME NEW e \in Device, Mirror(e) PROVE Queued(d, i, step, m) /\ i <= inflight[d]
  <2>1. inflight' = inflight /\ (d # e => writes'[d] = writes[d])
    BY <1>1, <1>6 DEF Mirror, TypeOK
  <2>2. i \in 1..L
    BY <1>2, <1>3, <2>1
  <2>3. writes'[d][i] = writes[d][i]
    BY <1>1, <1>2, <1>6, <2>1, <2>2, MirrorAppends
  <2> QED  BY <1>2, <2>1, <2>2, <2>3 DEF Queued
<1>7. ASSUME Commit(d)
      PROVE  Queued(d, i, step, m) /\ (i <= inflight[d] \/ i = inflight[d] + 1)
  <2>1. writes' = writes /\ inflight'[d] = n + 1
    BY <1>1, <1>2, <1>7 DEF Commit, TypeOK
  <2> QED  BY <1>2, <1>3, <2>1 DEF Queued
<1>8. ASSUME Ack(d) PROVE Queued(d, i + 1, step, m) /\ i + 1 <= inflight[d]
  <2>1. stored[d] > 0 /\ inflight'[d] = n - 1 /\ writes'[d] = Tail(writes[d])
    BY <1>1, <1>2, <1>8 DEF Ack, TypeOK
  <2>2. Len(writes'[d]) = L - 1 /\ \A j \in 1..(L - 1) : writes'[d][j] = writes[d][j + 1]
    BY <1>1, <1>2, <2>1, OldestWrite
  <2>3. i \in 1..(L - 1) /\ i + 1 \in 1..L /\ i + 1 <= n
    BY <1>2, <1>3, <2>1, <2>2
  <2> QED  BY <1>2, <2>2, <2>3 DEF Queued
<1>9. ASSUME Reject(d) \/ Disconnect(d) \/ Kill(d) PROVE FALSE
  <2>1. inflight'[d] = 0
    BY <1>1, <1>9 DEF Reject, Disconnect, Kill, TypeOK
  <2> QED  BY <1>3, <2>1
<1>10. ASSUME NEW e \in Device, e # d,
              Commit(e) \/ Ack(e) \/ Reject(e) \/ Disconnect(e) \/ Kill(e)
       PROVE  writes'[d] = writes[d] /\ inflight'[d] = inflight[d]
  BY <1>1, <1>10 DEF Commit, Ack, Reject, Disconnect, Kill, TypeOK
<1>11. ASSUME NEW e \in Device, NEW p \in User, Type(e, p) \/ UploadDone(e) \/ WriteLocally(e)
       PROVE  writes'[d] = writes[d] /\ inflight'[d] = inflight[d]
  BY <1>11 DEF Type, UploadDone, WriteLocally
<1>12. CASE UNCHANGED vars
  BY <1>4, <1>12 DEF vars, client
<1>13. CASE Next
  <2>1. PICK e \in Device : \/ \E p \in User : Type(e, p) \/ Send(e, p)
                           \/ Mirror(e) \/ UploadDone(e) \/ WriteLocally(e)
                           \/ Commit(e) \/ Ack(e) \/ Reject(e) \/ Disconnect(e) \/ Kill(e)
    BY <1>13 DEF Next
  <2>2. PICK p \in User : TRUE
    BY ConstantsAssumption
  <2>3. CASE e = d
    BY <1>4, <1>5, <1>6, <1>7, <1>8, <1>9, <1>11, <2>1, <2>2, <2>3
  <2>4. CASE e # d
    BY <1>4, <1>5, <1>6, <1>10, <1>11, <2>1, <2>2, <2>4
  <2> QED  BY <2>3, <2>4
<1> QED  BY <1>12, <1>13

-----------------------------------------------------------------------------
(* The documents.                                                          *)

\* What a step leaves in a document was there, or is a message that was under way.
LEMMA DocumentNow ==
  ASSUME IInv, Order, [Next]_vars, NEW o \in User, NEW p \in User
  PROVE  recent'[o][p] = recent[o][p] \/ (recent'[o][p] \in sent /\ Unfinished(recent'[o][p]))
<1>1. TypeOK /\ OwnMessages
  BY DEF IInv, Order
<1>2. CASE recent' = recent
  BY <1>2
<1>3. ASSUME NEW d \in Device, Commit(d)
      PROVE  recent'[o][p] = recent[o][p] \/ (recent'[o][p] \in sent /\ Unfinished(recent'[o][p]))
  <2>1. inflight[d] + 1 \in 1..Len(writes[d])
    BY <1>1, <1>3, NextWrite DEF Commit
  <2>2. PICK w \in Write : w = writes[d][inflight[d] + 1]
    BY <1>1, <1>3, NextWrite DEF Commit
  <2>3. AddDocument(w) \/ SetData(w)
    BY <1>3, <2>2 DEF Commit
  <2>4. w.msg \in sent /\ w.msg.dev = d
    BY <1>1, <2>1, <2>2 DEF OwnMessages
  <2>5. Unfinished(w.msg)
    BY <2>1, <2>2, <2>4 DEF Unfinished
  <2>6. recent'[o][p] \in {recent[o][p], w.msg}
    <3>1. Owner(w.step, w.msg) \in User /\ Peer(w.step, w.msg) \in User
      BY UsersOfStep DEF Write
    <3>2. CASE AddDocument(w)
      BY <3>2 DEF AddDocument
    <3>3. CASE SetData(w)
      <4>1. PICK a \in User, b \in User : a = Owner(w.step, w.msg) /\ b = Peer(w.step, w.msg)
        BY <3>1
      <4>2. recent' = [recent EXCEPT ![a][b] = w.msg]
        BY <3>3, <4>1 DEF SetData
      <4>3. recent \in [User -> [User -> Message \cup {NoMessage}]]
        BY <1>1 DEF TypeOK
      <4>4. recent'[o][p] = IF o = a /\ p = b THEN w.msg ELSE recent[o][p]
        BY <4>1, <4>2, <4>3
      <4> QED  BY <4>4
    <3> QED  BY <2>3, <3>2, <3>3
  <2> QED  BY <2>4, <2>5, <2>6
<1>4. ASSUME NEW d \in Device, NEW p0 \in User,
             \/ Type(d, p0) \/ Send(d, p0) \/ Mirror(d) \/ UploadDone(d) \/ WriteLocally(d)
             \/ Ack(d) \/ Reject(d) \/ Disconnect(d) \/ Kill(d)
      PROVE  recent' = recent
  BY <1>4 DEF Type, Send, Mirror, UploadDone, WriteLocally, Ack, Reject, Disconnect, Kill, backend
<1>5. CASE UNCHANGED vars
  BY <1>2, <1>5 DEF vars, backend
<1> QED  BY <1>2, <1>3, <1>4, <1>5, ConstantsAssumption DEF Next

\* A document that is abreast of a message stays so.
LEMMA StaysAbreast ==
  ASSUME IInv, Order, FinishedOver, [Next]_vars, NEW m \in sent, NEW step \in Step,
         Abreast(step, m), finished'[m] = finished[m]
  PROVE  Abreast(step, m)'
<1>1. m \in Message
  BY DEF IInv, TypeOK
<1>2. PICK o \in User, p \in User : o = Owner(step, m) /\ p = Peer(step, m)
  BY <1>1, UsersOfStep
<1>3. Abreast(step, m)' <=> recent'[o][p] \notin finished[m]
  BY <1>2 DEF Abreast, Owner, Peer, From
<1>4. recent[o][p] \notin finished[m]
  BY <1>2 DEF Abreast
<1>5. \A k \in finished[m] : ~ Unfinished(k)
  BY DEF FinishedOver
<1> QED  BY <1>3, <1>4, <1>5, DocumentNow

\* The write just applied brings its document abreast.
LEMMA ComesAbreast ==
  ASSUME IInv, Order, FinishedOver, NEW d \in Device, Commit(d), NEW step, IsRecent(step),
         NEW m, Queued(d, inflight[d] + 1, step, m), finished'[m] = finished[m]
  PROVE  Abreast(step, m)'
<1>1. TypeOK /\ OwnMessages
  BY DEF IInv, Order
<1>2. PICK v \in Write : v = writes[d][inflight[d] + 1]
  BY <1>1, NextWrite DEF Commit
<1>3. v.step = step /\ v.msg = m
  BY <1>2 DEF Queued
<1>4. SetData(v)
  BY <1>2, <1>3 DEF Commit, SetData, AddDocument, IsRecent
<1>5. Owner(v.step, v.msg) \in User /\ Peer(v.step, v.msg) \in User
  BY UsersOfStep DEF Write
<1>6. PICK o, p : o = Owner(step, m) /\ p = Peer(step, m)
  OBVIOUS
<1>7. recent'[o][p] = m
  BY <1>1, <1>3, <1>4, <1>5, <1>6 DEF SetData, TypeOK
<1>8. m \in sent /\ m.dev = d
  BY <1>1, OwnEntries
<1>9. Unfinished(m)
  BY <1>8, UnfinishedIs
<1>10. m \notin finished[m]
  BY <1>8, <1>9 DEF FinishedOver
<1> QED  BY <1>6, <1>7, <1>10 DEF Abreast, Owner, Peer, From

-----------------------------------------------------------------------------
\* A message of this launch was one before the step.
LEMMA LaunchedBefore ==
  ASSUME IInv, [Next]_vars, NEW m \in sent, m.n > launched'[m.dev]
  PROVE  m.n > launched[m.dev]
<1>1. TypeOK /\ m.dev \in Device
  BY DEF IInv, TypeOK, Message
<1>2. CASE launched' = launched
  BY <1>2
<1>3. ASSUME NEW d \in Device, Kill(d) PROVE m.n > launched[m.dev]
  <2>1. m.n <= nsent[m.dev] /\ m.n \in Int /\ nsent[m.dev] \in Int
    BY <1>1, SentNumber DEF IInv
  <2>2. m.dev = d => launched'[m.dev] = nsent[m.dev]
    BY <1>1, <1>3 DEF Kill, TypeOK
  <2>3. m.dev # d => launched'[m.dev] = launched[m.dev]
    BY <1>1, <1>3 DEF Kill, TypeOK
  <2> QED  BY <2>1, <2>2, <2>3
<1>4. ASSUME NEW d \in Device, NEW p \in User,
             \/ Type(d, p) \/ Send(d, p) \/ Mirror(d) \/ UploadDone(d) \/ WriteLocally(d)
             \/ Commit(d) \/ Ack(d) \/ Reject(d) \/ Disconnect(d)
      PROVE  launched' = launched
  BY <1>4 DEF Type, Send, Mirror, UploadDone, WriteLocally, Commit, Ack, Reject, Disconnect, history
<1>5. CASE UNCHANGED vars
  BY <1>2, <1>5 DEF vars, history
<1> QED  BY <1>2, <1>3, <1>4, <1>5, ConstantsAssumption DEF Next

\* A message is held from the moment it is sent.
LEMMA SentHeld ==
  ASSUME TypeOK, TypeOK', NEW d \in Device, NEW p \in User, Send(d, p),
         NEW m, m = [dev |-> d, to |-> p, n |-> nsent[d] + 1]
  PROVE  m.dev = d /\ Held(d, m)'
<1>1. PICK w : w = FirstWrite(m)
  OBVIOUS
<1>2. w.step = "ownAdd" /\ w.cb /\ w.msg = m
  BY <1>1 DEF FirstWrite, Mutation
<1>3. writes'[d] = Append(writes[d], w) /\ writes[d] \in Seq(Write)
  BY <1>1 DEF Send, TypeOK
<1>4. PICK L \in Nat : L = Len(writes[d])
  BY <1>3
<1>5. L + 1 \in 1..Len(writes'[d]) /\ writes'[d][L + 1] = w
  BY <1>3, <1>4
<1>6. Holding(d, 3, L + 1, m)'
  BY <1>2, <1>5 DEF Holding
<1> QED  BY <1>6 DEF Held

\* What a step of the chat adds to the messages sent, and to what was over before each.
LEMMA FinishedNow ==
  ASSUME CInv, Base', [ChatNext]_allVars
  PROVE  /\ \A m \in sent : finished'[m] = finished[m]
         /\ \A m \in sent' : m \notin sent =>
              /\ Held(m.dev, m)'
              /\ finished'[m] \subseteq {k \in sent : ~ Unfinished(k)}
         /\ sent \subseteq sent'
<1>1. TypeOK /\ TypeOK' /\ Base /\ finished \in [Message -> SUBSET Message] /\ sent \subseteq Message
  BY DEF CInv, Screens, Base, IInv, TypeOK, ChatTypeOK
<1>2. CASE UNCHANGED <<sent, finished>>
  BY <1>2
<1>3. ASSUME NEW d \in Device, NEW p \in User, SendMessage(d, p)
      PROVE  /\ \A m \in sent : finished'[m] = finished[m]
             /\ \A m \in sent' : m \notin sent =>
                  /\ Held(m.dev, m)'
                  /\ finished'[m] \subseteq {k \in sent : ~ Unfinished(k)}
             /\ sent \subseteq sent'
  <2>1. PICK new : new = [dev |-> d, to |-> p, n |-> nsent[d] + 1]
    OBVIOUS
  <2>2. /\ Send(d, p) /\ finished' = [finished EXCEPT ![new] = {k \in sent : ~ Unfinished(k)}]
    BY <1>3, <2>1 DEF SendMessage
  <2>3. new \notin sent /\ sent' = sent \cup {new}
    BY <1>1, <2>1, <2>2, SendFirsts
  <2>4. new.dev = d /\ Held(d, new)'
    BY <1>1, <2>1, <2>2, SentHeld
  <2>5. new \in Message
    BY <1>1, <2>3 DEF TypeOK
  <2>6. finished'[new] = {k \in sent : ~ Unfinished(k)}
    BY <1>1, <2>2, <2>5
  <2>7. \A m \in sent : finished'[m] = finished[m]
    BY <1>1, <2>2, <2>3
  <2> QED  BY <2>3, <2>4, <2>6, <2>7
<1>4. ASSUME NEW d \in Device, Upload(d) \/ Acknowledge(d) \/ Relaunch(d)
      PROVE  UNCHANGED <<sent, finished>>
  <2>1. finished' = finished
    BY <1>4 DEF Upload, Acknowledge, Relaunch, stamps
  <2>2. sent' = sent
    BY <1>4, CarryingIs DEF Carrying
  <2> QED  BY <2>1, <2>2
<1>5. ASSUME \/ OpenChat \/ CloseChat \/ HandleSnapshot \/ Listen \/ Watch \/ RejectListen
             \/ UNCHANGED allVars
      PROVE  UNCHANGED <<sent, finished>>
  BY <1>5 DEF OpenChat, CloseChat, HandleSnapshot, Listen, Watch, RejectListen, allVars,
              vars, history, stamps
<1> QED  BY <1>2, <1>3, <1>4, <1>5 DEF ChatNext

LEMMA StepAbreast ==
  ASSUME CInv, FInv, CInv', [ChatNext]_allVars
  PROVE  FInv'
<1>1. /\ IInv /\ Order /\ TypeOK /\ TypeOK' /\ OwnMessages /\ OwnMessages' /\ [Next]_vars
      /\ sent \subseteq Message /\ FinishedOver
  <2>1. [Next]_vars
    BY ChatIsUpload DEF allVars
  <2> QED  BY <2>1 DEF CInv, Base, IInv, Order, TypeOK, FInv
<1>2. /\ \A m \in sent : finished'[m] = finished[m]
      /\ \A m \in sent' : m \notin sent =>
           /\ Held(m.dev, m)'
           /\ finished'[m] \subseteq {k \in sent : ~ Unfinished(k)}
      /\ sent \subseteq sent'
  BY FinishedNow DEF CInv
<1>3. FinishedOver'
  <2> SUFFICES ASSUME NEW m \in sent', NEW k \in finished'[m]
               PROVE  k \in sent' /\ ~ Unfinished(k)'
    BY DEF FinishedOver
  <2>1. k \in sent /\ ~ Unfinished(k)
    <3>1. CASE m \in sent
      BY <1>1, <1>2, <3>1 DEF FinishedOver
    <3>2. CASE m \notin sent
      BY <1>2, <3>2
    <3> QED  BY <3>1, <3>2
  <2> QED  BY <1>1, <1>2, <2>1, OverStays
<1>4. ASSUME NEW m \in sent, NEW step, IsRecent(step), Abreast(step, m) PROVE Abreast(step, m)'
  <2>1. step \in Step
    BY <1>4 DEF IsRecent, Step
  <2> QED  BY <1>1, <1>2, <1>4, <2>1, StaysAbreast
<1>5. FlightAbreast'
  <2> SUFFICES ASSUME NEW d \in Device, NEW step, NEW i, NEW m, IsRecent(step),
                      Queued(d, i, step, m)', i <= inflight'[d]
               PROVE  Abreast(step, m)'
    BY DEF FlightAbreast
  <2>1. PICK j : /\ Queued(d, j, step, m)
                 /\ j <= inflight[d] \/ (Commit(d) /\ j = inflight[d] + 1)
    BY <1>1, FlightWas
  <2>2. m \in sent
    BY <1>1, <2>1, OwnEntries
  <2>3. CASE j <= inflight[d]
    BY <1>4, <2>1, <2>2, <2>3 DEF FInv, FlightAbreast
  <2>4. CASE Commit(d) /\ j = inflight[d] + 1
    BY <1>1, <1>2, <2>1, <2>2, <2>4, ComesAbreast
  <2> QED  BY <2>1, <2>3, <2>4
<1>6. AllAbreast'
  <2> SUFFICES ASSUME NEW step, NEW m \in sent', IsRecent(step), m.n > launched'[m.dev]
               PROVE  \/ Refused(step, m)' \/ Held(m.dev, m)' \/ InQueue(step, m)'
                      \/ Abreast(step, m)'
    BY DEF AllAbreast
  <2>1. CASE m \notin sent
    BY <1>2, <2>1
  <2>2. CASE m \in sent
    <3>1. Refused(step, m) \/ Held(m.dev, m) \/ InQueue(step, m) \/ Abreast(step, m)
      BY <1>1, <2>2, LaunchedBefore DEF FInv, AllAbreast
    <3>2. Refused(step, m) => Refused(step, m)'
      <4>1. Next => rejected \subseteq rejected'
        BY <1>1, NothingTaken
      <4>2. UNCHANGED vars => rejected' = rejected
        BY DEF vars, history
      <4> QED  BY <1>1, <4>1, <4>2 DEF Refused
    <3>3. Held(m.dev, m) => Held(m.dev, m)' \/ InQueue(step, m)'
      BY <1>1, <2>2, HeldGoesOn DEF IsRecent
    <3>4. ASSUME NEW i, Queued(m.dev, i, step, m)
          PROVE  InQueue(step, m)' \/ Refused(step, m)' \/ Abreast(step, m)'
      <4>1. CASE i <= inflight[m.dev]
        <5>1. m.dev \in Device
          BY <1>1, <2>2 DEF Message
        <5> QED  BY <1>4, <2>2, <3>4, <4>1, <5>1 DEF FInv, FlightAbreast
      <4>2. CASE ~ (i <= inflight[m.dev])
        BY <1>1, <2>2, <3>4, <4>2, QueuedGoesOn
      <4> QED  BY <4>1, <4>2
    <3>5. InQueue(step, m) => InQueue(step, m)' \/ Refused(step, m)' \/ Abreast(step, m)'
      BY <3>4 DEF InQueue
    <3> QED  BY <1>4, <2>2, <3>1, <3>2, <3>3, <3>5
  <2> QED  BY <2>1, <2>2
<1> QED  BY <1>3, <1>5, <1>6 DEF FInv

LEMMA InitAbreast == ChatInit => FInv
<1> SUFFICES ASSUME ChatInit PROVE FInv
  OBVIOUS
<1>1. sent = {} /\ \A d \in Device : writes[d] = << >>
  BY DEF ChatInit, Init
<1>2. \A d \in Device : \A i, step, m : ~ Queued(d, i, step, m)
  BY <1>1 DEF Queued
<1> QED  BY <1>1, <1>2 DEF FInv, FinishedOver, FlightAbreast, AllAbreast

-----------------------------------------------------------------------------
(* The theorems.                                                           *)

\* The chat screens, their listeners and the snapshots on their way keep their
\* types: a listener belongs to a screen of this launch, and what it is told of
\* are messages (Service.fetchMessages).
THEOREM ChatTypeCorrect == ChatSpec => []ChatTypeOK
<1>1. CInv => ChatTypeOK
  BY DEF CInv, Screens
<1> QED  BY <1>1, ChatInvariance, PTL

\* No message is shown and then lost: what any screen of any launch has shown is in
\* the thread on the backend, waits in the persisted queue, or was refused
\* (Service.swift:71).
THEOREM ShownIsKeptAlways == ChatSpec => []ShownIsKept
<1>1. CInv => ShownIsKept
  BY DEF CInv, Screens, Backing, Lasting, Cached, ShownIsKept
<1> QED  BY <1>1, ChatInvariance, PTL

\* Every screen that hears of the thread and has handled its snapshots shows all
\* that was ever shown, refused copies apart, whatever was opened, closed and killed
\* in between (Service.fetchMessages).
THEOREM ReopenedAlways == ChatSpec => []Reopened
<1>1. CInv => Reopened
  <2> SUFFICES ASSUME CInv, NEW c \in listening,
                      \A i \in 1..Len(events) : c \notin events[i].to,
                      NEW m \in seen, ~ Refused("ownAdd", m)
               PROVE  m \in Contents(c)
    BY DEF Reopened
  <2>1. Base /\ Lasting(m)
    BY DEF CInv, Screens, Backing
  <2>2. m \in Visible
    BY <2>1, VisibleLasting
  <2>3. PICK k, i : Occurs(c, k, i, m)
    BY <2>2 DEF CInv, Screens, Heard
  <2>4. i \in 1..Len(shown[c]) /\ shown[c][i] = m
    BY <2>3 DEF Occurs, Dispatched
  <2> QED  BY <2>4 DEF Contents
<1> QED  BY <1>1, ChatInvariance, PTL

\* A message is on a screen once; one is there twice, and not three times, only
\* if its copy was refused after the backend had applied it (Service.swift:69).
THEOREM NoRepeatAlways == ChatSpec => []NoRepeat
<1>1. CInv => NoRepeat
  <2> SUFFICES ASSUME CInv, NEW c \in 1..Len(shown),
                      NEW i \in 1..Len(shown[c]), NEW j \in 1..Len(shown[c]), i < j,
                      NEW m, m = shown[c][i], m = shown[c][j]
               PROVE  /\ Refused("ownAdd", m) /\ Kept(m)
                      /\ \A k \in 1..Len(shown[c]) : shown[c][k] = m => k \in {i, j}
    BY DEF NoRepeat
  <2>1. Occurs(c, 0, i, m) /\ Occurs(c, 0, j, m) /\ ~ (0 = 0 /\ i = j)
    BY DEF Occurs
  <2>2. /\ AskedAgain(m)
        /\ \A q, r : Occurs(c, q, r, m) => (q = 0 /\ r = i) \/ (q = 0 /\ r = j)
    BY <2>1 DEF CInv, Screens, AllOnce, Once
  <2>3. \A k \in 1..Len(shown[c]) : shown[c][k] = m => k \in {i, j}
    BY <2>2 DEF Occurs
  <2>4. m \in thread[me][partner] /\ m.dev = viewer /\ Refused("ownAdd", m)
    BY <2>2 DEF AskedAgain, CInv, Screens, Cached
  <2>5. Parties(m, me, partner)
    BY <2>4, Me DEF CInv, Base, Copies, ThreadsSent
  <2>6. Kept(m)
    BY <2>4, <2>5, Me DEF Parties, Kept, From, me
  <2> QED  BY <2>3, <2>4, <2>6
<1> QED  BY <1>1, ChatInvariance, PTL

\* When the partner has one device, no message is shown above one it follows or
\* answers, unless the clocks say otherwise or a copy was refused
\* (Service.swift:71): what the viewer and the partner send becomes visible in the
\* order of their queues, and snapshots are handled in order.
THEOREM InConversationOrderAlways ==
  ASSUME PartnerHasOneDevice PROVE ChatSpec => []InConversationOrder
<1>1. ChatInit => OInv
  BY InitInOrder
<1>2. OInv /\ [ChatNext]_allVars => OInv'
  BY NextInOrder
<1>3. OInv => InConversationOrder
  <2> SUFFICES ASSUME InOrder, NEW c \in 1..Len(shown),
                      NEW i \in 1..Len(shown[c]), NEW j \in 1..Len(shown[c]), i < j,
                      NEW m, m = shown[c][i], NEW k, k = shown[c][j], Precedes(k, m)
               PROVE  time[m] < time[k] \/ Refused("ownAdd", k)
    BY DEF OInv, InConversationOrder
  <2>1. Occurs(c, 0, i, m) /\ Occurs(c, 0, j, k) /\ Ahead(0, i, 0, j)
    BY DEF Occurs, Ahead
  <2> QED  BY <2>1 DEF InOrder
<1> QED  BY <1>1, <1>2, <1>3, PTL DEF ChatSpec

-----------------------------------------------------------------------------
(* The chat over the upload.                                               *)

\* Whatever the screens and their listeners do, the upload under them runs as
\* Messaging says: fetchMessages only reads (Service.swift:58), and what it adds to
\* a send, an acknowledgement or a kill takes nothing away from them.
THEOREM ChatRunsUpload == ChatSpec => Spec
<1>1. ChatInit => Init
  BY DEF ChatInit
<1>2. [ChatNext]_allVars => [Next]_vars
  <2>1. UNCHANGED allVars => UNCHANGED vars
    BY DEF allVars
  <2> QED  BY <2>1, ChatIsUpload
<1> QED  BY <1>1, <1>2, PTL DEF ChatSpec, Spec

\* Under the chat the messages of a device reach the partner in the order in which
\* they were sent, each at most once (Service.swift:46).
THEOREM ChatDelivers == ChatSpec => ImplementsDelivery
BY ChatRunsUpload, Refinement, PTL

\* Once nothing is left to do for a message of this launch, the latest-message documents
\* of both users never again show one that was sent before it by the same device or was
\* over when it was sent, unless the write was refused, for any number of devices,
\* sends, kills, refusals and resent writes (Service.swift:50).
THEOREM NeverSetBackAlways == ChatSpec => []NeverSetBack
<1>1. ChatInit => CInv /\ FInv
  BY InitScreens, InitAbreast
<1>2. CInv /\ FInv /\ [ChatNext]_allVars => CInv' /\ FInv'
  BY NextScreens, StepAbreast
<1>3. Spec => []AllDocumented
  <2>1. Init => Order /\ AllDocumented
    BY InitOrder, InitDocumented
  <2>2. IInv /\ Order /\ AllDocumented /\ [Next]_vars => Order' /\ AllDocumented'
    BY StepOrder, StepDocumented
  <2> QED  BY <2>1, <2>2, Invariance, PTL DEF Spec
<1>4. CInv /\ FInv /\ AllDocumented => NeverSetBack
  <2> SUFFICES ASSUME CInv, FInv, AllDocumented, NEW m \in sent, m.n > launched[m.dev],
                      ~ Unfinished(m), NEW step \in {"ownRecent", "peerRecent"},
                      NEW r, r = recent[Owner(step, m)][Peer(step, m)]
               PROVE  Refused(step, m) \/ (r # NoMessage /\ ~ Earlier(r, m))
    BY DEF NeverSetBack
  <2>1. TypeOK /\ m \in Message /\ m.dev \in Device /\ IsRecent(step) /\ step \in Step
    BY DEF CInv, Base, IInv, TypeOK, Message, IsRecent, Step
  <2>2. ~ Held(m.dev, m) /\ \A i : ~ Queued(m.dev, i, step, m)
    BY UnfinishedIs
  <2>3. Refused(step, m) \/ Settled(m.dev, step, m)
    BY <2>1, <2>2 DEF AllDocumented, Documented, NoneLost, OnItsWay
  <2>4. Refused(step, m) \/ Abreast(step, m)
    BY <2>1, <2>2 DEF FInv, AllAbreast, InQueue
  <2>5. CASE Settled(m.dev, step, m) /\ Abreast(step, m)
    <3>1. r # NoMessage /\ (r.dev = m.dev => r.n >= m.n) /\ r \notin finished[m]
      BY <2>5 DEF Settled, Shows, Abreast
    <3>2. r \in Message
      BY <2>1, <3>1, UsersOfStep DEF TypeOK
    <3>3. m.n \in Int /\ r.n \in Int
      BY <2>1, <3>2 DEF Message
    <3> QED  BY <3>1, <3>3 DEF Earlier
  <2> QED  BY <2>3, <2>4, <2>5
<1> QED  BY <1>1, <1>2, <1>3, <1>4, ChatRunsUpload, PTL DEF ChatSpec
=============================================================================
