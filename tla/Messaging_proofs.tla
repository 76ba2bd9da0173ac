-------------------------- MODULE Messaging_proofs --------------------------
(***************************************************************************)
(* Machine-checked proofs about Messaging, for every value of its          *)
(* constants: the types and the safety invariants; then what rests on the  *)
(* order of the messages: the channel Delivery is implemented, the input   *)
(* view of a chat is cleared only for a message that arrived, and the      *)
(* latest-message documents are up to date once a device has nothing left  *)
(* to do.                                                                  *)
(***************************************************************************)
EXTENDS Messaging, SequenceTheorems, WellFoundedInduction, TLAPS

-----------------------------------------------------------------------------
(* The operators the actions are built from.                               *)

\* A set of natural numbers has a least member.
LEMMA LeastExists ==
  ASSUME NEW T \in SUBSET Nat, T # {} PROVE \E k \in T : \A l \in T : k <= l
<1> DEFINE R == OpToRel(<, Nat)
<1>1. IsWellFoundedOn(R, Nat)
  BY NatLessThanWellFounded
<1>2. \A x, y \in Nat : <<x, y>> \in R <=> x < y
  BY DEF OpToRel
<1> HIDE DEF R
<1>3. PICK k \in T : \A l \in T : ~ (<<l, k>> \in R)
  BY <1>1, WFMin
<1>4. \A l \in T : ~ (l < k) /\ l \in Nat /\ k \in Nat
  BY <1>2, <1>3
<1>5. \A l \in T : k <= l
  BY <1>4
<1> QED  BY <1>5

\* A message is from one user and for another, and a step writes to documents
\* of users.
LEMMA UsersOfStep ==
  ASSUME NEW m \in Message, NEW step \in Step
  PROVE  From(m) \in User /\ Owner(step, m) \in User /\ Peer(step, m) \in User
BY ConstantsAssumption DEF From, Owner, Peer, Message, Step

\* A mutation of a message is a write.
LEMMA MutationIsWrite ==
  ASSUME NEW m \in Message, NEW step \in Step, NEW cb \in BOOLEAN
  PROVE  Mutation(step, m, cb) \in Write
BY DEF Mutation, Write

\* The three writes of the completion handler.
LEMMA MirrorWritesType ==
  ASSUME NEW m \in Message
  PROVE  MirrorWrites(m) \in Seq(Write)
<1> DEFINE a == Mutation("peerAdd", m, TRUE)
           b == Mutation("ownRecent", m, FALSE)
           c == Mutation("peerRecent", m, FALSE)
<1>1. a \in Write /\ b \in Write /\ c \in Write
  BY MutationIsWrite DEF Step
<1>2. MirrorWrites(m) = <<a, b, c>>
  BY DEF MirrorWrites
<1> HIDE DEF a, b, c
<1> QED  BY <1>1, <1>2

\* A dispatched completion handler leaves the main queue a sequence.
LEMMA NotifyType ==
  ASSUME NEW queue \in Seq(Completion), NEW w \in Write, NEW ok \in BOOLEAN
  PROVE  Notify(queue, w, ok) \in Seq(Completion)
<1> DEFINE c == [step |-> w.step, msg |-> w.msg, ok |-> ok]
<1>1. c \in Completion
  BY DEF Write, Completion
<1>2. Notify(queue, w, ok) = IF w.cb THEN Append(queue, c) ELSE queue
  BY DEF Notify
<1> HIDE DEF c
<1>3. Append(queue, c) \in Seq(Completion)
  BY <1>1
<1> QED  BY <1>2, <1>3

\* What is restored is as long as what was persisted.
LEMMA RestoredType ==
  ASSUME NEW queue \in Seq(Write), NEW n \in Nat, n <= Len(queue)
  PROVE  Restored(queue, n) \in Seq(Write) /\ Len(Restored(queue, n)) = n
<1>1. \A i \in 1..n : [queue[i] EXCEPT !.cb = FALSE] \in Write
  <2> TAKE i \in 1..n
  <2>1. queue[i] \in Write
    BY ElementOfSeq
  <2> QED  BY <2>1 DEF Write
<1>2. Restored(queue, n) \in [1..n -> Write]
  BY <1>1 DEF Restored
<1> QED  BY <1>2, IsASeq, LenProperties

-----------------------------------------------------------------------------
(* Type correctness, one lemma per action.                                 *)

LEMMA InitType == Init => TypeOK
BY ConstantsAssumption DEF Init, TypeOK, Message

LEMMA TypeType ==
  ASSUME TypeOK, NEW d \in Device, NEW p \in User, Type(d, p) PROVE TypeOK'
BY DEF TypeOK, Type, backend, history

LEMMA SendType ==
  ASSUME TypeOK, NEW d \in Device, NEW p \in User, Send(d, p) PROVE TypeOK'
<1> DEFINE m == [dev |-> d, to |-> p, n |-> nsent[d] + 1]
<1>1. nsent[d] + 1 \in 1..MaxSends /\ nsent[d] + 1 \in 0..MaxSends
  BY ConstantsAssumption DEF TypeOK, Send
<1>2. m \in Message
  BY <1>1 DEF Message
<1>3. FirstWrite(m) \in Write
  BY <1>2, MutationIsWrite DEF FirstWrite, Step
<1>4. /\ Append(writes[d], FirstWrite(m)) \in Seq(Write)
      /\ Len(Append(writes[d], FirstWrite(m))) = Len(writes[d]) + 1
  BY <1>3 DEF TypeOK
<1>5. writes' \in [Device -> Seq(Write)] /\ sent' \in SUBSET Message
  BY <1>2, <1>4 DEF TypeOK, Send
<1>6. nsent' \in [Device -> 0..MaxSends]
  BY <1>1 DEF TypeOK, Send
<1>7. \A e \in Device : inflight'[e] <= stored'[e] /\ stored'[e] <= Len(writes'[e])
  BY <1>4 DEF TypeOK, Send
<1> QED  BY <1>5, <1>6, <1>7 DEF TypeOK, Send, backend

LEMMA MirrorType ==
  ASSUME TypeOK, NEW d \in Device, Mirror(d) PROVE TypeOK'
<1> DEFINE m == Head(main[d]).msg
<1>1. Head(main[d]) \in Completion /\ Tail(main[d]) \in Seq(Completion)
  BY DEF TypeOK, Mirror
<1>2. m \in Message
  BY <1>1 DEF Completion
<1>3. /\ writes[d] \o MirrorWrites(m) \in Seq(Write)
      /\ Len(writes[d] \o MirrorWrites(m)) >= Len(writes[d])
  BY <1>2, MirrorWritesType DEF TypeOK
<1>4. writes' \in [Device -> Seq(Write)] /\ main' \in [Device -> Seq(Completion)]
  BY <1>1, <1>3 DEF TypeOK, Mirror
<1>5. \A e \in Device : inflight'[e] <= stored'[e] /\ stored'[e] <= Len(writes'[e])
  BY <1>3 DEF TypeOK, Mirror
<1> QED  BY <1>4, <1>5 DEF TypeOK, Mirror, backend, history

LEMMA UploadDoneType ==
  ASSUME TypeOK, NEW d \in Device, UploadDone(d) PROVE TypeOK'
<1>1. Head(main[d]) \in Completion /\ Tail(main[d]) \in Seq(Completion)
  BY DEF TypeOK, UploadDone
<1>2. main' \in [Device -> Seq(Completion)]
  BY <1>1 DEF TypeOK, UploadDone
<1>3. draft' \in [Device -> [User -> BOOLEAN]]
  BY <1>1 DEF TypeOK, UploadDone, Completion
<1> QED  BY <1>2, <1>3 DEF TypeOK, UploadDone, backend, history

LEMMA WriteLocallyType ==
  ASSUME TypeOK, NEW d \in Device, WriteLocally(d) PROVE TypeOK'
BY DEF TypeOK, WriteLocally, backend, history

\* The write the backend applies next is a write of the queue.
LEMMA NextWrite ==
  ASSUME TypeOK, NEW d \in Device, inflight[d] < stored[d]
  PROVE  /\ inflight[d] + 1 \in 1..Len(writes[d])
         /\ writes[d][inflight[d] + 1] \in Write
BY DEF TypeOK

LEMMA AddDocumentType ==
  ASSUME TypeOK, NEW w \in Write, AddDocument(w)
  PROVE  thread' \in [User -> [User -> SUBSET Message]] /\ recent' = recent
BY UsersOfStep DEF TypeOK, AddDocument, Write

LEMMA SetDataType ==
  ASSUME TypeOK, NEW w \in Write, SetData(w)
  PROVE  recent' \in [User -> [User -> Message \cup {NoMessage}]] /\ thread' = thread
BY UsersOfStep DEF TypeOK, SetData, Write

LEMMA CommitType ==
  ASSUME TypeOK, NEW d \in Device, Commit(d) PROVE TypeOK'
<1> DEFINE w == writes[d][inflight[d] + 1]
<1>1. w \in Write
  BY NextWrite DEF Commit
<1>2. /\ thread' \in [User -> [User -> SUBSET Message]]
      /\ recent' \in [User -> [User -> Message \cup {NoMessage}]]
  <2>1. CASE AddDocument(w)  BY <1>1, <2>1, AddDocumentType DEF TypeOK
  <2>2. CASE SetData(w)      BY <1>1, <2>2, SetDataType DEF TypeOK
  <2> QED  BY <2>1, <2>2 DEF Commit
<1>3. /\ inflight' \in [Device -> Nat]
      /\ \A e \in Device : inflight'[e] <= stored'[e] /\ stored'[e] <= Len(writes'[e])
  BY DEF TypeOK, Commit
<1> QED  BY <1>2, <1>3 DEF TypeOK, Commit, history

\* The oldest write of a queue that has persisted writes.
LEMMA OldestWrite ==
  ASSUME TypeOK, NEW d \in Device, stored[d] > 0
  PROVE  /\ Head(writes[d]) \in Write
         /\ Head(writes[d]) = writes[d][1]
         /\ 1 \in 1..Len(writes[d])
         /\ Tail(writes[d]) \in Seq(Write)
         /\ Len(Tail(writes[d])) = Len(writes[d]) - 1
         /\ \A i \in 1..(Len(writes[d]) - 1) : Tail(writes[d])[i] = writes[d][i + 1]
BY DEF TypeOK

LEMMA AckType ==
  ASSUME TypeOK, NEW d \in Device, Ack(d) PROVE TypeOK'
<1>1. stored[d] > 0
  BY DEF TypeOK, Ack
<1>2. Notify(main[d], Head(writes[d]), TRUE) \in Seq(Completion)
  BY <1>1, OldestWrite, NotifyType DEF TypeOK
<1>3. writes' \in [Device -> Seq(Write)] /\ main' \in [Device -> Seq(Completion)]
  <2>1. Tail(writes[d]) \in Seq(Write)
    BY <1>1, OldestWrite
  <2>2. /\ writes' = [writes EXCEPT ![d] = Tail(writes[d])]
        /\ main' = [main EXCEPT ![d] = Notify(main[d], Head(writes[d]), TRUE)]
    BY DEF TypeOK, Ack
  <2> QED  BY <1>2, <2>1, <2>2 DEF TypeOK
<1>4. stored' \in [Device -> Nat] /\ inflight' \in [Device -> Nat]
  BY <1>1 DEF TypeOK, Ack
<1>5. \A e \in Device : inflight'[e] <= stored'[e] /\ stored'[e] <= Len(writes'[e])
  <2>1. /\ inflight[d] <= stored[d] /\ stored[d] <= Len(writes[d])
        /\ inflight[d] \in Nat /\ stored[d] \in Nat /\ Len(writes[d]) \in Nat
    BY DEF TypeOK
  <2>2. /\ writes'[d] = Tail(writes[d])
        /\ inflight'[d] = inflight[d] - 1 /\ stored'[d] = stored[d] - 1
    BY DEF TypeOK, Ack
  <2>3. Len(writes'[d]) = Len(writes[d]) - 1
    BY <1>1, <2>2, OldestWrite
  <2>4. \A e \in Device : e # d =>
          writes'[e] = writes[e] /\ inflight'[e] = inflight[e] /\ stored'[e] = stored[e]
    BY DEF TypeOK, Ack
  <2>5. \A e \in Device : e # d => inflight'[e] <= stored'[e] /\ stored'[e] <= Len(writes'[e])
    BY <2>4 DEF TypeOK
  <2>6. inflight'[d] <= stored'[d] /\ stored'[d] <= Len(writes'[d])
    BY <2>1, <2>2, <2>3
  <2> QED  BY <2>5, <2>6
<1>6. /\ thread' = thread /\ recent' = recent /\ draft' = draft /\ nsent' = nsent
      /\ launched' = launched /\ kills' = kills /\ sent' = sent /\ rejected' = rejected
  BY DEF Ack, backend, history
<1>7. /\ thread' \in [User -> [User -> SUBSET Message]]
      /\ recent' \in [User -> [User -> Message \cup {NoMessage}]]
      /\ draft' \in [Device -> [User -> BOOLEAN]]
      /\ nsent' \in [Device -> 0..MaxSends]
      /\ launched' \in [Device -> 0..MaxSends]
      /\ kills' \in [Device -> 0..MaxKills]
      /\ sent' \in SUBSET Message
      /\ rejected' \in SUBSET (Step \X Message)
  BY <1>6 DEF TypeOK
<1> QED  BY <1>3, <1>4, <1>5, <1>7 DEF TypeOK

LEMMA RejectType ==
  ASSUME TypeOK, NEW d \in Device, Reject(d) PROVE TypeOK'
<1>1. stored[d] > 0 /\ Head(writes[d]) \in Write
  BY OldestWrite DEF Reject
<1>2. Notify(main[d], Head(writes[d]), FALSE) \in Seq(Completion)
  BY <1>1, NotifyType DEF TypeOK
<1>3. writes' \in [Device -> Seq(Write)] /\ main' \in [Device -> Seq(Completion)]
  BY <1>1, <1>2, OldestWrite DEF TypeOK, Reject
<1>4. stored' \in [Device -> Nat]
  BY <1>1 DEF TypeOK, Reject
<1>5. \A e \in Device : inflight'[e] <= stored'[e] /\ stored'[e] <= Len(writes'[e])
  BY <1>1, OldestWrite DEF TypeOK, Reject
<1>6. rejected' \in SUBSET (Step \X Message)
  BY <1>1 DEF TypeOK, Reject, Write
<1> QED  BY <1>3, <1>4, <1>5, <1>6 DEF TypeOK, Reject, backend

LEMMA DisconnectType ==
  ASSUME TypeOK, NEW d \in Device, Disconnect(d) PROVE TypeOK'
BY DEF TypeOK, Disconnect, backend, history

LEMMA KillType ==
  ASSUME TypeOK, NEW d \in Device, Kill(d) PROVE TypeOK'
<1>1. /\ Restored(writes[d], stored[d]) \in Seq(Write)
      /\ Len(Restored(writes[d], stored[d])) = stored[d]
  BY RestoredType DEF TypeOK
<1>2. writes' \in [Device -> Seq(Write)] /\ main' \in [Device -> Seq(Completion)]
  BY <1>1 DEF TypeOK, Kill
<1>3. inflight' \in [Device -> Nat] /\ draft' \in [Device -> [User -> BOOLEAN]]
  BY DEF TypeOK, Kill
<1>4. launched' \in [Device -> 0..MaxSends] /\ kills' \in [Device -> 0..MaxKills]
  BY ConstantsAssumption DEF TypeOK, Kill
<1>5. \A e \in Device : inflight'[e] <= stored'[e] /\ stored'[e] <= Len(writes'[e])
  BY <1>1 DEF TypeOK, Kill
<1> QED  BY <1>2, <1>3, <1>4, <1>5 DEF TypeOK, Kill, backend

LEMMA NextType == TypeOK /\ [Next]_vars => TypeOK'
<1> SUFFICES ASSUME TypeOK, [Next]_vars PROVE TypeOK'
  OBVIOUS
<1>1. CASE UNCHANGED vars
  BY <1>1 DEF TypeOK, vars, backend, client, history
<1>2. CASE Next
  <2> SUFFICES ASSUME NEW d \in Device,
                      \/ \E p \in User : Type(d, p) \/ Send(d, p)
                      \/ Mirror(d) \/ UploadDone(d) \/ WriteLocally(d)
                      \/ Commit(d) \/ Ack(d) \/ Reject(d)
                      \/ Disconnect(d) \/ Kill(d)
               PROVE  TypeOK'
    BY <1>2 DEF Next
  <2>1. ASSUME NEW p \in User, Type(d, p) PROVE TypeOK'  BY <2>1, TypeType
  <2>2. ASSUME NEW p \in User, Send(d, p) PROVE TypeOK'  BY <2>2, SendType
  <2>3. CASE Mirror(d)        BY <2>3, MirrorType
  <2>4. CASE UploadDone(d)    BY <2>4, UploadDoneType
  <2>5. CASE WriteLocally(d)  BY <2>5, WriteLocallyType
  <2>6. CASE Commit(d)        BY <2>6, CommitType
  <2>7. CASE Ack(d)           BY <2>7, AckType
  <2>8. CASE Reject(d)        BY <2>8, RejectType
  <2>9. CASE Disconnect(d)    BY <2>9, DisconnectType
  <2>10. CASE Kill(d)         BY <2>10, KillType
  <2> QED  BY <2>1, <2>2, <2>3, <2>4, <2>5, <2>6, <2>7, <2>8, <2>9, <2>10
<1> QED  BY <1>1, <1>2

\* Every reachable state is well typed, and on every device what the backend
\* applied was persisted and what was persisted was issued.
THEOREM TypeCorrect == Spec => []TypeOK
<1>1. Init => TypeOK
  BY InitType
<1>2. TypeOK /\ [Next]_vars => TypeOK'
  BY NextType
<1> QED  BY <1>1, <1>2, PTL DEF Spec

-----------------------------------------------------------------------------
(* The inductive invariant behind the safety properties.                   *)

\* The sender's copy is in its thread, or was refused; likewise the partner's.
OwnSettled(m)  == Kept(m) \/ Refused("ownAdd", m)
PeerSettled(m) == Delivered(m) \/ Refused("peerAdd", m)

IsRecent(step) == step \in {"ownRecent", "peerRecent"}

\* What waits for its acknowledgement has been applied.
Applied ==
  \A d \in Device : \A i \in 1..inflight[d] :
    LET w == writes[d][i] IN
    /\ w.step = "ownAdd" => Kept(w.msg)
    /\ w.step = "peerAdd" => Delivered(w.msg)

\* Only the first of the four writes, and none of their handlers, can exist
\* before the sender's copy is settled.
OwnFirst ==
  \A d \in Device :
    /\ \A i \in 1..Len(writes[d]) :
         writes[d][i].step # "ownAdd" => OwnSettled(writes[d][i].msg)
    /\ \A i \in 1..Len(main[d]) : OwnSettled(main[d][i].msg)

\* A write of a latest-message document has the partner's copy before it in
\* the queue, until that copy is settled.
CopyBeforeRecent ==
  \A d \in Device : \A i \in 1..Len(writes[d]) :
    IsRecent(writes[d][i].step) =>
      \/ PeerSettled(writes[d][i].msg)
      \/ \E j \in 1..(i - 1) : /\ writes[d][j].step = "peerAdd"
                               /\ writes[d][j].msg = writes[d][i].msg

\* The messages of a device are numbered up to nsent.
Numbered == \A m \in sent : m.n <= nsent[m.dev]

\* PeerCopyBacked for every message, sent or not.
Backed == \A m \in Message : Delivered(m) => OwnSettled(m)

IInv == /\ TypeOK /\ Applied /\ OwnFirst /\ CopyBeforeRecent
        /\ Numbered /\ Backed /\ RecentBacked /\ NoSilentLoss

LEMMA InitInv == Init => IInv
<1> SUFFICES ASSUME Init PROVE IInv
  OBVIOUS
<1>1. TypeOK
  BY InitType
<1>2. Applied /\ OwnFirst /\ CopyBeforeRecent
  BY DEF Init, Applied, OwnFirst, CopyBeforeRecent
<1>3. Numbered /\ NoSilentLoss
  BY DEF Init, Numbered, NoSilentLoss
<1>4. Backed
  BY UsersOfStep, ConstantsAssumption DEF Init, Backed, Delivered, From, Message
<1>5. RecentBacked
  BY DEF Init, RecentBacked
<1> QED  BY <1>1, <1>2, <1>3, <1>4, <1>5 DEF IInv

\* Threads and the set of refused writes only grow, so what is settled stays
\* settled.
LEMMA Growth ==
  ASSUME TypeOK, NEW m \in Message,
         \A o, p \in User : thread[o][p] \subseteq thread'[o][p],
         rejected \subseteq rejected'
  PROVE  /\ Kept(m) => Kept(m)'
         /\ Delivered(m) => Delivered(m)'
         /\ OwnSettled(m) => OwnSettled(m)'
         /\ PeerSettled(m) => PeerSettled(m)'
<1>1. From(m) \in User /\ m.to \in User
  BY ConstantsAssumption DEF From, Message
<1> QED  BY <1>1 DEF Kept, Delivered, OwnSettled, PeerSettled, Refused, From

\* The part of the invariant that speaks of neither queues nor handlers.
Data == Numbered /\ Backed /\ RecentBacked

LEMMA DataUnmoved ==
  ASSUME Data, thread' = thread, recent' = recent, sent' = sent,
         nsent' = nsent, rejected' = rejected
  PROVE  Data'
<1>1. Numbered'
  BY DEF Data, Numbered
<1>2. Backed'
  BY DEF Data, Backed, OwnSettled, Kept, Delivered, Refused, From
<1>3. RecentBacked'
  BY DEF Data, RecentBacked, Kept, Delivered, Refused, From
<1> QED  BY <1>1, <1>2, <1>3 DEF Data

\* Steps that leave the mutation queues, the backend and the history alone,
\* and do not put more writes in flight.
LEMMA QueuesUnmoved ==
  ASSUME TypeOK, Applied, CopyBeforeRecent, writes' = writes, thread' = thread,
         rejected' = rejected, inflight' \in [Device -> Nat],
         \A d \in Device : inflight'[d] <= inflight[d]
  PROVE  Applied' /\ CopyBeforeRecent'
<1>1. Applied'
  <2>1. \A d \in Device : \A i \in 1..inflight'[d] : i \in 1..inflight[d]
    BY DEF TypeOK
  <2> QED  BY <2>1 DEF Applied, Kept, Delivered, From
<1>2. CopyBeforeRecent'
  <2>1. ASSUME NEW e \in Device, NEW i \in 1..Len(writes'[e]), IsRecent(writes'[e][i].step)
        PROVE  \/ PeerSettled(writes[e][i].msg)'
               \/ \E j \in 1..(i - 1) : /\ writes'[e][j].step = "peerAdd"
                                        /\ writes'[e][j].msg = writes'[e][i].msg
    <3>1. \/ PeerSettled(writes[e][i].msg)
          \/ \E j \in 1..(i - 1) : /\ writes[e][j].step = "peerAdd"
                                   /\ writes[e][j].msg = writes[e][i].msg
      BY <2>1 DEF CopyBeforeRecent
    <3>2. CASE PeerSettled(writes[e][i].msg)
      BY <3>2 DEF PeerSettled, Delivered, Refused, From
    <3> QED  BY <3>1, <3>2
  <2> QED  BY <2>1 DEF CopyBeforeRecent
<1> QED  BY <1>1, <1>2

\* Steps that leave the main queues alone, too.
LEMMA HandlersUnmoved ==
  ASSUME OwnFirst, NoSilentLoss, writes' = writes, main' = main, thread' = thread,
         rejected' = rejected, sent' = sent, launched' = launched
  PROVE  OwnFirst' /\ NoSilentLoss'
<1>1. OwnFirst'
  BY DEF OwnFirst, OwnSettled, Kept, Refused, From
<1>2. NoSilentLoss'
  BY DEF NoSilentLoss, Pending, Delivered, Refused, From
<1> QED  BY <1>1, <1>2

LEMMA TypeInv ==
  ASSUME IInv, TypeOK', NEW d \in Device, NEW p \in User, Type(d, p) PROVE IInv'
<1>1. \A e \in Device : inflight'[e] <= inflight[e]
  BY DEF IInv, TypeOK, Type
<1>2. Data'
  BY DataUnmoved DEF IInv, Data, Type, backend, history
<1>3. Applied' /\ CopyBeforeRecent'
  BY <1>1, QueuesUnmoved DEF IInv, TypeOK, Type, backend, history
<1>4. OwnFirst' /\ NoSilentLoss'
  BY HandlersUnmoved DEF IInv, Type, backend, history
<1> QED  BY <1>2, <1>3, <1>4 DEF IInv, Data

LEMMA WriteLocallyInv ==
  ASSUME IInv, TypeOK', NEW d \in Device, WriteLocally(d) PROVE IInv'
<1>1. \A e \in Device : inflight'[e] <= inflight[e]
  BY DEF IInv, TypeOK, WriteLocally
<1>2. Data'
  BY DataUnmoved DEF IInv, Data, WriteLocally, backend, history
<1>3. Applied' /\ CopyBeforeRecent'
  BY <1>1, QueuesUnmoved DEF IInv, TypeOK, WriteLocally, backend, history
<1>4. OwnFirst' /\ NoSilentLoss'
  BY HandlersUnmoved DEF IInv, WriteLocally, backend, history
<1> QED  BY <1>2, <1>3, <1>4 DEF IInv, Data

LEMMA DisconnectInv ==
  ASSUME IInv, TypeOK', NEW d \in Device, Disconnect(d) PROVE IInv'
<1>1. \A e \in Device : inflight'[e] <= inflight[e]
  <2>1. /\ inflight \in [Device -> Nat]
        /\ inflight' = [inflight EXCEPT ![d] = 0]
    BY DEF IInv, TypeOK, Disconnect
  <2> QED  BY <2>1
<1>2. Data'
  BY DataUnmoved DEF IInv, Data, Disconnect, backend, history
<1>3. Applied' /\ CopyBeforeRecent'
  BY <1>1, QueuesUnmoved DEF IInv, TypeOK, Disconnect, backend, history
<1>4. OwnFirst' /\ NoSilentLoss'
  BY HandlersUnmoved DEF IInv, Disconnect, backend, history
<1> QED  BY <1>2, <1>3, <1>4 DEF IInv, Data

\* What is behind the head of a main queue, entry by entry.
LEMMA NextHandler ==
  ASSUME TypeOK, NEW d \in Device, main[d] # << >>
  PROVE  /\ Head(main[d]) = main[d][1]
         /\ Head(main[d]) \in Completion
         /\ 1 \in 1..Len(main[d])
         /\ Len(Tail(main[d])) = Len(main[d]) - 1
         /\ \A i \in 1..(Len(main[d]) - 1) : Tail(main[d])[i] = main[d][i + 1]
BY DEF TypeOK

\* A step of the channel loses nothing when what it takes from the queues of
\* the device reappears in them, or is settled.
LEMMA LossStep ==
  ASSUME TypeOK, NoSilentLoss, sent' = sent, launched' = launched,
         \A o, p \in User : thread[o][p] \subseteq thread'[o][p],
         rejected \subseteq rejected',
         \A m \in sent : Pending(m) => Pending(m)' \/ PeerSettled(m)'
  PROVE  NoSilentLoss'
<1> SUFFICES ASSUME NEW m \in sent', m.n > launched'[m.dev]
             PROVE  PeerSettled(m)' \/ Pending(m)'
  BY DEF NoSilentLoss, PeerSettled
<1>1. m \in Message /\ m \in sent /\ m.n > launched[m.dev]
  BY DEF TypeOK
<1>2. PeerSettled(m) \/ Pending(m)
  BY <1>1 DEF NoSilentLoss, PeerSettled
<1>3. PeerSettled(m) => PeerSettled(m)'
  BY <1>1, Growth
<1> QED  BY <1>1, <1>2, <1>3

LEMMA UploadDoneInv ==
  ASSUME IInv, TypeOK', NEW d \in Device, UploadDone(d) PROVE IInv'
<1>1. /\ TypeOK /\ OwnFirst /\ NoSilentLoss
      /\ writes' = writes /\ inflight' = inflight /\ thread' = thread
      /\ sent' = sent /\ rejected' = rejected /\ launched' = launched
  BY DEF IInv, UploadDone, backend, history
<1>2. Data'
  <2>1. recent' = recent /\ nsent' = nsent
    BY DEF UploadDone, backend, history
  <2>2. Data
    BY DEF IInv, Data
  <2> QED  BY <1>1, <2>1, <2>2, DataUnmoved
<1>3. Applied' /\ CopyBeforeRecent'
  <2>1. inflight' \in [Device -> Nat] /\ \A e \in Device : inflight'[e] <= inflight[e]
    BY <1>1 DEF TypeOK
  <2>2. Applied /\ CopyBeforeRecent
    BY DEF IInv
  <2> QED  BY <1>1, <2>1, <2>2, QueuesUnmoved
<1>4. /\ main' = [main EXCEPT ![d] = Tail(main[d])]
      /\ main[d][1].step = "peerAdd"
      /\ main[d] # << >>
  BY <1>1, NextHandler DEF UploadDone
<1>5. \A e \in Device : \A i \in 1..Len(main'[e]) :
        \E j \in 1..Len(main[e]) : main'[e][i] = main[e][j]
  <2> TAKE e \in Device
  <2>1. CASE e # d
    BY <1>1, <1>4, <2>1 DEF TypeOK
  <2>2. CASE e = d
    <3>1. main'[d] = Tail(main[d])
      BY <1>1, <1>4 DEF TypeOK
    <3>2. \A i \in 1..(Len(main[d]) - 1) : i + 1 \in 1..Len(main[d])
      BY <1>1 DEF TypeOK
    <3> QED  BY <1>1, <1>4, <2>2, <3>1, <3>2, NextHandler
  <2> QED  BY <2>1, <2>2
<1>6. OwnFirst'
  <2>2. OwnFirst /\ writes' = writes
    BY <1>1
  <2>3. ASSUME NEW e \in Device, NEW i \in 1..Len(writes'[e]), writes'[e][i].step # "ownAdd"
        PROVE  OwnSettled(writes[e][i].msg)'
    <3>1. writes'[e][i].step # "ownAdd" => OwnSettled(writes[e][i].msg)
      BY <2>2 DEF OwnFirst
    <3>2. OwnSettled(writes[e][i].msg) => OwnSettled(writes[e][i].msg)'
      BY <1>1 DEF OwnSettled, Kept, Refused, From
    <3> QED  BY <2>3, <3>1, <3>2
  <2>4. ASSUME NEW e \in Device, NEW i \in 1..Len(main'[e])
        PROVE  OwnSettled(main[e][i].msg)'
    <3>1. PICK j \in 1..Len(main[e]) : main'[e][i] = main[e][j]
      BY <1>5
    <3>2. OwnSettled(main[e][j].msg)
      BY <2>2 DEF OwnFirst
    <3> QED  BY <1>1, <3>1, <3>2 DEF OwnSettled, Kept, Refused, From
  <2> QED  BY <2>3, <2>4 DEF OwnFirst
<1>7. \A e \in Device : \A i \in 1..Len(main[e]) :
        main[e][i].step = "ownAdd" => \E j \in 1..Len(main'[e]) : main'[e][j] = main[e][i]
  <2> TAKE e \in Device
  <2>1. CASE e # d
    BY <1>1, <1>4, <2>1 DEF TypeOK
  <2>2. CASE e = d
    <3>1. main'[d] = Tail(main[d])
      BY <1>1, <1>4 DEF TypeOK
    <3>2. \A i \in 1..Len(main[d]) : i = 1 \/ i - 1 \in 1..(Len(main[d]) - 1)
      BY <1>1 DEF TypeOK
    <3>3. \A i \in 1..(Len(main[d]) - 1) : Tail(main[d])[i] = main[d][i + 1]
      BY <1>1, <1>4, NextHandler
    <3>4. ASSUME NEW i \in 1..Len(main[d]), main[d][i].step = "ownAdd"
          PROVE  \E j \in 1..Len(main'[d]) : main'[d][j] = main[d][i]
      <4>1. i - 1 \in 1..(Len(main[d]) - 1)
        BY <1>4, <3>2, <3>4
      <4>2. Tail(main[d])[i - 1] = main[d][i]
        <5>1. (i - 1) + 1 = i
          BY <1>1, <3>4 DEF TypeOK
        <5> QED  BY <3>3, <4>1, <5>1
      <4>3. Len(main'[d]) = Len(main[d]) - 1
        BY <1>1, <1>4, <3>1, NextHandler
      <4> QED  BY <3>1, <4>1, <4>2, <4>3
    <3> QED  BY <2>2, <3>4
  <2> QED  BY <2>1, <2>2
<1>8. ASSUME NEW m \in sent, Pending(m) PROVE Pending(m)'
  <2>1. m.dev \in Device
    BY <1>1 DEF TypeOK, Message
  <2> QED  BY <1>1, <1>7, <1>8, <2>1 DEF Pending
<1>9. NoSilentLoss'
  BY <1>1, <1>8, LossStep
<1> QED  BY <1>2, <1>3, <1>6, <1>9 DEF IInv, Data

LEMMA LengthsAreNat ==
  ASSUME TypeOK, TypeOK'
  PROVE  \A e \in Device : /\ Len(writes[e]) \in Nat /\ Len(writes'[e]) \in Nat
                           /\ Len(main[e]) \in Nat /\ Len(main'[e]) \in Nat
<1>1. \A e \in Device : /\ writes[e] \in Seq(Write) /\ writes'[e] \in Seq(Write)
                        /\ main[e] \in Seq(Completion) /\ main'[e] \in Seq(Completion)
  BY DEF TypeOK
<1> QED  BY <1>1, LenProperties

\* Steps that only add writes at the end of a queue keep what is known of the
\* writes before them.
LEMMA QueuesExtended ==
  ASSUME TypeOK, Applied, thread' = thread, rejected' = rejected, inflight' = inflight,
         \A e \in Device : \A i \in 1..Len(writes[e]) : writes'[e][i] = writes[e][i]
  PROVE  /\ Applied'
         /\ \A e \in Device : \A i \in 1..Len(writes[e]) :
              (\/ PeerSettled(writes[e][i].msg)
               \/ \E j \in 1..(i - 1) : /\ writes[e][j].step = "peerAdd"
                                        /\ writes[e][j].msg = writes[e][i].msg)
              => (\/ PeerSettled(writes'[e][i].msg)
                  \/ \E j \in 1..(i - 1) : /\ writes'[e][j].step = "peerAdd"
                                           /\ writes'[e][j].msg = writes'[e][i].msg)
<1>1. Applied'
  <2>1. \A e \in Device : \A i \in 1..inflight[e] : i \in 1..Len(writes[e])
    BY DEF TypeOK
  <2>2. \A m : (Kept(m) => Kept(m)') /\ (Delivered(m) => Delivered(m)')
    BY DEF Kept, Delivered, From
  <2>3. \A e \in Device : \A i \in 1..inflight'[e] : writes'[e][i] = writes[e][i]
    BY <2>1
  <2> QED  BY <2>2, <2>3 DEF Applied
<1>2. \A e \in Device : \A i \in 1..Len(writes[e]) : \A j \in 1..(i - 1) :
        writes'[e][j] = writes[e][j]
  <2>1. \A e \in Device : \A i \in 1..Len(writes[e]) : \A j \in 1..(i - 1) :
          j \in 1..Len(writes[e])
    BY DEF TypeOK
  <2> QED  BY <2>1
<1> QED  BY <1>1, <1>2

LEMMA SendInv ==
  ASSUME IInv, TypeOK', NEW d \in Device, NEW p \in User, Send(d, p) PROVE IInv'
<1> DEFINE m == [dev |-> d, to |-> p, n |-> nsent[d] + 1]
           last == Len(writes[d]) + 1
<1>1. /\ TypeOK /\ main' = main /\ inflight' = inflight /\ thread' = thread
      /\ recent' = recent /\ rejected' = rejected /\ launched' = launched
      /\ sent' = sent \cup {m} /\ nsent' = [nsent EXCEPT ![d] = @ + 1]
      /\ writes' = [writes EXCEPT ![d] = Append(@, FirstWrite(m))]
  BY DEF IInv, Send, backend
<1>2. m \in Message
  BY <1>1 DEF TypeOK
<1>3. /\ Len(writes'[d]) = last
      /\ writes'[d][last] = FirstWrite(m)
      /\ \A e \in Device : \A i \in 1..Len(writes[e]) : writes'[e][i] = writes[e][i]
      /\ \A e \in Device : e # d => writes'[e] = writes[e]
      /\ last \in Nat
  BY <1>1 DEF TypeOK
<1>4. FirstWrite(m).step = "ownAdd" /\ FirstWrite(m).msg = m /\ FirstWrite(m).cb = TRUE
  BY DEF FirstWrite, Mutation
<1> HIDE DEF m
<1>a. thread' = thread /\ rejected' = rejected /\ main' = main
  BY <1>1
<1>b. \A e \in Device : Len(writes[e]) \in Nat /\ Len(writes'[e]) \in Nat
  BY LengthsAreNat DEF IInv
<1>5. \A e \in Device : \A i \in 1..Len(writes'[e]) :
        i \in 1..Len(writes[e]) \/ writes'[e][i].step = "ownAdd"
  <2> TAKE e \in Device
  <2>1. CASE e # d  BY <1>3, <2>1
  <2>2. CASE e = d
    <3>1. \A i \in 1..last : i \in 1..Len(writes[d]) \/ i = last
      BY <1>b
    <3> QED  BY <1>3, <1>4, <2>2, <3>1
  <2> QED  BY <2>1, <2>2
<1>6. Applied'
  BY <1>1, <1>3, QueuesExtended DEF IInv
<1>7. OwnFirst'
  <2>1. ASSUME NEW e \in Device, NEW i \in 1..Len(writes'[e]), writes'[e][i].step # "ownAdd"
        PROVE  OwnSettled(writes[e][i].msg)'
    <3>1. i \in 1..Len(writes[e]) /\ writes'[e][i] = writes[e][i]
      BY <1>3, <1>5, <2>1
    <3>2. OwnSettled(writes[e][i].msg)
      BY <2>1, <3>1 DEF IInv, OwnFirst
    <3> QED  BY <1>a, <3>1, <3>2 DEF OwnSettled, Kept, Refused, From
  <2>2. \A e \in Device : \A i \in 1..Len(main'[e]) : OwnSettled(main[e][i].msg)'
    BY <1>a DEF IInv, OwnFirst, OwnSettled, Kept, Refused, From
  <2> QED  BY <2>1, <2>2 DEF OwnFirst
<1>8. CopyBeforeRecent'
  <2> SUFFICES ASSUME NEW e \in Device, NEW i \in 1..Len(writes'[e]),
                      IsRecent(writes'[e][i].step)
               PROVE  \/ PeerSettled(writes[e][i].msg)'
                      \/ \E j \in 1..(i - 1) : /\ writes'[e][j].step = "peerAdd"
                                               /\ writes'[e][j].msg = writes'[e][i].msg
    BY DEF CopyBeforeRecent
  <2>1. i \in 1..Len(writes[e]) /\ writes'[e][i] = writes[e][i]
    BY <1>3, <1>5 DEF IsRecent
  <2>2. \/ PeerSettled(writes[e][i].msg)
        \/ \E j \in 1..(i - 1) : /\ writes[e][j].step = "peerAdd"
                                 /\ writes[e][j].msg = writes[e][i].msg
    BY <2>1 DEF IInv, CopyBeforeRecent
  <2>3. \A j \in 1..(i - 1) : writes'[e][j] = writes[e][j]
    BY <1>b, <1>3, <2>1
  <2>4. CASE PeerSettled(writes[e][i].msg)
    BY <1>a, <2>1, <2>4 DEF PeerSettled, Delivered, Refused, From
  <2> QED  BY <2>1, <2>2, <2>3, <2>4
<1>9. Numbered'
  <2>1. m.dev = d /\ m.n = nsent[d] + 1
    BY DEF m
  <2>2. nsent'[d] = nsent[d] + 1 /\ \A e \in Device : nsent[e] <= nsent'[e]
    <3>1. nsent \in [Device -> 0..MaxSends] /\ nsent' = [nsent EXCEPT ![d] = nsent[d] + 1]
      BY <1>1 DEF TypeOK
    <3> QED  BY <3>1, ConstantsAssumption
  <2>3. \A k \in sent : k.n <= nsent[k.dev] /\ k.dev \in Device /\ k.n \in Int
    BY <1>1 DEF IInv, TypeOK, Numbered, Message
  <2>4. \A e \in Device : nsent[e] \in Int /\ nsent'[e] \in Int
    BY <1>1, ConstantsAssumption DEF TypeOK
  <2> QED  BY <1>1, <2>1, <2>2, <2>3, <2>4 DEF Numbered
<1>10. Backed' /\ RecentBacked'
  BY <1>1 DEF IInv, Backed, RecentBacked, OwnSettled, Kept, Delivered, Refused, From
<1>11. NoSilentLoss'
  <2> SUFFICES ASSUME NEW k \in sent', k.n > launched'[k.dev]
               PROVE  PeerSettled(k)' \/ Pending(k)'
    BY DEF NoSilentLoss, PeerSettled
  <2>1. CASE k = m
    <3>1. k.dev = d /\ last \in 1..Len(writes'[d])
      BY <1>3, <2>1 DEF m
    <3> QED  BY <1>3, <1>4, <2>1, <3>1 DEF Pending
  <2>2. CASE k \in sent
    <3>1. k.dev \in Device /\ (PeerSettled(k) \/ Pending(k))
      BY <1>1, <2>2 DEF IInv, TypeOK, Message, NoSilentLoss, PeerSettled
    <3>2. \A i \in 1..Len(writes[k.dev]) : i \in 1..Len(writes'[k.dev])
      BY <1>1, <1>3, <3>1 DEF TypeOK
    <3>3. Pending(k) => Pending(k)'
      BY <1>1, <1>3, <3>1, <3>2 DEF Pending
    <3> QED  BY <1>1, <3>1, <3>3 DEF PeerSettled, Delivered, Refused, From
  <2> QED  BY <1>1, <2>1, <2>2
<1> QED  BY <1>6, <1>7, <1>8, <1>9, <1>10, <1>11 DEF IInv

\* The three writes of the completion handler are put at the end of the queue.
LEMMA MirrorAppends ==
  ASSUME TypeOK, NEW d \in Device, Mirror(d)
  PROVE  LET m == Head(main[d]).msg
             L == Len(writes[d])
         IN /\ Len(writes'[d]) = L + 3
            /\ \A i \in 1..L : writes'[d][i] = writes[d][i]
            /\ writes'[d][L + 1].step = "peerAdd" /\ writes'[d][L + 1].msg = m
            /\ writes'[d][L + 2].step = "ownRecent" /\ writes'[d][L + 2].msg = m
            /\ writes'[d][L + 3].step = "peerRecent" /\ writes'[d][L + 3].msg = m
<1> DEFINE m == Head(main[d]).msg
           L == Len(writes[d])
<1>a. m \in Message
  BY NextHandler DEF Mirror, Completion
<1>b. L \in Nat
  BY LenProperties DEF TypeOK
<1>1. writes[d] \in Seq(Write) /\ MirrorWrites(m) \in Seq(Write)
  BY <1>a, MirrorWritesType DEF TypeOK
<1>2. writes'[d] = writes[d] \o MirrorWrites(m)
  BY DEF Mirror, TypeOK
<1>3. /\ Len(MirrorWrites(m)) = 3
      /\ MirrorWrites(m)[1].step = "peerAdd" /\ MirrorWrites(m)[1].msg = m
      /\ MirrorWrites(m)[2].step = "ownRecent" /\ MirrorWrites(m)[2].msg = m
      /\ MirrorWrites(m)[3].step = "peerRecent" /\ MirrorWrites(m)[3].msg = m
  BY DEF MirrorWrites, Mutation
<1> DEFINE s == MirrorWrites(m)
<1> HIDE DEF m, s
<1>4. /\ Len(writes[d] \o s) = Len(writes[d]) + Len(s)
      /\ \A i \in 1..(Len(writes[d]) + Len(s)) :
           (writes[d] \o s)[i] = IF i <= Len(writes[d]) THEN writes[d][i]
                                 ELSE s[i - Len(writes[d])]
  BY <1>1, ConcatProperties DEF s
<1>5. L \in Nat /\ Len(s) = 3
  BY <1>b, <1>3 DEF s
<1>6. /\ \A i \in 1..L : writes'[d][i] = writes[d][i]
      /\ \A i \in 1..3 : writes'[d][L + i] = s[i]
      /\ Len(writes'[d]) = L + 3
  <2>1. \A i \in 1..L : i \in 1..(L + 3) /\ i <= L
    BY <1>5
  <2>2. \A i \in 1..3 : L + i \in 1..(L + 3) /\ ~ (L + i <= L) /\ (L + i) - L = i
    BY <1>5
  <2>3. writes'[d] = writes[d] \o s
    BY <1>2 DEF s
  <2> HIDE DEF L
  <2>4. \A i \in 1..(L + 3) : writes'[d][i] = IF i <= L THEN writes[d][i] ELSE s[i - L]
    BY <1>4, <1>5, <2>3 DEF L
  <2> QED  BY <1>4, <1>5, <2>1, <2>2, <2>3, <2>4 DEF L
<1>7. 1 \in 1..3 /\ 2 \in 1..3 /\ 3 \in 1..3
  OBVIOUS
<1> QED  BY <1>3, <1>6, <1>7 DEF m, s

LEMMA MirrorInv ==
  ASSUME IInv, TypeOK', NEW d \in Device, Mirror(d) PROVE IInv'
<1> DEFINE m == Head(main[d]).msg
           L == Len(writes[d])
<1>1. /\ TypeOK /\ inflight' = inflight /\ thread' = thread /\ recent' = recent
      /\ rejected' = rejected /\ launched' = launched /\ sent' = sent /\ nsent' = nsent
  BY DEF IInv, Mirror, backend, history
<1>2. \A e \in Device : /\ Len(writes[e]) \in Nat /\ Len(writes'[e]) \in Nat
                        /\ Len(main[e]) \in Nat /\ Len(main'[e]) \in Nat
  BY <1>1, LengthsAreNat
<1>3. /\ main[d] # << >> /\ Head(main[d]).step = "ownAdd"
      /\ main'[d] = Tail(main[d])
      /\ \A e \in Device : e # d => main'[e] = main[e] /\ writes'[e] = writes[e]
  BY <1>1 DEF Mirror, TypeOK
<1>4. /\ m \in Message /\ main[d][1].msg = m /\ 1 \in 1..Len(main[d])
      /\ Len(main'[d]) = Len(main[d]) - 1
      /\ \A i \in 1..(Len(main[d]) - 1) : main'[d][i] = main[d][i + 1]
  BY <1>1, <1>3, NextHandler DEF Completion
<1>5. OwnSettled(m)
  BY <1>4 DEF IInv, OwnFirst
<1>6. /\ Len(writes'[d]) = L + 3
      /\ \A i \in 1..L : writes'[d][i] = writes[d][i]
      /\ writes'[d][L + 1].step = "peerAdd" /\ writes'[d][L + 1].msg = m
      /\ writes'[d][L + 2].step = "ownRecent" /\ writes'[d][L + 2].msg = m
      /\ writes'[d][L + 3].step = "peerRecent" /\ writes'[d][L + 3].msg = m
  BY <1>1, MirrorAppends
<1> HIDE DEF m
<1>7. \A e \in Device : \A i \in 1..Len(writes[e]) : writes'[e][i] = writes[e][i]
  BY <1>3, <1>6
<1>8. \A i \in 1..Len(writes'[d]) : i \in 1..L \/ i = L + 1 \/ i = L + 2 \/ i = L + 3
  BY <1>2, <1>6
<1>9. Applied'
  BY <1>1, <1>7, QueuesExtended DEF IInv
<1>10. Data'
  BY <1>1, DataUnmoved DEF IInv, Data
<1>11. OwnFirst'
  <2>1. ASSUME NEW e \in Device, NEW i \in 1..Len(writes'[e]), writes'[e][i].step # "ownAdd"
        PROVE  OwnSettled(writes[e][i].msg)'
    <3>1. CASE i \in 1..Len(writes[e])
      <4>1. writes'[e][i] = writes[e][i] /\ OwnSettled(writes[e][i].msg)
        BY <1>7, <2>1, <3>1 DEF IInv, OwnFirst
      <4> QED  BY <1>1, <4>1 DEF OwnSettled, Kept, Refused, From
    <3>2. CASE e = d /\ i \notin 1..L
      <4>1. writes'[e][i].msg = m
        BY <1>6, <1>8, <3>2
      <4> QED  BY <1>1, <1>5, <4>1 DEF OwnSettled, Kept, Refused, From
    <3> QED  BY <1>3, <2>1, <3>1, <3>2
  <2>2. ASSUME NEW e \in Device, NEW i \in 1..Len(main'[e])
        PROVE  OwnSettled(main[e][i].msg)'
    <3>1. \E j \in 1..Len(main[e]) : main'[e][i] = main[e][j]
      <4>1. CASE e # d  BY <1>3, <4>1
      <4>2. CASE e = d
        <5>1. i \in 1..(Len(main[d]) - 1) /\ i + 1 \in 1..Len(main[d])
          BY <1>2, <1>4, <4>2
        <5> QED  BY <1>4, <4>2, <5>1
      <4> QED  BY <4>1, <4>2
    <3>2. PICK j \in 1..Len(main[e]) : main'[e][i] = main[e][j]
      BY <3>1
    <3>3. OwnSettled(main[e][j].msg)
      BY DEF IInv, OwnFirst
    <3> QED  BY <1>1, <3>2, <3>3 DEF OwnSettled, Kept, Refused, From
  <2> QED  BY <2>1, <2>2 DEF OwnFirst
<1>12. CopyBeforeRecent'
  <2> SUFFICES ASSUME NEW e \in Device, NEW i \in 1..Len(writes'[e]),
                      IsRecent(writes'[e][i].step)
               PROVE  \/ PeerSettled(writes[e][i].msg)'
                      \/ \E j \in 1..(i - 1) : /\ writes'[e][j].step = "peerAdd"
                                               /\ writes'[e][j].msg = writes'[e][i].msg
    BY DEF CopyBeforeRecent
  <2>1. CASE i \in 1..Len(writes[e])
    <3>1. writes'[e][i] = writes[e][i]
      BY <1>7, <2>1
    <3>2. \/ PeerSettled(writes[e][i].msg)
          \/ \E j \in 1..(i - 1) : /\ writes[e][j].step = "peerAdd"
                                   /\ writes[e][j].msg = writes[e][i].msg
      BY <2>1, <3>1 DEF IInv, CopyBeforeRecent
    <3>3. \A j \in 1..(i - 1) : writes'[e][j] = writes[e][j]
      BY <1>2, <1>7, <2>1
    <3>4. CASE PeerSettled(writes[e][i].msg)
      BY <1>1, <3>1, <3>4 DEF PeerSettled, Delivered, Refused, From
    <3> QED  BY <3>1, <3>2, <3>3, <3>4
  <2>2. CASE e = d /\ i \notin 1..L
    <3>1. (i = L + 2 \/ i = L + 3) /\ writes'[d][i].msg = m
      BY <1>6, <1>8, <2>2 DEF IsRecent
    <3>2. L + 1 \in 1..(i - 1)
      BY <1>2, <3>1
    <3> QED  BY <1>6, <2>2, <3>1, <3>2
  <2> QED  BY <1>3, <2>1, <2>2
<1>13. ASSUME NEW k \in sent, Pending(k) PROVE Pending(k)'
  <2>1. k.dev \in Device
    BY <1>1 DEF TypeOK, Message
  <2>2. CASE \E i \in 1..Len(writes[k.dev]) :
               LET w == writes[k.dev][i] IN
               w.msg = k /\ (w.step = "peerAdd" \/ (w.step = "ownAdd" /\ w.cb))
    <3>1. \A i \in 1..Len(writes[k.dev]) : i \in 1..Len(writes'[k.dev])
      BY <1>2, <1>3, <1>6, <2>1
    <3> QED  BY <1>7, <2>1, <2>2, <3>1 DEF Pending
  <2>3. CASE \E i \in 1..Len(main[k.dev]) :
               main[k.dev][i].msg = k /\ main[k.dev][i].step = "ownAdd"
    <3>1. PICK i \in 1..Len(main[k.dev]) :
                 main[k.dev][i].msg = k /\ main[k.dev][i].step = "ownAdd"
      BY <2>3
    <3>2. CASE k.dev # d
      BY <1>3, <2>1, <3>1, <3>2 DEF Pending
    <3>3. CASE k.dev = d /\ i = 1
      <4>1. k = m /\ L + 1 \in 1..Len(writes'[d])
        BY <1>2, <1>4, <1>6, <3>1, <3>3
      <4> QED  BY <1>6, <3>3, <4>1 DEF Pending
    <3>4. CASE k.dev = d /\ i # 1
      <4>1. i - 1 \in 1..(Len(main[d]) - 1) /\ (i - 1) + 1 = i
        BY <1>2, <3>4
      <4>2. i - 1 \in 1..Len(main'[d]) /\ main'[d][i - 1] = main[d][i]
        BY <1>4, <4>1
      <4> QED  BY <3>1, <3>4, <4>2 DEF Pending
    <3> QED  BY <3>2, <3>3, <3>4
  <2> QED  BY <1>13, <2>2, <2>3 DEF Pending
<1>14. NoSilentLoss'
  BY <1>1, <1>13, LossStep DEF IInv
<1> QED  BY <1>9, <1>10, <1>11, <1>12, <1>14 DEF IInv, Data

LEMMA AppliedIsPrefix ==
  ASSUME TypeOK
  PROVE  \A e \in Device : \A i \in 1..inflight[e] : i \in 1..Len(writes[e])
BY DEF TypeOK

\* What the backend's two operations do to threads and latest-message
\* documents.
LEMMA CommitEffect ==
  ASSUME TypeOK, NEW w \in Write, AddDocument(w) \/ SetData(w)
  PROVE  /\ \A o, p \in User : thread[o][p] \subseteq thread'[o][p]
         /\ w.step = "ownAdd" => Kept(w.msg)'
         /\ w.step = "peerAdd" => Delivered(w.msg)'
         /\ \A m \in Message : Delivered(m)' =>
              \/ Delivered(m)
              \/ m = w.msg /\ (w.step = "peerAdd" \/ w.step = "ownAdd")
         /\ \A o, p \in User :
              \/ recent'[o][p] = recent[o][p]
              \/ /\ IsRecent(w.step) /\ recent'[o][p] = w.msg
                 /\ {From(w.msg), w.msg.to} = {o, p}
<1>1. w.msg \in Message /\ w.step \in Step
  BY DEF Write
<1>2. /\ Owner(w.step, w.msg) \in User /\ Peer(w.step, w.msg) \in User
      /\ From(w.msg) \in User /\ w.msg.to \in User
  BY <1>1, UsersOfStep DEF Message
<1>3. CASE AddDocument(w)
  <2>1. \A o, p \in User :
          thread'[o][p] = IF o = Owner(w.step, w.msg) /\ p = Peer(w.step, w.msg)
                          THEN thread[o][p] \cup {w.msg} ELSE thread[o][p]
    BY <1>2, <1>3 DEF AddDocument, TypeOK
  <2>2. w.step = "ownAdd" => Kept(w.msg)'
    BY <1>2, <2>1 DEF Owner, Peer, Kept, From
  <2>3. w.step = "peerAdd" => Delivered(w.msg)'
    BY <1>2, <2>1 DEF Owner, Peer, Delivered, From
  <2>4. ASSUME NEW m \in Message, Delivered(m)'
        PROVE  Delivered(m) \/ m = w.msg
    <3>1. From(m) \in User /\ m.to \in User
      BY ConstantsAssumption DEF From, Message
    <3> QED  BY <2>1, <2>4, <3>1 DEF Delivered, From
  <2>5. recent' = recent /\ (w.step = "peerAdd" \/ w.step = "ownAdd")
    BY <1>3 DEF AddDocument
  <2> QED  BY <2>1, <2>2, <2>3, <2>4, <2>5
<1>4. CASE SetData(w)
  <2>1. thread' = thread /\ IsRecent(w.step)
    BY <1>4 DEF SetData, IsRecent
  <2>2. \A o, p \in User :
          recent'[o][p] = IF o = Owner(w.step, w.msg) /\ p = Peer(w.step, w.msg)
                          THEN w.msg ELSE recent[o][p]
    BY <1>2, <1>4 DEF SetData, TypeOK
  <2>3. {From(w.msg), w.msg.to} = {Owner(w.step, w.msg), Peer(w.step, w.msg)}
    BY DEF Owner, Peer
  <2>4. \A m \in Message : Delivered(m)' => Delivered(m)
    BY <2>1 DEF Delivered, From
  <2>5. w.step # "ownAdd" /\ w.step # "peerAdd"
    BY <2>1 DEF IsRecent
  <2> QED  BY <2>1, <2>2, <2>3, <2>4, <2>5
<1> QED  BY <1>3, <1>4

LEMMA CommitInv ==
  ASSUME IInv, TypeOK', NEW d \in Device, Commit(d) PROVE IInv'
<1> DEFINE n == inflight[d] + 1
<1>1. /\ TypeOK /\ writes' = writes /\ main' = main /\ rejected' = rejected
      /\ launched' = launched /\ sent' = sent /\ nsent' = nsent
      /\ inflight' = [inflight EXCEPT ![d] = n]
  BY DEF IInv, Commit, history
<1>2. n \in 1..Len(writes[d]) /\ writes[d][n] \in Write
  BY <1>1, NextWrite DEF Commit
<1>w. PICK w \in Write : w = writes[d][n]
  BY <1>2
<1>3. AddDocument(w) \/ SetData(w)
  BY <1>w DEF Commit, AddDocument, SetData
<1>4. w.msg \in Message
  BY DEF Write
<1>5. /\ \A o, p \in User : thread[o][p] \subseteq thread'[o][p]
      /\ w.step = "ownAdd" => Kept(w.msg)'
      /\ w.step = "peerAdd" => Delivered(w.msg)'
  BY <1>1, <1>3, CommitEffect
<1>6. \A m \in Message : /\ Kept(m) => Kept(m)'
                         /\ Delivered(m) => Delivered(m)'
                         /\ OwnSettled(m) => OwnSettled(m)'
                         /\ PeerSettled(m) => PeerSettled(m)'
  BY <1>1, <1>5, Growth
<1>7. /\ \A e \in Device : \A i \in 1..Len(writes[e]) : writes[e][i].msg \in Message
      /\ \A e \in Device : \A i \in 1..Len(main[e]) : main[e][i].msg \in Message
  <2>1. \A e \in Device : writes[e] \in Seq(Write) /\ main[e] \in Seq(Completion)
    BY <1>1 DEF TypeOK
  <2>2. ASSUME NEW e \in Device, NEW i \in 1..Len(writes[e]) PROVE writes[e][i].msg \in Message
    <3>1. writes[e][i] \in Write
      BY <2>1, ElementOfSeq
    <3> QED  BY <3>1 DEF Write
  <2>3. ASSUME NEW e \in Device, NEW i \in 1..Len(main[e]) PROVE main[e][i].msg \in Message
    <3>1. main[e][i] \in Completion
      BY <2>1, ElementOfSeq
    <3> QED  BY <3>1 DEF Completion
  <2> QED  BY <2>2, <2>3
<1>8. Applied'
  <2> SUFFICES ASSUME NEW e \in Device, NEW i \in 1..inflight'[e]
               PROVE  /\ writes[e][i].step = "ownAdd" => Kept(writes[e][i].msg)'
                      /\ writes[e][i].step = "peerAdd" => Delivered(writes[e][i].msg)'
    BY <1>1 DEF Applied
  <2>1. CASE i \in 1..inflight[e]
    <3>1. i \in 1..Len(writes[e])
      BY <1>1, <2>1, AppliedIsPrefix
    <3>2. /\ writes[e][i].step = "ownAdd" => Kept(writes[e][i].msg)
          /\ writes[e][i].step = "peerAdd" => Delivered(writes[e][i].msg)
      BY <2>1 DEF IInv, Applied
    <3>3. writes[e][i].msg \in Message
      BY <1>7, <3>1
    <3>4. /\ Kept(writes[e][i].msg) => writes[e][i].msg \in thread'[From(writes[e][i].msg)][writes[e][i].msg.to]
          /\ Delivered(writes[e][i].msg) => writes[e][i].msg \in thread'[writes[e][i].msg.to][From(writes[e][i].msg)]
      BY <1>6, <3>3 DEF Kept, Delivered, From
    <3> QED  BY <1>1, <3>2, <3>4 DEF Kept, Delivered, From
  <2>2. CASE i \notin 1..inflight[e]
    <3>1. e = d /\ i = n
      BY <1>1, <2>2 DEF TypeOK
    <3>2. writes[e][i] = w /\ writes'[e][i] = w
      BY <1>1, <1>w, <3>1
    <3>3. /\ w.step = "ownAdd" => w.msg \in thread'[From(w.msg)][w.msg.to]
          /\ w.step = "peerAdd" => w.msg \in thread'[w.msg.to][From(w.msg)]
      BY <1>5 DEF Kept, Delivered, From
    <3> QED  BY <3>2, <3>3 DEF Kept, Delivered, From
  <2> QED  BY <2>1, <2>2
<1>9. OwnFirst'
  <2>1. OwnFirst /\ writes' = writes /\ main' = main
    BY <1>1 DEF IInv
  <2>2. ASSUME NEW e \in Device, NEW i \in 1..Len(writes'[e]), writes'[e][i].step # "ownAdd"
        PROVE  OwnSettled(writes[e][i].msg)'
    <3>1. PICK m \in Message : m = writes[e][i].msg
      BY <1>7, <2>1
    <3>2. OwnSettled(m)
      BY <2>1, <2>2, <3>1 DEF OwnFirst
    <3> QED  BY <1>6, <2>1, <3>1, <3>2 DEF OwnSettled, Kept, Refused, From
  <2>3. ASSUME NEW e \in Device, NEW i \in 1..Len(main'[e]) PROVE OwnSettled(main[e][i].msg)'
    <3>1. PICK m \in Message : m = main[e][i].msg
      BY <1>7, <2>1
    <3>2. OwnSettled(m)
      BY <2>1, <3>1 DEF OwnFirst
    <3> QED  BY <1>6, <2>1, <3>1, <3>2 DEF OwnSettled, Kept, Refused, From
  <2> QED  BY <2>2, <2>3 DEF OwnFirst
<1>10. CopyBeforeRecent'
  <2>1. CopyBeforeRecent /\ writes' = writes
    BY <1>1 DEF IInv
  <2>2. ASSUME NEW e \in Device, NEW i \in 1..Len(writes[e]), PeerSettled(writes[e][i].msg)
        PROVE  PeerSettled(writes[e][i].msg)'
    <3>1. PICK m \in Message : m = writes[e][i].msg
      BY <1>7
    <3> QED  BY <1>1, <1>6, <2>2, <3>1 DEF PeerSettled, Delivered, Refused, From
  <2> QED  BY <2>1, <2>2 DEF CopyBeforeRecent
<1>11. Numbered'
  BY <1>1 DEF IInv, Numbered
<1>12. w.step # "ownAdd" => OwnSettled(w.msg)
  BY <1>2, <1>w DEF IInv, OwnFirst
<1>13. Backed'
  <2> SUFFICES ASSUME NEW m \in Message, Delivered(m)' PROVE OwnSettled(m)'
    BY DEF Backed
  <2>1. Delivered(m) \/ (m = w.msg /\ (w.step = "peerAdd" \/ w.step = "ownAdd"))
    BY <1>1, <1>3, CommitEffect
  <2>2. CASE Delivered(m)
    BY <1>6, <2>2 DEF IInv, Backed
  <2>3. CASE m = w.msg /\ w.step = "peerAdd"
    BY <1>4, <1>6, <1>12, <2>3
  <2>4. CASE m = w.msg /\ w.step = "ownAdd"
    BY <1>5, <2>4 DEF OwnSettled
  <2> QED  BY <2>1, <2>2, <2>3, <2>4
<1>14. IsRecent(w.step) => OwnSettled(w.msg) /\ PeerSettled(w.msg)
  <2> SUFFICES ASSUME IsRecent(w.step) PROVE PeerSettled(w.msg)
    BY <1>12 DEF IsRecent
  <2>1. \/ PeerSettled(w.msg)
        \/ \E j \in 1..(n - 1) : writes[d][j].step = "peerAdd" /\ writes[d][j].msg = w.msg
    BY <1>2, <1>w DEF IInv, CopyBeforeRecent
  <2>2. n - 1 = inflight[d]
    BY <1>1 DEF TypeOK
  <2>3. \A j \in 1..inflight[d] :
          writes[d][j].step = "peerAdd" => Delivered(writes[d][j].msg)
    BY DEF IInv, Applied
  <2> QED  BY <2>1, <2>2, <2>3 DEF PeerSettled
<1>15. RecentBacked'
  <2> SUFFICES ASSUME NEW o \in User, NEW p \in User, recent'[o][p] # NoMessage
               PROVE  /\ {From(recent'[o][p]), recent'[o][p].to} = {o, p}
                      /\ OwnSettled(recent[o][p])'
                      /\ PeerSettled(recent[o][p])'
    BY DEF RecentBacked, OwnSettled, PeerSettled, From
  <2>1. \/ recent'[o][p] = recent[o][p]
        \/ /\ IsRecent(w.step) /\ recent'[o][p] = w.msg
           /\ {From(w.msg), w.msg.to} = {o, p}
    BY <1>1, <1>3, CommitEffect
  <2>2. PICK r \in Message : r = recent'[o][p]
    BY DEF TypeOK
  <2>3. OwnSettled(r) /\ PeerSettled(r) /\ {From(r), r.to} = {o, p}
    <3>1. CASE recent'[o][p] = recent[o][p]
      BY <2>2, <3>1 DEF IInv, RecentBacked, OwnSettled, PeerSettled
    <3>2. CASE /\ IsRecent(w.step) /\ recent'[o][p] = w.msg
               /\ {From(w.msg), w.msg.to} = {o, p}
      BY <1>14, <2>2, <3>2
    <3> QED  BY <2>1, <3>1, <3>2
  <2> QED  BY <1>6, <2>2, <2>3 DEF OwnSettled, PeerSettled, Kept, Delivered, Refused, From
<1>16. ASSUME NEW m \in sent, Pending(m) PROVE Pending(m)'
  BY <1>1, <1>16 DEF Pending
<1>17. NoSilentLoss'
  BY <1>1, <1>5, <1>16, LossStep DEF IInv
<1> QED  BY <1>8, <1>9, <1>10, <1>11, <1>13, <1>15, <1>17 DEF IInv

\* The oldest write leaves the queue, settled, and its completion handler, if
\* it has one, is dispatched: what Ack and Reject have in common.
LEMMA Popped ==
  ASSUME IInv, TypeOK', NEW d \in Device, NEW ok \in BOOLEAN, stored[d] > 0,
         thread' = thread, rejected \subseteq rejected', sent' = sent,
         launched' = launched,
         writes' = [writes EXCEPT ![d] = Tail(@)],
         main' = [main EXCEPT ![d] = Notify(@, Head(writes[d]), ok)],
         NEW w \in Write, w = Head(writes[d]),
         w.step = "ownAdd" => OwnSettled(w.msg)',
         w.step = "peerAdd" => PeerSettled(w.msg)'
  PROVE  OwnFirst' /\ CopyBeforeRecent' /\ NoSilentLoss'
<1> DEFINE L == Len(writes[d])
           c == [step |-> w.step, msg |-> w.msg, ok |-> ok]
<1>1. TypeOK
  BY DEF IInv
<1>2. \A e \in Device : /\ Len(writes[e]) \in Nat /\ Len(writes'[e]) \in Nat
                        /\ Len(main[e]) \in Nat /\ Len(main'[e]) \in Nat
  BY <1>1, LengthsAreNat
<1>3. /\ w = writes[d][1] /\ 1 \in 1..L /\ w.msg \in Message
      /\ writes'[d] = Tail(writes[d]) /\ Len(writes'[d]) = L - 1
      /\ \A i \in 1..(L - 1) : writes'[d][i] = writes[d][i + 1]
  <2>1. writes'[d] = Tail(writes[d])
    BY <1>1 DEF TypeOK
  <2> QED  BY <1>1, <2>1, OldestWrite DEF Write
<1>4. \A e \in Device : e # d => writes'[e] = writes[e] /\ main'[e] = main[e]
  BY <1>1 DEF TypeOK
<1>5. /\ w.cb => /\ Len(main'[d]) = Len(main[d]) + 1
                 /\ main'[d][Len(main[d]) + 1] = c
      /\ \A i \in 1..Len(main[d]) : main'[d][i] = main[d][i]
      /\ ~ w.cb => Len(main'[d]) = Len(main[d])
  <2>1. main'[d] = IF w.cb THEN Append(main[d], c) ELSE main[d]
    BY <1>1 DEF TypeOK, Notify
  <2>2. main[d] \in Seq(Completion)
    BY <1>1 DEF TypeOK
  <2> HIDE DEF c
  <2>3. CASE w.cb
    <3>1. main'[d] = Append(main[d], c)
      BY <2>1, <2>3
    <3> QED  BY <2>2, <2>3, <3>1
  <2>4. CASE ~ w.cb
    <3>1. main'[d] = main[d]
      BY <2>1, <2>4
    <3> QED  BY <2>4, <3>1
  <2> QED  BY <2>3, <2>4
<1>6. \A m \in Message : /\ OwnSettled(m) => OwnSettled(m)'
                         /\ PeerSettled(m) => PeerSettled(m)'
  BY <1>1, Growth
<1>7. OwnSettled(w.msg)'
  <2>1. w.step # "ownAdd" => OwnSettled(w.msg)
    BY <1>3 DEF IInv, OwnFirst
  <2> QED  BY <1>3, <1>6, <2>1
<1>8. \A i \in 1..(L - 1) : i + 1 \in 1..L
  BY <1>2
<1>9. OwnFirst'
  <2>1. ASSUME NEW e \in Device, NEW i \in 1..Len(writes'[e]), writes'[e][i].step # "ownAdd"
        PROVE  OwnSettled(writes[e][i].msg)'
    <3>1. \E j \in 1..Len(writes[e]) : writes'[e][i] = writes[e][j]
      BY <1>3, <1>4, <1>8
    <3>2. PICK j \in 1..Len(writes[e]) : writes'[e][i] = writes[e][j]
      BY <3>1
    <3>3. writes[e][j] \in Write
      BY <1>1, ElementOfSeq DEF TypeOK
    <3>4. PICK m \in Message : m = writes[e][j].msg
      BY <3>3 DEF Write
    <3>5. OwnSettled(m)
      BY <2>1, <3>2, <3>4 DEF IInv, OwnFirst
    <3> QED  BY <1>6, <3>2, <3>4, <3>5 DEF OwnSettled, Kept, Refused, From
  <2>2. ASSUME NEW e \in Device, NEW i \in 1..Len(main'[e])
        PROVE  OwnSettled(main[e][i].msg)'
    <3>1. CASE i \in 1..Len(main[e])
      <4>1. main'[e][i] = main[e][i] /\ main[e][i] \in Completion
        BY <1>1, <1>4, <1>5, <3>1, ElementOfSeq DEF TypeOK
      <4>2. PICK m \in Message : m = main[e][i].msg
        BY <4>1 DEF Completion
      <4>3. OwnSettled(m)
        BY <3>1, <4>2 DEF IInv, OwnFirst
      <4> QED  BY <1>6, <4>1, <4>2, <4>3 DEF OwnSettled, Kept, Refused, From
    <3>2. CASE i \notin 1..Len(main[e])
      <4>1. e = d /\ w.cb /\ i = Len(main[d]) + 1
        BY <1>2, <1>4, <1>5, <3>2
      <4>2. main'[e][i].msg = w.msg
        BY <1>5, <4>1
      <4> QED  BY <1>7, <4>2 DEF OwnSettled, Kept, Refused, From
    <3> QED  BY <3>1, <3>2
  <2> QED  BY <2>1, <2>2 DEF OwnFirst
<1>10. CopyBeforeRecent'
  <2> SUFFICES ASSUME NEW e \in Device, NEW i \in 1..Len(writes'[e]),
                      IsRecent(writes'[e][i].step)
               PROVE  \/ PeerSettled(writes[e][i].msg)'
                      \/ \E j \in 1..(i - 1) : /\ writes'[e][j].step = "peerAdd"
                                               /\ writes'[e][j].msg = writes'[e][i].msg
    BY DEF CopyBeforeRecent
  <2>0. PICK m \in Message : m = writes'[e][i].msg
    <3>1. writes'[e][i] \in Write
      BY ElementOfSeq DEF TypeOK
    <3> QED  BY <3>1 DEF Write
  <2>1. CASE PeerSettled(m)
    BY <1>6, <2>0, <2>1 DEF PeerSettled, Delivered, Refused, From
  <2>2. CASE e # d /\ ~ PeerSettled(m)
    BY <1>4, <2>0, <2>2 DEF IInv, CopyBeforeRecent
  <2>3. CASE e = d /\ ~ PeerSettled(m)
    <3>1. /\ i + 1 \in 1..L /\ writes[d][i + 1] = writes'[d][i]
      BY <1>3, <1>8, <2>3
    <3>2. \E j \in 1..i : writes[d][j].step = "peerAdd" /\ writes[d][j].msg = m
      <4>1. \E j \in 1..((i + 1) - 1) : writes[d][j].step = "peerAdd" /\ writes[d][j].msg = m
        BY <2>0, <2>3, <3>1 DEF IInv, CopyBeforeRecent
      <4>2. (i + 1) - 1 = i
        BY <1>2
      <4> QED  BY <4>1, <4>2
    <3>3. PICK j \in 1..i : writes[d][j].step = "peerAdd" /\ writes[d][j].msg = m
      BY <3>2
    <3>4. CASE j = 1
      BY <1>3, <2>0, <2>3, <3>3, <3>4 DEF PeerSettled, Delivered, Refused, From
    <3>5. CASE j # 1
      <4>1. j - 1 \in 1..(i - 1) /\ j - 1 \in 1..(L - 1) /\ (j - 1) + 1 = j
        BY <1>2, <1>3, <2>3, <3>5
      <4>2. writes'[d][j - 1] = writes[d][j]
        BY <1>3, <4>1
      <4> QED  BY <2>0, <2>3, <3>3, <4>1, <4>2
    <3> QED  BY <3>4, <3>5
  <2> QED  BY <2>1, <2>2, <2>3
<1>11. ASSUME NEW k \in sent, Pending(k) PROVE Pending(k)' \/ PeerSettled(k)'
  <2>1. k \in Message /\ k.dev \in Device
    BY <1>1 DEF TypeOK, Message
  <2>2. CASE k.dev # d
    BY <1>4, <1>11, <2>1, <2>2 DEF Pending
  <2>3. CASE k.dev = d /\ \E i \in 1..L :
               LET v == writes[d][i] IN
               v.msg = k /\ (v.step = "peerAdd" \/ (v.step = "ownAdd" /\ v.cb))
    <3>1. PICK i \in 1..L :
                 LET v == writes[d][i] IN
                 v.msg = k /\ (v.step = "peerAdd" \/ (v.step = "ownAdd" /\ v.cb))
      BY <2>3
    <3>2. CASE i # 1
      <4>1. i - 1 \in 1..(L - 1) /\ (i - 1) + 1 = i
        BY <1>2, <3>2
      <4>2. writes'[d][i - 1] = writes[d][i] /\ i - 1 \in 1..Len(writes'[d])
        BY <1>3, <4>1
      <4>3. LET v == writes'[d][i - 1] IN
            v.msg = k /\ (v.step = "peerAdd" \/ (v.step = "ownAdd" /\ v.cb))
        BY <3>1, <4>2
      <4>4. \E n \in 1..Len(writes'[k.dev]) :
              LET v == writes'[k.dev][n] IN
              v.msg = k /\ (v.step = "peerAdd" \/ (v.step = "ownAdd" /\ v.cb))
        BY <2>3, <4>2, <4>3
      <4> QED  BY <4>4 DEF Pending
    <3>3. CASE i = 1 /\ w.step = "peerAdd"
      BY <1>3, <3>1, <3>3
    <3>4. CASE i = 1 /\ w.step = "ownAdd" /\ w.cb
      <4>1. Len(main[d]) + 1 \in 1..Len(main'[d])
        BY <1>2, <1>5, <3>4
      <4>2. c.msg = k /\ c.step = "ownAdd"
        BY <1>3, <3>1, <3>4
      <4> HIDE DEF c
      <4> QED  BY <1>5, <2>3, <3>4, <4>1, <4>2 DEF Pending
    <3> QED  BY <1>3, <3>1, <3>2, <3>3, <3>4
  <2>4. CASE k.dev = d /\ \E i \in 1..Len(main[d]) :
               main[d][i].msg = k /\ main[d][i].step = "ownAdd"
    <3>1. \A i \in 1..Len(main[d]) : i \in 1..Len(main'[d])
      BY <1>2, <1>5
    <3> QED  BY <1>5, <2>4, <3>1 DEF Pending
  <2> QED  BY <1>11, <2>2, <2>3, <2>4 DEF Pending
<1>12. NoSilentLoss'
  BY <1>1, <1>11, LossStep DEF IInv
<1> QED  BY <1>9, <1>10, <1>12

LEMMA AckInv ==
  ASSUME IInv, TypeOK', NEW d \in Device, Ack(d) PROVE IInv'
<1>1. /\ TypeOK /\ thread' = thread /\ recent' = recent /\ rejected' = rejected
      /\ launched' = launched /\ sent' = sent /\ nsent' = nsent
      /\ inflight[d] > 0
  BY DEF IInv, Ack, backend, history
<1>2. stored[d] > 0
  BY <1>1 DEF TypeOK
<1>3. /\ Head(writes[d]) \in Write /\ Head(writes[d]) = writes[d][1]
      /\ Len(Tail(writes[d])) = Len(writes[d]) - 1
      /\ \A i \in 1..(Len(writes[d]) - 1) : Tail(writes[d])[i] = writes[d][i + 1]
  BY <1>1, <1>2, OldestWrite
<1>4. PICK w \in Write : w = Head(writes[d])
  BY <1>3
<1>5. /\ w.step = "ownAdd" => Kept(w.msg)
      /\ w.step = "peerAdd" => Delivered(w.msg)
  <2>1. 1 \in 1..inflight[d]
    BY <1>1 DEF TypeOK
  <2> QED  BY <1>3, <1>4, <2>1 DEF IInv, Applied
<1>6. /\ w.step = "ownAdd" => OwnSettled(w.msg)'
      /\ w.step = "peerAdd" => PeerSettled(w.msg)'
  BY <1>1, <1>5 DEF OwnSettled, PeerSettled, Kept, Delivered, From
<1>7. OwnFirst' /\ CopyBeforeRecent' /\ NoSilentLoss'
  <2>1. /\ writes' = [writes EXCEPT ![d] = Tail(@)]
        /\ main' = [main EXCEPT ![d] = Notify(@, Head(writes[d]), TRUE)]
        /\ rejected \subseteq rejected'
    BY <1>1 DEF Ack
  <2> QED  BY <1>1, <1>2, <1>4, <1>6, <2>1, Popped
<1>8. Data'
  BY <1>1, DataUnmoved DEF IInv, Data
<1>9. Applied'
  <2> SUFFICES ASSUME NEW e \in Device, NEW i \in 1..inflight'[e]
               PROVE  /\ writes'[e][i].step = "ownAdd" => Kept(writes[e][i].msg)'
                      /\ writes'[e][i].step = "peerAdd" => Delivered(writes[e][i].msg)'
    BY DEF Applied
  <2>1. /\ writes' = [writes EXCEPT ![d] = Tail(@)]
        /\ inflight' = [inflight EXCEPT ![d] = @ - 1]
    BY DEF Ack
  <2>2. \E j \in 1..inflight[e] : writes'[e][i] = writes[e][j]
    <3>1. CASE e # d
      BY <1>1, <2>1, <3>1 DEF TypeOK
    <3>2. CASE e = d
      <4>1. /\ inflight'[d] = inflight[d] - 1 /\ writes'[d] = Tail(writes[d])
            /\ inflight[d] \in Nat
        BY <1>1, <2>1 DEF TypeOK
      <4>2. i \in 1..(inflight[d] - 1) /\ i + 1 \in 1..inflight[d]
        BY <3>2, <4>1
      <4>3. i + 1 \in 1..Len(writes[d]) /\ Len(writes[d]) \in Nat
        BY <1>1, <4>2, AppliedIsPrefix, LengthsAreNat
      <4>4. i \in 1..(Len(writes[d]) - 1)
        BY <4>2, <4>3
      <4> QED  BY <1>3, <3>2, <4>1, <4>2, <4>4
    <3> QED  BY <3>1, <3>2
  <2>3. PICK j \in 1..inflight[e] : writes'[e][i] = writes[e][j]
    BY <2>2
  <2>4. /\ writes[e][j].step = "ownAdd" => Kept(writes[e][j].msg)
        /\ writes[e][j].step = "peerAdd" => Delivered(writes[e][j].msg)
    BY DEF IInv, Applied
  <2> QED  BY <1>1, <2>3, <2>4 DEF Kept, Delivered, From
<1> QED  BY <1>7, <1>8, <1>9 DEF IInv, Data

LEMMA RejectInv ==
  ASSUME IInv, TypeOK', NEW d \in Device, Reject(d) PROVE IInv'
<1>1. /\ TypeOK /\ thread' = thread /\ recent' = recent /\ inflight' = inflight
      /\ launched' = launched /\ sent' = sent /\ nsent' = nsent
      /\ inflight[d] = 0 /\ stored[d] > 0
      /\ rejected' = rejected \cup {<<Head(writes[d]).step, Head(writes[d]).msg>>}
  BY DEF IInv, Reject, backend
<1>2. PICK w \in Write : w = Head(writes[d])
  BY <1>1, OldestWrite
<1>3. rejected \subseteq rejected' /\ <<w.step, w.msg>> \in rejected'
  BY <1>1, <1>2
<1>4. /\ w.step = "ownAdd" => OwnSettled(w.msg)'
      /\ w.step = "peerAdd" => PeerSettled(w.msg)'
  BY <1>3 DEF OwnSettled, PeerSettled, Refused
<1>5. OwnFirst' /\ CopyBeforeRecent' /\ NoSilentLoss'
  <2>1. /\ writes' = [writes EXCEPT ![d] = Tail(@)]
        /\ main' = [main EXCEPT ![d] = Notify(@, Head(writes[d]), FALSE)]
    BY DEF Reject
  <2> QED  BY <1>1, <1>2, <1>3, <1>4, <2>1, Popped
<1>6. Numbered'
  BY <1>1 DEF IInv, Numbered
<1>7. Backed'
  BY <1>1, <1>3 DEF IInv, Backed, OwnSettled, Kept, Delivered, Refused, From
<1>8. RecentBacked'
  BY <1>1, <1>3 DEF IInv, RecentBacked, Kept, Delivered, Refused, From
<1>9. Applied'
  <2>1. ASSUME NEW e \in Device, NEW i \in 1..inflight'[e]
        PROVE  writes'[e] = writes[e] /\ i \in 1..inflight[e]
    <3>1. e # d /\ i \in 1..inflight[e]
      BY <1>1
    <3>2. writes' = [writes EXCEPT ![d] = Tail(@)] /\ writes \in [Device -> Seq(Write)]
      BY <1>1 DEF Reject, TypeOK
    <3> QED  BY <3>1, <3>2
  <2>2. \A m : (Kept(m) => Kept(m)') /\ (Delivered(m) => Delivered(m)')
    BY <1>1 DEF Kept, Delivered, From
  <2>3. Applied
    BY DEF IInv
  <2> QED  BY <2>1, <2>2, <2>3 DEF Applied
<1> QED  BY <1>5, <1>6, <1>7, <1>8, <1>9 DEF IInv

LEMMA KillInv ==
  ASSUME IInv, TypeOK', NEW d \in Device, Kill(d) PROVE IInv'
<1>1. /\ TypeOK /\ thread' = thread /\ recent' = recent /\ rejected' = rejected
      /\ sent' = sent /\ nsent' = nsent
  BY DEF IInv, Kill, backend
<1>2. /\ inflight'[d] = 0 /\ main'[d] = << >> /\ launched'[d] = nsent[d]
      /\ \A e \in Device : e # d =>
           /\ inflight'[e] = inflight[e] /\ main'[e] = main[e]
           /\ launched'[e] = launched[e] /\ writes'[e] = writes[e]
      /\ writes'[d] = Restored(writes[d], stored[d])
      /\ stored[d] \in Nat /\ stored[d] <= Len(writes[d])
  BY <1>1 DEF Kill, TypeOK
<1>3. writes[d] \in Seq(Write) /\ Len(writes[d]) \in Nat
  BY <1>1, LengthsAreNat DEF TypeOK
<1>4. /\ Len(writes'[d]) = stored[d]
      /\ \A i \in 1..stored[d] : /\ i \in 1..Len(writes[d])
                                 /\ writes'[d][i].step = writes[d][i].step
                                 /\ writes'[d][i].msg = writes[d][i].msg
  <2>1. Len(writes'[d]) = stored[d]
    BY <1>2, <1>3, RestoredType
  <2>2. ASSUME NEW i \in 1..stored[d]
        PROVE  /\ i \in 1..Len(writes[d])
               /\ writes'[d][i] = [writes[d][i] EXCEPT !.cb = FALSE]
    BY <1>2, <1>3, <2>2 DEF Restored
  <2>3. ASSUME NEW i \in 1..stored[d]
        PROVE  /\ writes'[d][i].step = writes[d][i].step
               /\ writes'[d][i].msg = writes[d][i].msg
    <3>1. writes[d][i] \in Write
      BY <1>3, <2>2, ElementOfSeq
    <3> QED  BY <2>2, <3>1 DEF Write
  <2> QED  BY <2>1, <2>2, <2>3
<1>5. \A e \in Device : \A i \in 1..Len(writes'[e]) :
        /\ i \in 1..Len(writes[e])
        /\ writes'[e][i].step = writes[e][i].step
        /\ writes'[e][i].msg = writes[e][i].msg
  BY <1>2, <1>4
<1>6. Applied'
  <2>1. ASSUME NEW e \in Device, NEW i \in 1..inflight'[e]
        PROVE  e # d /\ writes'[e] = writes[e] /\ i \in 1..inflight[e]
    BY <1>2
  <2> QED  BY <1>1, <2>1 DEF IInv, Applied, Kept, Delivered, From
<1>7. OwnFirst'
  <2>1. ASSUME NEW e \in Device, NEW i \in 1..Len(writes'[e]), writes'[e][i].step # "ownAdd"
        PROVE  OwnSettled(writes[e][i].msg)'
    <3>1. OwnSettled(writes[e][i].msg)
      BY <1>5, <2>1 DEF IInv, OwnFirst
    <3> QED  BY <1>1, <1>5, <3>1 DEF OwnSettled, Kept, Refused, From
  <2>2. ASSUME NEW e \in Device, NEW i \in 1..Len(main'[e])
        PROVE  OwnSettled(main[e][i].msg)'
    <3>1. main'[e] = main[e]
      <4>1. Len(main'[d]) = 0
        BY <1>2
      <4> QED  BY <1>2, <2>2, <4>1
    <3>2. OwnSettled(main[e][i].msg)
      BY <3>1 DEF IInv, OwnFirst
    <3> QED  BY <1>1, <3>1, <3>2 DEF OwnSettled, Kept, Refused, From
  <2> QED  BY <2>1, <2>2 DEF OwnFirst
<1>8. CopyBeforeRecent'
  <2> SUFFICES ASSUME NEW e \in Device, NEW i \in 1..Len(writes'[e]),
                      IsRecent(writes'[e][i].step)
               PROVE  \/ PeerSettled(writes[e][i].msg)'
                      \/ \E j \in 1..(i - 1) : /\ writes'[e][j].step = "peerAdd"
                                               /\ writes'[e][j].msg = writes'[e][i].msg
    BY DEF CopyBeforeRecent
  <2>1. /\ i \in 1..Len(writes[e]) /\ IsRecent(writes[e][i].step)
        /\ writes'[e][i].msg = writes[e][i].msg
    BY <1>5
  <2>2. CASE PeerSettled(writes[e][i].msg)
    BY <1>1, <2>1, <2>2 DEF PeerSettled, Delivered, Refused, From
  <2>3. CASE \E j \in 1..(i - 1) : /\ writes[e][j].step = "peerAdd"
                                   /\ writes[e][j].msg = writes[e][i].msg
    <3>1. \A j \in 1..(i - 1) : j \in 1..Len(writes'[e])
      BY <1>1, LengthsAreNat
    <3> QED  BY <1>5, <2>1, <2>3, <3>1
  <2> QED  BY <2>1, <2>2, <2>3 DEF IInv, CopyBeforeRecent
<1>9. Data'
  BY <1>1, DataUnmoved DEF IInv, Data
<1>10. NoSilentLoss'
  <2> SUFFICES ASSUME NEW m \in sent', m.n > launched'[m.dev]
               PROVE  PeerSettled(m)' \/ Pending(m)'
    BY DEF NoSilentLoss, PeerSettled
  <2>1. m \in sent /\ m.dev \in Device /\ m.n \in Int /\ m.n <= nsent[m.dev]
    BY <1>1 DEF IInv, TypeOK, Message, Numbered
  <2>2. nsent[m.dev] \in Int
    BY <1>1, <2>1, ConstantsAssumption DEF TypeOK
  <2>3. m.dev # d
    BY <1>2, <2>1, <2>2
  <2>4. PeerSettled(m) \/ Pending(m)
    BY <1>2, <2>1, <2>3 DEF IInv, NoSilentLoss, PeerSettled
  <2>5. PeerSettled(m) => PeerSettled(m)'
    BY <1>1 DEF PeerSettled, Delivered, Refused, From
  <2>6. Pending(m) => Pending(m)'
    BY <1>2, <2>1, <2>3 DEF Pending
  <2> QED  BY <2>4, <2>5, <2>6
<1> QED  BY <1>6, <1>7, <1>8, <1>9, <1>10 DEF IInv, Data

\* Every step keeps the inductive invariant.
LEMMA NextInv == IInv /\ [Next]_vars => IInv'
<1> SUFFICES ASSUME IInv, [Next]_vars PROVE IInv'
  OBVIOUS
<1>1. TypeOK /\ TypeOK'
  BY NextType DEF IInv
<1>2. CASE UNCHANGED vars
  <2>1. /\ inflight' = inflight /\ \A e \in Device : inflight'[e] <= inflight[e]
    BY <1>1, <1>2 DEF TypeOK, vars, client
  <2>2. Data'
    BY <1>2, DataUnmoved DEF IInv, Data, vars, backend, history
  <2>3. Applied' /\ CopyBeforeRecent'
    BY <1>1, <1>2, <2>1, QueuesUnmoved DEF IInv, TypeOK, vars, backend, client, history
  <2>4. OwnFirst' /\ NoSilentLoss'
    BY <1>2, HandlersUnmoved DEF IInv, vars, backend, client, history
  <2> QED  BY <1>1, <2>2, <2>3, <2>4 DEF IInv, Data
<1>3. CASE Next
  <2> SUFFICES ASSUME NEW d \in Device,
                      \/ \E p \in User : Type(d, p) \/ Send(d, p)
                      \/ Mirror(d) \/ UploadDone(d) \/ WriteLocally(d)
                      \/ Commit(d) \/ Ack(d) \/ Reject(d)
                      \/ Disconnect(d) \/ Kill(d)
               PROVE  IInv'
    BY <1>3 DEF Next
  <2>1. ASSUME NEW p \in User, Type(d, p) PROVE IInv'  BY <1>1, <2>1, TypeInv
  <2>2. ASSUME NEW p \in User, Send(d, p) PROVE IInv'  BY <1>1, <2>2, SendInv
  <2>3. CASE Mirror(d)        BY <1>1, <2>3, MirrorInv
  <2>4. CASE UploadDone(d)    BY <1>1, <2>4, UploadDoneInv
  <2>5. CASE WriteLocally(d)  BY <1>1, <2>5, WriteLocallyInv
  <2>6. CASE Commit(d)        BY <1>1, <2>6, CommitInv
  <2>7. CASE Ack(d)           BY <1>1, <2>7, AckInv
  <2>8. CASE Reject(d)        BY <1>1, <2>8, RejectInv
  <2>9. CASE Disconnect(d)    BY <1>1, <2>9, DisconnectInv
  <2>10. CASE Kill(d)         BY <1>1, <2>10, KillInv
  <2> QED  BY <2>1, <2>2, <2>3, <2>4, <2>5, <2>6, <2>7, <2>8, <2>9, <2>10
<1> QED  BY <1>2, <1>3

LEMMA Invariance == Spec => []IInv
<1>1. Init => IInv
  BY InitInv
<1>2. IInv /\ [Next]_vars => IInv'
  BY NextInv
<1> QED  BY <1>1, <1>2, PTL DEF Spec

\* The partner never has a message whose first copy is neither in the sender's
\* thread nor refused (uploadMessage writes the second copy from the handler
\* of the first), for any number of devices, users, messages, kills, refusals
\* and writes in flight.
THEOREM PeerCopyBackedAlways == Spec => []PeerCopyBacked
<1>1. IInv => PeerCopyBacked
  BY DEF IInv, TypeOK, Backed, PeerCopyBacked, OwnSettled
<1> QED  BY <1>1, Invariance, PTL

\* No latest-message document runs ahead of the threads it summarises.
THEOREM RecentBackedAlways == Spec => []RecentBacked
<1>1. IInv => RecentBacked
  BY DEF IInv
<1> QED  BY <1>1, Invariance, PTL

\* No message sent since the launch is dropped by the chain of writes and
\* completion handlers, whatever the order in which they interleave.
THEOREM NoSilentLossAlways == Spec => []NoSilentLoss
<1>1. IInv => NoSilentLoss
  BY DEF IInv
<1> QED  BY <1>1, Invariance, PTL

-----------------------------------------------------------------------------
(***************************************************************************)
(* The channel: the initial states map to initial states, and every step   *)
(* to a step of the channel or to none.                                    *)
(*                                                                         *)
(* What is left to do for a message moves from the write of the sender's   *)
(* copy (stage 3) to its completion handler on the main queue (stage 2)    *)
(* and to the write of the partner's copy (stage 1).  The queues are FIFO  *)
(* and the backend applies a prefix of the writes, so that the messages of *)
(* a device stay in line (InLine), and those delivered are ahead of all    *)
(* that are not (NotOvertaken).  A write that is sent again after a        *)
(* disconnection or a kill is delivered already and changes nothing.       *)
(***************************************************************************)

\* Place i of stage s holds what is left to do for m.
Holding(d, s, i, m) ==
  \/ s = 1 /\ i \in 1..Len(writes[d]) /\ writes[d][i].step = "peerAdd" /\ writes[d][i].msg = m
  \/ s = 2 /\ i \in 1..Len(main[d]) /\ main[d][i].step = "ownAdd" /\ main[d][i].msg = m
  \/ /\ s = 3 /\ i \in 1..Len(writes[d]) /\ writes[d][i].step = "ownAdd"
     /\ writes[d][i].cb /\ writes[d][i].msg = m

Ahead(s, i, t, j) == s < t \/ (s = t /\ i < j)

\* What is nearer to its delivery was sent earlier.
InLine(d) ==
  \A s, i, m, t, j, k :
    Holding(d, s, i, m) /\ Holding(d, t, j, k) /\ Ahead(s, i, t, j) => m.n < k.n

\* What is not delivered was sent after all that is.
NotOvertaken(d) ==
  \A s, i, m : Holding(d, s, i, m) =>
    \/ s = 1 /\ Delivered(m)
    \/ \A k \in Message : k.dev = d /\ Delivered(k) => k.n < m.n

\* The queues of a device hold its own messages, which are for somebody else.
OwnMessages ==
  /\ \A d \in Device : \A i \in 1..Len(writes[d]) :
       writes[d][i].msg \in sent /\ writes[d][i].msg.dev = d
  /\ \A d \in Device : \A i \in 1..Len(main[d]) :
       main[d][i].msg \in sent /\ main[d][i].msg.dev = d
  /\ \A m \in sent : m.to # From(m)

DeliveredSent == \A m \in Message : Delivered(m) => m \in sent

Order ==
  /\ OwnMessages
  /\ DeliveredSent
  /\ \A d \in Device : InLine(d) /\ NotOvertaken(d)

-----------------------------------------------------------------------------
LEMMA InitOrder == Init => Order
<1> SUFFICES ASSUME Init PROVE Order
  OBVIOUS
<1>1. OwnMessages
  BY DEF Init, OwnMessages
<1>2. DeliveredSent
  BY UsersOfStep, ConstantsAssumption DEF Init, DeliveredSent, Delivered, From, Message
<1>3. \A d \in Device : \A s, i, m : ~ Holding(d, s, i, m)
  BY DEF Init, Holding
<1> QED  BY <1>1, <1>2, <1>3 DEF Order, InLine, NotOvertaken

\* A held message is one sent by the device.
LEMMA HeldIsSent ==
  ASSUME TypeOK, OwnMessages, NEW d \in Device, NEW s, NEW i, NEW m, Holding(d, s, i, m)
  PROVE  m \in sent /\ m \in Message /\ m.dev = d /\ m.n \in Int /\ s \in 1..3 /\ i \in Nat
<1>1. m \in sent /\ m.dev = d /\ s \in 1..3 /\ i \in Nat
  BY DEF OwnMessages, Holding
<1> QED  BY <1>1 DEF TypeOK, Message

\* A step that leaves the queues of a device as they are.
LEMMA LineKept ==
  ASSUME Order, NEW d \in Device, thread' = thread,
         \A s, i, m : Holding(d, s, i, m)' => Holding(d, s, i, m)
  PROVE  InLine(d)' /\ NotOvertaken(d)'
<1>1. InLine(d) /\ NotOvertaken(d)
  BY DEF Order
<1>2. InLine(d)'
  BY <1>1 DEF InLine, Ahead
<1>3. NotOvertaken(d)'
  <2> SUFFICES ASSUME NEW s, NEW i, NEW m, Holding(d, s, i, m)'
               PROVE  \/ s = 1 /\ Delivered(m)'
                      \/ \A k \in Message : k.dev = d /\ Delivered(k)' => k.n < m.n
    BY DEF NotOvertaken
  <2>1. \A k : Delivered(k)' <=> Delivered(k)
    BY DEF Delivered, From
  <2> QED  BY <1>1, <2>1 DEF NotOvertaken
<1> QED  BY <1>2, <1>3

LEMMA SameQueues ==
  ASSUME NEW d \in Device, writes'[d] = writes[d], main'[d] = main[d]
  PROVE  \A s, i, m : Holding(d, s, i, m)' <=> Holding(d, s, i, m)
BY DEF Holding

LEMMA DeliveredKept ==
  ASSUME DeliveredSent, thread' = thread, sent \subseteq sent'
  PROVE  DeliveredSent'
BY DEF DeliveredSent, Delivered, From

LEMMA KilledOrder ==
  ASSUME IInv, Order, TypeOK', NEW d \in Device, Kill(d) PROVE Order'
<1>1. /\ TypeOK /\ thread' = thread /\ sent' = sent
      /\ writes' = [writes EXCEPT ![d] = Restored(@, stored[d])]
      /\ main' = [main EXCEPT ![d] = << >>]
  BY DEF IInv, Kill, backend
<1>2. /\ \A e \in Device : e # d => writes'[e] = writes[e] /\ main'[e] = main[e]
      /\ main'[d] = << >> /\ writes'[d] = Restored(writes[d], stored[d])
  BY <1>1 DEF TypeOK
<1>3. /\ Len(writes'[d]) = stored[d] /\ stored[d] \in Nat
      /\ \A i \in 1..stored[d] : i \in 1..Len(writes[d])
  BY <1>1, <1>2, RestoredType DEF TypeOK
<1>4. ASSUME NEW i \in 1..Len(writes'[d])
      PROVE  /\ i \in 1..Len(writes[d])
             /\ writes'[d][i].step = writes[d][i].step
             /\ writes'[d][i].msg = writes[d][i].msg
             /\ writes'[d][i].cb = FALSE
  <2>1. i \in 1..Len(writes[d]) /\ writes[d][i] \in Write
    BY <1>1, <1>3, ElementOfSeq DEF TypeOK
  <2>2. writes'[d][i] = [writes[d][i] EXCEPT !.cb = FALSE]
    BY <1>2, <1>3 DEF Restored
  <2> QED  BY <2>1, <2>2 DEF Write
<1>5. Len(main'[d]) = 0
  BY <1>2
<1>6. ASSUME NEW e \in Device PROVE InLine(e)' /\ NotOvertaken(e)'
  <2>1. ASSUME NEW s, NEW i, NEW m, Holding(e, s, i, m)' PROVE Holding(e, s, i, m)
    <3>1. CASE e # d
      BY <1>2, <2>1, <3>1, SameQueues
    <3>2. CASE e = d
      <4>1. i \in 1..Len(writes'[d]) /\ s # 2
        BY <1>5, <2>1, <3>2 DEF Holding
      <4> QED  BY <1>4, <2>1, <3>2, <4>1 DEF Holding
    <3> QED  BY <3>1, <3>2
  <2> QED  BY <1>1, <2>1, LineKept
<1>7. OwnMessages'
  <2>1. OwnMessages
    BY DEF Order
  <2>2. ASSUME NEW e \in Device, NEW i \in 1..Len(writes'[e])
        PROVE  writes'[e][i].msg \in sent /\ writes'[e][i].msg.dev = e
    <3>1. CASE e # d  BY <1>2, <2>1, <3>1 DEF OwnMessages
    <3>2. CASE e = d
      <4>1. i \in 1..Len(writes[d]) /\ writes'[d][i].msg = writes[d][i].msg
        BY <1>4, <3>2
      <4> QED  BY <2>1, <3>2, <4>1 DEF OwnMessages
    <3> QED  BY <3>1, <3>2
  <2>3. ASSUME NEW e \in Device, NEW i \in 1..Len(main'[e])
        PROVE  main'[e][i].msg \in sent /\ main'[e][i].msg.dev = e
    <3>1. CASE e # d  BY <1>2, <2>1, <3>1 DEF OwnMessages
    <3>2. CASE e = d  BY <1>5, <3>2
    <3> QED  BY <3>1, <3>2
  <2> QED  BY <1>1, <2>1, <2>2, <2>3 DEF OwnMessages, From
<1> QED  BY <1>1, <1>6, <1>7, DeliveredKept DEF Order

LEMMA SentOrder ==
  ASSUME IInv, Order, TypeOK', NEW d \in Device, NEW p \in User, Send(d, p) PROVE Order'
<1> DEFINE new == [dev |-> d, to |-> p, n |-> nsent[d] + 1]
           L == Len(writes[d])
<1>1. /\ TypeOK /\ thread' = thread /\ main' = main /\ sent' = sent \cup {new}
      /\ p # account[d]
      /\ writes' = [writes EXCEPT ![d] = Append(@, FirstWrite(new))]
  BY DEF IInv, Send, backend
<1>2. /\ L \in Nat /\ Len(writes'[d]) = L + 1
      /\ writes'[d][L + 1] = FirstWrite(new)
      /\ \A i \in 1..L : writes'[d][i] = writes[d][i]
      /\ \A e \in Device : e # d => writes'[e] = writes[e]
  BY <1>1 DEF TypeOK
<1>3. FirstWrite(new).step = "ownAdd" /\ FirstWrite(new).msg = new
  BY DEF FirstWrite, Mutation
<1>4. /\ new \in Message /\ new.dev = d /\ new.to = p /\ From(new) = account[d]
      /\ new.n = nsent[d] + 1 /\ nsent[d] \in Int
  BY <1>1, ConstantsAssumption DEF TypeOK, From
<1>5. \A k \in sent : k.dev = d => k.n < new.n
  <2> TAKE k \in sent
  <2>1. k.n <= nsent[k.dev] /\ k.n \in Int
    BY <1>1 DEF IInv, TypeOK, Numbered, Message
  <2> QED  BY <1>4, <2>1
<1> HIDE DEF new
<1>6. ASSUME NEW s, NEW i, NEW m, Holding(d, s, i, m)'
      PROVE  Holding(d, s, i, m) \/ (s = 3 /\ i = L + 1 /\ m = new)
  <2>1. s = 2 \/ i \in 1..L \/ i = L + 1
    BY <1>2, <1>6 DEF Holding
  <2> QED  BY <1>1, <1>2, <1>3, <1>6, <2>1 DEF Holding
<1>7. \A s, i, m : Holding(d, s, i, m) =>
         m \in sent /\ m.dev = d /\ s \in 1..3 /\ (s # 2 => i \in 1..L)
  BY DEF Order, OwnMessages, Holding
<1>8. InLine(d)'
  <2> SUFFICES ASSUME NEW s, NEW i, NEW m, NEW t, NEW j, NEW k,
                      Holding(d, s, i, m)', Holding(d, t, j, k)', Ahead(s, i, t, j)
               PROVE  m.n < k.n
    BY DEF InLine, Ahead
  <2>1. CASE Holding(d, s, i, m) /\ Holding(d, t, j, k)
    BY <2>1 DEF Order, InLine
  <2>2. CASE Holding(d, s, i, m) /\ ~ Holding(d, t, j, k)
    BY <1>5, <1>6, <1>7, <2>2
  <2>3. CASE ~ Holding(d, s, i, m)
    <3>1. s = 3 /\ i = L + 1
      BY <1>6, <2>3
    <3>2. t \in 1..3 /\ (t = 3 => j \in 1..(L + 1))
      BY <1>2, <1>6, <1>7
    <3> QED  BY <1>2, <3>1, <3>2 DEF Ahead
  <2> QED  BY <2>1, <2>2, <2>3
<1>9. NotOvertaken(d)'
  <2> SUFFICES ASSUME NEW s, NEW i, NEW m, Holding(d, s, i, m)'
               PROVE  \/ s = 1 /\ Delivered(m)'
                      \/ \A k \in Message : k.dev = d /\ Delivered(k)' => k.n < m.n
    BY DEF NotOvertaken
  <2>1. \A k : Delivered(k)' <=> Delivered(k)
    BY <1>1 DEF Delivered, From
  <2>2. CASE Holding(d, s, i, m)
    BY <2>1, <2>2 DEF Order, NotOvertaken
  <2>3. CASE m = new
    BY <1>5, <2>1, <2>3 DEF Order, DeliveredSent
  <2> QED  BY <1>6, <2>2, <2>3
<1>10. \A e \in Device : InLine(e)' /\ NotOvertaken(e)'
  <2> TAKE e \in Device
  <2>1. CASE e # d
    BY <1>1, <1>2, <2>1, SameQueues, LineKept
  <2> QED  BY <1>8, <1>9, <2>1
<1>11. OwnMessages'
  <2>1. OwnMessages
    BY DEF Order
  <2>2. ASSUME NEW e \in Device, NEW i \in 1..Len(writes'[e])
        PROVE  writes'[e][i].msg \in sent' /\ writes'[e][i].msg.dev = e
    <3>1. CASE e # d  BY <1>1, <1>2, <2>1, <3>1 DEF OwnMessages
    <3>2. CASE e = d
      <4>1. i \in 1..L \/ i = L + 1
        BY <1>2, <3>2
      <4> QED  BY <1>1, <1>2, <1>3, <1>4, <2>1, <3>2, <4>1 DEF OwnMessages
    <3> QED  BY <3>1, <3>2
  <2>3. \A m \in sent' : m.to # From(m)
    BY <1>1, <1>4, <2>1 DEF OwnMessages
  <2> QED  BY <1>1, <2>1, <2>2, <2>3 DEF OwnMessages, From
<1> QED  BY <1>1, <1>10, <1>11, DeliveredKept DEF Order

LEMMA MirroredOrder ==
  ASSUME IInv, Order, TypeOK', NEW d \in Device, Mirror(d) PROVE Order'
<1> DEFINE new == Head(main[d]).msg
           L == Len(writes[d])
           M == Len(main[d])
<1>1. /\ TypeOK /\ thread' = thread /\ sent' = sent
  BY DEF IInv, Mirror, backend, history
<1>2. L \in Nat /\ M \in Nat /\ Len(main'[d]) \in Nat
  BY <1>1, LengthsAreNat
<1>3. /\ main[d] # << >> /\ Head(main[d]).step = "ownAdd"
      /\ main'[d] = Tail(main[d])
      /\ writes'[d] = writes[d] \o MirrorWrites(new)
      /\ \A e \in Device : e # d => main'[e] = main[e] /\ writes'[e] = writes[e]
  BY <1>1 DEF Mirror, TypeOK
<1>4. /\ new \in Message /\ main[d][1].msg = new /\ 1 \in 1..M
      /\ main[d][1].step = "ownAdd"
      /\ Len(main'[d]) = M - 1
      /\ \A i \in 1..(M - 1) : main'[d][i] = main[d][i + 1]
  BY <1>1, <1>3, NextHandler DEF Completion
<1>5. /\ Len(writes'[d]) = L + 3
      /\ \A i \in 1..L : writes'[d][i] = writes[d][i]
      /\ \A i \in {L + 1, L + 2, L + 3} : writes'[d][i].msg = new
      /\ writes'[d][L + 1].step = "peerAdd"
      /\ writes'[d][L + 2].step = "ownRecent"
      /\ writes'[d][L + 3].step = "peerRecent"
  BY <1>1, MirrorAppends
<1> HIDE DEF new
<1>6. Holding(d, 2, 1, new)
  BY <1>4 DEF Holding
<1>7. ASSUME NEW s, NEW i, NEW m, Holding(d, s, i, m)'
      PROVE  /\ i \in Nat \ {0}
             /\ \/ s = 1 /\ i = L + 1 /\ m = new
                \/ s = 1 /\ i <= L /\ Holding(d, 1, i, m)
                \/ s = 2 /\ Holding(d, 2, i + 1, m)
                \/ s = 3 /\ Holding(d, 3, i, m)
  <2>1. CASE s = 2
    <3>1. i \in 1..(M - 1) /\ main'[d][i].step = "ownAdd" /\ main'[d][i].msg = m
      BY <1>4, <1>7, <2>1 DEF Holding
    <3>2. i + 1 \in 1..M /\ main'[d][i] = main[d][i + 1]
      BY <1>2, <1>4, <3>1
    <3> QED  BY <2>1, <3>1, <3>2 DEF Holding
  <2>2. CASE s # 2
    <3>1. i \in 1..L \/ i = L + 1 \/ i = L + 2 \/ i = L + 3
      BY <1>2, <1>5, <1>7, <2>2 DEF Holding
    <3>2. i \in Nat \ {0}
      BY <1>2, <3>1
    <3>3. CASE i \in 1..L
      <4>1. writes'[d][i] = writes[d][i] /\ i <= L
        BY <1>2, <1>5, <3>3
      <4> QED  BY <1>7, <2>2, <3>2, <3>3, <4>1 DEF Holding
    <3>4. CASE i \in {L + 1, L + 2, L + 3}
      BY <1>2, <1>5, <1>7, <2>2, <3>2, <3>4 DEF Holding
    <3> QED  BY <3>1, <3>3, <3>4
  <2> QED  BY <2>1, <2>2
<1>8. InLine(d)'
  <2> SUFFICES ASSUME NEW s, NEW i, NEW m, NEW t, NEW j, NEW k,
                      Holding(d, s, i, m)', Holding(d, t, j, k)', Ahead(s, i, t, j)
               PROVE  m.n < k.n
    BY DEF InLine, Ahead
  <2>1. InLine(d)
    BY DEF Order
  <2>2. /\ i \in Nat \ {0} /\ j \in Nat \ {0}
        /\ \/ s = 1 /\ i = L + 1 /\ m = new
           \/ s = 1 /\ i <= L /\ Holding(d, 1, i, m)
           \/ s = 2 /\ Holding(d, 2, i + 1, m)
           \/ s = 3 /\ Holding(d, 3, i, m)
        /\ \/ t = 1 /\ j = L + 1 /\ k = new
           \/ t = 1 /\ j <= L /\ Holding(d, 1, j, k)
           \/ t = 2 /\ Holding(d, 2, j + 1, k)
           \/ t = 3 /\ Holding(d, 3, j, k)
    BY <1>7
  <2>3. CASE s = 1 /\ i = L + 1 /\ m = new
    BY <1>2, <1>4, <1>6, <2>1, <2>2, <2>3 DEF Ahead, InLine
  <2>4. CASE s = 1 /\ i <= L /\ Holding(d, 1, i, m)
    BY <1>2, <1>4, <1>6, <2>1, <2>2, <2>4 DEF Ahead, InLine
  <2>5. CASE s = 2 /\ Holding(d, 2, i + 1, m)
    BY <1>2, <1>4, <1>6, <2>1, <2>2, <2>5 DEF Ahead, InLine
  <2>6. CASE s = 3 /\ Holding(d, 3, i, m)
    BY <1>2, <1>4, <1>6, <2>1, <2>2, <2>6 DEF Ahead, InLine
  <2> QED  BY <2>2, <2>3, <2>4, <2>5, <2>6
<1>9. NotOvertaken(d)'
  <2> SUFFICES ASSUME NEW s, NEW i, NEW m, Holding(d, s, i, m)'
               PROVE  \/ s = 1 /\ Delivered(m)'
                      \/ \A k \in Message : k.dev = d /\ Delivered(k)' => k.n < m.n
    BY DEF NotOvertaken
  <2>1. \A k : Delivered(k)' <=> Delivered(k)
    BY <1>1 DEF Delivered, From
  <2>2. \E t, j : Holding(d, t, j, m) /\ (t = 1 => s = 1)
    BY <1>6, <1>7
  <2> QED  BY <2>1, <2>2 DEF Order, NotOvertaken
<1>10. \A e \in Device : InLine(e)' /\ NotOvertaken(e)'
  <2> TAKE e \in Device
  <2>1. CASE e # d
    BY <1>1, <1>3, <2>1, SameQueues, LineKept
  <2> QED  BY <1>8, <1>9, <2>1
<1>11. OwnMessages'
  <2>1. OwnMessages
    BY DEF Order
  <2>2. new \in sent /\ new.dev = d
    BY <1>4, <2>1 DEF OwnMessages
  <2>3. ASSUME NEW e \in Device, NEW i \in 1..Len(writes'[e])
        PROVE  writes'[e][i].msg \in sent /\ writes'[e][i].msg.dev = e
    <3>1. CASE e # d  BY <1>3, <2>1, <3>1 DEF OwnMessages
    <3>2. CASE e = d
      <4>1. i \in 1..L \/ i \in {L + 1, L + 2, L + 3}
        BY <1>2, <1>5, <3>2
      <4>2. CASE i \in 1..L
        <5>1. writes'[e][i] = writes[e][i] /\ i \in 1..Len(writes[e])
          BY <1>5, <3>2, <4>2
        <5> QED  BY <2>1, <5>1 DEF OwnMessages
      <4>3. CASE i \in {L + 1, L + 2, L + 3}
        BY <1>5, <2>2, <3>2, <4>3
      <4> QED  BY <4>1, <4>2, <4>3
    <3> QED  BY <3>1, <3>2
  <2>4. ASSUME NEW e \in Device, NEW i \in 1..Len(main'[e])
        PROVE  main'[e][i].msg \in sent /\ main'[e][i].msg.dev = e
    <3>1. CASE e # d  BY <1>3, <2>1, <3>1 DEF OwnMessages
    <3>2. CASE e = d
      <4>1. i \in 1..(M - 1) /\ i + 1 \in 1..M
        BY <1>2, <1>4, <3>2
      <4> QED  BY <1>4, <2>1, <3>2, <4>1 DEF OwnMessages
    <3> QED  BY <3>1, <3>2
  <2> QED  BY <1>1, <2>1, <2>3, <2>4 DEF OwnMessages, From
<1> QED  BY <1>1, <1>10, <1>11, DeliveredKept DEF Order

\* The oldest write leaves the queue, applied or refused, and its completion
\* handler, if it has one, is dispatched: Ack and Reject.
LEMMA PoppedOrder ==
  ASSUME IInv, Order, TypeOK', NEW d \in Device, NEW ok \in BOOLEAN, stored[d] > 0,
         thread' = thread, sent' = sent,
         writes' = [writes EXCEPT ![d] = Tail(@)],
         main' = [main EXCEPT ![d] = Notify(@, Head(writes[d]), ok)]
  PROVE  Order'
<1> DEFINE w == Head(writes[d])
           L == Len(writes[d])
           M == Len(main[d])
           c == [step |-> w.step, msg |-> w.msg, ok |-> ok]
<1>1. TypeOK
  BY DEF IInv
<1>2. L \in Nat /\ M \in Nat
  BY <1>1, LengthsAreNat
<1>3. /\ w = writes[d][1] /\ 1 \in 1..L /\ w \in Write
      /\ Len(writes'[d]) = L - 1
      /\ \A i \in 1..(L - 1) : writes'[d][i] = writes[d][i + 1]
  <2>1. writes'[d] = Tail(writes[d])
    BY <1>1 DEF TypeOK
  <2> QED  BY <1>1, <2>1, OldestWrite
<1>4. \A e \in Device : e # d => writes'[e] = writes[e] /\ main'[e] = main[e]
  BY <1>1 DEF TypeOK
<1>5. /\ \A i \in 1..M : main'[d][i] = main[d][i]
      /\ w.cb => Len(main'[d]) = M + 1 /\ main'[d][M + 1] = c
      /\ ~ w.cb => Len(main'[d]) = M
  <2>1. main'[d] = IF w.cb THEN Append(main[d], c) ELSE main[d]
    BY <1>1 DEF TypeOK, Notify
  <2>2. main[d] \in Seq(Completion)
    BY <1>1 DEF TypeOK
  <2> HIDE DEF c, w
  <2>3. CASE w.cb
    <3>1. main'[d] = Append(main[d], c)
      BY <2>1, <2>3
    <3> QED  BY <2>2, <2>3, <3>1
  <2>4. CASE ~ w.cb
    <3>1. main'[d] = main[d]
      BY <2>1, <2>4
    <3> QED  BY <2>4, <3>1
  <2> QED  BY <2>3, <2>4
<1>6. c.step = w.step /\ c.msg = w.msg
  OBVIOUS
<1> HIDE DEF w, c
<1>7. ASSUME NEW s, NEW i, NEW m, Holding(d, s, i, m)'
      PROVE  /\ i \in Nat \ {0}
             /\ \/ s = 1 /\ Holding(d, 1, i + 1, m)
                \/ s = 2 /\ i = M + 1 /\ Holding(d, 3, 1, m)
                \/ s = 2 /\ i <= M /\ Holding(d, 2, i, m)
                \/ s = 3 /\ Holding(d, 3, i + 1, m)
  <2>1. CASE s = 2
    <3>1. i \in 1..M \/ (w.cb /\ i = M + 1)
      BY <1>2, <1>5, <1>7, <2>1 DEF Holding
    <3>2. CASE i \in 1..M
      BY <1>2, <1>5, <1>7, <2>1, <3>2 DEF Holding
    <3>3. CASE w.cb /\ i = M + 1
      <4>1. w.step = "ownAdd" /\ w.msg = m
        BY <1>5, <1>6, <1>7, <2>1, <3>3 DEF Holding
      <4> QED  BY <1>2, <1>3, <2>1, <3>3, <4>1 DEF Holding
    <3> QED  BY <3>1, <3>2, <3>3
  <2>2. CASE s # 2
    <3>1. i \in 1..(L - 1)
      BY <1>3, <1>7, <2>2 DEF Holding
    <3>2. i + 1 \in 1..L /\ writes'[d][i] = writes[d][i + 1] /\ i \in Nat \ {0}
      BY <1>2, <1>3, <3>1
    <3> QED  BY <1>7, <2>2, <3>2 DEF Holding
  <2> QED  BY <2>1, <2>2
<1>8. InLine(d)'
  <2> SUFFICES ASSUME NEW s, NEW i, NEW m, NEW t, NEW j, NEW k,
                      Holding(d, s, i, m)', Holding(d, t, j, k)', Ahead(s, i, t, j)
               PROVE  m.n < k.n
    BY DEF InLine, Ahead
  <2>1. InLine(d)
    BY DEF Order
  <2>2. /\ i \in Nat \ {0} /\ j \in Nat \ {0}
        /\ \/ s = 1 /\ Holding(d, 1, i + 1, m)
           \/ s = 2 /\ i = M + 1 /\ Holding(d, 3, 1, m)
           \/ s = 2 /\ i <= M /\ Holding(d, 2, i, m)
           \/ s = 3 /\ Holding(d, 3, i + 1, m)
        /\ \/ t = 1 /\ Holding(d, 1, j + 1, k)
           \/ t = 2 /\ j = M + 1 /\ Holding(d, 3, 1, k)
           \/ t = 2 /\ j <= M /\ Holding(d, 2, j, k)
           \/ t = 3 /\ Holding(d, 3, j + 1, k)
    BY <1>7
  <2>3. CASE s = 1 /\ Holding(d, 1, i + 1, m)
    BY <1>2, <2>1, <2>2, <2>3 DEF Ahead, InLine
  <2>4. CASE s = 2 /\ i = M + 1 /\ Holding(d, 3, 1, m)
    BY <1>2, <2>1, <2>2, <2>4 DEF Ahead, InLine
  <2>5. CASE s = 2 /\ i <= M /\ Holding(d, 2, i, m)
    BY <1>2, <2>1, <2>2, <2>5 DEF Ahead, InLine
  <2>6. CASE s = 3 /\ Holding(d, 3, i + 1, m)
    BY <1>2, <2>1, <2>2, <2>6 DEF Ahead, InLine
  <2> QED  BY <2>2, <2>3, <2>4, <2>5, <2>6
<1>9. NotOvertaken(d)'
  <2> SUFFICES ASSUME NEW s, NEW i, NEW m, Holding(d, s, i, m)'
               PROVE  \/ s = 1 /\ Delivered(m)'
                      \/ \A k \in Message : k.dev = d /\ Delivered(k)' => k.n < m.n
    BY DEF NotOvertaken
  <2>1. \A k : Delivered(k)' <=> Delivered(k)
    BY DEF Delivered, From
  <2>2. \E t, j : Holding(d, t, j, m) /\ (t = 1 => s = 1)
    BY <1>7
  <2> QED  BY <2>1, <2>2 DEF Order, NotOvertaken
<1>10. \A e \in Device : InLine(e)' /\ NotOvertaken(e)'
  <2> TAKE e \in Device
  <2>1. CASE e # d
    BY <1>4, <2>1, SameQueues, LineKept
  <2> QED  BY <1>8, <1>9, <2>1
<1>11. OwnMessages'
  <2>1. OwnMessages
    BY DEF Order
  <2>2. w.msg \in sent /\ w.msg.dev = d
    BY <1>3, <2>1 DEF OwnMessages
  <2>3. ASSUME NEW e \in Device, NEW i \in 1..Len(writes'[e])
        PROVE  writes'[e][i].msg \in sent /\ writes'[e][i].msg.dev = e
    <3>1. CASE e # d  BY <1>4, <2>1, <3>1 DEF OwnMessages
    <3>2. CASE e = d
      <4>1. i \in 1..(L - 1) /\ i + 1 \in 1..L
        BY <1>2, <1>3, <3>2
      <4> QED  BY <1>3, <2>1, <3>2, <4>1 DEF OwnMessages
    <3> QED  BY <3>1, <3>2
  <2>4. ASSUME NEW e \in Device, NEW i \in 1..Len(main'[e])
        PROVE  main'[e][i].msg \in sent /\ main'[e][i].msg.dev = e
    <3>1. CASE e # d  BY <1>4, <2>1, <3>1 DEF OwnMessages
    <3>2. CASE e = d
      <4>1. i \in 1..M \/ (w.cb /\ i = M + 1)
        BY <1>2, <1>5, <3>2
      <4> QED  BY <1>5, <1>6, <2>1, <2>2, <3>2, <4>1 DEF OwnMessages
    <3> QED  BY <3>1, <3>2
  <2> QED  BY <2>1, <2>3, <2>4 DEF OwnMessages, From
<1> QED  BY <1>10, <1>11, DeliveredKept DEF Order

\* No message is delivered in this step; the message w is, and is the last of its device.
SameDelivered == \A m \in Message : Delivered(m)' <=> Delivered(m)

Arrives(w) ==
  /\ ~ Delivered(w)
  /\ \A k \in Message : k.dev = w.dev /\ Delivered(k) => k.n < w.n
  /\ \A m \in Message : Delivered(m)' <=> Delivered(m) \/ m = w

\* The backend applies a write: if it is the partner's copy of a message, all that
\* is behind it in line was sent later, and all that is before it was delivered.
LEMMA CommittedOrder ==
  ASSUME IInv, Order, TypeOK', NEW d \in Device, Commit(d)
  PROVE  /\ Order'
         /\ sent' = sent
         /\ SameDelivered \/ \E w \in sent : Arrives(w)
<1> DEFINE n == inflight[d] + 1
<1>1. /\ TypeOK /\ writes' = writes /\ main' = main /\ sent' = sent
      /\ inflight[d] \in Nat
  BY DEF IInv, TypeOK, Commit, history
<1>2. PICK v \in Write : v = writes[d][n]
  BY <1>1, NextWrite DEF Commit
<1>3. n \in 1..Len(writes[d])
  BY <1>1, NextWrite DEF Commit
<1>4. AddDocument(v) \/ SetData(v)
  BY <1>2 DEF Commit, AddDocument, SetData
<1>5. PICK w \in sent : w = v.msg /\ w.dev = d /\ w \in Message
  <2>1. v.msg \in sent /\ v.msg.dev = d
    BY <1>2, <1>3 DEF Order, OwnMessages
  <2> QED  BY <1>1, <2>1 DEF TypeOK
<1>6. \A m \in Message : Delivered(m) => Delivered(m)'
  BY <1>1, <1>4, CommitEffect, Growth DEF Commit, history
<1>7. \A m \in Message : Delivered(m)' => Delivered(m) \/ (v.step = "peerAdd" /\ m = w)
  <2> SUFFICES ASSUME NEW m \in Message, Delivered(m)', ~ Delivered(m)
               PROVE  v.step = "peerAdd" /\ m = w
    OBVIOUS
  <2>1. m = w /\ (v.step = "peerAdd" \/ v.step = "ownAdd")
    BY <1>1, <1>4, <1>5, CommitEffect
  <2>2. ASSUME v.step = "ownAdd" PROVE FALSE
    <3>1. From(w) \in User /\ w.to \in User /\ w.to # From(w)
      BY <1>5, UsersOfStep, ConstantsAssumption DEF Order, OwnMessages, From, Message
    <3>2. thread'[w.to][From(w)] = thread[w.to][From(w)]
      <4>1. Owner(v.step, v.msg) = From(w) /\ Peer(v.step, v.msg) = w.to
        BY <1>5, <2>2 DEF Owner, Peer, Step
      <4> QED  BY <1>1, <1>4, <3>1, <4>1 DEF AddDocument, SetData, TypeOK
    <3> QED  BY <2>1, <3>2 DEF Delivered, From
  <2> QED  BY <2>1, <2>2
<1>8. v.step = "peerAdd" => Delivered(w)' /\ Holding(d, 1, n, w)
  BY <1>1, <1>2, <1>3, <1>4, <1>5, CommitEffect DEF Holding, Delivered, From
<1>9. \A e \in Device : InLine(e)'
  BY <1>1 DEF Order, InLine, Holding
<1>10. DeliveredSent'
  BY <1>1, <1>7 DEF Order, DeliveredSent
<1>11. OwnMessages'
  BY <1>1 DEF Order, OwnMessages, From
<1>12. ASSUME v.step = "peerAdd", ~ Delivered(w)
       PROVE  \A k \in Message : k.dev = d /\ Delivered(k) => k.n < w.n
  BY <1>8, <1>12 DEF Order, NotOvertaken
<1>13. ASSUME NEW e \in Device PROVE NotOvertaken(e)'
  <2> SUFFICES ASSUME NEW s, NEW i, NEW m, Holding(e, s, i, m)'
               PROVE  \/ s = 1 /\ Delivered(m)'
                      \/ \A k \in Message : k.dev = e /\ Delivered(k)' => k.n < m.n
    BY DEF NotOvertaken
  <2>1. Holding(e, s, i, m)
    BY <1>1 DEF Holding
  <2>2. m \in Message /\ m.dev = e /\ s \in 1..3 /\ i \in Nat
    BY <1>1, <2>1, HeldIsSent DEF Order
  <2>3. CASE s = 1 /\ Delivered(m)
    BY <1>6, <2>2, <2>3
  <2>4. CASE /\ ~ (s = 1 /\ Delivered(m))
             /\ e = d /\ v.step = "peerAdd" /\ ~ Delivered(w)
    <3>1. \A k \in Message : k.dev = e /\ Delivered(k) => k.n < m.n
      BY <2>1, <2>4 DEF Order, NotOvertaken
    <3>2. CASE s = 1 /\ i < n
      <4>1. i \in 1..inflight[d] /\ writes[d][i].step = "peerAdd" /\ writes[d][i].msg = m
        BY <1>1, <2>1, <2>4, <3>2 DEF Holding
      <4> QED  BY <2>4, <3>2, <4>1 DEF IInv, Applied
    <3>3. CASE s = 1 /\ i = n
      <4>1. m = w
        BY <1>2, <1>5, <2>1, <2>4, <3>3 DEF Holding
      <4> QED  BY <1>8, <2>4, <3>3, <4>1
    <3>4. CASE s # 1 \/ i > n
      <4>1. Ahead(1, n, s, i)
        BY <1>1, <2>2, <3>4 DEF Ahead
      <4>2. w.n < m.n
        BY <1>8, <2>1, <2>4, <4>1 DEF Order, InLine
      <4> QED  BY <1>7, <3>1, <4>2
    <3> QED  BY <1>1, <2>2, <3>2, <3>3, <3>4
  <2>5. CASE /\ ~ (s = 1 /\ Delivered(m))
             /\ ~ (e = d /\ v.step = "peerAdd" /\ ~ Delivered(w))
    <3>1. \A k \in Message : k.dev = e /\ Delivered(k) => k.n < m.n
      BY <2>1, <2>5 DEF Order, NotOvertaken
    <3> QED  BY <1>5, <1>7, <2>5, <3>1
  <2> QED  BY <2>3, <2>4, <2>5
<1>14. Order'
  BY <1>9, <1>10, <1>11, <1>13 DEF Order
<1>15. CASE v.step = "peerAdd" /\ ~ Delivered(w)
  <2>1. Arrives(w)
    BY <1>5, <1>6, <1>7, <1>8, <1>12, <1>15 DEF Arrives
  <2> QED  BY <1>1, <1>14, <2>1
<1>16. CASE ~ (v.step = "peerAdd" /\ ~ Delivered(w))
  <2>1. SameDelivered
    BY <1>6, <1>7, <1>16 DEF SameDelivered
  <2> QED  BY <1>1, <1>14, <2>1
<1> QED  BY <1>15, <1>16

\* The queues of all devices, and the threads, stay as they are.
LEMMA UntouchedOrder ==
  ASSUME Order, thread' = thread, sent' = sent, writes' = writes,
         \A e \in Device : \A i \in 1..Len(main'[e]) :
           \E j \in 1..Len(main[e]) : main'[e][i] = main[e][j],
         \A e \in Device : InLine(e)' /\ NotOvertaken(e)'
  PROVE  Order'
<1>1. OwnMessages
  BY DEF Order
<1>2. ASSUME NEW e \in Device, NEW i \in 1..Len(main'[e])
      PROVE  main'[e][i].msg \in sent /\ main'[e][i].msg.dev = e
  BY <1>1, <1>2 DEF OwnMessages
<1>3. OwnMessages'
  BY <1>1, <1>2 DEF OwnMessages, From
<1> QED  BY <1>3, DeliveredKept DEF Order

\* The handler of the partner's copy: those behind it move up.
LEMMA UploadedOrder ==
  ASSUME IInv, Order, TypeOK', NEW d \in Device, UploadDone(d) PROVE Order'
<1> DEFINE M == Len(main[d])
<1>1. /\ TypeOK /\ thread' = thread /\ sent' = sent /\ writes' = writes
      /\ main' = [main EXCEPT ![d] = Tail(@)] /\ main[d] # << >>
  BY DEF IInv, UploadDone, backend, history
<1>2. /\ M \in Nat /\ Len(main'[d]) = M - 1
      /\ \A i \in 1..(M - 1) : main'[d][i] = main[d][i + 1]
      /\ \A e \in Device : e # d => main'[e] = main[e]
  BY <1>1, NextHandler, LengthsAreNat DEF TypeOK
<1>3. \A i \in 1..(M - 1) : i + 1 \in 1..M
  BY <1>2
<1>4. ASSUME NEW s, NEW i, NEW m, Holding(d, s, i, m)'
      PROVE  \/ s # 2 /\ Holding(d, s, i, m)
             \/ s = 2 /\ i \in Nat /\ Holding(d, 2, i + 1, m)
  BY <1>1, <1>2, <1>3, <1>4 DEF Holding
<1>5. InLine(d)'
  <2> SUFFICES ASSUME NEW s, NEW i, NEW m, NEW t, NEW j, NEW k,
                      Holding(d, s, i, m)', Holding(d, t, j, k)', Ahead(s, i, t, j)
               PROVE  m.n < k.n
    BY DEF InLine, Ahead
  <2>1. InLine(d)
    BY DEF Order
  <2> QED  BY <1>4, <2>1 DEF InLine, Ahead
<1>6. NotOvertaken(d)'
  <2> SUFFICES ASSUME NEW s, NEW i, NEW m, Holding(d, s, i, m)'
               PROVE  \/ s = 1 /\ Delivered(m)'
                      \/ \A k \in Message : k.dev = d /\ Delivered(k)' => k.n < m.n
    BY DEF NotOvertaken
  <2>1. \A k : Delivered(k)' <=> Delivered(k)
    BY <1>1 DEF Delivered, From
  <2>2. \E j : Holding(d, s, j, m)
    BY <1>4
  <2> QED  BY <2>1, <2>2 DEF Order, NotOvertaken
<1>7. \A e \in Device : InLine(e)' /\ NotOvertaken(e)'
  <2> TAKE e \in Device
  <2>1. CASE e # d
    BY <1>1, <1>2, <2>1, SameQueues, LineKept
  <2> QED  BY <1>5, <1>6, <2>1
<1>8. \A e \in Device : \A i \in 1..Len(main'[e]) :
        \E j \in 1..Len(main[e]) : main'[e][i] = main[e][j]
  BY <1>2, <1>3
<1> QED  BY <1>1, <1>7, <1>8, UntouchedOrder

\* Every step keeps the order, and is a step of the channel or none.
LEMMA StepOrder ==
  ASSUME IInv, Order, [Next]_vars
  PROVE  Order' /\ [Channel!Next]_(Channel!vars)
<1> DEFINE arrived == {m \in sent : Delivered(m)}
<1>1. TypeOK /\ TypeOK'
  BY NextType DEF IInv
<1>2. ASSUME sent' = sent, \A m \in Message : Delivered(m)' <=> Delivered(m)
      PROVE  UNCHANGED Channel!vars
  BY <1>1, <1>2 DEF Channel!vars, TypeOK
<1>3. thread' = thread => \A m : Delivered(m)' <=> Delivered(m)
  BY DEF Delivered, From
<1>4. ASSUME thread' = thread, sent' = sent, writes' = writes, main' = main
      PROVE  Order'
  <2>1. \A e \in Device : InLine(e)' /\ NotOvertaken(e)'
    BY <1>4, SameQueues, LineKept
  <2>2. \A e \in Device : \A i \in 1..Len(main'[e]) :
          \E j \in 1..Len(main[e]) : main'[e][i] = main[e][j]
    BY <1>4
  <2> QED  BY <1>4, <2>1, <2>2, UntouchedOrder
<1>5. CASE UNCHANGED vars
  BY <1>2, <1>3, <1>4, <1>5 DEF vars, backend, client, history
<1>6. ASSUME NEW d \in Device, NEW p \in User, Type(d, p)
      PROVE  Order' /\ [Channel!Next]_(Channel!vars)
  BY <1>2, <1>3, <1>4, <1>6 DEF Type, backend, history
<1>7. ASSUME NEW d \in Device, WriteLocally(d) \/ Disconnect(d)
      PROVE  Order' /\ [Channel!Next]_(Channel!vars)
  BY <1>2, <1>3, <1>4, <1>7 DEF WriteLocally, Disconnect, backend, history
<1>8. ASSUME NEW d \in Device, Mirror(d) \/ UploadDone(d) \/ Kill(d)
      PROVE  Order' /\ [Channel!Next]_(Channel!vars)
  <2>1. thread' = thread /\ sent' = sent
    BY <1>8 DEF Mirror, UploadDone, Kill, backend, history
  <2> QED  BY <1>1, <1>2, <1>3, <1>8, <2>1, MirroredOrder, UploadedOrder, KilledOrder
<1>9. ASSUME NEW d \in Device, Ack(d) \/ Reject(d)
      PROVE  Order' /\ [Channel!Next]_(Channel!vars)
  <2>1. thread' = thread /\ sent' = sent
    BY <1>9 DEF Ack, Reject, backend, history
  <2>2. stored[d] > 0
    <3>1. CASE Reject(d)
      BY <3>1 DEF Reject
    <3>2. CASE Ack(d)
      <4>1. /\ stored[d] \in 0..Len(writes[d])
            /\ inflight[d] \in 0..stored[d]
        BY <1>1 DEF TypeOK
      <4>2. Len(writes[d]) \in Nat
        BY <1>1, LengthsAreNat DEF TypeOK
      <4>3. inflight[d] > 0
        BY <3>2 DEF Ack
      <4> QED  BY <4>1, <4>2, <4>3
    <3> QED  BY <1>9, <3>1, <3>2
  <2>3. \E ok \in BOOLEAN : main' = [main EXCEPT ![d] = Notify(@, Head(writes[d]), ok)]
    BY <1>9 DEF Ack, Reject
  <2>4. writes' = [writes EXCEPT ![d] = Tail(@)]
    BY <1>9 DEF Ack, Reject
  <2> QED  BY <1>1, <1>2, <1>3, <2>1, <2>2, <2>3, <2>4, PoppedOrder
<1>10. ASSUME NEW d \in Device, Commit(d)
       PROVE  Order' /\ [Channel!Next]_(Channel!vars)
  <2>1. Order' /\ sent' = sent /\ (SameDelivered \/ \E w \in sent : Arrives(w))
    BY <1>1, <1>10, CommittedOrder
  <2>2. ASSUME NEW w \in sent, Arrives(w)
        PROVE  Channel!Next
    <3>1. sent \subseteq Message
      BY <1>1 DEF TypeOK
    <3>2. arrived' = arrived \cup {w}
      BY <2>1, <2>2, <3>1 DEF Arrives
    <3>3. ~ Delivered(w) /\ \A k \in arrived : k.dev = w.dev => k.n < w.n
      BY <2>2, <3>1 DEF Arrives
    <3>4. Channel!Deliver(w)
      BY <2>1, <2>2, <3>2, <3>3 DEF Channel!Deliver
    <3> QED  BY <3>1, <3>4 DEF Channel!Next
  <2>3. SameDelivered => UNCHANGED Channel!vars
    BY <1>2, <2>1 DEF SameDelivered
  <2>4. (\E w \in sent : Arrives(w)) => Channel!Next
    BY <2>2
  <2> QED  BY ONLY <2>1, <2>3, <2>4
<1>11. ASSUME NEW d \in Device, NEW p \in User, Send(d, p)
       PROVE  Order' /\ [Channel!Next]_(Channel!vars)
  <2> DEFINE new == [dev |-> d, to |-> p, n |-> nsent[d] + 1]
  <2>1. thread' = thread /\ sent' = sent \cup {new} /\ nsent[d] < MaxSends
    BY <1>11 DEF Send, backend
  <2>2. new \in Message /\ nsent[d] \in Int
    <3>1. nsent[d] \in 0..MaxSends /\ MaxSends \in Nat
      BY <1>1, ConstantsAssumption DEF TypeOK
    <3>2. nsent[d] \in Int /\ nsent[d] + 1 \in 1..MaxSends
      BY <2>1, <3>1
    <3> QED  BY <3>2 DEF Message
  <2>3. \A k \in sent : k.dev = d => k.n < nsent[d] + 1
    <3> TAKE k \in sent
    <3>1. k.n <= nsent[k.dev] /\ k.n \in Int
      BY DEF IInv, TypeOK, Numbered, Message
    <3> QED  BY <2>2, <3>1
  <2>4. new \notin sent
    BY <2>2, <2>3
  <2>5. ~ Delivered(new)
    BY <2>2, <2>4 DEF Order, DeliveredSent
  <2>6. arrived' = arrived
    BY <1>3, <2>1, <2>5
  <2>7. Channel!Send(new)
    BY <2>1, <2>3, <2>6 DEF Channel!Send
  <2> QED  BY <1>1, <1>11, <2>2, <2>7, SentOrder DEF Channel!Next
<1> QED
  BY <1>5, <1>6, <1>7, <1>8, <1>9, <1>10, <1>11 DEF Next

\* The detailed specification implements the channel: the partner gets the messages
\* of a device in the order in which they were sent, each at most once, across
\* kills, resent writes and refusals (Service.swift, uploadMessage).
THEOREM Refinement == Spec => ImplementsDelivery
<1>1. Init => Order /\ Channel!Init
  <2>1. Init => {m \in sent : Delivered(m)} = {}
    BY DEF Init
  <2> QED  BY <2>1, InitOrder DEF Init, Channel!Init
<1>2. IInv /\ Order /\ [Next]_vars => Order' /\ [Channel!Next]_(Channel!vars)
  BY StepOrder
<1> QED  BY <1>1, <1>2, Invariance, PTL DEF Spec, ImplementsDelivery, Channel!Spec

-----------------------------------------------------------------------------
(***************************************************************************)
(* The input view of a chat is cleared only for a message that has reached *)
(* the partner.  The handler that clears it may run long after the write   *)
(* was applied, with kills, resent writes and other sends in between: the  *)
(* invariant says that every handler still to come is for a message of     *)
(* this launch, and that one dispatched with success is for a message the  *)
(* partner has.                                                            *)
(***************************************************************************)

\* The handler c was told that the partner's copy of m was written.
Confirmed(c, m) == c.step = "peerAdd" /\ c.ok /\ c.msg = m

\* Writes with a handler, and handlers, are for messages of this launch; a handler of
\* the partner's copy told of success finds that copy delivered.
Fresh(d) ==
  /\ launched[d] <= nsent[d]
  /\ \A i \in 1..Len(writes[d]) : writes[d][i].cb => writes[d][i].msg.n > launched[d]
  /\ \A i \in 1..Len(main[d]) : main[d][i].msg.n > launched[d]
  /\ \A i \in 1..Len(main[d]), m \in Message : Confirmed(main[d][i], m) => Delivered(m)

AllFresh == \A d \in Device : Fresh(d)

LEMMA InitFresh == Init => AllFresh
BY DEF Init, AllFresh, Fresh

\* A device whose queues a step leaves alone stays fresh, as threads only grow.
LEMMA FreshKept ==
  ASSUME TypeOK, NEW d \in Device, Fresh(d), writes'[d] = writes[d], main'[d] = main[d],
         launched'[d] = launched[d], nsent'[d] = nsent[d],
         \A m \in Message : Delivered(m) => Delivered(m)'
  PROVE  Fresh(d)'
BY DEF Fresh

LEMMA DeliveredSame ==
  ASSUME thread' = thread
  PROVE  \A m : Delivered(m)' <=> Delivered(m)
BY DEF Delivered, From

LEMMA SentFresh ==
  ASSUME TypeOK, AllFresh, NEW d \in Device, NEW p \in User, Send(d, p) PROVE AllFresh'
<1> DEFINE new == [dev |-> d, to |-> p, n |-> nsent[d] + 1]
           L == Len(writes[d])
<1>1. /\ thread' = thread /\ main' = main /\ launched' = launched
      /\ writes' = [writes EXCEPT ![d] = Append(@, FirstWrite(new))]
      /\ nsent' = [nsent EXCEPT ![d] = @ + 1]
  BY DEF Send, backend
<1>2. /\ L \in Nat /\ Len(writes'[d]) = L + 1
      /\ writes'[d][L + 1] = FirstWrite(new)
      /\ \A i \in 1..L : writes'[d][i] = writes[d][i]
      /\ nsent'[d] = nsent[d] + 1
      /\ \A e \in Device : e # d => writes'[e] = writes[e] /\ nsent'[e] = nsent[e]
  BY <1>1 DEF TypeOK
<1>3. FirstWrite(new).msg.n = nsent[d] + 1 /\ nsent[d] \in Int /\ launched[d] \in Int
  BY ConstantsAssumption DEF FirstWrite, Mutation, TypeOK
<1> HIDE DEF new
<1>4. Fresh(d)
  BY DEF AllFresh
<1>5. \A m \in Message : Delivered(m) => Delivered(m)'
  BY <1>1, DeliveredSame
<1>6. Fresh(d)'
  <2>1. launched'[d] <= nsent'[d]
    BY <1>1, <1>2, <1>3, <1>4 DEF Fresh
  <2>2. ASSUME NEW i \in 1..Len(writes'[d]), writes'[d][i].cb
        PROVE  writes'[d][i].msg.n > launched'[d]
    <3>1. i \in 1..L \/ i = L + 1
      BY <1>2
    <3>2. CASE i \in 1..L
      BY <1>1, <1>2, <1>4, <2>2, <3>2 DEF Fresh
    <3>3. CASE i = L + 1
      <4>1. writes'[d][i].msg.n = nsent[d] + 1
        BY <1>2, <1>3, <3>3
      <4> QED  BY <1>1, <1>3, <1>4, <4>1 DEF Fresh
    <3> QED  BY <3>1, <3>2, <3>3
  <2>3. /\ \A i \in 1..Len(main'[d]) : main'[d][i].msg.n > launched'[d]
        /\ \A i \in 1..Len(main'[d]), m \in Message : Confirmed(main'[d][i], m) => Delivered(m)'
    BY <1>1, <1>4, <1>5 DEF Fresh
  <2> QED  BY <2>1, <2>2, <2>3 DEF Fresh
<1>7. ASSUME NEW e \in Device, e # d PROVE Fresh(e)'
  BY <1>1, <1>2, <1>5, <1>7, FreshKept DEF AllFresh
<1> QED  BY <1>6, <1>7 DEF AllFresh

LEMMA MirroredFresh ==
  ASSUME IInv, AllFresh, TypeOK', NEW d \in Device, Mirror(d) PROVE AllFresh'
<1> DEFINE new == Head(main[d]).msg
           L == Len(writes[d])
           M == Len(main[d])
<1>1. /\ TypeOK /\ thread' = thread /\ launched' = launched /\ nsent' = nsent
  BY DEF IInv, Mirror, backend, history
<1>2. L \in Nat /\ M \in Nat
  BY <1>1, LengthsAreNat
<1>3. /\ main[d] # << >> /\ main'[d] = Tail(main[d])
      /\ \A e \in Device : e # d => main'[e] = main[e] /\ writes'[e] = writes[e]
  BY <1>1 DEF Mirror, TypeOK
<1>4. /\ main[d][1].msg = new /\ 1 \in 1..M
      /\ Len(main'[d]) = M - 1
      /\ \A i \in 1..(M - 1) : main'[d][i] = main[d][i + 1]
  BY <1>1, <1>3, NextHandler
<1>5. /\ Len(writes'[d]) = L + 3
      /\ \A i \in 1..L : writes'[d][i] = writes[d][i]
      /\ \A i \in {L + 1, L + 2, L + 3} : writes'[d][i].msg = new
  BY <1>1, MirrorAppends
<1> HIDE DEF new
<1>6. Fresh(d)
  BY DEF AllFresh
<1>7. Fresh(d)'
  <2>1. new.n > launched'[d]
    BY <1>1, <1>4, <1>6 DEF Fresh
  <2>2. ASSUME NEW i \in 1..Len(writes'[d]), writes'[d][i].cb
        PROVE  writes'[d][i].msg.n > launched'[d]
    <3>1. i \in 1..L \/ i \in {L + 1, L + 2, L + 3}
      BY <1>2, <1>5
    <3>2. CASE i \in 1..L
      BY <1>1, <1>5, <1>6, <2>2, <3>2 DEF Fresh
    <3>3. CASE i \in {L + 1, L + 2, L + 3}
      BY <1>5, <2>1, <3>3
    <3> QED  BY <3>1, <3>2, <3>3
  <2>3. ASSUME NEW i \in 1..Len(main'[d])
        PROVE  /\ main'[d][i].msg.n > launched'[d]
               /\ \A m \in Message : Confirmed(main'[d][i], m) => Delivered(m)'
    <3>1. i + 1 \in 1..M /\ main'[d][i] = main[d][i + 1]
      BY <1>2, <1>4
    <3> QED  BY <1>1, <1>6, <3>1, DeliveredSame DEF Fresh
  <2> QED  BY <1>1, <1>6, <2>2, <2>3 DEF Fresh
<1>8. \A m \in Message : Delivered(m) => Delivered(m)'
  BY <1>1, DeliveredSame
<1>9. ASSUME NEW e \in Device, e # d PROVE Fresh(e)'
  BY <1>1, <1>3, <1>8, <1>9, FreshKept DEF AllFresh
<1> QED  BY <1>7, <1>9 DEF AllFresh

LEMMA UploadedFresh ==
  ASSUME IInv, AllFresh, TypeOK', NEW d \in Device, UploadDone(d) PROVE AllFresh'
<1> DEFINE M == Len(main[d])
<1>1. /\ TypeOK /\ thread' = thread /\ launched' = launched /\ nsent' = nsent
      /\ writes' = writes /\ main' = [main EXCEPT ![d] = Tail(@)] /\ main[d] # << >>
  BY DEF IInv, UploadDone, backend, history
<1>2. /\ M \in Nat /\ Len(main'[d]) = M - 1
      /\ \A i \in 1..(M - 1) : main'[d][i] = main[d][i + 1]
      /\ \A e \in Device : e # d => main'[e] = main[e]
  BY <1>1, NextHandler, LengthsAreNat DEF TypeOK
<1>3. Fresh(d)
  BY DEF AllFresh
<1>4. Fresh(d)'
  <2>1. ASSUME NEW i \in 1..Len(main'[d])
        PROVE  /\ main'[d][i].msg.n > launched'[d]
               /\ \A m \in Message : Confirmed(main'[d][i], m) => Delivered(m)'
    <3>1. i + 1 \in 1..M /\ main'[d][i] = main[d][i + 1]
      BY <1>2
    <3> QED  BY <1>1, <1>3, <3>1, DeliveredSame DEF Fresh
  <2> QED  BY <1>1, <1>3, <2>1 DEF Fresh
<1>5. \A m \in Message : Delivered(m) => Delivered(m)'
  BY <1>1, DeliveredSame
<1>6. ASSUME NEW e \in Device, e # d PROVE Fresh(e)'
  BY <1>1, <1>2, <1>5, <1>6, FreshKept DEF AllFresh
<1> QED  BY <1>4, <1>6 DEF AllFresh

\* The oldest write leaves the queue; if the backend applied the partner's copy, it is there.
LEMMA PoppedFresh ==
  ASSUME IInv, AllFresh, TypeOK', NEW d \in Device, NEW ok \in BOOLEAN, stored[d] > 0,
         thread' = thread, launched' = launched, nsent' = nsent,
         writes' = [writes EXCEPT ![d] = Tail(@)],
         main' = [main EXCEPT ![d] = Notify(@, Head(writes[d]), ok)],
         ok /\ Head(writes[d]).step = "peerAdd" => Delivered(Head(writes[d]).msg)
  PROVE  AllFresh'
<1> DEFINE w == Head(writes[d])
           L == Len(writes[d])
           M == Len(main[d])
           c == [step |-> w.step, msg |-> w.msg, ok |-> ok]
<1>1. TypeOK
  BY DEF IInv
<1>2. L \in Nat /\ M \in Nat
  BY <1>1, LengthsAreNat
<1>3. /\ w = writes[d][1] /\ 1 \in 1..L /\ w \in Write
      /\ Len(writes'[d]) = L - 1
      /\ \A i \in 1..(L - 1) : writes'[d][i] = writes[d][i + 1]
  <2>1. writes'[d] = Tail(writes[d])
    BY <1>1 DEF TypeOK
  <2> QED  BY <1>1, <2>1, OldestWrite
<1>4. \A e \in Device : e # d => writes'[e] = writes[e] /\ main'[e] = main[e]
  BY <1>1 DEF TypeOK
<1>5. /\ \A i \in 1..M : main'[d][i] = main[d][i]
      /\ w.cb => Len(main'[d]) = M + 1 /\ main'[d][M + 1] = c
      /\ ~ w.cb => Len(main'[d]) = M
  <2>1. main'[d] = IF w.cb THEN Append(main[d], c) ELSE main[d]
    BY <1>1 DEF TypeOK, Notify
  <2>2. main[d] \in Seq(Completion) /\ c \in Completion
    BY <1>1, <1>3 DEF TypeOK, Write, Completion
  <2> HIDE DEF c, w
  <2>3. CASE w.cb
    <3>1. main'[d] = Append(main[d], c)
      BY <2>1, <2>3
    <3> QED  BY ONLY <2>2, <2>3, <3>1, AppendProperties
  <2>4. CASE ~ w.cb
    <3>1. main'[d] = main[d]
      BY <2>1, <2>4
    <3> QED  BY <2>4, <3>1
  <2> QED  BY <2>3, <2>4
<1>6. c.step = w.step /\ c.msg = w.msg /\ c.ok = ok
  OBVIOUS
<1>7. ok /\ w.step = "peerAdd" => Delivered(w.msg)
  OBVIOUS
<1> HIDE DEF w, c
<1>8. Fresh(d)
  BY DEF AllFresh
<1>9. Fresh(d)'
  <2>1. ASSUME NEW i \in 1..Len(writes'[d]), writes'[d][i].cb
        PROVE  writes'[d][i].msg.n > launched'[d]
    <3>1. i + 1 \in 1..L /\ writes'[d][i] = writes[d][i + 1]
      BY <1>2, <1>3
    <3> QED  BY <1>8, <2>1, <3>1 DEF Fresh
  <2>2. ASSUME NEW i \in 1..Len(main'[d])
        PROVE  /\ main'[d][i].msg.n > launched'[d]
               /\ \A m \in Message : Confirmed(main'[d][i], m) => Delivered(m)'
    <3>1. i \in 1..M \/ (w.cb /\ i = M + 1)
      BY <1>2, <1>5
    <3>2. CASE i \in 1..M
      <4>1. main'[d][i] = main[d][i]
        BY <1>5, <3>2
      <4> QED  BY <1>8, <3>2, <4>1, DeliveredSame DEF Fresh
    <3>3. CASE w.cb /\ i = M + 1
      <4>1. main'[d][i] = c /\ w.msg.n > launched[d]
        BY <1>3, <1>5, <1>8, <3>3 DEF Fresh
      <4>2. \A m : Confirmed(c, m) => m = w.msg /\ ok /\ w.step = "peerAdd"
        BY <1>6 DEF Confirmed
      <4> QED  BY <1>6, <1>7, <4>1, <4>2, DeliveredSame
    <3> QED  BY <3>1, <3>2, <3>3
  <2> QED  BY <1>8, <2>1, <2>2 DEF Fresh
<1>10. \A m \in Message : Delivered(m) => Delivered(m)'
  BY DeliveredSame
<1>11. ASSUME NEW e \in Device, e # d PROVE Fresh(e)'
  BY <1>1, <1>4, <1>10, <1>11, FreshKept DEF AllFresh
<1> QED  BY <1>9, <1>11 DEF AllFresh

LEMMA KilledFresh ==
  ASSUME IInv, AllFresh, NEW d \in Device, Kill(d) PROVE AllFresh'
<1>1. /\ TypeOK /\ thread' = thread /\ nsent' = nsent
      /\ writes' = [writes EXCEPT ![d] = Restored(@, stored[d])]
      /\ main' = [main EXCEPT ![d] = << >>]
      /\ launched' = [launched EXCEPT ![d] = nsent[d]]
  BY DEF IInv, Kill, backend
<1>2. /\ \A e \in Device : e # d =>
           writes'[e] = writes[e] /\ main'[e] = main[e] /\ launched'[e] = launched[e]
      /\ main'[d] = << >> /\ writes'[d] = Restored(writes[d], stored[d])
      /\ launched'[d] = nsent[d]
      /\ nsent[d] \in Int
  BY <1>1, ConstantsAssumption DEF TypeOK
<1>3. /\ Len(writes'[d]) = stored[d] /\ stored[d] \in Nat
      /\ \A i \in 1..stored[d] : i \in 1..Len(writes[d])
  BY <1>1, <1>2, RestoredType DEF TypeOK
<1>4. ASSUME NEW i \in 1..Len(writes'[d]) PROVE ~ writes'[d][i].cb
  <2>1. i \in 1..Len(writes[d]) /\ writes[d][i] \in Write
    BY <1>1, <1>3, ElementOfSeq DEF TypeOK
  <2>2. writes'[d][i] = [writes[d][i] EXCEPT !.cb = FALSE]
    BY <1>2, <1>3 DEF Restored
  <2> QED  BY <2>1, <2>2 DEF Write
<1>5. Fresh(d)'
  <2>1. Len(main'[d]) = 0
    BY <1>2
  <2>2. launched'[d] <= nsent'[d]
    BY <1>1, <1>2
  <2> QED  BY <1>4, <2>1, <2>2 DEF Fresh
<1>6. \A m \in Message : Delivered(m) => Delivered(m)'
  BY <1>1, DeliveredSame
<1>7. ASSUME NEW e \in Device, e # d PROVE Fresh(e)'
  BY <1>1, <1>2, <1>6, <1>7, FreshKept DEF AllFresh
<1> QED  BY <1>5, <1>7 DEF AllFresh

\* A text that goes is that of the message whose handler runs.
LEMMA ClearedFor ==
  ASSUME IInv, Order, AllFresh, NEW d \in Device, UploadDone(d),
         NEW e \in Device, NEW p \in User, draft[e][p], ~ draft'[e][p]
  PROVE  \E m \in sent : m.dev = e /\ m.to = p /\ m.n > launched[e] /\ Delivered(m)
<1> DEFINE m == main[d][1].msg
<1>1. /\ TypeOK /\ main[d] # << >>
      /\ Head(main[d]).step = "peerAdd"
      /\ draft' = [draft EXCEPT ![d][Head(main[d]).msg.to] = @ /\ ~ Head(main[d]).ok]
  BY DEF IInv, UploadDone
<1>2. Head(main[d]) = main[d][1] /\ 1 \in 1..Len(main[d])
  BY <1>1, NextHandler
<1>3. e = d /\ p = m.to /\ main[d][1].ok
  BY <1>1, <1>2 DEF TypeOK
<1>4. m \in sent /\ m.dev = d
  BY <1>2 DEF Order, OwnMessages
<1>5. m.n > launched[d] /\ Delivered(m)
  <2>1. m \in Message /\ Confirmed(main[d][1], m)
    BY <1>1, <1>2, <1>3, <1>4 DEF TypeOK, Confirmed
  <2> QED  BY <1>2, <2>1 DEF AllFresh, Fresh
<1> QED  BY <1>3, <1>4, <1>5

\* Every step keeps the handlers fresh, and clears a text only for a message that arrived.
LEMMA StepFresh ==
  ASSUME IInv, Order, AllFresh, [Next]_vars
  PROVE  /\ AllFresh'
         /\ \A d \in Device, p \in User :
              draft[d][p] /\ ~ draft'[d][p] /\ kills'[d] = kills[d] =>
                \E m \in sent : m.dev = d /\ m.to = p /\ m.n > launched[d] /\ Delivered(m)
<1> DEFINE Cleared(e, p) == draft[e][p] /\ ~ draft'[e][p] /\ kills'[e] = kills[e]
           For(e, p) == \E m \in sent : m.dev = e /\ m.to = p /\ m.n > launched[e] /\ Delivered(m)
<1>1. TypeOK /\ TypeOK'
  BY NextType DEF IInv
<1>2. ASSUME writes' = writes, main' = main, launched' = launched, nsent' = nsent,
             \A m \in Message : Delivered(m) => Delivered(m)'
      PROVE  AllFresh'
  BY <1>1, <1>2, FreshKept DEF AllFresh
<1>3. thread' = thread => \A m \in Message : Delivered(m) => Delivered(m)'
  BY DeliveredSame
<1>4. draft' = draft => \A e \in Device, q \in User : Cleared(e, q) => For(e, q)
  OBVIOUS
<1>5. CASE UNCHANGED vars
  BY <1>2, <1>3, <1>4, <1>5 DEF vars, backend, client, history
<1>6. ASSUME NEW d \in Device, NEW p \in User, Type(d, p)
      PROVE  AllFresh' /\ \A e \in Device, q \in User : Cleared(e, q) => For(e, q)
  <2>1. AllFresh'
    BY <1>2, <1>3, <1>6 DEF Type, backend, history
  <2>2. draft' = [draft EXCEPT ![d][p] = TRUE]
    BY <1>6 DEF Type
  <2>3. \A e \in Device, q \in User : ~ Cleared(e, q)
    BY <1>1, <2>2 DEF TypeOK
  <2> QED  BY <2>1, <2>3
<1>7. ASSUME NEW d \in Device, WriteLocally(d) \/ Disconnect(d)
      PROVE  AllFresh' /\ draft' = draft
  BY <1>2, <1>3, <1>7 DEF WriteLocally, Disconnect, backend, history
<1>8. ASSUME NEW d \in Device, Commit(d)
      PROVE  AllFresh' /\ draft' = draft
  <2>1. \A o, p \in User : thread[o][p] \subseteq thread'[o][p]
    <3>1. PICK v \in Write : v = writes[d][inflight[d] + 1]
      BY <1>1, <1>8, NextWrite DEF Commit
    <3>2. AddDocument(v) \/ SetData(v)
      BY <1>8, <3>1 DEF Commit
    <3> QED  BY <1>1, <3>2, CommitEffect
  <2>2. rejected' = rejected
    BY <1>8 DEF Commit, history
  <2>3. \A m \in Message : Delivered(m) => Delivered(m)'
    BY <1>1, <2>1, <2>2, Growth
  <2> QED  BY <1>2, <1>8, <2>3 DEF Commit, history
<1>9. ASSUME NEW d \in Device, Ack(d) \/ Reject(d)
      PROVE  AllFresh' /\ draft' = draft
  <2>1. Ack(d) => inflight[d] \in Nat /\ inflight[d] > 0 /\ stored[d] > 0
    <3>1. inflight[d] \in Nat /\ stored[d] \in Nat /\ inflight[d] <= stored[d]
      BY <1>1 DEF TypeOK
    <3>2. Ack(d) => inflight[d] > 0
      BY DEF Ack
    <3> QED  BY <3>1, <3>2
  <2>2. /\ thread' = thread /\ launched' = launched /\ nsent' = nsent /\ draft' = draft
        /\ writes' = [writes EXCEPT ![d] = Tail(@)]
    BY <1>9 DEF Ack, Reject, backend, history
  <2>3. CASE Ack(d)
    <3>1. Head(writes[d]).step = "peerAdd" => Delivered(Head(writes[d]).msg)
      <4>1. Head(writes[d]) = writes[d][1]
        BY <1>1, <2>1, OldestWrite
      <4>2. 1 \in 1..inflight[d]
        BY <2>1, <2>3
      <4> QED  BY <4>1, <4>2 DEF IInv, Applied
    <3>2. main' = [main EXCEPT ![d] = Notify(@, Head(writes[d]), TRUE)]
      BY <2>3 DEF Ack
    <3> QED  BY <1>1, <2>1, <2>2, <2>3, <3>1, <3>2, PoppedFresh
  <2>4. CASE Reject(d)
    <3>1. main' = [main EXCEPT ![d] = Notify(@, Head(writes[d]), FALSE)]
      BY <2>4 DEF Reject
    <3>2. stored[d] > 0
      BY <2>4 DEF Reject
    <3> QED  BY <1>1, <2>2, <3>1, <3>2, PoppedFresh
  <2> QED  BY <1>9, <2>3, <2>4
<1>10. ASSUME NEW d \in Device, NEW p \in User, Send(d, p)
       PROVE  AllFresh' /\ draft' = draft
  BY <1>1, <1>10, SentFresh DEF Send
<1>11. ASSUME NEW d \in Device, Mirror(d)
       PROVE  AllFresh' /\ draft' = draft
  BY <1>1, <1>11, MirroredFresh DEF Mirror
<1>12. ASSUME NEW d \in Device, UploadDone(d)
       PROVE  AllFresh' /\ \A e \in Device, q \in User : Cleared(e, q) => For(e, q)
  <2>1. AllFresh'
    BY <1>1, <1>12, UploadedFresh
  <2>2. ASSUME NEW e \in Device, NEW q \in User, Cleared(e, q) PROVE For(e, q)
    BY <1>12, <2>2, ClearedFor
  <2> QED  BY <2>1, <2>2
<1>13. ASSUME NEW d \in Device, Kill(d)
       PROVE  AllFresh' /\ \A e \in Device, q \in User : ~ Cleared(e, q)
  <2>1. AllFresh'
    BY <1>13, KilledFresh
  <2>2. /\ draft' = [draft EXCEPT ![d] = [q \in User |-> FALSE]]
        /\ kills' = [kills EXCEPT ![d] = @ + 1]
    BY <1>13 DEF Kill
  <2>3. kills[d] \in Int /\ kills'[d] = kills[d] + 1
    BY <1>1, <2>2, ConstantsAssumption DEF TypeOK
  <2>4. \A e \in Device : e # d => draft'[e] = draft[e]
    BY <1>1, <2>2 DEF TypeOK
  <2> QED  BY <2>1, <2>3, <2>4
<1>14. AllFresh' /\ \A e \in Device, q \in User : Cleared(e, q) => For(e, q)
  <2> DEFINE Good == AllFresh' /\ \A e \in Device, q \in User : Cleared(e, q) => For(e, q)
  <2>1. AllFresh' /\ draft' = draft => Good
    BY <1>4
  <2>2. \A d \in Device : \A p \in User : Type(d, p) \/ Send(d, p) => Good
    BY <1>6, <1>10, <2>1
  <2>3. \A d \in Device : Mirror(d) \/ WriteLocally(d) \/ Commit(d) => Good
    BY <1>7, <1>8, <1>11, <2>1
  <2>4. \A d \in Device : Ack(d) \/ Reject(d) \/ Disconnect(d) => Good
    BY <1>7, <1>9, <2>1
  <2>5. \A d \in Device : UploadDone(d) \/ Kill(d) => Good
    BY <1>12, <1>13
  <2>6. UNCHANGED vars => Good
    BY <1>5, <2>1 DEF vars, client
  <2> HIDE DEF Good
  <2>7. Good
    BY ONLY [Next]_vars, <2>2, <2>3, <2>4, <2>5, <2>6 DEF Next
  <2> QED  BY <2>7 DEF Good
<1> QED  BY <1>14

\* The text of a chat is cleared, short of a kill, only when a message of that chat
\* sent since the launch has reached the partner (ChatController.swift,
\* inputView(_:wantsToSend:)), for any number of sends, kills, refusals and resent writes.
THEOREM ClearOnlyDeliveredAlways == Spec => ClearOnlyDelivered
<1>1. Init => Order /\ AllFresh
  BY InitOrder, InitFresh
<1>2. IInv /\ Order /\ AllFresh /\ [Next]_vars => Order' /\ AllFresh'
  BY StepOrder, StepFresh
<1>3. IInv /\ Order /\ AllFresh /\ [Next]_vars =>
        [\A d \in Device, p \in User :
           draft[d][p] /\ ~ draft'[d][p] /\ kills'[d] = kills[d] =>
             \E m \in sent : /\ m.dev = d /\ m.to = p /\ m.n > launched[d]
                             /\ Delivered(m)]_vars
  BY StepFresh
<1> QED  BY <1>1, <1>2, <1>3, Invariance, PTL DEF Spec, ClearOnlyDelivered

-----------------------------------------------------------------------------
(***************************************************************************)
(* The latest-message documents.  A write that is sent again sets its      *)
(* document back, and documents are shared with the other devices of the   *)
(* user, so that a document shows the latest message only once the last    *)
(* write of its device is applied.  The invariant follows the writes of    *)
(* the two documents: they are in line (WritesInLine), ahead of those the  *)
(* handlers still have to issue (WritesFirst); those in flight show in     *)
(* their documents (InFlightShown); and a message of this launch is        *)
(* refused, or under way, or shown while all that will write its document  *)
(* again is later (NoneLost).                                              *)
(***************************************************************************)

\* Place i of the queue holds the given write of m.
Queued(d, i, step, m) ==
  i \in 1..Len(writes[d]) /\ writes[d][i].step = step /\ writes[d][i].msg = m

\* The three last writes of m are still to be issued.
Held(d, m) == \E s, i : s # 1 /\ Holding(d, s, i, m)

\* What is still to be issued was sent after m.
Behind(d, m) == \A k : Held(d, k) => m.n < k.n

\* The document shows m, a later message of the same device, or one of another device.
Shows(step, m) ==
  LET r == recent[Owner(step, m)][Peer(step, m)] IN
  r # NoMessage /\ (r.dev = m.dev => r.n >= m.n)

\* The write of the document has been done, and what will write it again is later.
Settled(d, step, m) ==
  /\ Shows(step, m)
  /\ Behind(d, m)
  /\ \A i, k : Queued(d, i, step, k) => m.n < k.n

\* The writes of the latest-message documents are in line ...
WritesInLine(d) ==
  \A step, i, j, m, k :
    IsRecent(step) /\ Queued(d, i, step, m) /\ Queued(d, j, step, k) /\ i < j => m.n < k.n

\* ... ahead of those still to be issued ...
WritesFirst(d) ==
  \A step, i, m : IsRecent(step) /\ Queued(d, i, step, m) => Behind(d, m)

\* ... and those in flight show in their documents.
InFlightShown(d) ==
  \A step, i, m :
    IsRecent(step) /\ Queued(d, i, step, m) /\ i <= inflight[d] => Shows(step, m)

\* A document of a message of this launch is refused, under way, or settled.
OnItsWay(d, step, m) ==
  \/ Refused(step, m)
  \/ Held(d, m)
  \/ \E i : Queued(d, i, step, m)
  \/ Settled(d, step, m)

NoneLost(d) ==
  \A step, m : IsRecent(step) /\ m \in sent /\ m.dev = d /\ m.n > launched[d]
                 => OnItsWay(d, step, m)

Documented(d) == WritesInLine(d) /\ WritesFirst(d) /\ InFlightShown(d) /\ NoneLost(d)

AllDocumented == \A d \in Device : Documented(d)

-----------------------------------------------------------------------------
LEMMA InitDocumented == Init => AllDocumented
<1> SUFFICES ASSUME Init, NEW d \in Device PROVE Documented(d)
  BY DEF AllDocumented
<1>1. sent = {} /\ \A i, step, m : ~ Queued(d, i, step, m)
  BY DEF Init, Queued
<1> QED
  BY <1>1 DEF Documented, WritesInLine, WritesFirst, InFlightShown, NoneLost

\* What a device holds and has queued is one of its messages.
LEMMA OwnEntries ==
  ASSUME TypeOK, OwnMessages, NEW d \in Device, NEW m
  PROVE  /\ Held(d, m) => m \in sent /\ m \in Message /\ m.dev = d /\ m.n \in Int
         /\ \A i, step : Queued(d, i, step, m) =>
              m \in sent /\ m \in Message /\ m.dev = d /\ m.n \in Int /\ i \in Nat
<1>1. Held(d, m) => m \in sent /\ m \in Message /\ m.dev = d /\ m.n \in Int
  BY HeldIsSent DEF Held
<1>2. ASSUME NEW i, NEW step, Queued(d, i, step, m)
      PROVE  m \in sent /\ m \in Message /\ m.dev = d /\ m.n \in Int /\ i \in Nat
  <2>1. m \in sent /\ m.dev = d /\ i \in Nat
    BY <1>2 DEF OwnMessages, Queued
  <2> QED  BY <2>1 DEF TypeOK, Message
<1> QED  BY <1>1, <1>2

\* A step that neither queues nor issues anything for a device, and leaves the
\* documents it has written at least as new.
LEMMA DocumentedKept ==
  ASSUME TypeOK, OwnMessages, NEW d \in Device, Documented(d),
         \A i, step, m : Queued(d, i, step, m)' <=> Queued(d, i, step, m),
         \A m : Held(d, m)' <=> Held(d, m),
         inflight'[d] <= inflight[d], inflight'[d] \in Nat,
         \A step, m : IsRecent(step) /\ m \in sent /\ m.dev = d /\ Shows(step, m)
                        => Shows(step, m)',
         launched'[d] = launched[d], rejected \subseteq rejected',
         \A m \in sent' : m.dev = d => m \in sent
  PROVE  Documented(d)'
<1>1. \A m : Behind(d, m)' <=> Behind(d, m)
  BY DEF Behind
<1>2. WritesInLine(d)'
  BY DEF Documented, WritesInLine
<1>3. WritesFirst(d)'
  BY <1>1 DEF Documented, WritesFirst
<1>4. InFlightShown(d)'
  <2> SUFFICES ASSUME NEW step, NEW i, NEW m, IsRecent(step), Queued(d, i, step, m),
                      i <= inflight'[d]
               PROVE  Shows(step, m)'
    BY DEF InFlightShown
  <2>1. m \in sent /\ m.dev = d /\ i \in Nat /\ inflight[d] \in Nat
    BY OwnEntries DEF TypeOK
  <2>2. i <= inflight[d]
    BY <2>1
  <2> QED  BY <2>1, <2>2 DEF Documented, InFlightShown
<1>5. NoneLost(d)'
  <2> SUFFICES ASSUME NEW step, NEW m, IsRecent(step), m \in sent', m.dev = d,
                      m.n > launched[d]
               PROVE  OnItsWay(d, step, m)'
    BY DEF NoneLost
  <2>1. m \in sent /\ OnItsWay(d, step, m)
    BY DEF Documented, NoneLost
  <2>2. Refused(step, m) => Refused(step, m)'
    BY DEF Refused
  <2>3. Settled(d, step, m) => Settled(d, step, m)'
    BY <1>1, <2>1 DEF Settled
  <2> QED  BY <2>1, <2>2, <2>3 DEF OnItsWay
<1> QED  BY <1>2, <1>3, <1>4, <1>5 DEF Documented

LEMMA SameEntries ==
  ASSUME NEW d \in Device, writes'[d] = writes[d]
  PROVE  /\ \A i, step, m : Queued(d, i, step, m)' <=> Queued(d, i, step, m)
         /\ main'[d] = main[d] => \A m : Held(d, m)' <=> Held(d, m)
BY DEF Queued, Held, Holding

LEMMA SameShows ==
  ASSUME recent' = recent
  PROVE  \A step, m : Shows(step, m)' <=> Shows(step, m)
BY DEF Shows, Owner, Peer, From

\* The other devices, in a step of one that writes no document.
LEMMA OthersDocumented ==
  ASSUME TypeOK, TypeOK', OwnMessages, AllDocumented, NEW d \in Device, recent' = recent,
         \A e \in Device : e # d =>
           /\ writes'[e] = writes[e] /\ main'[e] = main[e] /\ inflight'[e] = inflight[e]
           /\ launched'[e] = launched[e],
         rejected \subseteq rejected',
         \A m \in sent' : m.dev # d => m \in sent,
         Documented(d)'
  PROVE  AllDocumented'
<1> SUFFICES ASSUME NEW e \in Device, e # d PROVE Documented(e)'
  BY DEF AllDocumented
<1>1. inflight'[e] <= inflight[e] /\ inflight'[e] \in Nat
  BY DEF TypeOK
<1> QED  BY <1>1, SameEntries, SameShows, DocumentedKept DEF AllDocumented

-----------------------------------------------------------------------------
LEMMA SentDocumented ==
  ASSUME IInv, Order, AllDocumented, TypeOK', NEW d \in Device, NEW p \in User, Send(d, p)
  PROVE  AllDocumented'
<1>a. PICK new : new = [dev |-> d, to |-> p, n |-> nsent[d] + 1]
  OBVIOUS
<1>b. PICK L : L = Len(writes[d])
  OBVIOUS
<1>1. /\ TypeOK /\ OwnMessages /\ recent' = recent /\ main' = main /\ inflight' = inflight
      /\ sent' = sent \cup {new} /\ launched' = launched /\ rejected' = rejected
      /\ writes' = [writes EXCEPT ![d] = Append(@, FirstWrite(new))]
  BY <1>a DEF IInv, Order, Send, backend
<1>2. /\ L \in Nat /\ Len(writes'[d]) = L + 1
      /\ writes'[d][L + 1] = FirstWrite(new)
      /\ \A i \in 1..L : writes'[d][i] = writes[d][i]
      /\ \A e \in Device : e # d => writes'[e] = writes[e]
  BY <1>1, <1>b DEF TypeOK
<1>3. FirstWrite(new).step = "ownAdd" /\ FirstWrite(new).msg = new /\ FirstWrite(new).cb = TRUE
  BY DEF FirstWrite, Mutation
<1>4. new.dev = d /\ new.n = nsent[d] + 1 /\ nsent[d] \in Int
  BY <1>1, <1>a, ConstantsAssumption DEF TypeOK
<1>5. \A k \in sent : k.dev = d => k.n < new.n
  <2> TAKE k \in sent
  <2>1. k.n <= nsent[k.dev] /\ k.n \in Int
    BY <1>1 DEF IInv, TypeOK, Numbered, Message
  <2> QED  BY <1>4, <2>1
<1>6. \A i : i \in 1..(L + 1) => i \in 1..L \/ i = L + 1
  BY <1>2
<1>7. ASSUME NEW m PROVE Held(d, m)' <=> Held(d, m) \/ m = new
  <2>1. ASSUME NEW s, NEW i, s # 1, Holding(d, s, i, m)' PROVE Holding(d, s, i, m) \/ m = new
    BY <1>1, <1>2, <1>3, <1>6, <2>1 DEF Holding
  <2>2. ASSUME NEW s, NEW i, s # 1, Holding(d, s, i, m) PROVE Holding(d, s, i, m)'
    BY <1>1, <1>2, <2>2 DEF Holding
  <2>3. Holding(d, 3, L + 1, new)'
    <3>1. L + 1 \in 1..Len(writes'[d])
      BY <1>2
    <3> QED  BY <1>2, <1>3, <3>1 DEF Holding
  <2> QED  BY <2>1, <2>2, <2>3 DEF Held
<1>8. ASSUME NEW i, NEW step, NEW m, IsRecent(step)
      PROVE  Queued(d, i, step, m)' <=> Queued(d, i, step, m)
  <2>1. step # "ownAdd"
    BY <1>8 DEF IsRecent
  <2> QED  BY <1>b, <1>2, <1>3, <1>6, <2>1 DEF Queued
<1>9. ASSUME NEW m \in sent, m.dev = d, Behind(d, m) PROVE Behind(d, m)'
  BY <1>5, <1>7, <1>9 DEF Behind
<1>10. Documented(d)
  BY DEF AllDocumented
<1>11. \A m, i, step : Queued(d, i, step, m) => m \in sent /\ m.dev = d
  BY <1>1, OwnEntries
<1>12. WritesInLine(d)'
  BY <1>8, <1>10 DEF Documented, WritesInLine
<1>13. WritesFirst(d)'
  BY <1>8, <1>9, <1>10, <1>11 DEF Documented, WritesFirst
<1>14. InFlightShown(d)'
  BY <1>1, <1>8, <1>10, SameShows DEF Documented, InFlightShown
<1>15. NoneLost(d)'
  <2> SUFFICES ASSUME NEW step, NEW m, IsRecent(step), m \in sent', m.dev = d,
                      m.n > launched'[d]
               PROVE  OnItsWay(d, step, m)'
    BY DEF NoneLost
  <2>1. CASE m = new
    BY <1>7, <2>1 DEF OnItsWay
  <2>2. CASE m \in sent
    <3>1. OnItsWay(d, step, m)
      BY <1>1, <1>10, <2>2 DEF Documented, NoneLost
    <3>2. Settled(d, step, m) => Settled(d, step, m)'
      BY <1>1, <1>8, <1>9, <2>2, SameShows DEF Settled
    <3>3. Refused(step, m) => Refused(step, m)'
      BY <1>1 DEF Refused
    <3> QED  BY <1>7, <1>8, <3>1, <3>2, <3>3 DEF OnItsWay
  <2> QED  BY <1>1, <2>1, <2>2
<1>16. Documented(d)'
  BY <1>12, <1>13, <1>14, <1>15 DEF Documented
<1>17. \A m \in sent' : m.dev # d => m \in sent
  BY <1>1, <1>4
<1> QED  BY <1>1, <1>2, <1>16, <1>17, OthersDocumented

\* The handler of the first write: its message is the first of those held.
LEMMA MirroredDocumented ==
  ASSUME IInv, Order, AllDocumented, TypeOK', NEW d \in Device, Mirror(d)
  PROVE  AllDocumented'
<1>a. PICK new : new = Head(main[d]).msg
  OBVIOUS
<1>b. PICK L, M : L = Len(writes[d]) /\ M = Len(main[d])
  OBVIOUS
<1>1. /\ TypeOK /\ OwnMessages /\ recent' = recent /\ inflight' = inflight
      /\ sent' = sent /\ launched' = launched /\ rejected' = rejected
  BY DEF IInv, Order, Mirror, backend, history
<1>2. L \in Nat /\ M \in Nat
  BY <1>1, <1>b, LengthsAreNat
<1>3. /\ main[d] # << >> /\ Head(main[d]).step = "ownAdd"
      /\ main'[d] = Tail(main[d])
      /\ \A e \in Device : e # d => main'[e] = main[e] /\ writes'[e] = writes[e]
  BY <1>1 DEF Mirror, TypeOK
<1>4. /\ main[d][1].msg = new /\ 1 \in 1..M
      /\ main[d][1].step = "ownAdd"
      /\ Len(main'[d]) = M - 1
      /\ \A i \in 1..(M - 1) : main'[d][i] = main[d][i + 1]
  BY <1>1, <1>3, <1>a, <1>b, NextHandler DEF Completion
<1>5. /\ Len(writes'[d]) = L + 3
      /\ \A i \in 1..L : writes'[d][i] = writes[d][i]
      /\ \A i \in {L + 1, L + 2, L + 3} : writes'[d][i].msg = new
      /\ writes'[d][L + 1].step = "peerAdd"
      /\ writes'[d][L + 2].step = "ownRecent"
      /\ writes'[d][L + 3].step = "peerRecent"
  BY <1>1, <1>a, <1>b, MirrorAppends
<1>6. Holding(d, 2, 1, new) /\ Held(d, new)
  <2>1. Holding(d, 2, 1, new)
    BY <1>b, <1>4 DEF Holding
  <2> QED  BY <2>1 DEF Held
<1>7. \A i : i \in 1..(L + 3) => i \in 1..L \/ i = L + 1 \/ i = L + 2 \/ i = L + 3
  BY <1>2
<1>8. ASSUME NEW s, NEW i, NEW m, s # 1, Holding(d, s, i, m)'
      PROVE  Held(d, m) /\ new.n < m.n
  <2>1. CASE s = 2
    <3>1. i \in 1..(M - 1) /\ main'[d][i].step = "ownAdd" /\ main'[d][i].msg = m
      BY <1>b, <1>4, <1>8, <2>1 DEF Holding
    <3>2. i + 1 \in 1..M /\ main'[d][i] = main[d][i + 1] /\ 1 < i + 1
      BY <1>2, <1>4, <3>1
    <3>3. Holding(d, 2, i + 1, m) /\ Ahead(2, 1, 2, i + 1)
      BY <1>b, <3>1, <3>2 DEF Holding, Ahead
    <3> QED  BY <1>6, <3>3 DEF Held, Order, InLine
  <2>2. CASE s # 2
    <3>1. s = 3 /\ i \in 1..L
      BY <1>b, <1>5, <1>7, <1>8, <2>2 DEF Holding
    <3>2. Holding(d, 3, i, m) /\ Ahead(2, 1, 3, i)
      BY <1>b, <1>5, <1>8, <3>1 DEF Holding, Ahead
    <3> QED  BY <1>6, <3>2 DEF Held, Order, InLine
  <2> QED  BY <2>1, <2>2
<1>9. \A m : Held(d, m)' => Held(d, m) /\ new.n < m.n
  BY <1>8 DEF Held
<1>10. ASSUME NEW m, Held(d, m), m # new PROVE Held(d, m)'
  <2>1. PICK s, i : s # 1 /\ Holding(d, s, i, m)
    BY <1>10 DEF Held
  <2>2. CASE s = 3
    <3>1. i \in 1..L /\ i \in 1..(L + 3)
      BY <1>b, <1>2, <2>1, <2>2 DEF Holding
    <3>2. Holding(d, 3, i, m)'
      BY <1>b, <1>5, <2>1, <2>2, <3>1 DEF Holding
    <3> QED  BY <3>2 DEF Held
  <2>3. CASE s = 2
    <3>1. i \in 1..M /\ i # 1 /\ main[d][i].step = "ownAdd" /\ main[d][i].msg = m
      BY <1>b, <1>4, <1>10, <2>1, <2>3 DEF Holding
    <3>2. i - 1 \in 1..(M - 1) /\ (i - 1) + 1 = i
      BY <1>2, <3>1
    <3>3. main'[d][i - 1] = main[d][i]
      BY <1>4, <3>2
    <3>4. Holding(d, 2, i - 1, m)'
      BY <1>b, <1>4, <3>1, <3>2, <3>3 DEF Holding
    <3> QED  BY <3>4 DEF Held
  <2> QED  BY <1>b, <2>1, <2>2, <2>3 DEF Holding
<1>11. ASSUME NEW i, NEW step, NEW m, IsRecent(step), Queued(d, i, step, m)'
       PROVE  /\ i \in Nat
              /\ \/ i <= L /\ Queued(d, i, step, m)
                 \/ i > L /\ m = new /\ i = (IF step = "ownRecent" THEN L + 2 ELSE L + 3)
  <2>1. i \in 1..L \/ i = L + 1 \/ i = L + 2 \/ i = L + 3
    BY <1>b, <1>5, <1>7, <1>11 DEF Queued
  <2>2. CASE i \in 1..L
    BY <1>b, <1>2, <1>5, <1>11, <2>2 DEF Queued
  <2>3. CASE i = L + 1 \/ i = L + 2 \/ i = L + 3
    BY <1>b, <1>2, <1>5, <1>11, <2>3 DEF Queued, IsRecent
  <2> QED  BY <2>1, <2>2, <2>3
<1>12. ASSUME NEW i, NEW step, NEW m, Queued(d, i, step, m) PROVE Queued(d, i, step, m)'
  <2>1. i \in 1..L /\ i \in 1..(L + 3)
    BY <1>b, <1>2, <1>12 DEF Queued
  <2> QED  BY <1>b, <1>5, <1>12, <2>1 DEF Queued
<1>13. ASSUME NEW step, IsRecent(step) PROVE \E i : Queued(d, i, step, new)'
  <2>1. L + 2 \in 1..(L + 3) /\ L + 3 \in 1..(L + 3)
    BY <1>2
  <2>2. Queued(d, L + 2, "ownRecent", new)' /\ Queued(d, L + 3, "peerRecent", new)'
    BY <1>b, <1>5, <2>1 DEF Queued
  <2> QED  BY <1>13, <2>2 DEF IsRecent
<1>14. Documented(d)
  BY DEF AllDocumented
<1>15. \A m : Behind(d, m) => Behind(d, m)' /\ m.n < new.n
  BY <1>6, <1>9 DEF Behind
<1>16. Behind(d, new)'
  BY <1>9 DEF Behind
<1>17. WritesInLine(d)'
  <2> SUFFICES ASSUME NEW step, NEW i, NEW j, NEW m, NEW k, IsRecent(step),
                      Queued(d, i, step, m)', Queued(d, j, step, k)', i < j
               PROVE  m.n < k.n
    BY DEF WritesInLine
  <2>1. i <= L /\ Queued(d, i, step, m)
    BY <1>2, <1>11
  <2>2. CASE Queued(d, j, step, k)
    BY <1>14, <2>1, <2>2 DEF Documented, WritesInLine
  <2>3. CASE k = new
    BY <1>14, <1>15, <2>1, <2>3 DEF Documented, WritesFirst
  <2> QED  BY <1>11, <2>2, <2>3
<1>18. WritesFirst(d)'
  BY <1>11, <1>14, <1>15, <1>16 DEF Documented, WritesFirst
<1>19. InFlightShown(d)'
  <2> SUFFICES ASSUME NEW step, NEW i, NEW m, IsRecent(step), Queued(d, i, step, m)',
                      i <= inflight[d]
               PROVE  Shows(step, m)
    BY <1>1, SameShows DEF InFlightShown
  <2>1. inflight[d] \in Nat /\ inflight[d] <= L
    BY <1>1, <1>2, <1>b DEF TypeOK
  <2>2. Queued(d, i, step, m)
    BY <1>2, <1>11, <2>1
  <2> QED  BY <1>14, <2>2 DEF Documented, InFlightShown
<1>20. NoneLost(d)'
  <2> SUFFICES ASSUME NEW step, NEW m, IsRecent(step), m \in sent, m.dev = d,
                      m.n > launched[d]
               PROVE  OnItsWay(d, step, m)'
    BY <1>1 DEF NoneLost
  <2>1. CASE m = new
    BY <1>13, <2>1 DEF OnItsWay
  <2>2. CASE m # new
    <3>1. OnItsWay(d, step, m)
      BY <1>14 DEF Documented, NoneLost
    <3>2. Settled(d, step, m) => Settled(d, step, m)'
      BY <1>1, <1>11, <1>15, SameShows DEF Settled
    <3>3. Refused(step, m) => Refused(step, m)'
      BY <1>1 DEF Refused
    <3> QED  BY <1>10, <1>12, <2>2, <3>1, <3>2, <3>3 DEF OnItsWay
  <2> QED  BY <2>1, <2>2
<1>21. Documented(d)'
  BY <1>17, <1>18, <1>19, <1>20 DEF Documented
<1> QED  BY <1>1, <1>3, <1>21, OthersDocumented

\* The oldest write leaves the queue: it shows in its document, or was refused.
LEMMA PoppedDocumented ==
  ASSUME IInv, Order, AllDocumented, TypeOK', NEW d \in Device, NEW ok \in BOOLEAN,
         stored[d] > 0, recent' = recent, sent' = sent, launched' = launched,
         writes' = [writes EXCEPT ![d] = Tail(@)],
         main' = [main EXCEPT ![d] = Notify(@, Head(writes[d]), ok)],
         inflight' = [inflight EXCEPT ![d] = IF ok THEN @ - 1 ELSE @],
         rejected \subseteq rejected',
         ok => inflight[d] > 0,
         ~ ok => inflight[d] = 0 /\ <<Head(writes[d]).step, Head(writes[d]).msg>> \in rejected'
  PROVE  AllDocumented'
<1>a. PICK w : w = Head(writes[d])
  OBVIOUS
<1>b. PICK L, M : L = Len(writes[d]) /\ M = Len(main[d])
  OBVIOUS
<1>c. PICK c : c = [step |-> w.step, msg |-> w.msg, ok |-> ok]
  OBVIOUS
<1>1. TypeOK /\ OwnMessages
  BY DEF IInv, Order
<1>2. L \in Nat /\ M \in Nat /\ inflight[d] \in Nat
  BY <1>1, <1>b, LengthsAreNat DEF TypeOK
<1>3. /\ w = writes[d][1] /\ 1 \in 1..L /\ w \in Write
      /\ Len(writes'[d]) = L - 1
      /\ \A i \in 1..(L - 1) : writes'[d][i] = writes[d][i + 1]
  <2>1. writes'[d] = Tail(writes[d])
    BY <1>1 DEF TypeOK
  <2> QED  BY <1>1, <1>a, <1>b, <2>1, OldestWrite
<1>4. /\ \A e \in Device : e # d =>
           writes'[e] = writes[e] /\ main'[e] = main[e] /\ inflight'[e] = inflight[e]
      /\ inflight'[d] = IF ok THEN inflight[d] - 1 ELSE inflight[d]
  BY <1>1 DEF TypeOK
<1>5. /\ \A i \in 1..M : main'[d][i] = main[d][i]
      /\ w.cb => Len(main'[d]) = M + 1 /\ main'[d][M + 1] = c
      /\ ~ w.cb => Len(main'[d]) = M
  <2>1. main'[d] = IF w.cb THEN Append(main[d], c) ELSE main[d]
    BY <1>1, <1>a, <1>c DEF TypeOK, Notify
  <2>2. main[d] \in Seq(Completion) /\ c \in Completion
    BY <1>1, <1>3, <1>c DEF TypeOK, Write, Completion
  <2>3. CASE w.cb
    <3>1. main'[d] = Append(main[d], c)
      BY <2>1, <2>3
    <3> QED  BY ONLY <1>b, <2>2, <2>3, <3>1, AppendProperties
  <2>4. CASE ~ w.cb
    <3>1. main'[d] = main[d]
      BY <2>1, <2>4
    <3> QED  BY <1>b, <2>4, <3>1
  <2> QED  BY <2>3, <2>4
<1>6. c.step = w.step /\ c.msg = w.msg
  BY <1>c
<1>7. ASSUME NEW m PROVE Held(d, m)' <=> Held(d, m)
  <2>1. ASSUME NEW s, NEW i, s # 1, Holding(d, s, i, m)' PROVE Held(d, m)
    <3>1. CASE s = 2 /\ i \in 1..M
      <4>1. Holding(d, 2, i, m)
        BY <1>b, <1>5, <2>1, <3>1 DEF Holding
      <4> QED  BY <4>1 DEF Held
    <3>2. CASE s = 2 /\ i \notin 1..M
      <4>1. w.cb /\ i = M + 1
        BY <1>2, <1>5, <2>1, <3>2 DEF Holding
      <4>2. Holding(d, 3, 1, m)
        BY <1>b, <1>3, <1>5, <1>6, <2>1, <3>2, <4>1 DEF Holding
      <4> QED  BY <4>2 DEF Held
    <3>3. CASE s # 2
      <4>1. i \in 1..(L - 1) /\ s = 3
        BY <1>3, <2>1, <3>3 DEF Holding
      <4>2. i + 1 \in 1..L /\ writes'[d][i] = writes[d][i + 1]
        BY <1>2, <1>3, <4>1
      <4>3. Holding(d, 3, i + 1, m)
        BY <1>b, <2>1, <4>1, <4>2 DEF Holding
      <4> QED  BY <4>3 DEF Held
    <3> QED  BY <3>1, <3>2, <3>3
  <2>2. ASSUME NEW s, NEW i, s # 1, Holding(d, s, i, m) PROVE Held(d, m)'
    <3>1. CASE s = 2
      <4>1. i \in 1..M /\ i \in 1..Len(main'[d])
        BY <1>b, <1>2, <1>5, <2>2, <3>1 DEF Holding
      <4>2. Holding(d, 2, i, m)'
        BY <1>5, <2>2, <3>1, <4>1 DEF Holding
      <4> QED  BY <4>2 DEF Held
    <3>2. CASE s = 3 /\ i = 1
      <4>1. w.cb /\ w.step = "ownAdd" /\ w.msg = m
        BY <1>3, <2>2, <3>2 DEF Holding
      <4>2. M + 1 \in 1..Len(main'[d]) /\ main'[d][M + 1] = c
        BY <1>2, <1>5, <4>1
      <4>3. Holding(d, 2, M + 1, m)'
        BY <1>6, <4>1, <4>2 DEF Holding
      <4> QED  BY <4>3 DEF Held
    <3>3. CASE s = 3 /\ i # 1
      <4>1. i \in 1..L
        BY <1>b, <2>2, <3>3 DEF Holding
      <4>2. i - 1 \in 1..(L - 1) /\ (i - 1) + 1 = i
        BY <1>2, <3>3, <4>1
      <4>3. writes'[d][i - 1] = writes[d][i]
        BY <1>3, <4>2
      <4>4. Holding(d, 3, i - 1, m)'
        BY <1>3, <2>2, <3>3, <4>2, <4>3 DEF Holding
      <4> QED  BY <4>4 DEF Held
    <3> QED  BY <2>2, <3>1, <3>2, <3>3 DEF Holding
  <2> QED  BY <2>1, <2>2 DEF Held
<1>8. ASSUME NEW i, NEW step, NEW m, Queued(d, i, step, m)'
      PROVE  i \in Nat \ {0} /\ Queued(d, i + 1, step, m)
  <2>1. i \in 1..(L - 1)
    BY <1>3, <1>8 DEF Queued
  <2>2. i \in Nat \ {0} /\ i + 1 \in 1..L /\ writes'[d][i] = writes[d][i + 1]
    BY <1>2, <1>3, <2>1
  <2> QED  BY <1>b, <1>8, <2>2 DEF Queued
<1>9. ASSUME NEW i, NEW step, NEW m, Queued(d, i, step, m)
      PROVE  \/ i = 1 /\ step = w.step /\ m = w.msg
             \/ i > 1 /\ Queued(d, i - 1, step, m)'
  <2>1. i \in 1..L
    BY <1>b, <1>9 DEF Queued
  <2>2. CASE i = 1
    BY <1>3, <1>9, <2>2 DEF Queued
  <2>3. CASE i # 1
    <3>1. i > 1 /\ i - 1 \in 1..(L - 1) /\ (i - 1) + 1 = i
      BY <1>2, <2>1, <2>3
    <3>2. writes'[d][i - 1] = writes[d][i]
      BY <1>3, <3>1
    <3> QED  BY <1>3, <1>9, <3>1, <3>2 DEF Queued
  <2> QED  BY <2>2, <2>3
<1>10. Documented(d)
  BY DEF AllDocumented
<1>11. \A m : Behind(d, m)' <=> Behind(d, m)
  BY <1>7 DEF Behind
<1>12. WritesInLine(d)'
  <2> SUFFICES ASSUME NEW step, NEW i, NEW j, NEW m, NEW k, IsRecent(step),
                      Queued(d, i, step, m)', Queued(d, j, step, k)', i < j
               PROVE  m.n < k.n
    BY DEF WritesInLine
  <2>1. /\ Queued(d, i + 1, step, m) /\ Queued(d, j + 1, step, k)
        /\ i + 1 < j + 1
    BY <1>8
  <2> QED  BY <1>10, <2>1 DEF Documented, WritesInLine
<1>13. WritesFirst(d)'
  BY <1>8, <1>10, <1>11 DEF Documented, WritesFirst
<1>14. InFlightShown(d)'
  <2> SUFFICES ASSUME NEW step, NEW i, NEW m, IsRecent(step), Queued(d, i, step, m)',
                      i <= inflight'[d]
               PROVE  Shows(step, m)
    BY SameShows DEF InFlightShown
  <2>1. i \in Nat \ {0} /\ Queued(d, i + 1, step, m)
    BY <1>8
  <2>2. i + 1 <= inflight[d]
    BY <1>2, <1>4, <2>1
  <2> QED  BY <1>10, <2>1, <2>2 DEF Documented, InFlightShown
<1>15. NoneLost(d)'
  <2> SUFFICES ASSUME NEW step, NEW m, IsRecent(step), m \in sent, m.dev = d,
                      m.n > launched[d]
               PROVE  OnItsWay(d, step, m)'
    BY DEF NoneLost
  <2>1. OnItsWay(d, step, m)
    BY <1>10 DEF Documented, NoneLost
  <2>2. Refused(step, m) => Refused(step, m)'
    BY DEF Refused
  <2>3. Settled(d, step, m) => Settled(d, step, m)'
    BY <1>8, <1>11, SameShows DEF Settled
  <2>4. ASSUME NEW i, Queued(d, i, step, m) PROVE OnItsWay(d, step, m)'
    <3>1. CASE i > 1 /\ Queued(d, i - 1, step, m)'
      BY <3>1 DEF OnItsWay
    <3>2. CASE i = 1 /\ step = w.step /\ m = w.msg /\ ok
      <4>1. Shows(step, m)
        <5>1. 1 <= inflight[d]
          BY <1>2, <3>2
        <5> QED  BY <1>10, <2>4, <3>2, <5>1 DEF Documented, InFlightShown
      <4>2. Behind(d, m)
        BY <1>10, <2>4 DEF Documented, WritesFirst
      <4>3. ASSUME NEW j, NEW k, Queued(d, j, step, k)' PROVE m.n < k.n
        <5>1. Queued(d, j + 1, step, k) /\ 1 < j + 1
          BY <1>8, <4>3
        <5> QED  BY <1>10, <2>4, <3>2, <5>1 DEF Documented, WritesInLine
      <4> QED  BY <1>11, <4>1, <4>2, <4>3, SameShows DEF OnItsWay, Settled
    <3>3. CASE i = 1 /\ step = w.step /\ m = w.msg /\ ~ ok
      <4>1. Refused(w.step, w.msg)'
        BY <1>a, <3>3 DEF Refused
      <4> QED  BY <3>3, <4>1 DEF OnItsWay
    <3> QED  BY <1>9, <2>4, <3>1, <3>2, <3>3
  <2> QED  BY <1>7, <2>1, <2>2, <2>3, <2>4 DEF OnItsWay
<1>16. Documented(d)'
  BY <1>12, <1>13, <1>14, <1>15 DEF Documented
<1> QED  BY <1>1, <1>4, <1>16, OthersDocumented

\* After a kill nothing of the device is of this launch, and only the writes are left.
LEMMA KilledDocumented ==
  ASSUME IInv, Order, AllDocumented, TypeOK', NEW d \in Device, Kill(d)
  PROVE  AllDocumented'
<1>1. /\ TypeOK /\ OwnMessages /\ recent' = recent /\ sent' = sent /\ rejected' = rejected
      /\ writes' = [writes EXCEPT ![d] = Restored(@, stored[d])]
      /\ main' = [main EXCEPT ![d] = << >>]
      /\ launched' = [launched EXCEPT ![d] = nsent[d]]
      /\ inflight' = [inflight EXCEPT ![d] = 0]
  BY DEF IInv, Order, Kill, backend
<1>2. /\ \A e \in Device : e # d =>
           /\ writes'[e] = writes[e] /\ main'[e] = main[e] /\ launched'[e] = launched[e]
           /\ inflight'[e] = inflight[e]
      /\ main'[d] = << >> /\ writes'[d] = Restored(writes[d], stored[d])
      /\ launched'[d] = nsent[d] /\ inflight'[d] = 0
  BY <1>1 DEF TypeOK
<1>3. /\ Len(writes'[d]) = stored[d] /\ stored[d] \in Nat
      /\ \A i \in 1..stored[d] : i \in 1..Len(writes[d])
  BY <1>1, <1>2, RestoredType DEF TypeOK
<1>4. ASSUME NEW i \in 1..Len(writes'[d])
      PROVE  /\ i \in 1..Len(writes[d])
             /\ writes'[d][i].step = writes[d][i].step
             /\ writes'[d][i].msg = writes[d][i].msg
             /\ ~ writes'[d][i].cb
  <2>1. i \in 1..Len(writes[d]) /\ writes[d][i] \in Write
    BY <1>1, <1>3, ElementOfSeq DEF TypeOK
  <2>2. writes'[d][i] = [writes[d][i] EXCEPT !.cb = FALSE]
    BY <1>2, <1>3 DEF Restored
  <2> QED  BY <2>1, <2>2 DEF Write
<1>5. Len(main'[d]) = 0
  BY <1>2
<1>6. \A m : ~ Held(d, m)'
  BY <1>4, <1>5 DEF Held, Holding
<1>7. \A i, step, m : Queued(d, i, step, m)' => Queued(d, i, step, m) /\ i \in Nat \ {0}
  BY <1>3, <1>4 DEF Queued
<1>8. Documented(d)
  BY DEF AllDocumented
<1>9. WritesInLine(d)'
  BY <1>7, <1>8 DEF Documented, WritesInLine
<1>10. WritesFirst(d)'
  BY <1>6 DEF WritesFirst, Behind
<1>11. InFlightShown(d)'
  BY <1>2, <1>7 DEF InFlightShown
<1>12. NoneLost(d)'
  <2>1. ASSUME NEW m \in sent, m.dev = d PROVE ~ (m.n > nsent[d])
    <3>1. m.n <= nsent[d] /\ m.n \in Int /\ nsent[d] \in Int
      BY <1>1, <2>1, ConstantsAssumption DEF IInv, TypeOK, Numbered, Message
    <3> QED  BY <3>1
  <2> QED  BY <1>1, <1>2, <2>1 DEF NoneLost
<1>13. Documented(d)'
  BY <1>9, <1>10, <1>11, <1>12 DEF Documented
<1> QED  BY <1>1, <1>2, <1>13, OthersDocumented

LEMMA UploadedDocumented ==
  ASSUME IInv, Order, AllDocumented, TypeOK', NEW d \in Device, UploadDone(d)
  PROVE  AllDocumented'
<1>b. PICK M : M = Len(main[d])
  OBVIOUS
<1>1. /\ TypeOK /\ OwnMessages /\ recent' = recent /\ writes' = writes /\ sent' = sent
      /\ inflight' = inflight /\ launched' = launched /\ rejected' = rejected
      /\ main' = [main EXCEPT ![d] = Tail(@)] /\ main[d] # << >>
      /\ Head(main[d]).step = "peerAdd"
  BY DEF IInv, Order, UploadDone, backend, history
<1>2. /\ M \in Nat /\ Len(main'[d]) = M - 1
      /\ \A i \in 1..(M - 1) : main'[d][i] = main[d][i + 1]
      /\ main[d][1].step = "peerAdd"
      /\ \A e \in Device : e # d => main'[e] = main[e]
  BY <1>1, <1>b, NextHandler, LengthsAreNat DEF TypeOK
<1>3. ASSUME NEW m PROVE Held(d, m)' <=> Held(d, m)
  <2>1. ASSUME NEW s, NEW i, s # 1, Holding(d, s, i, m)' PROVE Held(d, m)
    <3>1. CASE s = 2
      <4>1. i + 1 \in 1..M /\ main'[d][i] = main[d][i + 1]
        BY <1>2, <2>1, <3>1 DEF Holding
      <4>2. Holding(d, 2, i + 1, m)
        BY <1>b, <2>1, <3>1, <4>1 DEF Holding
      <4> QED  BY <4>2 DEF Held
    <3>2. CASE s # 2
      BY <1>1, <2>1, <3>2 DEF Held, Holding
    <3> QED  BY <3>1, <3>2
  <2>2. ASSUME NEW s, NEW i, s # 1, Holding(d, s, i, m) PROVE Held(d, m)'
    <3>1. CASE s = 2
      <4>1. i \in 1..M /\ i # 1
        BY <1>b, <1>2, <2>2, <3>1 DEF Holding
      <4>2. i - 1 \in 1..(M - 1) /\ (i - 1) + 1 = i
        BY <1>2, <4>1
      <4>3. main'[d][i - 1] = main[d][i]
        BY <1>2, <4>2
      <4>4. Holding(d, 2, i - 1, m)'
        BY <1>2, <2>2, <3>1, <4>2, <4>3 DEF Holding
      <4> QED  BY <4>4 DEF Held
    <3>2. CASE s # 2
      BY <1>1, <2>2, <3>2 DEF Held, Holding
    <3> QED  BY <3>1, <3>2
  <2> QED  BY <2>1, <2>2 DEF Held
<1>4. Documented(d)'
  <2>1. inflight'[d] <= inflight[d] /\ inflight'[d] \in Nat
    BY <1>1 DEF TypeOK
  <2> QED  BY <1>1, <1>3, <2>1, SameEntries, SameShows, DocumentedKept DEF AllDocumented
<1> QED  BY <1>1, <1>2, <1>4, OthersDocumented

-----------------------------------------------------------------------------
\* The two documents of a message are different, and so are those of a device that
\* are written by different steps.
LEMMA DocumentsApart ==
  ASSUME NEW m, NEW k, NEW step, NEW other, IsRecent(step), IsRecent(other),
         From(m) = From(k), m.to # From(m), k.to # From(k),
         Owner(step, m) = Owner(other, k), Peer(step, m) = Peer(other, k)
  PROVE  step = other
BY DEF Owner, Peer, IsRecent

\* A write applied by the backend leaves what its device has shown since, if it is
\* no older, and what the other devices have.
LEMMA CommittedShows ==
  ASSUME TypeOK, OwnMessages, NEW d \in Device, Commit(d),
         NEW step, NEW m \in sent, IsRecent(step), Shows(step, m)
  PROVE  \/ Shows(step, m)'
         \/ /\ m.dev = d
            /\ \E k : Queued(d, inflight[d] + 1, step, k) /\ ~ (k.n >= m.n)
<1>1. inflight[d] + 1 \in 1..Len(writes[d])
  BY NextWrite DEF Commit
<1>2. PICK v \in Write : v = writes[d][inflight[d] + 1]
  BY NextWrite DEF Commit
<1>3. AddDocument(v) \/ SetData(v)
  BY <1>2 DEF Commit, AddDocument, SetData
<1>4. v.msg \in sent /\ v.msg.dev = d /\ v.msg \in Message /\ m \in Message
  <2>1. v.msg \in sent /\ v.msg.dev = d
    BY <1>1, <1>2 DEF OwnMessages
  <2> QED  BY <2>1 DEF TypeOK
<1>5. Owner(step, m) \in User /\ Peer(step, m) \in User
  BY <1>4, UsersOfStep DEF IsRecent, Step
<1>6. PICK o, p : o = Owner(step, m) /\ p = Peer(step, m)
  OBVIOUS
<1>7. /\ Shows(step, m) <=> recent[o][p] # NoMessage /\ (recent[o][p].dev = m.dev => recent[o][p].n >= m.n)
      /\ Shows(step, m)' <=> recent'[o][p] # NoMessage /\ (recent'[o][p].dev = m.dev => recent'[o][p].n >= m.n)
  BY <1>6 DEF Shows, Owner, Peer, From
<1>8. CASE recent'[o][p] = recent[o][p]
  BY <1>7, <1>8
<1>9. CASE recent'[o][p] # recent[o][p]
  <2>1. /\ IsRecent(v.step) /\ recent'[o][p] = v.msg
        /\ o = Owner(v.step, v.msg) /\ p = Peer(v.step, v.msg)
    <3>1. SetData(v)
      BY <1>3, <1>9 DEF AddDocument
    <3>2. Owner(v.step, v.msg) \in User /\ Peer(v.step, v.msg) \in User
      BY <1>4, UsersOfStep DEF Write
    <3>3. recent'[o][p] = IF o = Owner(v.step, v.msg) /\ p = Peer(v.step, v.msg)
                          THEN v.msg ELSE recent[o][p]
      BY <1>5, <1>6, <3>1, <3>2 DEF SetData, TypeOK
    <3> QED  BY <1>9, <3>1, <3>3 DEF SetData, IsRecent
  <2>2. v.msg # NoMessage
    BY <1>4, ConstantsAssumption
  <2>3. CASE m.dev # d
    BY <1>4, <1>7, <2>1, <2>2, <2>3
  <2>4. CASE m.dev = d
    <3>1. From(m) = From(v.msg) /\ m.to # From(m) /\ v.msg.to # From(v.msg)
      BY <1>4, <2>4 DEF OwnMessages, From
    <3>2. v.step = step
      BY <1>6, <2>1, <3>1, DocumentsApart
    <3>3. Queued(d, inflight[d] + 1, step, v.msg)
      BY <1>1, <1>2, <3>2 DEF Queued
    <3> QED  BY <1>7, <2>1, <2>2, <2>4, <3>3
  <2> QED  BY <2>3, <2>4
<1> QED  BY <1>8, <1>9

\* The write just applied shows in its document.
LEMMA CommittedShown ==
  ASSUME TypeOK, OwnMessages, NEW d \in Device, Commit(d),
         NEW step, NEW m, IsRecent(step), Queued(d, inflight[d] + 1, step, m)
  PROVE  Shows(step, m)'
<1>1. PICK v \in Write : v = writes[d][inflight[d] + 1]
  BY NextWrite DEF Commit
<1>2. v.step = step /\ v.msg = m
  BY <1>1 DEF Queued
<1>3. SetData(v)
  BY <1>1, <1>2 DEF Commit, SetData, AddDocument, IsRecent
<1>4. Owner(v.step, v.msg) \in User /\ Peer(v.step, v.msg) \in User /\ m \in Message
  BY <1>2, UsersOfStep DEF Write
<1>5. PICK o, p : o = Owner(step, m) /\ p = Peer(step, m)
  OBVIOUS
<1>6. recent'[o][p] = m
  BY <1>2, <1>3, <1>4, <1>5 DEF SetData, TypeOK
<1>7. m # NoMessage /\ m.n >= m.n
  BY <1>4, ConstantsAssumption DEF Message
<1> QED  BY <1>5, <1>6, <1>7 DEF Shows, Owner, Peer, From

LEMMA CommittedDocumented ==
  ASSUME IInv, Order, AllDocumented, TypeOK', NEW d \in Device, Commit(d)
  PROVE  AllDocumented'
<1>a. PICK n : n = inflight[d] + 1
  OBVIOUS
<1>1. /\ TypeOK /\ OwnMessages /\ writes' = writes /\ main' = main /\ sent' = sent
      /\ launched' = launched /\ rejected' = rejected
      /\ inflight' = [inflight EXCEPT ![d] = @ + 1]
  BY DEF IInv, Order, Commit, history
<1>2. /\ \A e \in Device : e # d => inflight'[e] = inflight[e]
      /\ inflight'[d] = n /\ inflight[d] \in Nat
  BY <1>1, <1>a DEF TypeOK
<1>3. ASSUME NEW e \in Device
      PROVE  /\ \A i, step, m : Queued(e, i, step, m)' <=> Queued(e, i, step, m)
             /\ \A m : Held(e, m)' <=> Held(e, m)
  BY <1>1, SameEntries
<1>4. ASSUME NEW e \in Device, e # d PROVE Documented(e)'
  <2>1. \A step, m : IsRecent(step) /\ m \in sent /\ m.dev = e /\ Shows(step, m)
                        => Shows(step, m)'
    <3>1. ASSUME NEW step, NEW m \in sent, IsRecent(step), m.dev = e, Shows(step, m)
          PROVE  Shows(step, m)'
      BY <1>1, <1>4, <3>1, CommittedShows
    <3> QED  BY <3>1
  <2>2. inflight'[e] <= inflight[e] /\ inflight'[e] \in Nat
    <3>1. inflight[e] \in Nat
      BY <1>1 DEF TypeOK
    <3>2. inflight'[e] = inflight[e]
      BY <1>2, <1>4
    <3> QED  BY <3>1, <3>2
  <2>3. /\ \A i, step, m : Queued(e, i, step, m)' <=> Queued(e, i, step, m)
        /\ \A m : Held(e, m)' <=> Held(e, m)
    BY <1>3
  <2>4. Documented(e) /\ launched'[e] = launched[e] /\ rejected \subseteq rejected'
    BY <1>1 DEF AllDocumented
  <2> QED  BY <1>1, <2>1, <2>2, <2>3, <2>4, DocumentedKept
<1>5. Documented(d)
  BY DEF AllDocumented
<1>6. \A m : Behind(d, m)' <=> Behind(d, m)
  BY <1>3 DEF Behind
<1>7. ASSUME NEW step, NEW m \in sent, IsRecent(step), Shows(step, m),
             \A k : Queued(d, n, step, k) => m.n < k.n
      PROVE  Shows(step, m)'
  <2>1. m.n \in Int
    BY <1>1 DEF TypeOK, Message
  <2>2. ASSUME NEW k, Queued(d, n, step, k) PROVE k.n >= m.n
    <3>1. k.n \in Int
      BY <1>1, <2>2, OwnEntries
    <3> QED  BY <1>7, <2>1, <2>2, <3>1
  <2> QED  BY <1>1, <1>7, <1>a, <2>2, CommittedShows
<1>8. WritesInLine(d)' /\ WritesFirst(d)'
  BY <1>3, <1>5, <1>6 DEF Documented, WritesInLine, WritesFirst
<1>9. InFlightShown(d)'
  <2> SUFFICES ASSUME NEW step, NEW i, NEW m, IsRecent(step), Queued(d, i, step, m), i <= n
               PROVE  Shows(step, m)'
    BY <1>2, <1>3 DEF InFlightShown
  <2>1. m \in sent /\ i \in Nat
    BY <1>1, OwnEntries
  <2>2. CASE i = n
    BY <1>1, <1>a, <2>2, CommittedShown
  <2>3. CASE i < n
    <3>1. Shows(step, m)
      <4>1. i <= inflight[d]
        BY <1>2, <1>a, <2>1, <2>3
      <4> QED  BY <1>5, <4>1 DEF Documented, InFlightShown
    <3>2. \A k : Queued(d, n, step, k) => m.n < k.n
      BY <1>5, <2>3 DEF Documented, WritesInLine
    <3> QED  BY <1>7, <2>1, <3>1, <3>2
  <2> QED  BY <1>2, <1>a, <2>1, <2>2, <2>3
<1>10. NoneLost(d)'
  <2> SUFFICES ASSUME NEW step, NEW m, IsRecent(step), m \in sent, m.dev = d,
                      m.n > launched[d]
               PROVE  OnItsWay(d, step, m)'
    BY <1>1 DEF NoneLost
  <2>1. OnItsWay(d, step, m)
    BY <1>5 DEF Documented, NoneLost
  <2>2. Settled(d, step, m) => Settled(d, step, m)'
    BY <1>3, <1>6, <1>7 DEF Settled
  <2>3. Refused(step, m) => Refused(step, m)'
    BY <1>1 DEF Refused
  <2> QED  BY <1>3, <2>1, <2>2, <2>3 DEF OnItsWay
<1>11. Documented(d)'
  BY <1>8, <1>9, <1>10 DEF Documented
<1> QED  BY <1>4, <1>11 DEF AllDocumented

-----------------------------------------------------------------------------
LEMMA StepDocumented ==
  ASSUME IInv, Order, AllDocumented, [Next]_vars
  PROVE  AllDocumented'
<1>1. TypeOK /\ TypeOK' /\ OwnMessages
  BY NextType DEF IInv, Order
<1>2. ASSUME writes' = writes, main' = main, recent' = recent, sent' = sent,
             launched' = launched, rejected' = rejected,
             \A e \in Device : inflight'[e] <= inflight[e]
      PROVE  AllDocumented'
  <2> SUFFICES ASSUME NEW e \in Device PROVE Documented(e)'
    BY DEF AllDocumented
  <2>1. inflight'[e] <= inflight[e] /\ inflight'[e] \in Nat
    BY <1>1, <1>2 DEF TypeOK
  <2> QED  BY <1>1, <1>2, <2>1, SameEntries, SameShows, DocumentedKept DEF AllDocumented
<1>3. \A e \in Device : inflight[e] <= inflight[e]
  BY <1>1 DEF TypeOK
<1>4. CASE UNCHANGED vars
  BY <1>2, <1>3, <1>4 DEF vars, backend, client, history
<1>5. ASSUME NEW d \in Device, NEW p \in User, Type(d, p)
      PROVE  AllDocumented'
  BY <1>2, <1>3, <1>5 DEF Type, backend, history
<1>6. ASSUME NEW d \in Device, WriteLocally(d)
      PROVE  AllDocumented'
  BY <1>2, <1>3, <1>6 DEF WriteLocally, backend, history
<1>7. ASSUME NEW d \in Device, Disconnect(d)
      PROVE  AllDocumented'
  <2>1. \A e \in Device : inflight[e] \in Nat
    BY <1>1 DEF TypeOK
  <2>2. \A e \in Device : inflight'[e] = IF e = d THEN 0 ELSE inflight[e]
    BY <1>1, <1>7 DEF Disconnect, TypeOK
  <2>3. \A e \in Device : inflight'[e] <= inflight[e]
    BY <2>1, <2>2
  <2> QED  BY <1>2, <1>7, <2>3 DEF Disconnect, backend, history
<1>8. ASSUME NEW d \in Device, Ack(d)
      PROVE  AllDocumented'
  <2>1. stored[d] > 0
    BY <1>1, <1>8 DEF Ack, TypeOK
  <2>2. /\ recent' = recent /\ sent' = sent /\ launched' = launched /\ rejected' = rejected
        /\ writes' = [writes EXCEPT ![d] = Tail(@)]
        /\ main' = [main EXCEPT ![d] = Notify(@, Head(writes[d]), TRUE)]
        /\ inflight' = [inflight EXCEPT ![d] = IF TRUE THEN @ - 1 ELSE @]
        /\ inflight[d] > 0
    BY <1>8 DEF Ack, backend, history
  <2> QED  BY <1>1, <2>1, <2>2, PoppedDocumented
<1>9. ASSUME NEW d \in Device, Reject(d)
      PROVE  AllDocumented'
  <2>1. /\ recent' = recent /\ sent' = sent /\ launched' = launched
        /\ writes' = [writes EXCEPT ![d] = Tail(@)]
        /\ main' = [main EXCEPT ![d] = Notify(@, Head(writes[d]), FALSE)]
        /\ inflight' = inflight /\ inflight[d] = 0 /\ stored[d] > 0
        /\ rejected' = rejected \cup {<<Head(writes[d]).step, Head(writes[d]).msg>>}
    BY <1>9 DEF Reject, backend
  <2>2. inflight' = [inflight EXCEPT ![d] = IF FALSE THEN @ - 1 ELSE @]
    BY <1>1, <2>1 DEF TypeOK
  <2> QED  BY <1>1, <2>1, <2>2, PoppedDocumented
<1>10. ASSUME NEW d \in Device, NEW p \in User, Send(d, p)
       PROVE  AllDocumented'
  BY <1>1, <1>10, SentDocumented
<1>11. ASSUME NEW d \in Device, Mirror(d) \/ UploadDone(d) \/ Commit(d) \/ Kill(d)
       PROVE  AllDocumented'
  BY <1>1, <1>11, MirroredDocumented, UploadedDocumented, CommittedDocumented, KilledDocumented
<1> QED
  BY <1>4, <1>5, <1>6, <1>7, <1>8, <1>9, <1>10, <1>11 DEF Next

\* When a device has nothing left to do, the latest-message documents of both users
\* show the last message of that launch or a later one, unless the backend refused it,
\* for any number of devices, sends, kills, refusals and resent writes
\* (Service.swift, uploadMessage).
THEOREM RecentUpToDateAlways == Spec => []RecentUpToDate
<1>1. Init => Order /\ AllDocumented
  BY InitOrder, InitDocumented
<1>2. IInv /\ Order /\ AllDocumented /\ [Next]_vars => Order' /\ AllDocumented'
  BY StepOrder, StepDocumented
<1>3. IInv /\ AllDocumented => RecentUpToDate
  <2> SUFFICES ASSUME IInv, AllDocumented, NEW m \in sent, Quiet(m.dev),
                      m.n > launched[m.dev],
                      NEW step \in {"ownRecent", "peerRecent"}
               PROVE  Refused(step, m) \/ Shows(step, m)
    BY DEF RecentUpToDate, Shows
  <2>1. m.dev \in Device /\ IsRecent(step)
    BY DEF IInv, TypeOK, Message, IsRecent
  <2>2. OnItsWay(m.dev, step, m)
    BY <2>1 DEF AllDocumented, Documented, NoneLost
  <2>3. ~ Held(m.dev, m) /\ \A i : ~ Queued(m.dev, i, step, m)
    BY DEF Quiet, Held, Holding, Queued
  <2> QED  BY <2>2, <2>3 DEF OnItsWay, Settled
<1> QED  BY <1>1, <1>2, <1>3, Invariance, PTL DEF Spec
=============================================================================
