----------------------------- MODULE SharedPhone -----------------------------
(***************************************************************************)
(* One phone whose users sign in and out while their messages are under    *)
(* way: the upload of Messaging over the change of user of the Firestore   *)
(* client.                                                                 *)
(*                                                                         *)
(* The client keeps a mutation queue and completion handlers per user, and *)
(* serves those of one user.  A Device of Messaging is here what the phone *)
(* holds for one user; one of them, nobody, is the queue of no user.  The  *)
(* completion handler of a message keeps the uid of its sender, but its    *)
(* writes go to the queue of the user the client was told of last.         *)
(***************************************************************************)
EXTENDS Messaging

CONSTANTS
  nobody,       \* the device that stands for no user
  MaxMessages,  \* bound: messages sent by all users
  MaxSignIns    \* bound: sign-ins after the first launch

ASSUME SharedPhoneAssumption ==
  /\ nobody \in Device
  /\ \A d, e \in Device \ {nobody} : account[d] = account[e] => d = e
  /\ MaxMessages \in Nat
  /\ MaxSignIns \in Nat

VARIABLES
  current,   \* who is signed in
  told,      \* the worker queue: users the client was told of and has not left, the
             \* first of whom it serves, each with the writes to be persisted for it
  signIns,   \* sign-ins so far
  astray     \* history: messages whose handler wrote to the queue of another user

phoneVars == <<current, told, signIns, astray>>
sharedVars == <<vars, phoneVars>>

Stay(d) == [user |-> d, tasks |-> 0]

Serving == Head(told).user
Newest  == told[Len(told)].user

\* The writes to be persisted for d, in one stay and in all.
Share(stay, d) == IF stay.user = d THEN stay.tasks ELSE 0
Tasks(stays, d) ==
  LET upto[i \in 0..Len(stays)] == IF i = 0 THEN 0 ELSE upto[i - 1] + Share(stays[i], d)
  IN  upto[Len(stays)]

\* n writes are put on the worker queue.
Issue(n) == told' = [told EXCEPT ![Len(told)].tasks = @ + n]

-----------------------------------------------------------------------------
SharedInit ==
  /\ Init
  /\ current \in Device
  /\ told = <<Stay(current)>>
  /\ signIns = 0
  /\ astray = {}

-----------------------------------------------------------------------------
(* The users, and the main queue.                                          *)

\* The user signed in sends a message.
SendMessage(p) ==
  /\ current # nobody
  /\ Cardinality(sent) < MaxMessages
  /\ Send(current, p)
  /\ Issue(1)
  /\ UNCHANGED <<current, signIns, astray>>

\* Mutant: the client is not told.
SignOutUntold ==
  /\ current # nobody
  /\ current' = nobody
  /\ UNCHANGED <<vars, told, signIns, astray>>

\* The user logs out.  Nothing is sent before the client is told, so that the
\* two are one step.
SignOut ==
  /\ current # nobody
  /\ current' = nobody
  /\ told' = Append(told, Stay(nobody))
  /\ UNCHANGED <<vars, signIns, astray>>

\* A user logs in.
SignIn(d) ==
  /\ current = nobody
  /\ d # nobody
  /\ signIns < MaxSignIns
  /\ current' = d
  /\ told' = Append(told, Stay(d))
  /\ signIns' = signIns + 1
  /\ UNCHANGED <<vars, astray>>

\* The completion handler of the first write, dispatched for d, runs.
MirrorAnywhere(d) ==
  /\ main[d] # << >>
  /\ Head(main[d]).step = "ownAdd"
  /\ LET m == Head(main[d]).msg IN
     /\ writes' = [writes EXCEPT ![Newest] = @ \o MirrorWrites(m)]
     /\ Issue(Len(MirrorWrites(m)))
     /\ astray' = IF m.dev = Newest THEN astray ELSE astray \cup {m}
  /\ main' = [main EXCEPT ![d] = Tail(@)]
  /\ UNCHANGED <<backend, stored, inflight, draft, history, current, signIns>>

-----------------------------------------------------------------------------
(* The Firestore client.                                                   *)

\* It persists the writes of the user it serves, in their order.
Persist(d) ==
  /\ d = Serving
  /\ Head(told).tasks > 0
  /\ WriteLocally(d)
  /\ told' = [told EXCEPT ![1].tasks = @ - 1]
  /\ UNCHANGED <<current, signIns, astray>>

\* It sends the writes of that user.
Serve(d) ==
  /\ d = Serving
  /\ Commit(d) \/ Ack(d) \/ Reject(d) \/ Disconnect(d)
  /\ UNCHANGED phoneVars

\* Mutant: the completion handlers of the former user are dropped.
ChangeUserForgetting ==
  /\ Len(told) > 1
  /\ Head(told).tasks = 0
  /\ told' = Tail(told)
  /\ inflight' = [inflight EXCEPT ![Serving] = 0]
  /\ writes' = [writes EXCEPT ![Serving] = [i \in 1..Len(@) |-> [@[i] EXCEPT !.cb = FALSE]]]
  /\ UNCHANGED <<backend, stored, main, draft, history, current, signIns, astray>>

\* The worker queue comes to the next user, after the writes issued before: the
\* mutation queue is swapped, the streams restart.  The callbacks stay, by user.
ChangeUser ==
  /\ Len(told) > 1
  /\ Head(told).tasks = 0
  /\ told' = Tail(told)
  /\ inflight' = [inflight EXCEPT ![Serving] = 0]
  /\ UNCHANGED <<backend, writes, stored, main, draft, history, current, signIns, astray>>

\* The app is killed and launched again, with the user it had in the keychain.
KillAll ==
  /\ \A d \in Device : kills[d] < MaxKills
  /\ writes' = [d \in Device |-> Restored(writes[d], stored[d])]
  /\ inflight' = [d \in Device |-> 0]
  /\ main' = [d \in Device |-> << >>]
  /\ launched' = nsent
  /\ kills' = [d \in Device |-> kills[d] + 1]
  /\ told' = <<Stay(current)>>
  /\ UNCHANGED <<backend, stored, draft, nsent, sent, rejected, current, signIns, astray>>

-----------------------------------------------------------------------------
\* Drafts play no part: Type is left out, and every draft stays empty.
SharedNext ==
  \/ \E p \in User : SendMessage(p)
  \/ SignOut \/ ChangeUser \/ KillAll
  \/ \E d \in Device : \/ SignIn(d) \/ MirrorAnywhere(d) \/ Persist(d) \/ Serve(d)
                       \/ UploadDone(d) /\ UNCHANGED phoneVars

SharedSpec == SharedInit /\ [][SharedNext]_sharedVars

Serves(d, action) == d = Serving /\ action /\ UNCHANGED phoneVars

\* The two queues and the network, as in Messaging; nobody has to sign in.
SharedFairSpec ==
  /\ SharedSpec
  /\ WF_sharedVars(ChangeUser)
  /\ \A d \in Device :
       /\ WF_sharedVars(MirrorAnywhere(d))
       /\ WF_sharedVars(UploadDone(d) /\ UNCHANGED phoneVars)
       /\ WF_sharedVars(Persist(d))
       /\ WF_sharedVars(Serves(d, Commit(d)))
       /\ SF_sharedVars(Serves(d, Ack(d)))

-----------------------------------------------------------------------------
(* Properties.                                                             *)

\* Every variable has its type; the client was told of the user of now; what is on
\* the worker queue is what is not persisted.
SharedTypeOK ==
  /\ TypeOK
  /\ current \in Device
  /\ told \in Seq([user : Device, tasks : Nat]) /\ told # << >> /\ Newest = current
  /\ \A d \in Device : Len(writes[d]) - stored[d] = Tasks(told, d)
  /\ signIns \in 0..MaxSignIns
  /\ astray \in SUBSET sent

\* A write or a handler in the queue of d still leads to the partner's copy of m.
Holds(d, m) ==
  \/ \E i \in 1..Len(writes[d]) :
       LET w == writes[d][i] IN
       w.msg = m /\ (w.step = "peerAdd" \/ (w.step = "ownAdd" /\ w.cb))
  \/ \E i \in 1..Len(main[d]) : main[d][i].msg = m /\ main[d][i].step = "ownAdd"

\* Sign-outs lose no message: one sent since the launch has arrived, or was
\* refused, or somebody's queue holds it, if need be that of no user
\* (Service.swift:46).
NothingForgotten ==
  \A m \in sent :
    m.n > launched[m.dev] =>
      Delivered(m) \/ Refused("peerAdd", m) \/ \E d \in Device : Holds(d, m)

\* A message overtakes an earlier one of its sender only when the handler of one
\* of the two ran while the phone was somebody else's, so that they went through
\* different queues.
OvertakenOnlyAstray ==
  \A m, k \in sent :
    k.dev = m.dev /\ k.n < m.n /\ k.n > launched[k.dev] /\ Delivered(m) =>
      Delivered(k) \/ Refused("peerAdd", k) \/ {k, m} \cap astray # {}

\* When all queues are empty, the latest-message documents show the last message
\* of each sender since the launch or a later one, except where one of the two
\* went through the queue of somebody else.
RecentUnlessAstray ==
  \A m \in sent :
    (\A d \in Device : Quiet(d)) /\ m.n > launched[m.dev] =>
      \A step \in {"ownRecent", "peerRecent"} :
        LET r == recent[Owner(step, m)][Peer(step, m)] IN
        \/ Refused(step, m)
        \/ r # NoMessage /\ (r.dev = m.dev => r.n >= m.n \/ {r, m} \cap astray # {})

\* Once the users have come to rest, a message sent is settled, or waits in the
\* queue of somebody who is not signed in.
SettledOrAway ==
  \A m \in Message :
    <>[](m \in sent => \/ Delivered(m) \/ Refused("peerAdd", m) \/ m.n <= launched[m.dev]
                       \/ \E d \in Device \ {current} : Holds(d, m))

\* The channel of Messaging, for the messages whose handler ran while the phone was
\* their sender's.
OwnChannel == INSTANCE Delivery WITH delivered <- {m \in sent \ astray : Delivered(m)}

\* Whoever else uses the phone in between, these messages arrive in the order in which
\* they were sent, each at most once (Service.swift:46).
ImplementsOwnDelivery == OwnChannel!Spec
=============================================================================
