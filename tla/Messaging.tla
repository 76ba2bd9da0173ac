------------------------------ MODULE Messaging ------------------------------
(***************************************************************************)
(* Sending a message in ChipChat (API/Service.swift, uploadMessage).       *)
(*                                                                         *)
(* One tap on Send makes four Firestore writes: a copy of the message in   *)
(* the sender's thread (ownAdd), and, from the completion handler of that  *)
(* first write, a copy in the partner's thread (peerAdd) and the latest-   *)
(* message documents of the sender (ownRecent) and of the partner          *)
(* (peerRecent).  Nothing makes the four writes atomic.                    *)
(*                                                                         *)
(* The writes go through the Firestore client of the device: it persists   *)
(* them in issue order on its worker queue, streams them to the backend,   *)
(* takes them off its queue when they are acknowledged or rejected, and    *)
(* then runs their completion handlers on the main queue.  The persisted   *)
(* queue survives a kill of the app; the completion handlers do not.       *)
(*                                                                         *)
(* A message is abstracted to the device that sent it, the user it is for  *)
(* and its number among the messages of that device.  The number stands    *)
(* for Timestamp(date: Date()); texts play no part.                        *)
(***************************************************************************)
EXTENDS Integers, Sequences, FiniteSets

CONSTANTS
  Device,            \* installations of the app
  User,              \* accounts
  account,           \* the user signed in on each device
  NoMessage,         \* a recent-messages document that does not exist
  MaxSends,          \* bound: messages sent by one device
  MaxKills,          \* bound: kills of the app on one device
  MaxRejects,        \* bound: writes the backend rejects
  MaxPendingWrites   \* writes streamed and not yet acknowledged (10 in the SDK)

Message == [dev : Device, to : User, n : 1..MaxSends]

Step == {"ownAdd", "peerAdd", "ownRecent", "peerRecent"}

ASSUME ConstantsAssumption ==
  /\ account \in [Device -> User]
  /\ MaxSends \in Nat
  /\ MaxKills \in Nat
  /\ MaxRejects \in Nat
  /\ MaxPendingWrites \in Nat \ {0}
  /\ NoMessage \notin Message

Write == [step : Step, msg : Message, cb : BOOLEAN]

Completion == [step : Step, msg : Message, ok : BOOLEAN]

VARIABLES
  thread,    \* backend: thread[o][p], the documents of messages/o/p
  recent,    \* backend: recent[o][p], the document messages/o/recent-messages/p
  writes,    \* per device: mutations the app issued and the SDK still holds
  stored,    \* per device: how many of them are in the persisted queue
  inflight,  \* per device: how many the backend applied without acknowledging
  main,      \* per device: completion handlers waiting on the main queue
  draft,     \* draft[d][p]: is there text in the input view of the chat with p
  nsent,     \* per device: messages sent so far
  launched,  \* per device: value of nsent when the app was last launched
  kills,     \* per device: kills of the app so far
  sent,      \* history: the messages sent
  rejected   \* history: the <<step, message>> the backend rejected

backend == <<thread, recent>>
client  == <<writes, stored, inflight, main, draft>>
history == <<nsent, launched, kills, sent, rejected>>
vars    == <<backend, client, history>>

-----------------------------------------------------------------------------
(* The messages and the writes they are made of.                           *)

From(m) == account[m.dev]

\* The user under whose document a step writes, and the collection or the
\* document name under it.
Owner(step, m) == IF step \in {"ownAdd", "ownRecent"} THEN From(m) ELSE m.to
Peer(step, m)  == IF step \in {"ownAdd", "ownRecent"} THEN m.to ELSE From(m)

Mutation(step, m, cb) == [step |-> step, msg |-> m, cb |-> cb]

\* Mutants: the partner's copy first; the latest-message documents first; no
\* latest-message document for the partner; nothing after the first write.
FirstWritePeer(m)     == Mutation("peerAdd", m, TRUE)
MirrorRecentsFirst(m) == << Mutation("ownRecent", m, FALSE),
                            Mutation("peerRecent", m, FALSE),
                            Mutation("peerAdd", m, TRUE) >>
MirrorOneRecent(m)    == << Mutation("peerAdd", m, TRUE),
                            Mutation("ownRecent", m, FALSE) >>
MirrorNothing(m)      == << >>

\* The write uploadMessage itself issues.
FirstWrite(m) == Mutation("ownAdd", m, TRUE)

\* The three writes the completion handler of the first one issues.
MirrorWrites(m) == << Mutation("peerAdd", m, TRUE),
                      Mutation("ownRecent", m, FALSE),
                      Mutation("peerRecent", m, FALSE) >>

\* Mutants: a failed write runs no completion handler; the newest completion
\* is put at the head of the main queue.
NotifyIfOk(queue, w, ok) ==
  IF w.cb /\ ok THEN Append(queue, [step |-> w.step, msg |-> w.msg, ok |-> ok])
                ELSE queue
NotifyAhead(queue, w, ok) ==
  IF w.cb THEN <<[step |-> w.step, msg |-> w.msg, ok |-> ok]>> \o queue ELSE queue

\* The main queue after the completion handler of w, if it has one and the app
\* was not killed since the write was issued, is dispatched to it.
Notify(queue, w, ok) ==
  IF w.cb THEN Append(queue, [step |-> w.step, msg |-> w.msg, ok |-> ok])
          ELSE queue

\* The mutation queue as the SDK finds it in its database at the next launch:
\* what was persisted, in the same order, without completion handlers.
\* Mutant: the newest mutation comes first.
RestoredNewestFirst(queue, n) == [i \in 1..n |-> [queue[n + 1 - i] EXCEPT !.cb = FALSE]]
Restored(queue, n) == [i \in 1..n |-> [queue[i] EXCEPT !.cb = FALSE]]

-----------------------------------------------------------------------------
Init ==
  /\ thread = [o \in User |-> [p \in User |-> {}]]
  /\ recent = [o \in User |-> [p \in User |-> NoMessage]]
  /\ writes = [d \in Device |-> << >>]
  /\ stored = [d \in Device |-> 0]
  /\ inflight = [d \in Device |-> 0]
  /\ main = [d \in Device |-> << >>]
  /\ draft = [d \in Device |-> [p \in User |-> FALSE]]
  /\ nsent = [d \in Device |-> 0]
  /\ launched = [d \in Device |-> 0]
  /\ kills = [d \in Device |-> 0]
  /\ sent = {}
  /\ rejected = {}

-----------------------------------------------------------------------------
(* The app, on the main queue.                                             *)

\* The user edits the text of the chat with p.
Type(d, p) ==
  /\ p # account[d]
  /\ ~ draft[d][p]
  /\ draft' = [draft EXCEPT ![d][p] = TRUE]
  /\ UNCHANGED <<backend, writes, stored, inflight, main, history>>

\* Send is tapped in the chat with p.  The button is always enabled and the
\* text is not cleared before the upload is done, so the same draft, or an
\* empty one, can be sent again.
Send(d, p) ==
  /\ p # account[d]
  /\ nsent[d] < MaxSends
  /\ LET m == [dev |-> d, to |-> p, n |-> nsent[d] + 1] IN
       /\ writes' = [writes EXCEPT ![d] = Append(@, FirstWrite(m))]
       /\ sent' = sent \cup {m}
  /\ nsent' = [nsent EXCEPT ![d] = @ + 1]
  /\ UNCHANGED <<backend, stored, inflight, main, draft, launched, kills, rejected>>

\* The completion handler of the first write, whose error it ignores.
Mirror(d) ==
  /\ main[d] # << >>
  /\ Head(main[d]).step = "ownAdd"
  /\ writes' = [writes EXCEPT ![d] = @ \o MirrorWrites(Head(main[d]).msg)]
  /\ main' = [main EXCEPT ![d] = Tail(@)]
  /\ UNCHANGED <<backend, stored, inflight, draft, history>>

\* Mutant: the text is cleared whatever the outcome.
UploadDoneAnyway(d) ==
  /\ main[d] # << >>
  /\ Head(main[d]).step = "peerAdd"
  /\ draft' = [draft EXCEPT ![d][Head(main[d]).msg.to] = FALSE]
  /\ main' = [main EXCEPT ![d] = Tail(@)]
  /\ UNCHANGED <<backend, writes, stored, inflight, history>>

\* The completion handler of the partner's copy: it clears the text of the
\* chat, whatever it has become meanwhile, unless the write failed.
UploadDone(d) ==
  /\ main[d] # << >>
  /\ Head(main[d]).step = "peerAdd"
  /\ draft' = [draft EXCEPT ![d][Head(main[d]).msg.to] = @ /\ ~ Head(main[d]).ok]
  /\ main' = [main EXCEPT ![d] = Tail(@)]
  /\ UNCHANGED <<backend, writes, stored, inflight, history>>

-----------------------------------------------------------------------------
(* The Firestore client of a device, and the backend.                      *)

\* The worker queue persists the oldest mutation it has not persisted yet.
WriteLocally(d) ==
  /\ stored[d] < Len(writes[d])
  /\ stored' = [stored EXCEPT ![d] = @ + 1]
  /\ UNCHANGED <<backend, writes, inflight, main, draft, history>>

\* addDocument names the document when it is called: applying the write again
\* changes nothing.
AddDocument(w) ==
  /\ w.step \in {"ownAdd", "peerAdd"}
  /\ thread' = [thread EXCEPT ![Owner(w.step, w.msg)][Peer(w.step, w.msg)] = @ \cup {w.msg}]
  /\ UNCHANGED recent

\* Mutant: the document is created only.
SetDataOnce(w) ==
  /\ w.step \in {"ownRecent", "peerRecent"}
  /\ recent' = [recent EXCEPT ![Owner(w.step, w.msg)][Peer(w.step, w.msg)] =
                  IF @ = NoMessage THEN w.msg ELSE @]
  /\ UNCHANGED thread

\* setData overwrites the document, with no precondition.
SetData(w) ==
  /\ w.step \in {"ownRecent", "peerRecent"}
  /\ recent' = [recent EXCEPT ![Owner(w.step, w.msg)][Peer(w.step, w.msg)] = w.msg]
  /\ UNCHANGED thread

\* The backend applies the next write of the pipeline.
Commit(d) ==
  /\ inflight[d] < stored[d]
  /\ inflight[d] < MaxPendingWrites
  /\ \/ AddDocument(writes[d][inflight[d] + 1])
     \/ SetData(writes[d][inflight[d] + 1])
  /\ inflight' = [inflight EXCEPT ![d] = @ + 1]
  /\ UNCHANGED <<writes, stored, main, draft, history>>

\* The oldest write is acknowledged: the client drops it and calls back.
Ack(d) ==
  /\ inflight[d] > 0
  /\ main' = [main EXCEPT ![d] = Notify(@, Head(writes[d]), TRUE)]
  /\ writes' = [writes EXCEPT ![d] = Tail(@)]
  /\ stored' = [stored EXCEPT ![d] = @ - 1]
  /\ inflight' = [inflight EXCEPT ![d] = @ - 1]
  /\ UNCHANGED <<backend, draft, history>>

\* Mutant: a write may be refused while earlier ones wait for their
\* acknowledgement.
RejectAny(d) ==
  /\ stored[d] > 0
  /\ Cardinality(rejected) < MaxRejects
  /\ main' = [main EXCEPT ![d] = Notify(@, Head(writes[d]), FALSE)]
  /\ writes' = [writes EXCEPT ![d] = Tail(@)]
  /\ stored' = [stored EXCEPT ![d] = @ - 1]
  /\ rejected' = rejected \cup {<<Head(writes[d]).step, Head(writes[d]).msg>>}
  /\ UNCHANGED <<backend, inflight, draft, nsent, launched, kills, sent>>

\* The backend refuses the oldest write (rules, quota, invalid data): the
\* client drops it and calls back with the error.
Reject(d) ==
  /\ inflight[d] = 0
  /\ stored[d] > 0
  /\ Cardinality(rejected) < MaxRejects
  /\ main' = [main EXCEPT ![d] = Notify(@, Head(writes[d]), FALSE)]
  /\ writes' = [writes EXCEPT ![d] = Tail(@)]
  /\ stored' = [stored EXCEPT ![d] = @ - 1]
  /\ rejected' = rejected \cup {<<Head(writes[d]).step, Head(writes[d]).msg>>}
  /\ UNCHANGED <<backend, inflight, draft, nsent, launched, kills, sent>>

\* The write stream breaks: the writes of the pipeline are sent again, also
\* those the backend has applied.
Disconnect(d) ==
  /\ inflight[d] > 0
  /\ inflight' = [inflight EXCEPT ![d] = 0]
  /\ UNCHANGED <<backend, writes, stored, main, draft, history>>

\* The app is killed and launched again: what the worker queue had not
\* persisted, the completion handlers and the texts are gone.
Kill(d) ==
  /\ kills[d] < MaxKills
  /\ writes' = [writes EXCEPT ![d] = Restored(@, stored[d])]
  /\ inflight' = [inflight EXCEPT ![d] = 0]
  /\ main' = [main EXCEPT ![d] = << >>]
  /\ draft' = [draft EXCEPT ![d] = [p \in User |-> FALSE]]
  /\ launched' = [launched EXCEPT ![d] = nsent[d]]
  /\ kills' = [kills EXCEPT ![d] = @ + 1]
  /\ UNCHANGED <<backend, stored, nsent, sent, rejected>>

-----------------------------------------------------------------------------
Next ==
  \E d \in Device :
    \/ \E p \in User : Type(d, p) \/ Send(d, p)
    \/ Mirror(d)
    \/ UploadDone(d)
    \/ WriteLocally(d)
    \/ Commit(d)
    \/ Ack(d)
    \/ Reject(d)
    \/ Disconnect(d)
    \/ Kill(d)

Spec == Init /\ [][Next]_vars

\* The main queue and the worker queue run what is put on them.  The stream
\* may break again and again, but the backoff of the client tries again each
\* time, and an acknowledgement that can arrive infinitely often does.
Fairness ==
  \A d \in Device :
    /\ WF_vars(Mirror(d)) /\ WF_vars(UploadDone(d))
    /\ WF_vars(WriteLocally(d)) /\ WF_vars(Commit(d))
    /\ SF_vars(Ack(d))

FairSpec == Spec /\ Fairness

-----------------------------------------------------------------------------
(* Properties.                                                             *)

Refused(step, m) == <<step, m>> \in rejected

\* The partner has the message.
Delivered(m) == m \in thread[m.to][From(m)]

\* The sender has its own copy.
Kept(m) == m \in thread[From(m)][m.to]

\* Something on the device still leads to the partner's copy of m.
Pending(m) ==
  \/ \E i \in 1..Len(writes[m.dev]) :
       LET w == writes[m.dev][i] IN
       w.msg = m /\ (w.step = "peerAdd" \/ (w.step = "ownAdd" /\ w.cb))
  \/ \E i \in 1..Len(main[m.dev]) :
       main[m.dev][i].msg = m /\ main[m.dev][i].step = "ownAdd"

Quiet(d) == writes[d] = << >> /\ main[d] = << >>

\* Every variable has its type, and the three parts of a mutation queue are
\* prefixes of one another: what the backend applied was persisted, and what
\* was persisted was issued.
TypeOK ==
  /\ thread \in [User -> [User -> SUBSET Message]]
  /\ recent \in [User -> [User -> Message \cup {NoMessage}]]
  /\ writes \in [Device -> Seq(Write)]
  /\ stored \in [Device -> Nat]
  /\ inflight \in [Device -> Nat]
  /\ main \in [Device -> Seq(Completion)]
  /\ draft \in [Device -> [User -> BOOLEAN]]
  /\ nsent \in [Device -> 0..MaxSends]
  /\ launched \in [Device -> 0..MaxSends]
  /\ kills \in [Device -> 0..MaxKills]
  /\ sent \in SUBSET Message
  /\ rejected \in SUBSET (Step \X Message)
  /\ \A d \in Device : inflight[d] <= stored[d] /\ stored[d] <= Len(writes[d])

\* The partner never has a message that the sender's own thread lacks, unless
\* the backend refused the sender's copy: the second copy is written from the
\* completion handler of the first (Service.swift, uploadMessage), across
\* kills, resent writes and sends that overlap.
PeerCopyBacked == \A m \in sent : Delivered(m) => Kept(m) \/ Refused("ownAdd", m)

\* A latest-message document shows a message that is in the threads of both
\* users, except for a copy the backend refused: no row of the conversation
\* list leads to a chat without the message it shows.
RecentBacked ==
  \A o, p \in User : recent[o][p] # NoMessage =>
    LET m == recent[o][p] IN
    /\ {From(m), m.to} = {o, p}
    /\ Kept(m) \/ Refused("ownAdd", m)
    /\ Delivered(m) \/ Refused("peerAdd", m)

\* A message sent since the app was launched is never forgotten: the partner
\* has it, or the backend refused the partner's copy, or a write or a handler
\* of the device still leads to that copy.  A failed write of the sender's own
\* copy does not stop the message.
NoSilentLoss ==
  \A m \in sent :
    m.n > launched[m.dev] => Delivered(m) \/ Refused("peerAdd", m) \/ Pending(m)

\* When a device has nothing left to do, the latest-message documents of both
\* users show the last message of that launch or a later one (unless the
\* backend refused it), although resent writes have set them back meanwhile.
RecentUpToDate ==
  \A m \in sent :
    Quiet(m.dev) /\ m.n > launched[m.dev] =>
      \A step \in {"ownRecent", "peerRecent"} :
        LET r == recent[Owner(step, m)][Peer(step, m)] IN
        \/ Refused(step, m)
        \/ r # NoMessage /\ (r.dev = m.dev => r.n >= m.n)

\* The text of a chat disappears, short of a kill, only when a message of that
\* chat sent since the launch has reached the partner (ChatController.swift,
\* inputView(_:wantsToSend:)).
ClearOnlyDelivered ==
  [][\A d \in Device, p \in User :
       draft[d][p] /\ ~ draft'[d][p] /\ kills'[d] = kills[d] =>
         \E m \in sent : /\ m.dev = d /\ m.to = p /\ m.n > launched[d]
                         /\ Delivered(m)]_vars

\* Every message is settled in the end: the partner gets it, or the backend
\* refuses it, or the app was killed after it was sent.
EventuallySettled ==
  \A m \in Message :
    m \in sent ~> Delivered(m) \/ Refused("peerAdd", m) \/ m.n <= launched[m.dev]

\* What the comment at Service.swift:49 says: the handler creates the latest-
\* message documents "for both receiving and sending users".
RecentForBoth ==
  (\A d \in Device : Quiet(d)) =>
    \A o, p \in User : recent[o][p] = NoMessage <=> recent[p][o] = NoMessage

\* The channel from each device to its partners, without the mechanism.
Channel == INSTANCE Delivery WITH delivered <- {m \in sent : Delivered(m)}

\* The detailed specification implements the channel.
ImplementsDelivery == Channel!Spec
=============================================================================
