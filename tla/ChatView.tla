------------------------------- MODULE ChatView -------------------------------
(***************************************************************************)
(* The chat screen of one device (Service.fetchMessages, ChatController),  *)
(* over the message upload of all devices (Messaging).                     *)
(*                                                                         *)
(* Each chat screen adds a listener to the query of its thread, ordered by *)
(* timestamp, and appends every added document it hears of to what it      *)
(* shows.  A document is heard of when the Firestore client has it: from   *)
(* the cache on disk, from a write persisted on this device, or from the   *)
(* watch stream.  Screens and listeners are never released: the handler    *)
(* holds its screen and nothing removes the listener.                      *)
(*                                                                         *)
(* Timestamps come from the clock of the sender's device.  The clock of    *)
(* one device advances, those of two devices are unrelated.                *)
(***************************************************************************)
EXTENDS Messaging

CONSTANTS
  viewer,    \* the device looked at
  partner,   \* the partner of its chat
  MaxTime,   \* bound: timestamps
  MaxChats   \* bound: chat screens opened in one launch

me == account[viewer]

ASSUME ChatViewAssumption ==
  /\ viewer \in Device
  /\ partner \in User \ {me}
  /\ MaxTime \in Nat
  /\ MaxChats \in Nat

VARIABLES
  time,       \* the timestamp of each message sent
  known,      \* documents of the thread in the client's cache
  adding,     \* screens whose listener is on its way to the Firestore client
  listening,  \* screens whose listener hears of changes
  events,     \* snapshots dispatched to the main queue
  shown,      \* what each screen of this launch shows, in order
  open,       \* the screen the user sees, or 0 for the conversations
  seen,       \* history: messages shown so far, in any launch
  answers,    \* history: for each message, those its sender had before it
  finished    \* history: for each message, those that were over before it

stamps   == <<time, answers, finished>>
screens  == <<adding, shown, open>>
chatVars == <<known, listening, events, screens, seen>>
allVars  == <<vars, stamps, chatVars>>

Screen   == 1..MaxChats
Snapshot == [to : SUBSET Screen, added : Seq(Message)]

-----------------------------------------------------------------------------
(* What the client has, and tells.                                         *)

\* The sender's copy of m waits on the device.
\* Mutant: also when it is not persisted yet.
WaitingAtOnce(m) == \E i \in 1..Len(writes[viewer]) :
  writes[viewer][i].step = "ownAdd" /\ writes[viewer][i].msg = m

Waiting(m) == \E i \in 1..stored[viewer] :
  writes[viewer][i].step = "ownAdd" /\ writes[viewer][i].msg = m

\* The thread as the client has it: the cache and the persisted writes.
Visible == known \cup {m \in sent : m.to = partner /\ Waiting(m)}

\* The documents of a set by timestamp, as a snapshot lists them.
Ordered(S) ==
  {s \in [1..Cardinality(S) -> S] : \A i, j \in DOMAIN s : i < j => time[s[i]] < time[s[j]]}

\* The main queue after these documents are told to the listeners of some screens.
Told(to, docs) ==
  IF to = {} \/ docs = {} THEN {events}
  ELSE {Append(events, [to |-> to, added |-> added]) : added \in Ordered(docs)}

\* Mutant: the handler does not tell a removed document from an added one.
HearAll == events' \in Told(listening, (Visible' \ Visible) \cup (Visible \ Visible'))

\* All listeners hear of what this step has made visible.  A document that is
\* gone again is told as removed, which the handler ignores.
Hear == events' \in Told(listening, Visible' \ Visible)

-----------------------------------------------------------------------------
ChatInit ==
  /\ Init
  /\ time = [m \in Message |-> 0]
  /\ known = {}
  /\ adding = {}
  /\ listening = {}
  /\ events = << >>
  /\ shown = << >>
  /\ open = 0
  /\ seen = {}
  /\ answers = [m \in Message |-> {}]
  /\ finished = [m \in Message |-> {}]

-----------------------------------------------------------------------------
(* The user, and the main queue of the device.                             *)

Contents(c) == {shown[c][i] : i \in 1..Len(shown[c])}

\* showChatController: a new screen, whose viewDidLoad adds a listener.
OpenChat ==
  /\ open = 0
  /\ Len(shown) < MaxChats
  /\ shown' = Append(shown, << >>)
  /\ open' = Len(shown) + 1
  /\ adding' = adding \cup {Len(shown) + 1}
  /\ UNCHANGED <<vars, stamps, known, listening, events, seen>>

CloseChat ==
  /\ open # 0
  /\ open' = 0
  /\ UNCHANGED <<vars, stamps, known, adding, listening, events, shown, seen>>

\* Something is left to do for m: one of its writes, or the handler that issues
\* the last three.
Unfinished(m) ==
  \/ \E i \in 1..Len(writes[m.dev]) : writes[m.dev][i].msg = m
  \/ \E i \in 1..Len(main[m.dev]) :
       main[m.dev][i].msg = m /\ main[m.dev][i].step = "ownAdd"

\* Device d sends a message between me and the partner, the viewer from its open
\* screen.
SendMessage(d, p) ==
  /\ {account[d], p} = {me, partner}
  /\ d = viewer => open # 0
  /\ Send(d, p)
  /\ LET m == [dev |-> d, to |-> p, n |-> nsent[d] + 1] IN
     /\ \E t \in 1..MaxTime :
          /\ \A k \in sent : time[k] # t /\ (k.dev = d => time[k] < t)
          /\ time' = [time EXCEPT ![m] = t]
     /\ answers' = [answers EXCEPT ![m] =
                      IF d = viewer THEN Contents(open) ELSE thread[account[d]][p]]
     /\ finished' = [finished EXCEPT ![m] = {k \in sent : ~ Unfinished(k)}]
  /\ UNCHANGED chatVars

\* Mutant: the completion runs before the message is appended.
ShowBefore(c, added) == shown[c] \o SubSeq(added, 1, Len(added) - 1)

\* Mutant: new messages are inserted at the top.
ShowAtTop(c, added) == added \o shown[c]

\* The handler of a listener appends each document to its array and makes the
\* array what the screen shows.
Show(c, added) == shown[c] \o added

HandleSnapshot ==
  /\ events # << >>
  /\ LET e == Head(events) IN
     /\ shown' = [c \in 1..Len(shown) |-> IF c \in e.to THEN Show(c, e.added) ELSE shown[c]]
     /\ seen' = seen \cup {e.added[i] : i \in 1..Len(e.added)}
  /\ events' = Tail(events)
  /\ UNCHANGED <<vars, stamps, known, adding, listening, open>>

-----------------------------------------------------------------------------
(* The Firestore client of the device.                                     *)

\* The oldest listener to come is added, and told what is there.
Listen ==
  /\ adding # {}
  /\ LET c == CHOOSE k \in adding : \A l \in adding : k <= l IN
     /\ adding' = adding \ {c}
     /\ listening' = listening \cup {c}
     /\ events' \in Told({c}, Visible)
  /\ UNCHANGED <<vars, stamps, known, shown, open, seen>>

\* The watch stream brings the thread as it is on the backend.
Watch ==
  /\ listening # {}
  /\ known' = known \cup thread[me][partner]
  /\ known' # known
  /\ UNCHANGED <<vars, stamps, listening, screens, seen>>
  /\ Hear

\* The backend refuses the query: all its listeners are told of the error, which
\* they ignore, and end.
RejectListen ==
  /\ listening # {}
  /\ listening' = {}
  /\ UNCHANGED <<vars, stamps, known, events, screens, seen>>

\* A step of the upload of messages, anywhere.
Upload(d) ==
  /\ Mirror(d) \/ UploadDone(d) \/ WriteLocally(d) \/ Commit(d) \/ Reject(d) \/ Disconnect(d)
  /\ UNCHANGED <<stamps, known, listening, screens, seen>>
  /\ Hear

\* An acknowledged write moves to the cache.
Acknowledge(d) ==
  /\ Ack(d)
  /\ LET w == Head(writes[d]) IN
     known' = IF d = viewer /\ w.step = "ownAdd" /\ w.msg.to = partner
              THEN known \cup {w.msg} ELSE known
  /\ UNCHANGED <<stamps, listening, screens, seen>>
  /\ Hear

\* The app is killed and launched again; the cache stays.
Relaunch(d) ==
  /\ Kill(d)
  /\ IF d # viewer THEN UNCHANGED chatVars
     ELSE /\ adding' = {}
          /\ listening' = {}
          /\ events' = << >>
          /\ shown' = << >>
          /\ open' = 0
          /\ UNCHANGED <<known, seen>>
  /\ UNCHANGED stamps

-----------------------------------------------------------------------------
\* Drafts play no part: Type is left out, and every draft stays empty.
ChatNext ==
  \/ \E d \in Device : \/ \E p \in User : SendMessage(d, p)
                       \/ Upload(d) \/ Acknowledge(d) \/ Relaunch(d)
  \/ OpenChat \/ CloseChat \/ HandleSnapshot
  \/ Listen \/ Watch \/ RejectListen

ChatSpec == ChatInit /\ [][ChatNext]_allVars

\* The main queue and the worker queue run, and the watch stream catches up.
ChatFairSpec ==
  ChatSpec /\ WF_allVars(HandleSnapshot) /\ WF_allVars(Listen) /\ WF_allVars(Watch)

-----------------------------------------------------------------------------
(* Properties.                                                             *)

\* Every variable has its type; listeners belong to screens of this launch.
ChatTypeOK ==
  /\ TypeOK
  /\ time \in [Message -> 0..MaxTime]
  /\ known \in SUBSET Message
  /\ shown \in Seq(Seq(Message)) /\ Len(shown) <= MaxChats
  /\ adding \in SUBSET (1..Len(shown))
  /\ listening \in SUBSET (1..Len(shown))
  /\ events \in Seq(Snapshot)
  /\ open \in 0..Len(shown)
  /\ seen \in SUBSET Message
  /\ answers \in [Message -> SUBSET Message]
  /\ finished \in [Message -> SUBSET Message]

\* A message is on a screen once.  Only one whose copy the backend refused, having
\* applied it before the acknowledgement was lost, is there a second time: it
\* is told as removed, which the handler ignores (Service.swift:69), and as
\* added again when the watch stream brings it.
NoRepeat ==
  \A c \in 1..Len(shown) : \A i, j \in 1..Len(shown[c]) :
    LET m == shown[c][i] IN
    i < j /\ m = shown[c][j] =>
      /\ Refused("ownAdd", m) /\ Kept(m)
      /\ \A k \in 1..Len(shown[c]) : shown[c][k] = m => k \in {i, j}

\* Message k was sent before m by the same device, or m answers k.
Precedes(k, m) == (k.dev = m.dev /\ k.n < m.n) \/ k \in answers[m]

\* No message is shown above one it follows or answers, whether both were found in
\* the cache or came one by one, from this device and from the watch stream
\* (Service.swift:71), unless the clocks of their devices say otherwise or a
\* copy of one was refused.
InConversationOrder ==
  \A c \in 1..Len(shown) : \A i, j \in 1..Len(shown[c]) :
    LET m == shown[c][i]
        k == shown[c][j]
    IN
    i < j /\ Precedes(k, m) => time[m] < time[k] \/ Refused("ownAdd", k)

\* The refused copy of a message is not shown again by a later screen, but all
\* else that was ever on a screen is on every screen that hears of its thread and
\* has handled its snapshots, also after a kill and while the device is offline.
Reopened ==
  \A c \in listening :
    (\A i \in 1..Len(events) : c \notin events[i].to) =>
      \A m \in seen : m \in Contents(c) \/ Refused("ownAdd", m)

\* What was ever shown is in the thread on the backend, or waits in the persisted
\* queue of the device, or was refused: no message is shown and then lost with the
\* app.
ShownIsKept ==
  \A m \in seen :
    m \in thread[me][partner] \/ Waiting(m) \/ Refused("ownAdd", m)

\* Message k was sent before m by the same device, or was over when m was sent.
Earlier(k, m) == (k.dev = m.dev /\ k.n < m.n) \/ k \in finished[m]

\* Once nothing is left to do for a message of this launch, the latest-message
\* documents of both users never again show an earlier one (unless the backend
\* refused the write), although both users overwrite both documents, each in
\* the order of its own queue, and resent writes put older messages back
\* (Service.swift:50).  So two documents that differ then show messages that
\* were under way at the same time.
NeverSetBack ==
  \A m \in sent :
    m.n > launched[m.dev] /\ ~ Unfinished(m) =>
      \A step \in {"ownRecent", "peerRecent"} :
        LET r == recent[Owner(step, m)][Peer(step, m)] IN
        Refused(step, m) \/ (r # NoMessage /\ ~ Earlier(r, m))

\* Every message of the thread comes to every screen whose query is served.
Appears ==
  \A m \in Message, c \in Screen :
    m \in thread[me][partner] /\ c \in listening ~>
      c \notin listening \/ m \in Contents(c)
=============================================================================
