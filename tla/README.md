# ChipChat in TLA+

ChipChat is an iOS chat client on top of Firebase: accounts (Firebase Auth),
profile images (Storage), and messages, user profiles and conversation
summaries (Firestore). There is no server code of its own: everything the
system guarantees, it guarantees through the order in which a client issues
its calls and through what the Firebase SDK makes of them. The SDK is vendored
under `src/ChipChat/Pods`.

Paths below are relative to `src/ChipChat`.

## Inventory

| Component | State it keeps | Operations | What makes it correct |
|---|---|---|---|
| Message upload: `Service.uploadMessage`, `ChatController`'s send handler, `CustomInputAccessoryView`, the write path of the Firestore client | the four documents of a message; the mutation queue of the device and its completion handlers; the text of the input view | tap Send; persist, stream, acknowledge, refuse, resend a write; two completion handlers; kill and relaunch | the partner has no message the sender lacks; summaries never run ahead of the threads and catch up; nothing is dropped silently; order; the text is cleared only for a message that arrived |
| Chat view: `Service.fetchMessages`, `ChatController` | an append-only array captured by the listener; the array on screen | snapshot events; reload and scroll | the list shows each message once, in the order of the conversation; what was shown is not lost; a screen catches up |
| Conversation list: `Service.fetchConversations`, `ConversationsController` | accumulator captured by each listener; dictionary by partner; the array shown | change events; one asynchronous `fetchUser` per change; replay of the accumulator | each row shows the latest message; rows belong to the signed-in user |
| Registration: `AuthService.createUser`, `RegistrationController` | image object, account, profile document; form | upload, URL, account, profile in a chain of callbacks | an account has a profile; one sign-up makes one account; the form always gets an answer |
| Session: login, logout, `authenticateUser`, the progress indicator shared by all controllers (`Utils/Extensions.swift:100`) | current user; presented screen; indicator | login, logout, presentation, show and dismiss | the indicator is not left on; no listener of another user's session |
| User search: `Service.fetchUsers`, `NewMessageController` | fetched and filtered arrays; search mode | fetch answer; typing; selection | a row selects the user it shows; the screen does not stay covered |
| Profile images of cells: `UserCell`, `ConversationsCell`, `MessageCell`, SDWebImage under them | user and image of each cell; loads, shared downloads, caches, failed URLs | configure a reused cell; query, download, cancel; set the image | a cell never shows the image of a former user; one cell's cancellation does not starve another |
| Models, view models, other views, delegates | none that outlives a call | decoding, styling | – |

How they interact: controllers call the static functions of `Service` and
`AuthService` with completion closures; the closures run on the main queue when
the SDK's worker queue has an answer. `ConversationsController` is the delegate
of the login, registration, profile and new-message screens and pushes
`ChatController`s. All data crosses between devices only through Firestore
documents. The hard behaviours are: chains of asynchronous steps without
atomicity; the app killed between two of them; writes resent after a broken
stream; two devices writing the same documents; completions that arrive when
the screen, the text or the user has changed; listeners that are never removed.

`PROJECT.json` lists every hazard with the line where it bites and the
properties that would catch it.

## Plan

Done, in this order:

1. `Delivery`, `Messaging`: the upload of messages, the heart of the program, with TLC
   and with proofs, that of the refinement among them.
2. `ProgressHud`, `Session`: sign-up, login, logout, the profile screen and the
   indicator all screens share, with TLC and with proofs. Registration is not a
   module of its own: its chain of requests, a login and a logout meet in the signed-in
   user, in the main queue and in the queue of the Firestore client.
3. `ConversationList`: the listeners of `fetchConversations`, `fetchUser` answered in
   any order, what the listeners accumulate, the dictionary they share, logins
   and logouts on one controller, with TLC and with proofs.
4. `ChatView`: the screens of one thread over the cache and the local writes of one device,
   composed with `Messaging` on all devices, with TLC and with proofs.
5. `SharedPhone`: `Messaging` with sign-outs and sign-ins in the middle of an upload, with TLC
   and with proofs.
6. `NewMessage`: the search for a user and the indicator over it, with TLC and with proofs.
7. `CellImages`: the images of reused cells and the loader behind them, with TLC and with proofs.

8. `Listening`: who is signed in and whose conversations are listened to, the abstract specification
   that both `Session` and `ConversationList` implement, with TLC and with proofs.

Open:

9. The composition of `ConversationList` with the latest-message documents of `Messaging`.

## Modules

### `Messaging`

One tap on Send makes four writes (`Service.swift:38-53`): `ownAdd` into
`messages/<me>/<partner>`; then, from its completion handler, `peerAdd` into
`messages/<partner>/<me>`, and `ownRecent`, `peerRecent` into the two
`recent-messages` collections.

| Variable | In the code |
|---|---|
| `thread[o][p]` | documents of the collection `messages/o/p` in the backend |
| `recent[o][p]` | the document `messages/o/recent-messages/p` in the backend |
| `writes[d]` | mutations the app issued on device `d`, in issue order: those queued on the worker queue and those of the mutation queue |
| `stored[d]` | length of the prefix of `writes[d]` that `LocalStore::WriteLocally` has persisted |
| `inflight[d]` | length of the prefix the backend has applied and whose acknowledgement has not arrived |
| `main[d]` | completion handlers dispatched to the main queue (`FirestoreClient::WriteMutations`) |
| `draft[d][p]` | whether the input view of the chat with `p` holds text |
| `nsent`, `launched`, `kills`, `sent`, `rejected` | history, for bounds and properties only |

| Action | In the code |
|---|---|
| `Type`, `Send` | editing the text; `handleSendMessage` and `uploadMessage` up to its return |
| `Mirror` | the completion handler of the first write, `{ _ in ... }` |
| `UploadDone` | the handler `ChatController` passes, run after `peerAdd` |
| `WriteLocally` | `SyncEngine::WriteMutations`, one task of the worker queue per write |
| `Commit` | the backend applies the next write of the pipeline (`AddDocument`, `SetData`) |
| `Ack`, `Reject` | `OnWriteStreamMutationResult`, `HandleWriteError`: the oldest write leaves the queue, `NotifyUser` runs its handler |
| `Disconnect` | `OnWriteStreamClose`, `DisableNetworkInternal`: everything in the pipeline will be sent again |
| `Kill` | the process ends and the app is launched again: only the persisted prefix is left, without handlers (`sync_engine.cc:422`) |

Abstractions. A message is the device that sent it, its addressee and its
number on that device; the number stands for the timestamp, texts play no part.
Documents of `addDocument` have client-made names, so that applying the write
again changes nothing: a thread is a set. The user signed in on a device does
not change (`SharedPhone` adds sign-outs). There is one input view per partner and launch. The backend applies
the writes of one device in stream order and those of different devices in any
order; it may refuse a write only when all earlier ones are acknowledged, which
is when the client learns of it. The local copies of documents that the client
shows before the backend has them are in `ChatView`.

### `Delivery`

The abstract channel: messages of a device arrive in sending order, each at
most once, and one that was overtaken never arrives. `Messaging` implements it
with `delivered` mapped to the messages that are in their addressee's thread, `ChatView` by the same
mapping, and `SharedPhone` with `delivered` mapped to those of them that never left the queue of their sender.

### `MCMessaging` and the runs

| Run | Instance | Question |
|---|---|---|
| `upload` | 1 device, 3 users, 2 sends, 2 kills, 1 refusal, 2 writes in flight | every property of the upload and the refinement, when the writes of two messages interleave in one queue; every message is settled in the end |
| `recent_for_both` | 1 device, 1 send, 1 kill, no refusal | a disagreement with a comment, see Findings |

Why the bounds are enough. Two messages of one device are what it takes to
overtake, to mix up handlers, and to set a latest-message document back; eight
writes in a pipeline of two fill it and make it wait. Two kills let a
restored queue be killed again. One refusal hits any of the eight writes. Two devices that
write the same documents are in `chat_reply`, which checks `NeverSetBack`. The SDK's pipeline holds ten writes; the proofs hold for any positive size, any number of
devices, kills and refusals. `CHECK_DEADLOCK` is off because the
system stops when the bounds are used up and the queues are empty; that it does not
stop earlier is what `EventuallySettled` and `RecentUpToDate` say.

Fairness. Weak fairness of the two handlers and of `WriteLocally`: the
main queue and the worker queue run what is dispatched to them. Weak fairness of
`Commit` and strong fairness of `Ack`: the stream may break between the two
every time, but the client retries with backoff for ever, so an
acknowledgement that is possible again and again arrives at last. Nothing is assumed of
the user, of kills or of refusals.

Each property has a mutant in `PROJECT.json`: a variant of one definition, kept
in the module just before it and marked as such, under which TLC finds the
property violated.

### `Messaging_proofs`

Proved for every value of the constants that satisfies `ConstantsAssumption`:
`TypeCorrect`, `PeerCopyBackedAlways`, `RecentBackedAlways`, `NoSilentLossAlways`, `Refinement`,
`ClearOnlyDeliveredAlways`, `RecentUpToDateAlways`.

The properties are not inductive: that the partner's copy is backed says nothing of
a `peerAdd` still in the queue. The invariant `IInv` adds

- `Applied`: what waits for its acknowledgement has taken effect, so a write
  popped by `Ack` is settled;
- `OwnFirst`: a write other than the first, or a dispatched handler, exists only
  once the sender's copy is in its thread or was refused;
- `CopyBeforeRecent`: before each latest-message write in a queue there is the
  partner's copy of the same message, unless that copy is settled. Because queues are
  consumed from the front and cut off at the back, no step can separate the two;
- `Numbered`: a kill covers every message sent before it (`NoSilentLoss` speaks of
  messages sent since the launch).

`Ack` and `Reject` share one lemma (`Popped`); the steps that leave the queues alone share
three. TLC agreed on `IInv` before it was proved.

The refinement, `Spec => ImplementsDelivery`, needs the order of the messages. The mapping alone
is not enough: a `Commit` of the partner's copy is a step of the channel
only if no later message of the device was delivered before. The invariant `Order`, on top of `IInv`:

- `OwnMessages`, `DeliveredSent`: a device's queues hold its own messages, and what is delivered was sent;
- `InLine`: what is left to do for a message moves from the write of the first copy (stage 3)
  to its handler (stage 2) and the write of the second copy (stage 1). Nearer to
  delivery means sent earlier, across the three stages;
- `NotOvertaken`: what is not delivered was sent after everything that is. A copy that is resent
  after a disconnection or a kill is the exception: it is delivered already, and applying it again is a stutter.

`ClearOnlyDeliveredAlways` rests on `IInv`, `Order` and `AllFresh`: every handler still to come is for a
message of this launch, and one told of success finds the partner's copy delivered.

`RecentUpToDateAlways` rests on all of these. That a quiet device has left its documents
up to date is not inductive: a resent write sets a document back, and a second device of the
same user writes the same documents. `AllDocumented` follows the writes of the two documents:

- `WritesInLine`, `WritesFirst`: those in the queue are in sending order, ahead of those the
  handlers still have to issue;
- `InFlightShown`: what waits for its acknowledgement shows in its document, so that a write that is
  acknowledged leaves its message, a later one, or one of another device there;
- `NoneLost`: a document of a message of this launch is refused, under way, or shown while
  all that will write it again is later. A disconnection sets a document back only while
  the write that brings it forward again is still in the queue.

Only model-checked: `EventuallySettled`, as liveness is out of the prover's reach.

### `ProgressHud`

The one `JGProgressHUD` of `Utils/Extensions.swift:100` as operators on a record: the view it
covers (a weak reference), the phase of its animation, and whether a dismissal came
during an animation. `Show` during an animation, or while it has a view, is dropped
(`showInView:animated:` asserts and returns); `Dismiss` during an appearance is kept until
its end (`_dismissAfterTransitionFinished`). It takes touches away from the screen
below only once the animation has ended.

### `Session`

| Variable | In the code |
|---|---|
| `accounts`, `images`, `profiles` | the servers: accounts by email, stored images, documents of the collection `users` |
| `current` | the user of `Auth.auth()`, in the keychain |
| `persisted` | profile writes in the mutation queues on disk, with the user whose queue it is |
| `jobs` | one record per tap on Sign Up or Log In: its form, email, and the stage its chain of callbacks has reached |
| `main` | completion handlers and sign-out notices dispatched to the main queue |
| `worker`, `queueUser` | tasks of the worker queue of the Firestore client; the user it works for |
| `started`, `overtaken` | the client starts at its first use; history: sign-ups whose handler started it under another user |
| `forms`, `alive`, `open` | screens made, not deallocated, and presented over the conversations |
| `asking` | profile screens whose `fetchUser` is not answered |
| `unanswered` | history: profile screens that were not called back, for want of a document or of an answer |
| `listeners` | users whose conversations are listened to |
| `hud` | the indicator |
| `failures`, `kills` | bounds |

| Action | In the code |
|---|---|
| `SignUp`, `LogIn` | `handleSignUpPressed`, `handleLoginPressed` up to the first request |
| `UploadReply`, `URLReply`, `CreateAccount`, `AccountReply`, `LogInReply` | an answer of Storage or Auth; the account is made in one step and its data fetched in another (`FIRAuth.m:1089`) |
| `Uploaded`, `Located`, `SignedUp`, `Confirmed`, `Failed` | the completion handlers of `createUser` and of the form |
| `SignedIn` | the completion handler of a login, which holds its form weakly (`LoginController.swift:89`) |
| `SignedOut`, `RunTask` | the Firestore client hears of a user; its worker queue changes to that user's mutation queue, or persists a write |
| `Commit`, `Ack`, `Refuse` | the backend and the write stream, for the profile document |
| `ShowSignUp`, `ShowLogin`, `ShowProfile`, `CloseProfile`, `Logout` | the user moves between the screens |
| `ProfileReply`, `ConversationArrives` | completions that only touch the indicator |
| `Animate`, `Release` | the end of an animation; a controller nobody holds is deallocated |
| `Kill` | the process ends and is launched again |

Abstractions. Emails are only compared. The password of a login is right, or the login is one
of the requests that fail. Taps on a form that is not filled in do nothing and are left
out; alerts are dismissed at once. An account has the number of the sign-up that made it.
`fetchUser` of a profile screen is answered from the server or from the
writes in the user's own queue. The client hears of a new user in a block that Auth
dispatches just before the completion handler of the sign-up or login, from the
same serial queue, so the two are one step. What the indicator does under an error
alert, the new-message screen and the chats are left out, and so is a keychain that fails.
The login screen is presented in the step that signs out; the code presents it one turn of the main queue
later (`ConversationsController.swift:132`). A handler dispatched before the logout runs before the
screen is there, and in the model after it, which is the worse case.

The Firestore client is made at its first use, with the user signed in then
(`FSTFirestoreComponent.mm:156`, `firebase_credentials_provider_apple.mm:31`). TLC showed what that
means for `OwnQueue`: on a fresh launch of a signed-out app, a sign-up overlaps with
another sign-up or a login (the indicator is then still stuck on the conversations and
does not cover the form); the first handler to run makes the client, but Auth has
signed in the second user by then, so that the profile of the first enters the queue of the second.
The backend sees that write under the second user's credentials. `overtaken`
records these sign-ups and `OwnQueue` excepts exactly them; nothing in the
repository says otherwise, so it is not listed as a finding.

### `MCSession` and the runs

| Run | Instance | Question |
|---|---|---|
| `session_crash` | 2 emails, 2 taps, 3 screens, 1 failure, 1 kill | accounts, images, profiles and mutation queues stay consistent; who is signed in at home is listened to |
| `session_logout` | 1 email, 2 taps, 4 screens, 1 failure | the indicator, the listeners (`Listening`) and the conversations open for nobody through profiles, a logout and a second login; every tap is answered, unless one of the named exceptions took place |

Why the bounds are enough. Two jobs are the least that overlap: two sign-ups of one or of two
emails, a sign-up and a login, a login into the account another sign-up just made. Three screens are
login, registration and one more: the second registration form, or a
profile and the login after it, in one launch. The fourth, in `session_logout`, leaves room for
login, registration, profile and login in a row, without which no job is under way across a logout. A kill starts the
count of screens anew. One failure hits any of the requests. Emails
are only compared with each other, so permuting them is a symmetry; `session_logout` checks
liveness and has one email and no symmetry, and no kill, as `Answered` excuses killed jobs.
`CHECK_DEADLOCK` is off because the taps, screens and kills are bounded, and the
system rests when they are used up.

Fairness (`session_logout`). Weak fairness of the answers and the handlers of each job, of
its write, and of the worker queue: the SDK's requests end, by an answer
or a timeout, and the two queues run what is on them. Nothing is assumed of
the user, of animations and of deallocation. A profile write whose user has signed out
waits for that user to return; `Answered` does not count that as running.

### `Session_proofs`

Proved for every value of the constants that satisfies `SessionAssumption`: `SessionTypeCorrect`,
`ProfileBackedAlways`, `OwnQueueAlways`, `NoSilentOrphanAlways`. The invariant `IInv` is `TypeOK` with `Safe`:

- `Known`: tasks, handlers and persisted writes belong to jobs that exist;
- `Owners`: an account was made by the sign-up of its number, for its email;
- `WritesBacked`: a profile write, queued or persisted, is that of an existing account with a stored image;
- `Paired`: on the worker queue a profile write follows directly the change to
  its user. `OwnQueue` speaks only of what is persisted, where the write was put by the
  worker after any number of other steps; it needs to know what the worker will do next;
- `JobOK`: what the stage of a job implies about its image, account and profile; `NoSilentOrphan` follows from it.

On top of it, with the invariant `Screens`: `HomeListensAlways`, `BusyIndicatorAlways`.

- `Heard`: the user signed in is listened to, or a job that signed that user in is on
  its way to listen or has ended without doing so. `HomeListens` speaks only of a
  session at rest and does not survive a step on its own;
- `OwnNumber`: a sign-up knows its own user, so that its reply signs in the user `Heard` looks for;
- `Covered`: what the indicator lasts over (`Lasting` of `ProgressHud_proofs`: it covers, or
  will at the end of its appearance) has a job that has not ended, or a silent one;
- `CoversLiving`, `ViewNeeded`, `Presented`: the indicator covers nothing deallocated. The end of a job
  whose form is gone dismisses nothing, and need not.

On top of both:

- `ProfileCoveredAlways`, by `Awaited`: an indicator that lasts over a profile screen, shown already or still
  appearing, has a document asked for or an answer that did not call back. `ProfileCovered` speaks only
  of an indicator that has appeared;
- `OpenForSomebodyAlways`, by `Homecoming`: a job that still runs while no form is presented was tapped before
  another one completed (`HomeAfterOne`), and only such a job can have signed in across a
  logout (`OutAfterOne`), so that its own completion is the second. It needs that a profile screen is never under
  or over a form (`Rooted`), and `Issuing`: a profile write on the worker queue is the only one of a job
  that waits for it, so that persisting it completes nothing a second time;
- `ListeningRefined`, `Spec => ImplementsListening`: each step of a job signs it in, completes it, gives it up or leaves
  it where it is, as `Listening` says.

Only model-checked: `Answered`, a liveness property.

### `Listening`

The abstract specification on which `Session` and `ConversationList` meet: who is signed in (`current`), the logins
that have signed in and have not completed (`pending`), and whose conversations are listened to (`heard`). A login signs
one user in and, later, adds at most one listener, for whoever is signed in by then; besides that only a
launch adds one, and nothing takes one away but the end of the process. That the user listened to need not be the
one who logged in is what the code does (`ConversationsController.swift:198`), and so the abstraction allows it.

| Implemented by | `pending` | `heard` |
|---|---|---|
| `Session` | jobs between signing in and completing | `listeners` |
| `ConversationList` | as many of its logins as are `signing` | the users of its listeners |

`ConversationList` leaves out the screens and requests that `Session` has, and takes for granted that its listeners are
those of logins; `Session` keeps of a listener its user only. Both are proved to implement `Listening`.

### `ProgressHud_proofs`

What `Show`, `Dismiss`, `Settled` and `Released` do to an indicator over any views: its type, the view it
covers, and that only a show makes it last over anything new, while a dismissal makes it last over nothing. The
proofs of `Session` and of `NewMessage` rest on these lemmas.

### `ConversationList`

| Variable | In the code |
|---|---|
| `recent[o][p]` | the document `messages/o/recent-messages/p` as the Firestore client shows it: the cache with the local writes over it |
| `current` | the user of `Auth.auth()` |
| `signing` | logins whose `authenticationComplete` has not run |
| `listeners` | listeners of this launch: user, whether the query is still served, the captured array `conversations`; history: partners of whom it missed a change |
| `main` | snapshots dispatched to the main queue |
| `fetching[u]` | calls of `fetchUser(withUID: u)` not answered, in order |
| `rows` | `conversationsDictionary` |
| `changes`, `signIns`, `failures`, `kills` | bounds; `changes` also numbers the changes |

| Action | In the code |
|---|---|
| `SignIn`, `SignOut` | the user of `Auth.auth()` changes |
| `AuthenticationComplete` | `fetchConversations` adds a listener for the user of now, and its first snapshot |
| `Change`, `Remove` | `View::ComputeDocumentChanges`: a document gets another message, or goes; `EventManager::OnViewSnapshots` tells each listener |
| `RejectListen` | `EventManager::OnError`: every listener of the query ends |
| `HandleSnapshot` | the listener's closure: each change is decoded and the partner's profile asked for |
| `Answer`, `Unanswered` | the completion of `fetchUser`, and the return of its `guard` |
| `Kill` | the process ends and is launched again |

The captured array only grows, and each answer writes all of it, in order, into the dictionary; so its
last entry for each partner is all that matters, and that is what a listener keeps. The array on
the screen is made from the dictionary in the same handler. A message is its two users
and the number of the change that put it into its document: an older message that
comes back (a refused or repeated write) is a change like any other. Snapshots hold one change
each, except the first of a listener, which holds the cached documents in any order; the
handler of a snapshot with several changes is the same as those of several snapshots in a row.

Fetches of one document are answered in order. That is a fact of the SDK: they
share one query, whose listeners `EventManager` serves in the order in which they were added and to which a
late one is added with the present view (`event_manager.cc:37`, `:118`, `document_reference.cc:114`),
and their handlers run on the main queue. Fetches of different documents are answered in any order.

What the rows promise is weaker than it looks. `RowsAdvance` (a row never goes back)
holds for one listener only: with a second one, after a logout and a login as the same user, TLC shows a
row going back to an older message until that listener's own fetch is answered. With two users the
rows of both are mixed, and `RowsCurrent` then only promises the latest message of one
of them. A change handled while somebody else is signed in is decoded for the wrong
partner (`Message.swift:29`); the history `missed` excepts the two rows it touches.

### `MCConversationList` and the runs

| Run | Instance | Question |
|---|---|---|
| `list` | 2 accounts, 1 more user, 3 changes, 1 login, 1 failure, 1 kill | rows catch up, with one or two listeners of one or two users, and never go back with one; the listeners are those of `Listening` |
| `list_live` | 1 account, 2 partners of whom one has no profile, 2 changes, 1 login, 1 failure, 1 kill | every conversation gets a row |

Why the bounds are enough. A login besides the user who is signed in at launch makes two
listeners, of one user or of two. Two partners are needed for an answer of one to replay
an old row of the other; three changes are two of one document with one of another in between. The users
who sign in are alike, and so are the partners with a profile: permuting either is a symmetry;
`list_live` does without. `CHECK_DEADLOCK` is off because the changes and logins are bounded.

Fairness (`list_live` only): the main queue runs, and every fetch is answered or
fails. Nothing is assumed of the user, of the backend and of `authenticationComplete`.

### `ConversationList_proofs`

Proved for every value of the constants that satisfies `ListAssumption`: `TypeCorrect`,
`RowsCurrentAlways`, `RowsAlwaysAdvance`, `ListeningRefined`. The assumption that there are finitely many users is needed
because the first snapshot of a listener lists all documents of a user, in an order.

`RowsCurrent` says nothing while anything is under way, and each answer rewrites all rows from what one
listener has accumulated. `LInv` follows each change from the document to the row:

- `Lines`: for each listener and partner, unless it missed a change, the changes in the snapshots on the
  main queue, those waiting for the partner's profile and the one accumulated last are in line: what
  is nearer to the row is older (`InLine`). It rests on `fetching` being one queue per partner. The
  document of a served listener is among them and none is newer (`Newest`), so that when all
  queues are empty the one left is the document;
- `Between`, `OnePer`: a document, and a message of a snapshot, belongs to one partner of its owner;
- `RowsFrom`: a row is the last conversation some listener has of that partner.

`RowsAdvance` follows from `InLine` alone: with one listener a row is replaced by what that listener has
accumulated, which is never older.

`ListeningRefined` (`Spec => ImplementsListening`) needs the type only: snapshots, answers and rejected queries
change what a listener has, never its user.

Only model-checked: `RowsAppear`, a liveness property.

### `ChatView`

Extends `Messaging`: the steps of the upload are those of that module, on every device, and the
chat of `viewer` with `partner` is looked at.

| Variable | In the code |
|---|---|
| `time` | the `timestamp` of each message, from the clock of its sender's device (`Service.swift:44`) |
| `known` | documents of the thread in the cache of the Firestore client |
| `adding`, `listening` | screens whose `addSnapshotListener` is on the worker queue; whose query is served |
| `events` | snapshots dispatched to the main queue |
| `shown` | the array of each screen of this launch; screens are never released, as the handler holds them |
| `open` | the screen the user sees |
| `seen`, `answers` | history: messages ever shown; what the sender of each had before it |
| `finished` | history: the messages that were over (no write and no handler left on their device) when each message was sent |

| Action | In the code |
|---|---|
| `OpenChat`, `CloseChat` | `showChatController`, `viewDidLoad`; back to the conversations |
| `SendMessage` | `handleSendMessage`, `uploadMessage` |
| `Listen` | `EventManager::AddQueryListener`: the first snapshot of a listener |
| `Watch` | the watch stream brings the thread of the backend |
| `Upload`, `Acknowledge` | the steps of `Messaging`; what they make visible is told to all listeners |
| `HandleSnapshot` | the closure of `fetchMessages` for each added document, and the completion in `ChatController` |
| `RejectListen` | the backend refuses the query; the handler ignores the error |
| `Relaunch` | the process ends and is launched again; the cache stays |

Abstractions. The handlers of all screens for one snapshot are one step, and snapshots wait in a queue
of their own, beside the completion handlers of the uploads: more interleavings than
the one main queue has. `Watch` brings the present thread, not one of the states
before it. Timestamps do not tie. Nothing is typed into the input view. Left out: a sign-out with an open
chat, what the cache evicts, changes of metadata only, the limbo resolution of the SDK, scrolling.

`NoRepeat` has an exception TLC found: a copy the backend applied, whose acknowledgement is lost and whose
repetition is refused, is told as removed (which the handler ignores, `Service.swift:69`)
and added again by the watch stream, so that it is on the screen twice.

| Run | Instance | Question |
|---|---|---|
| `chat_own` | the viewer's device, 2 sends, 2 screens, 1 kill, 1 refusal | own writes, before and after the backend has them, across screens and launches |
| `chat_reply` | 2 devices, at most 2 sends of each and 2 in all, 1 screen | the order of a conversation by two clocks; what overwriting leaves in the latest-message documents when both devices write them; every message comes to the screen |

`NeverSetBack` is what overwriting guarantees. Each device writes in the order of its queue, but nothing
orders the queues of two devices: two users who write at the same time can leave one document with the first
message and the other with the second, for good. It cannot go further back than that. Once a message
has no write left, neither document shows a message its own device sent before it, or one that was over when
it was sent; two documents that differ show messages that were under way at the same time. A
write that is sent again after its acknowledgement was lost does put an older message back, while
the message that replaces it still has a write in a queue.

Two sends, or one and its answer, are what it takes to be out of order, or to set a document back; two screens, to
compare one that grew with one opened later. `MaxTime` (`chat_reply`) gives out two timestamps, so that there are two
messages in all, of one device or one of each. In a pipeline of one write the four writes of a message still
cross those of the other device, and each can be applied, lose its acknowledgement and be sent again.
What more messages, kills and refusals do to the documents is covered by the proof. Fairness
(`chat_reply`): the main queue and the worker queue run, and the watch stream catches up.
`CHECK_DEADLOCK` is off because sends and screens are bounded.

### `ChatView_proofs`

Proved for every value of the constants that satisfies `ConstantsAssumption` and
`ChatViewAssumption`: `ChatTypeCorrect`, `ShownIsKeptAlways`, `ReopenedAlways`, `NoRepeatAlways`. Every
step of the chat is a step of the upload or leaves it alone, so that the invariants of `Messaging_proofs`
hold here too. On top of them, with `Copies` (the copy of a message is written
for its sender once, until it is refused):

- `Heard`: a listening screen has been told all that is visible, in its array or in a snapshot still on
  the main queue. `Reopened` speaks only of a screen that has handled its snapshots;
- `NotYet`: a screen whose listener is not added yet has been told nothing, so that its first snapshot repeats nothing;
- `Backing`: what is told, shown or was ever shown is `Lasting`: in the cache, waiting in the persisted
  queue, or refused. `Cached`: the cache holds nothing the backend lacks;
- `AllOnce`: a message is at one place of a screen, its array and the snapshots on their way counted
  together; or at two, if its copy was refused and has come back (`AskedAgain`). It cannot come back
  a third time: it stays in the cache from then on.

A snapshot lists its documents by time, each once. That there are finitely many of them
is part of the invariant (the messages sent are finitely many), not an assumption on the users or the devices.

`InConversationOrderAlways` has a hypothesis, `PartnerHasOneDevice`: no two devices are of the partner.
The viewer may have any number of devices. It is needed: if a message of the partner's first device is
answered on the second, which has it by the partner's own copy, the copy of the answer for the viewer can be
written before that of the message, and `InConversationOrder` is violated (TLC finds it in an instance
with two devices of the partner; `chat_reply` has one). Its invariant says that when a message
becomes visible, nothing that follows or answers it has been visible:

- `FirstsInLine`, `FirstsLast`, `StoredInLine`: the first copies wait in the queue in the order of sending,
  after all that are written, and what is not persisted yet was sent after all that is visible. `OwnThread`: the
  viewer's own messages are visible before the backend has them;
- `KnownInLine`: the cache holds of another device the messages written first;
- `AnswersLast`: what a message answers has been visible, or was refused, or precedes it in the
  queue of one device, or is in the thread by the time the message can be brought from there;
- `InOrder`: `InConversationOrder`, also of the snapshots still on the main queue.

`ChatRunsUpload` (`ChatSpec => Spec`, that of `Messaging`) carries what is proved of the upload over to the
chat. Its step lemma, that each step of the chat is one of the upload or leaves it alone, is what the invariants
above start from. `ChatDelivers` follows: the channel.

`NeverSetBackAlways` says two things of a message that is over. That its documents show it, a later one of its
device, or one of another device is `RecentUpToDate`, which comes from the upload. That what they show of another device
was not over when it was sent needs an invariant, `FInv`:

- `FinishedOver`: what was over when a message was sent is over for good;
- `FlightAbreast`: the document of a write that waits for its acknowledgement is `Abreast` of its message, it
  shows nothing that was over when that was sent; so a write that is acknowledged leaves it so;
- `AllAbreast`: of each message of this launch a document is refused, or still to be written (a handler
  waits, or the write is in the queue), or abreast. Whoever writes it next, or writes it again, does so
  for a message that is not over, and so keeps it abreast.

Only model-checked: the liveness property `Appears`.

### `SharedPhone`

`Messaging` assumes that a device belongs to one user. Here one phone has several: a `Device` of
`Messaging` is what the phone holds for one user (mutation queue, completion handlers), and
the device `nobody` is what it holds for no user.

| Variable | In the code |
|---|---|
| `current` | the user of `Auth.auth()` |
| `told` | the worker queue: users the Firestore client was told of, the first of whom it serves, each with the writes to be persisted before the next |
| `signIns`, `astray` | bound; history: messages whose handler wrote to another user's queue |

| Action | In the code |
|---|---|
| `SendMessage`, `MirrorAnywhere` | `uploadMessage`; its handler, whose writes go to the user the client was told of last |
| `SignOut`, `SignIn` | `logout`; a login |
| `Persist`, `Serve` | the worker queue and the write stream, for the user who is served |
| `ChangeUser` | `SyncEngine::HandleCredentialChange`: the mutation queue is swapped, callbacks stay under their user |
| `KillAll` | the process ends and is launched with the user of the keychain |

Abstractions. Handlers of different users may run in either order. A sign-out and the notice to the
client are one step, since nothing is sent between them. A refused write of a user
whose writes another user sent is not told apart from any other refusal.

What TLC shows is that the sender's uid, captured before the upload, and the queue of the user of now
come apart (`Service.swift:46`): no message gets lost (`NothingForgotten`), but one whose handler ran under
another user waits for that user and is overtaken; its summaries may later put an older
message back for good. `OvertakenOnlyAstray` and `RecentUnlessAstray` say that this is the only way, and
`ImplementsOwnDelivery` that the messages to which it does not happen still pass the channel `Delivery`.

| Run | Instance | Question |
|---|---|---|
| `phone` | 2 users of the phone, a partner, 2 messages, 1 sign-in, 1 kill | what still holds across queues, the channel of the messages that stay among it; messages settle, or wait for somebody who is not signed in |

A sign-in besides the user at launch is what puts a handler under another user, and brings the
first user back after a kill. Refused writes are left to `upload` and `chat_own`: they need
no second user, and the run would double. Fairness: that of
`upload`, and the worker queue comes to the next user; nobody has to sign in again.

### `SharedPhone_proofs`

Proved for every value of the constants that satisfies `ConstantsAssumption` and
`SharedPhoneAssumption`: `SharedTypeCorrect`, `NothingForgottenAlways`, `OvertakenOnlyAstrayAlways`,
`RecentUnlessAstrayAlways`, `SharedRefinement`. `SharedStep` reduces every step to one of six effects on queues and
documents (`Idles`, `Sends`, `Forwards`, `Takes`, `Applies`, `Dies`), and each invariant has one lemma
per effect. The type needs the lemmas on `Tasks`: a stay of a user that is added, served or ended
changes the count of that user's waiting writes as the persisted prefix does.

The invariants of `Messaging_proofs` do not hold here, as the queue of a user may hold messages of
another. In their place:

- `Carried`: a queue holds the messages of its user and, of others, second copies and latest-message
  writes that are astray (`Owned`); messages are numbered and only what was sent is delivered
  (`Sound`); a second copy that waits for its acknowledgement has arrived (`InFlightDelivered`), without
  which `NothingForgotten` would not survive an acknowledgement;
- `InTheirOrder`: the order of `Messaging_proofs`, among the messages of a user that never left that user's queue
  (`Mine`). A handler that runs under another user takes a message out of the order, and
  from then on it counts as astray;
- `Shown`: what follows the latest-message writes there, for the same messages. An astray write may set a
  document back at any time, and `MyShows` allows just that.

`SharedRefinement` (`SharedSpec => ImplementsOwnDelivery`) goes over the same six effects. A send is a send of the
channel; a handler that runs elsewhere takes away a message that is not delivered yet (`InTheirOrder`: its own
handler would otherwise be later than itself), a stutter; and the commit of a second copy that has not gone astray is
a delivery, in order, or a repetition. A message that went astray and arrives is none of the channel's.

TLC agreed on all three before they were proved. Only model-checked: `SettledOrAway`, a liveness property.

### `NewMessage`

| Variable | In the code |
|---|---|
| `profiles` | the collection `users` |
| `screens` | new-message screens: state of the fetch, `users`, `filteredUsers`, the text of the search bar, what the table was told to show; history: the state of the fetch at the last change of the text |
| `alive`, `open` | screens not deallocated; the one presented |
| `chatting`, `arrived` | is a chat pushed; has a conversation arrived |
| `hud` | the indicator, as in `Session` |
| `tapped`, `chats` | history: users of the rows tapped; users of the chats started |

| Action | In the code |
|---|---|
| `ShowNewMessage`, `Cancel`, `Release` | `showNewMessage`, `handleDismiss`, deallocation |
| `Answered`, `Unanswered` | the completion of `fetchUsers`, which holds the screen weakly; the return of its `guard` |
| `Search` | `updateSearchResults` |
| `Select`, `CloseChat` | `didSelectRowAt` and the delegate's method; back from the chat |
| `SignUp`, `ConversationArrives`, `Animate` | what goes on around the screen |

Users are in the order of their documents. The arrays `users` and `filteredUsers` are the sets of their
elements: both keep that order, so that a row of the table is the place of a user in the set (`Place`), and a tap on the
row of a user picks whoever the array has in that place by now. Texts are members of a set with a lower-case form; a name is the set of texts it contains. The indicator
covers the table, not the navigation bar with the search bar and the cancel button; while
it is animated, touches pass. `FoundByUsername` rests on the sign-up, which stores the
username in lower case, and does not hold of the full name: the search puts the text in lower case,
not the name. A search begun before the answer finds nobody until the text changes.

| Run | Instance | Question |
|---|---|---|
| `new_message` | 3 users, 3 texts of which two differ in case, 2 screens, 2 chats | every safety property, and that the indicator ends |

Two screens let the answer of one meet the other under the one indicator. Fairness:
a fetch is answered or fails; nothing is assumed of animations. `CHECK_DEADLOCK` is off because screens are bounded.

### `NewMessage_proofs`

Proved for every value of the constants that satisfies `NewMessageAssumption`: `NewMessageTypeCorrect`, `UncoveredAlways`,
`ChatWithTappedAlways`, `FoundByUsernameAlways`. `Uncovered` is not
inductive: an indicator that is still appearing covers nothing yet and will later, when the users have long
been there. The invariant `IInv` is `TypeOK` with

- `Loaded`: the table shows what the array behind it holds, so that the user in the place of a tapped row is the
  user of that row;
- `Searched`: a search whose text was entered among users that had arrived has its result among the users there are, which
  is what `FoundByUsername` needs: no answer arrives after it and replaces `users` only;
- `DismissalKept`: an indicator that covers, or will cover, a screen finds it without its
  users; over a screen with them the dismissal is remembered (`again`);
- `CoversLiving`: it covers no screen that is gone, whose answer would dismiss nothing;
- `ViewNeeded`: without a view it does not stay.

Only model-checked: `IndicatorEnds`, a liveness property.

### `CellImages`

| Variable | In the code |
|---|---|
| `user`, `image`, `load` | of each cell: its user, what its image view shows, the operation registered with the view |
| `loads` | operations of `SDWebImageManager`: on the disk queue, answered, in a download, ended |
| `downloads`, `byUrl` | operations of `SDWebImageDownloader` with their handlers, and `URLOperations` |
| `memory`, `disk`, `failed` | the caches and the URLs not to be tried again |
| `main` | blocks dispatched to the main queue |
| `late` | history: loads attached to a download whose handlers had been read |

| Action | In the code |
|---|---|
| `Configure`, `ConfigureEmpty`, `ConfigureKeeping` | `configure` of a cell and `sd_setImage`; without a URL `UserCell` returns early, the others clear the image |
| `Query` | the disk queue answers (`SDImageCache.m:506`) |
| `UseCached`, `Download`, `UseDownloaded` | the blocks on the main thread: the answer of the cache, the attachment to a download, its result |
| `Start`, `Receive`, `Call`, `Done`, `Sweep` | a download: started, decoded, handlers read, handlers removed, its completion block |
| `MemoryWarning` | the cache drops what no view holds |

`ChatController` configures a `MessageCell` twice in a row, without a user and with it; the two are one step. Left
out: cells that are deallocated, the limit on concurrent downloads, eviction
from the disk, a kill of the app. Storing an image in both caches is one step. So are the check whether a download has
ended (`SDWebImageDownloader.m:299`) and the attachment of a handler (321): in the code `done` can come
between the two, and the handler is then attached to an operation that has ended. It is never called, like the one
that the model attaches between the reading of the handlers and `done`.

What TLC shows: the checks of `isCancelled` on the main thread are what keeps a former user's image out of a
cell; a `UserCell` whose new user has no URL is the exception, as it neither clears the image nor cancels the load. And
a handler attached in the short time between the reading of a download's handlers and their removal is never called (Findings).

| Run | Instance | Question |
|---|---|---|
| `cells` | a `UserCell` and another cell, 2 images and a user without one, 2 loads | reused cells and shared downloads; loads end |
| `handlers_called` | 2 cells, 1 image, 2 loads | a disagreement with a comment, see Findings |

Two loads are one that is cancelled or ends, and one that shares its download or comes after; what three or more
do is covered by the proofs. Fairness (`cells`): the queues run, and a network task ends, by its timeout if by
nothing else. `CHECK_DEADLOCK` is off because loads are bounded.

### `CellImages_proofs`

Proved for every value of the constants: `CellImagesTypeCorrect`, `NoForeignImageAlways`, `OnlyLateStrandedAlways`.
The invariant is `TypeOK` with `Safe`:

- `Right`: a load that may still set an image is the one registered with its cell, for the URL of the
  cell's present user, unless that user has none and the cell kept its load;
- `BlockStage`, `BlocksDisjoint`: the loads of a block on the main queue are in the stage the block
  ends, and in no other block;
- `HandlerStage`, `HandlersDisjoint`: the handlers of a download that has not read them are in no
  block and in no other such download; once they are read, one that is left is settled, cancelled, in a block, or late;
- `Counted`: there are no more downloads than loads that had their chance of one, which
  bounds `downloads` in the type.

Only model-checked: `LoadEnds`, a liveness property.

## What stays with TLC

Every invariant, action property and refinement of a passing run is stated by a theorem. `TypeOK` of `Session`,
`ConversationList`, `NewMessage` and `CellImages` and `ChatTypeOK` held in their runs before they were proved, and are
no longer checked there. Model-checked only are
the liveness properties, which are out of the prover's reach: `EventuallySettled`, `Answered`, `RowsAppear`,
`Appears`, `SettledOrAway`, `IndicatorEnds`, `LoadEnds`. The two violations under Findings are TLC's as well.
`InConversationOrder` is proved for a partner with one device only, and is false otherwise (`ChatView_proofs`).

## Findings

`recent_for_both`: the comment at `API/Service.swift:49` says the handler "creates a new
data structure in firebase for both receiving and sending users". The two calls
are independent writes issued from a handler that does not survive the app; a kill
between their persistence leaves one user without a conversation row for a message
both threads hold, and nothing repairs it later.

`handlers_called`: the comment at `Pods/SDWebImage/SDWebImage/SDWebImageDownloader.m:318` justifies
a lock for attaching a handler to a running download, "to ensure the thread safe between these two classes". The end of a
download takes its handlers without that lock, in two steps.

## Not modelled

See `PROJECT.json`, `components`. Layout, styling and view models without state; start-up code; the header of the
profile screen; the alerts. Of what `Models and view models` hold, only the decoding of a message's
direction matters to a property, and is in `ConversationList`. The vendored pods are nearly all of the repository's lines
(Firebase, gRPC, BoringSSL, leveldb, SDWebImage, JGProgressHUD: some 3000 of the 3017 source files, so
that the modules map a small share of the repository and most of the app). They are modelled where
the app's promises rest on them: the write path and the listeners of the Firestore
client, the account requests of Auth, the indicator, the image loader. The rest of
them, cryptography, transport, storage engines, has no bearing on these promises
beyond what the actions above assume of it. Security rules of the backend appear only as refusals.
