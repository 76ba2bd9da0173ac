------------------------------- MODULE Session -------------------------------
(***************************************************************************)
(* Sign-up, login, logout and the profile screen on one installation of    *)
(* ChipChat (API/AuthService.swift and the controllers that call it).      *)
(*                                                                         *)
(* A sign-up uploads the profile image, asks for its URL, makes the        *)
(* account, which also signs it in, and writes the profile document: four  *)
(* requests, each issued from the completion handler of the one before.    *)
(* The profile document goes through the mutation queue of the Firestore   *)
(* client, of which there is one per user; the client starts at its first  *)
(* use, with the user who is signed in then.                               *)
(*                                                                         *)
(* A job is one tap on Sign Up or Log In; the account a sign-up makes has  *)
(* the number of its job.  What the form holds besides the email, and      *)
(* taps on a form that is not filled in, are left out.                     *)
(***************************************************************************)
EXTENDS Integers, Sequences, FiniteSets, ProgressHud

CONSTANTS
  Email,
  MaxJobs,      \* bound: taps on Sign Up and Log In
  MaxForms,     \* bound: screens presented in one launch
  MaxFailures,  \* bound: requests that fail for no reason in the model
  MaxKills      \* bound: kills of the app

ASSUME SessionAssumption ==
  /\ MaxJobs \in Nat
  /\ MaxForms \in Nat \ {0}
  /\ MaxFailures \in Nat
  /\ MaxKills \in Nat
  /\ NoView \notin Nat

Job == 1..MaxJobs

NoUser == 0
User   == 0..MaxJobs      \* NoUser: nobody is signed in

Home == 0                 \* the view of ConversationsController
Form == 1..MaxForms       \* the screens presented over it, in order
View == 0..MaxForms

FormKind == {"login", "registration", "profile"}

\* Stages of a job.  In those of Dispatched its completion handler is waiting
\* on the main queue.
Dispatched == {"uploaded", "located", "signedIn", "confirmed", "failing"}
Running    == Dispatched \cup
                {"uploading", "locating", "creating", "created", "checking", "issued", "stored"}
Stage      == Running \cup {"done", "failed", "silent", "unheard", "lost"}

JobRecord == [kind : {"signUp", "logIn"}, email : Email, form : Form,
              user : User, stage : Stage]

Task == [does : {"user"}, user : User] \cup [does : {"write"}, user : Job]

VARIABLES
  accounts,   \* server: the account of each email, or NoUser
  images,     \* server: jobs whose profile image is stored
  profiles,   \* server: accounts with a profile document
  current,    \* keychain: the user signed in
  persisted,  \* disk: <<user, account>>, profile writes in the mutation queue of a user
  jobs,       \* the taps so far
  main,       \* main queue: jobs whose handler waits, or NoUser for a sign-out notice
  worker,     \* tasks of the Firestore worker queue
  queueUser,  \* user whose mutation queue the Firestore client works on
  started,    \* has the Firestore client been used in this launch?
  overtaken,  \* history: sign-ups whose handler started it for another user
  forms,      \* kinds of the screens made in this launch
  alive,      \* screens not deallocated
  open,       \* screens presented over the conversations, the top one last
  asking,     \* profile screens waiting for the document of a user
  unanswered, \* history: profile screens alive that were not called back
  listeners,  \* users whose conversations are listened to
  hud,        \* the progress indicator
  failures, kills  \* bounds

server == <<accounts, images, profiles>>
disk   == <<current, persisted>>
client == <<worker, queueUser, started, overtaken>>
queues == <<main, client>>
screen == <<forms, alive, open, asking, unanswered, listeners, hud>>
bounds == <<failures, kills>>
vars   == <<server, disk, jobs, queues, screen, bounds>>

-----------------------------------------------------------------------------
(* Launching the app: ConversationsController.viewDidLoad.                 *)

\* authenticateUser presents the login screen when nobody is signed in.
LaunchForms(user) == IF user = NoUser THEN <<"login">> ELSE << >>

LaunchOpen(user) == IF user = NoUser THEN <<1>> ELSE << >>

\* fetchConversations shows the indicator before it finds out that nobody is
\* signed in, and then returns.
LaunchHud             == Show(Hidden, Home)

LaunchListeners(user) == {user} \ {NoUser}

Init ==
  /\ accounts = [e \in Email |-> NoUser]
  /\ images = {}
  /\ profiles = {}
  /\ current = NoUser
  /\ persisted = {}
  /\ jobs = << >>
  /\ main = << >>
  /\ worker = << >>
  /\ queueUser = NoUser
  /\ started = FALSE
  /\ overtaken = {}
  /\ forms = LaunchForms(NoUser)
  /\ alive = {1}
  /\ open = LaunchOpen(NoUser)
  /\ asking = {}
  /\ unanswered = {}
  /\ listeners = LaunchListeners(NoUser)
  /\ hud = LaunchHud
  /\ failures = 0
  /\ kills = 0

-----------------------------------------------------------------------------
(* What handlers do to the screens.                                        *)

Top == open[Len(open)]

\* The top screen is of this kind and takes touches.
Shows(kind) == /\ open # << >>
               /\ forms[Top] = kind
               /\ ~ Blocks(hud, Top)

\* A new screen over those in under.
Present(kind, under) ==
  /\ Len(forms) < MaxForms
  /\ forms' = Append(forms, kind)
  /\ alive' = alive \cup {Len(forms) + 1}
  /\ open' = Append(under, Len(forms) + 1)

\* Mutant: the conversations of the new user are not fetched.
AuthenticationCompleteUnheard ==
  /\ open' = << >>
  /\ hud' = Show(Dismiss(hud), Home)
  /\ UNCHANGED <<forms, alive, asking, unanswered, listeners>>

\* Mutant: the conversations are fetched also for nobody.
AuthenticationCompleteAnyway ==
  /\ open' = << >>
  /\ listeners' = listeners \cup {current}
  /\ hud' = Show(Dismiss(hud), Home)
  /\ UNCHANGED <<forms, alive, asking, unanswered>>

\* authenticationComplete, after the form has dismissed the indicator.
AuthenticationComplete ==
  /\ open' = << >>
  /\ listeners' = listeners \cup ({current} \ {NoUser})
  /\ hud' = Show(Dismiss(hud), Home)
  /\ UNCHANGED <<forms, alive, asking, unanswered>>

\* Job j goes on to the given stage, its handler dispatched to the main queue
\* if that is a stage of Dispatched.
Proceed(j, stage) ==
  /\ jobs' = [jobs EXCEPT ![j].stage = stage]
  /\ main' = IF stage \in Dispatched THEN Append(main, j) ELSE main

\* A request fails.
Fail(j, stage) ==
  /\ failures < MaxFailures
  /\ failures' = failures + 1
  /\ Proceed(j, stage)

\* The handler of job j, now at the head of the main queue, runs.
Handles(j, kind, stage, next) ==
  /\ main # << >>
  /\ Head(main) = j
  /\ j # NoUser
  /\ jobs[j].kind \in kind
  /\ jobs[j].stage = stage
  /\ jobs' = [jobs EXCEPT ![j].stage = next]
  /\ main' = Tail(main)

-----------------------------------------------------------------------------
(* The user.                                                               *)

Tap(kind, e, stage) ==
  /\ Len(jobs) < MaxJobs
  /\ jobs' = Append(jobs, [kind |-> kind, email |-> e, form |-> Top,
                           user |-> IF kind = "signUp" THEN Len(jobs) + 1 ELSE NoUser,
                           stage |-> stage])
  /\ hud' = Show(hud, Top)
  /\ UNCHANGED <<server, disk, queues, forms, alive, open, asking, unanswered, listeners, bounds>>

\* handleSignUpPressed.  A photo that cannot be encoded ends the sign-up
\* without a word.
SignUp(e) == /\ Shows("registration")
             /\ \E stage \in {"uploading", "silent"} : Tap("signUp", e, stage)

\* handleLoginPressed.
LogIn(e) == Shows("login") /\ Tap("logIn", e, "checking")

\* handleShowSignUp pushes a new form, handleShowLogin pops it.
ShowSignUp ==
  /\ Shows("login")
  /\ Present("registration", open)
  /\ UNCHANGED <<server, disk, jobs, queues, asking, unanswered, listeners, hud, bounds>>

ShowLogin ==
  /\ Shows("registration")
  /\ open' = SubSeq(open, 1, Len(open) - 1)
  /\ UNCHANGED <<server, disk, jobs, queues, forms, alive, asking, unanswered, listeners, hud, bounds>>

\* showProfile; the new screen's viewDidLoad asks for the user's document.  By then
\* the Firestore client has been started.
ShowProfile ==
  /\ open = << >>
  /\ Present("profile", << >>)
  /\ IF current = NoUser
     THEN UNCHANGED <<asking, hud>>
     ELSE /\ asking' = asking \cup {<<Len(forms) + 1, current>>}
          /\ hud' = Show(hud, Len(forms) + 1)
  /\ UNCHANGED <<server, disk, jobs, queues, unanswered, listeners, bounds>>

\* The profile screen is closed, or a logout fails.
CloseProfile ==
  /\ Shows("profile")
  /\ open' = << >>
  /\ UNCHANGED <<server, disk, jobs, queues, forms, alive, asking, unanswered, listeners, hud, bounds>>

\* Mutant: the login screen is not presented.
LogoutInPlace ==
  /\ Shows("profile")
  /\ current' = NoUser
  /\ main' = IF current = NoUser THEN main ELSE Append(main, NoUser)
  /\ UNCHANGED <<server, persisted, jobs, client, screen, bounds>>

\* handleLogout: the listeners stay.
Logout ==
  /\ Shows("profile")
  /\ current' = NoUser
  /\ main' = IF current = NoUser THEN main ELSE Append(main, NoUser)
  /\ Present("login", << >>)
  /\ UNCHANGED <<server, persisted, jobs, client, asking, unanswered, listeners, hud, bounds>>

-----------------------------------------------------------------------------
(* Requests that are answered.                                             *)

\* Mutant: the error of the upload is ignored.
UploadReplyAnyway(j) ==
  /\ jobs[j].stage = "uploading"
  /\ \/ /\ images' = images \cup {j}
        /\ Proceed(j, "uploaded")
        /\ UNCHANGED failures
     \/ /\ Fail(j, "uploaded")
        /\ UNCHANGED images
  /\ UNCHANGED <<accounts, profiles, disk, client, screen, kills>>

\* The image is stored, or the upload fails.
UploadReply(j) ==
  /\ jobs[j].stage = "uploading"
  /\ \/ /\ images' = images \cup {j}
        /\ Proceed(j, "uploaded")
        /\ UNCHANGED failures
     \/ /\ Fail(j, "failing")
        /\ UNCHANGED images
  /\ UNCHANGED <<accounts, profiles, disk, client, screen, kills>>

\* Without a URL the handler returns and nothing else happens.
URLReply(j) ==
  /\ jobs[j].stage = "locating"
  /\ \/ Proceed(j, "located") /\ UNCHANGED failures
     \/ Fail(j, "silent")
  /\ UNCHANGED <<server, disk, client, screen, kills>>

\* The server makes the account, unless the email has one.
CreateAccount(j) ==
  /\ jobs[j].stage = "creating"
  /\ \/ /\ accounts[jobs[j].email] = NoUser
        /\ accounts' = [accounts EXCEPT ![jobs[j].email] = j]
        /\ Proceed(j, "created")
        /\ UNCHANGED failures
     \/ /\ accounts[jobs[j].email] # NoUser
        /\ Proceed(j, "failing")
        /\ UNCHANGED <<accounts, failures>>
     \/ /\ Fail(j, "failing")
        /\ UNCHANGED accounts
  /\ UNCHANGED <<images, profiles, disk, client, screen, kills>>

\* The device learns of its account, asks for the account data and signs in: a
\* failure of that request leaves the account behind.
AccountReply(j) ==
  /\ jobs[j].stage = "created"
  /\ \/ current' = j /\ Proceed(j, "signedIn") /\ UNCHANGED failures
     \/ Fail(j, "failing") /\ UNCHANGED current
  /\ UNCHANGED <<server, persisted, client, screen, kills>>

LogInReply(j) ==
  /\ jobs[j].stage = "checking"
  /\ LET user == accounts[jobs[j].email] IN
     \/ /\ user # NoUser
        /\ current' = user
        /\ jobs' = [jobs EXCEPT ![j].stage = "signedIn", ![j].user = user]
        /\ main' = Append(main, j)
        /\ UNCHANGED failures
     \/ user = NoUser /\ Proceed(j, "failing") /\ UNCHANGED <<current, failures>>
     \/ Fail(j, "failing") /\ UNCHANGED current
  /\ UNCHANGED <<server, persisted, client, screen, kills>>

-----------------------------------------------------------------------------
(* Completion handlers, on the main queue.                                 *)

\* The image is stored: ask for its URL.
Uploaded(j) ==
  /\ Handles(j, {"signUp"}, "uploaded", "locating")
  /\ UNCHANGED <<server, disk, client, screen, bounds>>

\* The URL is known: make the account.
Located(j) ==
  /\ Handles(j, {"signUp"}, "located", "creating")
  /\ UNCHANGED <<server, disk, client, screen, bounds>>

UserTask(user) == [does |-> "user", user |-> user]
WriteTask(user) == [does |-> "write", user |-> user]

\* The Firestore client hears that the user has changed, if it was started.
Hear(user) == IF started THEN Append(worker, UserTask(user)) ELSE worker

\* Mutant: the profile document is written before the Firestore client has heard
\* of the new user.
SignedUpUnheard(j) ==
  /\ Handles(j, {"signUp"}, "signedIn", "issued")
  /\ LET user == IF started THEN j ELSE current IN
     /\ worker' = worker \o <<WriteTask(j), UserTask(user)>>
     /\ overtaken' = IF user = j THEN overtaken ELSE overtaken \cup {j}
  /\ started' = TRUE
  /\ UNCHANGED <<server, disk, queueUser, screen, bounds>>

\* The account is signed in: the Firestore client hears of it, then the profile
\* document is written.  If this is the first use of the client, it starts now,
\* with the user who is signed in by now.
SignedUp(j) ==
  /\ Handles(j, {"signUp"}, "signedIn", "issued")
  /\ LET user == IF started THEN j ELSE current IN
     /\ worker' = worker \o <<UserTask(user), WriteTask(j)>>
     /\ overtaken' = IF user = j THEN overtaken ELSE overtaken \cup {j}
  /\ started' = TRUE
  /\ UNCHANGED <<server, disk, queueUser, screen, bounds>>

\* The profile document is stored: the sign-up is complete.
Confirmed(j) ==
  /\ Handles(j, {"signUp"}, "confirmed", "done")
  /\ AuthenticationComplete
  /\ UNCHANGED <<server, disk, client, bounds>>

\* A login is signed in: the conversations are fetched, which starts the Firestore
\* client.  The handler holds the form weakly: if the form is gone, the user has
\* changed and no screen hears of it.
SignedIn(j) ==
  /\ \/ /\ jobs[j].form \in alive
        /\ Handles(j, {"logIn"}, "signedIn", "done")
        /\ AuthenticationComplete
        /\ worker' = IF started \/ current = NoUser
                     THEN Hear(jobs[j].user) ELSE Append(worker, UserTask(current))
        /\ started' = (started \/ current # NoUser)
     \/ /\ jobs[j].form \notin alive
        /\ Handles(j, {"logIn"}, "signedIn", "unheard")
        /\ worker' = Hear(jobs[j].user)
        /\ UNCHANGED <<screen, started>>
  /\ UNCHANGED <<server, disk, queueUser, overtaken, bounds>>

\* Mutant: the error is shown under the indicator.
FailedCovered(j) ==
  /\ Handles(j, {"signUp", "logIn"}, "failing", "failed")
  /\ UNCHANGED <<server, disk, client, screen, bounds>>

\* A sign-up or a login has failed: the form shows the error.
Failed(j) ==
  /\ Handles(j, {"signUp", "logIn"}, "failing", "failed")
  /\ hud' = IF jobs[j].form \in alive THEN Dismiss(hud) ELSE hud
  /\ UNCHANGED <<server, disk, client, forms, alive, open, asking, unanswered, listeners, bounds>>

\* The Firestore client hears of the sign-out.
SignedOut ==
  /\ main # << >>
  /\ Head(main) = NoUser
  /\ main' = Tail(main)
  /\ worker' = Hear(NoUser)
  /\ UNCHANGED <<server, disk, jobs, queueUser, started, overtaken, screen, bounds>>

-----------------------------------------------------------------------------
(* The Firestore client.                                                   *)

\* Mutant: a change of the user drops the writes of the others.
RunTaskDropping ==
  /\ worker # << >>
  /\ worker' = Tail(worker)
  /\ LET task == Head(worker) IN
     \/ /\ task.does = "user"
        /\ queueUser' = task.user
        /\ persisted' = {w \in persisted : w[1] = task.user}
        /\ UNCHANGED jobs
     \/ /\ task.does = "write"
        /\ persisted' = persisted \cup {<<queueUser, task.user>>}
        /\ jobs' = [jobs EXCEPT ![task.user].stage = "stored"]
        /\ UNCHANGED queueUser
  /\ UNCHANGED <<server, current, main, started, overtaken, screen, bounds>>

\* The worker queue: change to the mutation queue of another user, or persist
\* a profile write in the present one.
RunTask ==
  /\ worker # << >>
  /\ worker' = Tail(worker)
  /\ LET task == Head(worker) IN
     \/ /\ task.does = "user"
        /\ queueUser' = task.user
        /\ UNCHANGED <<persisted, jobs>>
     \/ /\ task.does = "write"
        /\ persisted' = persisted \cup {<<queueUser, task.user>>}
        /\ jobs' = [jobs EXCEPT ![task.user].stage = "stored"]
        /\ UNCHANGED queueUser
  /\ UNCHANGED <<server, current, main, started, overtaken, screen, bounds>>

\* The backend applies a profile write of the present queue.
Commit(j) ==
  /\ <<queueUser, j>> \in persisted
  /\ j \notin profiles
  /\ profiles' = profiles \cup {j}
  /\ UNCHANGED <<accounts, images, disk, jobs, queues, screen, bounds>>

\* Mutant: the handler is not called.
SettleMute(j, stage) ==
  /\ persisted' = persisted \ {<<queueUser, j>>}
  /\ UNCHANGED <<jobs, main>>
  /\ UNCHANGED <<server, current, client, screen, kills>>

\* The write leaves the queue; its handler is dispatched if it is of this launch.
Settle(j, stage) ==
  /\ persisted' = persisted \ {<<queueUser, j>>}
  /\ IF jobs[j].stage = "stored" THEN Proceed(j, stage) ELSE UNCHANGED <<jobs, main>>
  /\ UNCHANGED <<server, current, client, screen, kills>>

Ack(j) ==
  /\ <<queueUser, j>> \in persisted
  /\ j \in profiles
  /\ Settle(j, "confirmed")
  /\ UNCHANGED failures

Refuse(j) ==
  /\ <<queueUser, j>> \in persisted
  /\ j \notin profiles
  /\ failures < MaxFailures
  /\ failures' = failures + 1
  /\ Settle(j, "failing")

\* The document of the user is there, on the server or in the queue of that user.
Found(user) == user \in profiles \/ <<queueUser, user>> \in persisted

\* Mutant: the indicator is dismissed only if it is there already.
ProfileReplyEarly(f, user) ==
  /\ <<f, user>> \in asking
  /\ asking' = asking \ {<<f, user>>}
  /\ \/ /\ Found(user)
        /\ hud' = IF Moving(hud) THEN hud ELSE Dismiss(hud)
        /\ UNCHANGED <<unanswered, failures>>
     \/ /\ \/ ~ Found(user) /\ UNCHANGED failures
           \/ failures < MaxFailures /\ failures' = failures + 1
        /\ unanswered' = unanswered \cup {f}
        /\ UNCHANGED hud
  /\ UNCHANGED <<server, disk, jobs, queues, forms, alive, open, listeners, kills>>

\* The answer to a profile screen: it is called back only if there is a document.
ProfileReply(f, user) ==
  /\ <<f, user>> \in asking
  /\ asking' = asking \ {<<f, user>>}
  /\ \/ /\ Found(user)
        /\ hud' = Dismiss(hud)
        /\ UNCHANGED <<unanswered, failures>>
     \/ /\ \/ ~ Found(user) /\ UNCHANGED failures
           \/ failures < MaxFailures /\ failures' = failures + 1
        /\ unanswered' = unanswered \cup {f}
        /\ UNCHANGED hud
  /\ UNCHANGED <<server, disk, jobs, queues, forms, alive, open, listeners, kills>>

\* A conversation arrives at some listener.
ConversationArrives ==
  /\ listeners # {}
  /\ hud' = Dismiss(hud)
  /\ UNCHANGED <<server, disk, jobs, queues, forms, alive, open, asking, unanswered, listeners, bounds>>

-----------------------------------------------------------------------------
(* The system.                                                             *)

\* An animation of the indicator ends.
Animate ==
  /\ Moving(hud)
  /\ hud' = Settled(hud)
  /\ UNCHANGED <<server, disk, jobs, queues, forms, alive, open, asking, unanswered, listeners, bounds>>

\* A screen no longer presented is deallocated, once no closure holds it: the
\* handlers of a sign-up and of a profile do, that of a login does not.
Release(f) ==
  /\ f \in alive
  /\ \A i \in 1..Len(open) : open[i] # f
  /\ \A j \in 1..Len(jobs) :
       ~ (jobs[j].form = f /\ jobs[j].kind = "signUp" /\ jobs[j].stage \in Running)
  /\ \A user \in User : <<f, user>> \notin asking
  /\ alive' = alive \ {f}
  /\ unanswered' = unanswered \ {f}
  /\ hud' = Released(hud, f)
  /\ UNCHANGED <<server, disk, jobs, queues, forms, open, asking, listeners, bounds>>

\* The app is killed and launched again: a user who is signed in has the Firestore
\* client started for the conversations.
Kill ==
  /\ kills < MaxKills
  /\ kills' = kills + 1
  /\ jobs' = [j \in 1..Len(jobs) |->
                IF jobs[j].stage \in Running THEN [jobs[j] EXCEPT !.stage = "lost"] ELSE jobs[j]]
  /\ main' = << >>
  /\ worker' = << >>
  /\ queueUser' = current
  /\ started' = (current # NoUser)
  /\ forms' = LaunchForms(current)
  /\ alive' = 1..Len(LaunchForms(current))
  /\ open' = LaunchOpen(current)
  /\ asking' = {}
  /\ unanswered' = {}
  /\ listeners' = LaunchListeners(current)
  /\ hud' = LaunchHud
  /\ UNCHANGED <<server, disk, overtaken, failures>>

-----------------------------------------------------------------------------
\* A request of job j is answered; its handler runs; its profile write is settled.
Reply(j) ==
  UploadReply(j) \/ URLReply(j) \/ CreateAccount(j) \/ AccountReply(j) \/ LogInReply(j)

Handler(j) ==
  Uploaded(j) \/ Located(j) \/ SignedUp(j) \/ Confirmed(j) \/ SignedIn(j) \/ Failed(j)

Write(j) == Commit(j) \/ Ack(j) \/ Refuse(j)

Next ==
  \/ \E e \in Email : SignUp(e) \/ LogIn(e)
  \/ ShowSignUp \/ ShowLogin \/ ShowProfile \/ CloseProfile \/ Logout
  \/ \E j \in 1..Len(jobs) : Reply(j) \/ Handler(j) \/ Write(j)
  \/ SignedOut \/ RunTask
  \/ \E f \in Form, user \in User : ProfileReply(f, user)
  \/ \E f \in Form : Release(f)
  \/ ConversationArrives \/ Animate \/ Kill

Spec == Init /\ [][Next]_vars

\* Every request is answered, and the two queues run what is put on them.
\* Nothing is assumed of the user, of animations or of deallocation.
Fairness ==
  /\ \A j \in Job : /\ WF_vars(j <= Len(jobs) /\ Reply(j))
                    /\ WF_vars(j <= Len(jobs) /\ Handler(j))
                    /\ WF_vars(j <= Len(jobs) /\ Write(j))
  /\ WF_vars(SignedOut)
  /\ WF_vars(RunTask)

FairSpec == Spec /\ Fairness

-----------------------------------------------------------------------------
(* Properties.                                                             *)

\* Every variable has its type; the screens open and alive are screens made in
\* this launch.
TypeOK ==
  /\ accounts \in [Email -> User]
  /\ images \in SUBSET Job
  /\ profiles \in SUBSET Job
  /\ current \in User
  /\ persisted \in SUBSET (User \X Job)
  /\ jobs \in Seq(JobRecord) /\ Len(jobs) <= MaxJobs
  /\ main \in Seq(User)
  /\ worker \in Seq(Task)
  /\ queueUser \in User
  /\ started \in BOOLEAN
  /\ overtaken \in SUBSET Job
  /\ forms \in Seq(FormKind) /\ Len(forms) <= MaxForms
  /\ alive \in SUBSET (1..Len(forms))
  /\ open \in Seq(1..Len(forms))
  /\ asking \in SUBSET (Form \X User)
  /\ unanswered \in SUBSET Form
  /\ listeners \in SUBSET User
  /\ hud \in Indicator(View)
  /\ failures \in 0..MaxFailures
  /\ kills \in 0..MaxKills

\* A profile document belongs to an account that exists and points to an image
\* that is stored, whatever requests of other sign-ups, failures and kills come
\* between the four requests of createUser (AuthService.swift).
ProfileBacked ==
  \A u \in profiles : u \in images /\ \E e \in Email : accounts[e] = u

\* The profile write of account u is in some mutation queue on disk.
Pending(u) == \E w \in persisted : w[2] = u

\* An account without a profile document is either still being completed, in
\* this launch or from the queue on disk, or its sign-up failed with an error
\* shown to the user, or the app was killed before the document was persisted.
\* No change of the user and no other sign-up makes one; in particular
\* authenticationComplete never runs for a sign-up without a profile.
NoSilentOrphan ==
  \A e \in Email : LET u == accounts[e] IN
    u # NoUser /\ u \notin profiles =>
      \/ Pending(u)
      \/ jobs[u].stage \in {"created", "signedIn", "issued", "failing", "failed", "lost"}

\* The profile document of an account is only ever in the mutation queue of that
\* account, although sign-ups, logins and logouts overlap: createUser's handler
\* issues it after the client has heard of the new user, and before it can hear
\* of another one.  The exception is a sign-up whose handler starts the client
\* when another user has signed in already.
OwnQueue == \A w \in persisted : w[1] = w[2] \/ w[2] \in overtaken

\* The indicator covers a login or sign-up form only while a job of that form is
\* running, or after a sign-up was dropped without calling its completion
\* (AuthService.swift:30 and :42): a form with an error to show, or with nothing
\* to wait for, takes touches.
BusyIndicator ==
  \A f \in 1..Len(forms) :
    forms[f] \in {"login", "registration"} /\ Blocks(hud, f) =>
      \E j \in 1..Len(jobs) : jobs[j].form = f /\ jobs[j].stage \in Running \cup {"silent"}

\* When nothing is running and the conversations are on the screen, they are
\* those of the signed-in user, except after a login that outlived its form, or a
\* sign-up that signed in and then failed.
HomeListens ==
  /\ current # NoUser
  /\ open = << >>
  /\ \A j \in 1..Len(jobs) : jobs[j].stage \notin Running
  => \/ current \in listeners
     \/ \E j \in 1..Len(jobs) :
          jobs[j].user = current /\ jobs[j].stage \in {"unheard", "failed"}

\* Neither login nor sign-up is presented, but at most a profile.
AtHome == \A i \in 1..Len(open) : forms[open[i]] = "profile"

\* Two jobs, at least, were completed.
TwoDone ==
  \E j, k \in 1..Len(jobs) : j # k /\ jobs[j].stage = "done" /\ jobs[k].stage = "done"

\* The conversations are open with nobody signed in only after two completions: that of
\* a sign-up or login which was under way across a logout closes the login
\* screen (ConversationsController.swift:198).  With one sign-up or login at a time, and
\* after any launch, the login screen is there.
OpenForSomebody == current = NoUser /\ AtHome => TwoDone

\* The indicator covers a profile screen, on which the logout is, only while its
\* document is asked for, or if it was not called back (ProfileController.swift:54):
\* an answer ends it also while it appears, and whatever else shows or
\* dismisses it.
ProfileCovered ==
  \A f \in 1..Len(forms) :
    forms[f] = "profile" /\ Blocks(hud, f) =>
      f \in unanswered \/ \E user \in User : <<f, user>> \in asking

\* Job j runs, and its profile write is not in the queue of a user who is gone.
Waiting(j) ==
  /\ j <= Len(jobs)
  /\ jobs[j].stage \in Running
  /\ jobs[j].stage = "stored" => \A w \in persisted : w[2] = j => w[1] = queueUser

\* Every tap on Sign Up or Log In comes to an end: the completion handler runs,
\* or it is dropped at one of the silent returns, or the app is killed, or
\* another user has signed in and the profile write waits for its user to come
\* back.
Answered == \A j \in Job : Waiting(j) ~> ~ Waiting(j)

\* Jobs that have signed their user in and are to complete.
Completing ==
  {j \in 1..Len(jobs) : jobs[j].stage \in {"signedIn", "issued", "stored", "confirmed"}}

\* The sign-ups and logins, without their requests and screens.
Listeners == INSTANCE Listening WITH
  Account <- Job, Login <- Job, pending <- Completing, heard <- listeners

\* A sign-up or login signs one user in and adds at most one listener, for whoever
\* is signed in when it completes, however the jobs overlap; this is what
\* ConversationList takes for granted of its logins.
ImplementsListening == Listeners!Spec
=============================================================================
