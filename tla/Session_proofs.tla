--------------------------- MODULE Session_proofs ---------------------------
(***************************************************************************)
(* Machine-checked proofs about Session, for every value of its constants. *)
(***************************************************************************)
EXTENDS Session, ProgressHud_proofs, SequenceTheorems

-----------------------------------------------------------------------------
(* Jobs and screens.                                                       *)

LEMMA LaunchHudType == LaunchHud \in Indicator(View)
BY SessionAssumption DEF LaunchHud, Show, Hidden, Moving, Indicator, Phase, View, Home

\* Every stage a job is put into is a stage.
LEMMA Stages ==
  {"uploading", "uploaded", "locating", "located", "creating", "created", "checking",
   "signedIn", "issued", "stored", "confirmed", "failing", "done", "failed",
   "silent", "unheard", "lost"} = Stage
BY DEF Stage, Running, Dispatched

\* Replacing one job changes nothing else.
LEMMA JobChange ==
  ASSUME NEW js \in Seq(JobRecord), NEW j \in 1..Len(js), NEW r \in JobRecord
  PROVE  /\ [js EXCEPT ![j] = r] \in Seq(JobRecord)
         /\ Len([js EXCEPT ![j] = r]) = Len(js)
         /\ \A i \in 1..Len(js) : [js EXCEPT ![j] = r][i] = IF i = j THEN r ELSE js[i]
<1> DEFINE new == [js EXCEPT ![j] = r]
<1>1. js \in [1..Len(js) -> JobRecord] /\ Len(js) \in Nat
  BY LenProperties
<1>2. new \in [1..Len(js) -> JobRecord]
  BY <1>1
<1>3. \A i \in 1..Len(js) : new[i] = IF i = j THEN r ELSE js[i]
  BY <1>1
<1> HIDE DEF new
<1>4. new \in Seq(JobRecord) /\ Len(new) = Len(js)
  BY <1>1, <1>2, IsASeq, LenProperties
<1> USE DEF new
<1> QED  BY <1>3, <1>4

\* Two lists of jobs that differ in the stage of job j only.
Restaged(old, new, j, stage) ==
  /\ new \in Seq(JobRecord)
  /\ Len(new) = Len(old)
  /\ new[j].stage = stage
  /\ \A i \in 1..Len(old) :
       /\ i # j => new[i] = old[i]
       /\ new[i].kind = old[i].kind /\ new[i].email = old[i].email

\* Changing the stage of one job changes nothing else.
LEMMA StageChange ==
  ASSUME NEW js \in Seq(JobRecord), NEW j \in 1..Len(js), NEW stage \in Stage
  PROVE  Restaged(js, [js EXCEPT ![j].stage = stage], j, stage)
<1> DEFINE r == [js[j] EXCEPT !.stage = stage]
<1>1. js \in [1..Len(js) -> JobRecord] /\ js[j] \in JobRecord
  BY LenProperties, ElementOfSeq
<1>2. r \in JobRecord
  BY <1>1 DEF JobRecord
<1>3. [js EXCEPT ![j].stage = stage] = [js EXCEPT ![j] = r]
  BY <1>1
<1>4. r.stage = stage /\ r.kind = js[j].kind /\ r.email = js[j].email
  BY <1>1 DEF JobRecord
<1> HIDE DEF r
<1>5. Restaged(js, [js EXCEPT ![j] = r], j, stage)
  BY <1>2, <1>4, JobChange DEF Restaged
<1> QED  BY <1>3, <1>5

\* A login that finds its account learns its user.
LEMMA FoundChange ==
  ASSUME NEW js \in Seq(JobRecord), NEW j \in 1..Len(js), NEW user \in User
  PROVE  Restaged(js, [js EXCEPT ![j].stage = "signedIn", ![j].user = user], j, "signedIn")
<1> DEFINE r == [js[j] EXCEPT !.stage = "signedIn", !.user = user]
<1>1. js \in [1..Len(js) -> JobRecord] /\ js[j] \in JobRecord
  BY LenProperties, ElementOfSeq
<1>2. r \in JobRecord
  BY <1>1, Stages DEF JobRecord
<1>3. [js EXCEPT ![j].stage = "signedIn", ![j].user = user] = [js EXCEPT ![j] = r]
  BY <1>1
<1>4. r.stage = "signedIn" /\ r.kind = js[j].kind /\ r.email = js[j].email
  BY <1>1 DEF JobRecord
<1> HIDE DEF r
<1>5. Restaged(js, [js EXCEPT ![j] = r], j, "signedIn")
  BY <1>2, <1>4, JobChange DEF Restaged
<1> QED  BY <1>3, <1>5

\* The job that comes next on the main queue or on the worker queue is a job.
LEMMA JobType ==
  ASSUME TypeOK, NEW j \in 1..Len(jobs)
  PROVE  jobs[j] \in JobRecord /\ j \in Job /\ j \in User
<1>1. jobs[j] \in JobRecord
  BY ElementOfSeq DEF TypeOK
<1>2. Len(jobs) \in Nat /\ MaxJobs \in Nat /\ Len(jobs) <= MaxJobs
  BY SessionAssumption, LenProperties DEF TypeOK
<1> QED  BY <1>1, <1>2 DEF Job, User

\* A job that proceeds.
LEMMA ProceedType ==
  ASSUME TypeOK, NEW j \in 1..Len(jobs), NEW stage \in Stage, Proceed(j, stage)
  PROVE  /\ Restaged(jobs, jobs', j, stage)
         /\ jobs' \in Seq(JobRecord) /\ Len(jobs') = Len(jobs) /\ Len(jobs') <= MaxJobs
         /\ main' \in Seq(User)
<1>1. jobs \in Seq(JobRecord) /\ Len(jobs) <= MaxJobs
  BY DEF TypeOK
<1>2. Restaged(jobs, [jobs EXCEPT ![j].stage = stage], j, stage)
  BY <1>1, StageChange
<1>3. Restaged(jobs, jobs', j, stage)
  BY <1>2 DEF Proceed
<1>4. Append(main, j) \in Seq(User)
  BY JobType DEF TypeOK
<1>5. main' \in Seq(User)
  BY <1>4 DEF TypeOK, Proceed
<1> QED  BY <1>1, <1>3, <1>5 DEF Restaged

\* A handler that runs.
LEMMA HandlesType ==
  ASSUME TypeOK, NEW j \in 1..Len(jobs), NEW kinds, NEW stage, NEW next \in Stage,
         Handles(j, kinds, stage, next)
  PROVE  /\ Restaged(jobs, jobs', j, next)
         /\ jobs' \in Seq(JobRecord) /\ Len(jobs') = Len(jobs) /\ Len(jobs') <= MaxJobs
         /\ main' \in Seq(User)
<1>1. jobs \in Seq(JobRecord) /\ Len(jobs) <= MaxJobs
  BY DEF TypeOK
<1>2. Restaged(jobs, [jobs EXCEPT ![j].stage = next], j, next)
  BY <1>1, StageChange
<1>3. Restaged(jobs, jobs', j, next)
  BY <1>2 DEF Handles
<1>4. main' \in Seq(User)
  BY DEF TypeOK, Handles
<1> QED  BY <1>1, <1>3, <1>4 DEF Restaged

\* The screens after one more is presented.
LEMMA PresentType ==
  ASSUME TypeOK, NEW kind \in FormKind, NEW under \in Seq(1..Len(forms)),
         Present(kind, under)
  PROVE  /\ forms' \in Seq(FormKind) /\ Len(forms') <= MaxForms
         /\ Len(forms') = Len(forms) + 1
         /\ alive' \in SUBSET (1..Len(forms'))
         /\ open' \in Seq(1..Len(forms'))
<1>1. Len(forms) \in Nat /\ MaxForms \in Nat
  BY SessionAssumption DEF TypeOK
<1>2. forms' \in Seq(FormKind) /\ Len(forms') = Len(forms) + 1 /\ Len(forms') <= MaxForms
  BY <1>1 DEF TypeOK, Present
<1>3. 1..Len(forms) \in SUBSET (1..Len(forms')) /\ Len(forms) + 1 \in 1..Len(forms')
  BY <1>1, <1>2
<1>4. alive' \in SUBSET (1..Len(forms'))
  BY <1>3 DEF TypeOK, Present
<1>5. under \in Seq(1..Len(forms'))
  BY <1>3
<1>6. open' \in Seq(1..Len(forms'))
  BY <1>3, <1>5 DEF Present
<1> QED  BY <1>2, <1>4, <1>6

\* authenticationComplete.
LEMMA CompleteType ==
  ASSUME TypeOK, AuthenticationComplete
  PROVE  /\ open' \in Seq(1..Len(forms')) /\ listeners' \in SUBSET User
         /\ hud' \in Indicator(View)
         /\ UNCHANGED <<forms, alive, asking, unanswered>>
<1>1. Home \in View
  BY SessionAssumption DEF Home, View
<1>2. Show(Dismiss(hud), Home) \in Indicator(View)
  BY <1>1, IndicatorType DEF TypeOK
<1>3. open' \in Seq(1..Len(forms'))
  BY DEF AuthenticationComplete
<1> QED  BY <1>2, <1>3 DEF AuthenticationComplete, TypeOK

-----------------------------------------------------------------------------
(* Type correctness, one lemma per action.                                 *)

LEMMA LaunchType ==
  ASSUME NEW user \in User
  PROVE  /\ LaunchForms(user) \in Seq(FormKind) /\ Len(LaunchForms(user)) <= MaxForms
         /\ LaunchOpen(user) \in Seq(1..Len(LaunchForms(user)))
         /\ LaunchListeners(user) \in SUBSET User
<1>1. CASE user = NoUser
  BY <1>1, SessionAssumption DEF LaunchForms, LaunchOpen, LaunchListeners, FormKind
<1>2. CASE user # NoUser
  BY <1>2, SessionAssumption DEF LaunchForms, LaunchOpen, LaunchListeners
<1> QED  BY <1>1, <1>2

LEMMA InitType == Init => TypeOK
<1> SUFFICES ASSUME Init PROVE TypeOK
  OBVIOUS
<1>1. NoUser \in User /\ 0 \in 0..MaxFailures /\ 0 \in 0..MaxKills
  BY SessionAssumption DEF NoUser, User
<1>2. /\ jobs \in Seq(JobRecord) /\ Len(jobs) <= MaxJobs
      /\ main \in Seq(User) /\ worker \in Seq(Task)
  BY SessionAssumption DEF Init
<1>3. alive \in SUBSET (1..Len(forms))
  BY DEF Init, LaunchForms
<1> QED  BY <1>1, <1>2, <1>3, LaunchType, LaunchHudType DEF Init, TypeOK

\* The screen on top.
LEMMA TopType ==
  ASSUME TypeOK, open # << >>
  PROVE  Top \in 1..Len(forms) /\ Top \in Form /\ Top \in View
<1>1. Len(open) \in 1..Len(open)
  BY DEF TypeOK
<1>2. Top \in 1..Len(forms)
  BY <1>1, ElementOfSeq DEF TypeOK, Top
<1> QED  BY <1>2, SessionAssumption, LenProperties DEF TypeOK, Form, View

LEMMA TapType ==
  ASSUME TypeOK, NEW kind \in {"signUp", "logIn"}, NEW e \in Email, NEW stage \in Stage,
         open # << >>, Tap(kind, e, stage)
  PROVE  TypeOK'
<1> DEFINE user == IF kind = "signUp" THEN Len(jobs) + 1 ELSE NoUser
           r == [kind |-> kind, email |-> e, form |-> Top, user |-> user, stage |-> stage]
<1>1. Len(jobs) \in Nat /\ MaxJobs \in Nat /\ Len(jobs) < MaxJobs
  BY SessionAssumption, LenProperties DEF TypeOK, Tap
<1>2. user \in User
  BY <1>1 DEF User, NoUser
<1> HIDE DEF user
<1>3. r \in JobRecord
  BY <1>2, TopType DEF JobRecord
<1> USE DEF user
<1>4. jobs' = Append(jobs, r)
  BY DEF Tap
<1> HIDE DEF r
<1>5. jobs' \in Seq(JobRecord) /\ Len(jobs') <= MaxJobs
  BY <1>1, <1>3, <1>4 DEF TypeOK
<1>6. hud' \in Indicator(View)
  BY IndicatorType, TopType DEF TypeOK, Tap
<1> QED  BY <1>5, <1>6 DEF TypeOK, Tap, server, disk, queues, bounds, client

LEMMA SignUpType ==
  ASSUME TypeOK, NEW e \in Email, SignUp(e) PROVE TypeOK'
BY TapType, Stages DEF SignUp, Shows

LEMMA LogInType ==
  ASSUME TypeOK, NEW e \in Email, LogIn(e) PROVE TypeOK'
BY TapType, Stages DEF LogIn, Shows

LEMMA ShowSignUpType == ASSUME TypeOK, ShowSignUp PROVE TypeOK'
<1>1. open \in Seq(1..Len(forms)) /\ "registration" \in FormKind
  BY DEF TypeOK, FormKind
<1>2. Present("registration", open)
  BY DEF ShowSignUp
<1> QED  BY <1>1, <1>2, PresentType DEF TypeOK, ShowSignUp, server, disk, queues,
    bounds, client

LEMMA ShowLoginType == ASSUME TypeOK, ShowLogin PROVE TypeOK'
<1>1. open # << >> /\ open \in Seq(1..Len(forms))
  BY DEF TypeOK, ShowLogin, Shows
<1>2. SubSeq(open, 1, Len(open) - 1) \in Seq(1..Len(forms))
  BY <1>1
<1> QED  BY <1>2 DEF TypeOK, ShowLogin, server, disk, queues, bounds, client

LEMMA ShowProfileType == ASSUME TypeOK, ShowProfile PROVE TypeOK'
<1>1. << >> \in Seq(1..Len(forms)) /\ "profile" \in FormKind
  BY DEF FormKind
<1>2. Present("profile", << >>)
  BY DEF ShowProfile
<1>3. Len(forms) + 1 \in Form /\ Len(forms) + 1 \in View
  BY <1>2, SessionAssumption, LenProperties DEF TypeOK, Present, Form, View
<1>4. asking' \in SUBSET (Form \X User)
  BY <1>3 DEF TypeOK, ShowProfile
<1>5. hud' \in Indicator(View)
  BY <1>3, IndicatorType DEF TypeOK, ShowProfile
<1> QED
  BY <1>1, <1>2, <1>4, <1>5, PresentType DEF TypeOK, ShowProfile, server, disk,
      queues, bounds, client

LEMMA CloseProfileType == ASSUME TypeOK, CloseProfile PROVE TypeOK'
BY DEF TypeOK, CloseProfile, server, disk, queues, bounds, client

LEMMA LogoutType == ASSUME TypeOK, Logout PROVE TypeOK'
<1>1. << >> \in Seq(1..Len(forms)) /\ "login" \in FormKind
  BY DEF FormKind
<1>2. Present("login", << >>)
  BY DEF Logout
<1>3. NoUser \in User
  BY SessionAssumption DEF NoUser, User
<1>4. main' \in Seq(User)
  BY <1>3 DEF TypeOK, Logout
<1> QED  BY <1>1, <1>2, <1>3, <1>4, PresentType DEF TypeOK, Logout, server, bounds,
    client

\* One failure more is still within the bound.
LEMMA FailType ==
  ASSUME TypeOK, NEW j \in 1..Len(jobs), NEW stage \in Stage, Fail(j, stage)
  PROVE  Proceed(j, stage) /\ failures' \in 0..MaxFailures
BY SessionAssumption DEF TypeOK, Fail

LEMMA UploadReplyType ==
  ASSUME TypeOK, NEW j \in 1..Len(jobs), UploadReply(j) PROVE TypeOK'
<1>1. images' \in SUBSET Job /\ failures' \in 0..MaxFailures
  BY JobType, FailType, Stages DEF TypeOK, UploadReply
<1>2. Proceed(j, "uploaded") \/ Proceed(j, "failing")
  BY DEF UploadReply, Fail
<1> QED
  BY <1>1, <1>2, ProceedType, Stages DEF TypeOK, UploadReply, disk, screen, client

LEMMA URLReplyType ==
  ASSUME TypeOK, NEW j \in 1..Len(jobs), URLReply(j) PROVE TypeOK'
<1>1. failures' \in 0..MaxFailures
  BY FailType, Stages DEF TypeOK, URLReply
<1>2. Proceed(j, "located") \/ Proceed(j, "silent")
  BY DEF URLReply, Fail
<1> QED
  BY <1>1, <1>2, ProceedType, Stages DEF TypeOK, URLReply, server, disk, screen, client

LEMMA CreateAccountType ==
  ASSUME TypeOK, NEW j \in 1..Len(jobs), CreateAccount(j) PROVE TypeOK'
<1>1. failures' \in 0..MaxFailures
  BY FailType, Stages DEF TypeOK, CreateAccount
<1>2. accounts' \in [Email -> User]
  BY JobType DEF TypeOK, CreateAccount
<1>3. Proceed(j, "created") \/ Proceed(j, "failing")
  BY DEF CreateAccount, Fail
<1> QED
  BY <1>1, <1>2, <1>3, ProceedType, Stages DEF TypeOK, CreateAccount, disk, screen,
      client

LEMMA AccountReplyType ==
  ASSUME TypeOK, NEW j \in 1..Len(jobs), AccountReply(j) PROVE TypeOK'
<1>1. failures' \in 0..MaxFailures /\ current' \in User
  BY FailType, Stages, JobType DEF TypeOK, AccountReply
<1>2. Proceed(j, "signedIn") \/ Proceed(j, "failing")
  BY DEF AccountReply, Fail
<1> QED
  BY <1>1, <1>2, ProceedType, Stages DEF TypeOK, AccountReply, server, screen, client

LEMMA LogInReplyType ==
  ASSUME TypeOK, NEW j \in 1..Len(jobs), LogInReply(j) PROVE TypeOK'
<1> DEFINE user == accounts[jobs[j].email]
<1>1. user \in User
  BY JobType DEF TypeOK, JobRecord
<1>2. failures' \in 0..MaxFailures /\ current' \in User
  BY <1>1, FailType, Stages DEF TypeOK, LogInReply
<1>5. \/ Proceed(j, "failing")
      \/ /\ jobs' = [jobs EXCEPT ![j].stage = "signedIn", ![j].user = user]
         /\ main' = Append(main, j)
  BY DEF LogInReply, Fail
<1> HIDE DEF user
<1>3. CASE Proceed(j, "failing")
  BY <1>2, <1>3, ProceedType, Stages DEF TypeOK, LogInReply, server, screen, client
<1>4. CASE /\ jobs' = [jobs EXCEPT ![j].stage = "signedIn", ![j].user = user]
           /\ main' = Append(main, j)
  <2>1. Restaged(jobs, [jobs EXCEPT ![j].stage = "signedIn", ![j].user = user], j, "signedIn")
    <3>1. jobs \in Seq(JobRecord)
      BY DEF TypeOK
    <3> QED  BY <1>1, <3>1, FoundChange
  <2>3. Restaged(jobs, jobs', j, "signedIn")
    BY <1>4, <2>1
  <2>2. main' \in Seq(User)
    BY <1>4, JobType DEF TypeOK
  <2> QED  BY <1>2, <2>2, <2>3 DEF TypeOK, LogInReply, Restaged, server, screen, client
<1> QED  BY <1>3, <1>4, <1>5

LEMMA UploadedType ==
  ASSUME TypeOK, NEW j \in 1..Len(jobs), Uploaded(j) PROVE TypeOK'
BY HandlesType, Stages DEF TypeOK, Uploaded, server, disk, screen, bounds, client

LEMMA LocatedType ==
  ASSUME TypeOK, NEW j \in 1..Len(jobs), Located(j) PROVE TypeOK'
BY HandlesType, Stages DEF TypeOK, Located, server, disk, screen, bounds, client

LEMMA TaskType ==
  /\ \A user \in User : UserTask(user) \in Task
  /\ \A j \in Job : WriteTask(j) \in Task
BY DEF UserTask, WriteTask, Task

LEMMA SignedUpType ==
  ASSUME TypeOK, NEW j \in 1..Len(jobs), SignedUp(j) PROVE TypeOK'
<1>1. PICK user \in User : user = IF started THEN j ELSE current
  BY JobType DEF TypeOK
<1>2. UserTask(user) \in Task /\ WriteTask(j) \in Task
  BY JobType, TaskType
<1>3. worker' = worker \o <<UserTask(user), WriteTask(j)>>
  BY <1>1 DEF SignedUp
<1>4. worker' \in Seq(Task)
  BY <1>2, <1>3 DEF TypeOK
<1>5. overtaken' \in SUBSET Job /\ started' \in BOOLEAN
  BY JobType DEF TypeOK, SignedUp
<1> QED
  BY <1>4, <1>5, HandlesType, Stages DEF TypeOK, SignedUp, server, disk, screen, bounds

LEMMA ConfirmedType ==
  ASSUME TypeOK, NEW j \in 1..Len(jobs), Confirmed(j) PROVE TypeOK'
BY HandlesType, CompleteType, Stages DEF TypeOK, Confirmed, server, disk, bounds, client

LEMMA HearType ==
  ASSUME TypeOK, NEW user \in User
  PROVE  Hear(user) \in Seq(Task) /\ Append(worker, UserTask(user)) \in Seq(Task)
<1>1. UserTask(user) \in Task
  BY TaskType
<1> QED  BY <1>1 DEF TypeOK, Hear

LEMMA SignedInType ==
  ASSUME TypeOK, NEW j \in 1..Len(jobs), SignedIn(j) PROVE TypeOK'
<1>1. jobs[j].user \in User /\ current \in User
  BY JobType DEF JobRecord, TypeOK
<1>2. worker' \in Seq(Task) /\ started' \in BOOLEAN
  <2>1. \/ worker' = Hear(jobs[j].user)
        \/ worker' = Append(worker, UserTask(current))
    BY DEF SignedIn
  <2> QED  BY <1>1, <2>1, HearType DEF TypeOK, SignedIn
<1>3. CASE AuthenticationComplete /\ Handles(j, {"logIn"}, "signedIn", "done")
  BY <1>2, <1>3, HandlesType, CompleteType, Stages DEF TypeOK, SignedIn, server, disk,
      bounds, client
<1>4. CASE UNCHANGED screen /\ Handles(j, {"logIn"}, "signedIn", "unheard")
  BY <1>2, <1>4, HandlesType, Stages DEF TypeOK, SignedIn, server, disk, bounds,
      screen, client
<1> QED  BY <1>3, <1>4 DEF SignedIn

LEMMA FailedType ==
  ASSUME TypeOK, NEW j \in 1..Len(jobs), Failed(j) PROVE TypeOK'
<1>1. Home \in View
  BY SessionAssumption DEF Home, View
<1>2. hud' \in Indicator(View)
  BY <1>1, IndicatorType DEF TypeOK, Failed
<1> QED  BY <1>2, HandlesType, Stages DEF TypeOK, Failed, server, disk, bounds, client

LEMMA SignedOutType == ASSUME TypeOK, SignedOut PROVE TypeOK'
<1>1. NoUser \in User
  BY SessionAssumption DEF NoUser, User
<1>2. worker' \in Seq(Task) /\ main' \in Seq(User)
  BY <1>1, HearType DEF TypeOK, SignedOut
<1> QED  BY <1>2 DEF TypeOK, SignedOut, server, disk, screen, bounds, client

\* The number of a persisted or waiting write is that of a job of the list, and
\* the users known to the device are those of jobs.
Known ==
  /\ \A i \in 1..Len(worker) : worker[i].does = "write" => worker[i].user \in 1..Len(jobs)
  /\ \A w \in persisted : w[2] \in 1..Len(jobs)

LEMMA StoredType ==
  ASSUME TypeOK, Known, RunTask, Head(worker).does = "write"
  PROVE  LET j == Head(worker).user IN
         /\ j \in 1..Len(jobs) /\ j \in Job
         /\ Restaged(jobs, jobs', j, "stored")
         /\ persisted' = persisted \cup {<<queueUser, j>>} /\ queueUser' = queueUser
<1> DEFINE j == Head(worker).user
<1>1. Head(worker) = worker[1] /\ 1 \in 1..Len(worker)
  BY DEF TypeOK, RunTask
<1>2. j \in 1..Len(jobs) /\ j \in Job
  BY <1>1, JobType DEF Known
<1>3. jobs' = [jobs EXCEPT ![j].stage = "stored"]
  BY DEF RunTask
<1>4. persisted' = persisted \cup {<<queueUser, j>>} /\ queueUser' = queueUser
  BY DEF RunTask
<1> HIDE DEF j
<1>5. jobs \in Seq(JobRecord) /\ "stored" \in Stage
  BY Stages DEF TypeOK
<1>6. Restaged(jobs, [jobs EXCEPT ![j].stage = "stored"], j, "stored")
  BY <1>2, <1>5, StageChange
<1>7. Restaged(jobs, jobs', j, "stored")
  BY <1>3, <1>6
<1> USE DEF j
<1> QED  BY <1>2, <1>4, <1>7

LEMMA RunTaskType ==
  ASSUME TypeOK, Known, RunTask PROVE TypeOK'
<1>1. worker # << >> /\ worker \in Seq(Task)
  BY DEF TypeOK, RunTask
<1>2. Head(worker) \in Task /\ Head(worker) = worker[1] /\ 1 \in 1..Len(worker)
  BY <1>1
<1>3. worker' \in Seq(Task)
  BY <1>1 DEF RunTask
<1>4. CASE Head(worker).does = "user"
  <2>1. Head(worker).user \in User
    BY <1>2, <1>4 DEF Task
  <2>2. queueUser' = Head(worker).user /\ UNCHANGED <<persisted, jobs>>
    BY <1>4 DEF RunTask
  <2>3. UNCHANGED <<server, current, main, started, overtaken, screen, bounds>>
    BY DEF RunTask
  <2> QED  BY <1>3, <2>1, <2>2, <2>3 DEF TypeOK, server, screen, bounds, client
<1>5. CASE Head(worker).does = "write"
  <2>1. PICK j \in Job : /\ persisted' = persisted \cup {<<queueUser, j>>}
                        /\ queueUser' = queueUser
                        /\ jobs' \in Seq(JobRecord) /\ Len(jobs') = Len(jobs)
    BY <1>5, StoredType DEF Restaged
  <2>2. UNCHANGED <<server, current, main, started, overtaken, screen, bounds>>
    BY DEF RunTask
  <2> QED  BY <1>3, <2>1, <2>2 DEF TypeOK, server, screen, bounds, client
<1> QED  BY <1>4, <1>5 DEF RunTask

LEMMA CommitType ==
  ASSUME TypeOK, NEW j \in 1..Len(jobs), Commit(j) PROVE TypeOK'
BY JobType DEF TypeOK, Commit, disk, queues, screen, bounds, client

LEMMA SettleType ==
  ASSUME TypeOK, NEW j \in 1..Len(jobs), NEW stage \in Stage, Settle(j, stage)
  PROVE  /\ jobs' \in Seq(JobRecord) /\ Len(jobs') = Len(jobs) /\ Len(jobs') <= MaxJobs
         /\ main' \in Seq(User) /\ persisted' \in SUBSET (User \X Job)
<1>1. persisted' \in SUBSET (User \X Job)
  BY DEF TypeOK, Settle
<1>2. CASE Proceed(j, stage)
  BY <1>1, <1>2, ProceedType
<1>3. CASE UNCHANGED <<jobs, main>>
  BY <1>1, <1>3 DEF TypeOK
<1> QED  BY <1>2, <1>3 DEF Settle

LEMMA AckType ==
  ASSUME TypeOK, NEW j \in 1..Len(jobs), Ack(j) PROVE TypeOK'
BY SettleType, Stages DEF TypeOK, Ack, Settle, server, screen, client

LEMMA RefuseType ==
  ASSUME TypeOK, NEW j \in 1..Len(jobs), Refuse(j) PROVE TypeOK'
<1>1. failures' \in 0..MaxFailures
  BY SessionAssumption DEF TypeOK, Refuse
<1> QED  BY <1>1, SettleType, Stages DEF TypeOK, Refuse, Settle, server, screen, client

LEMMA ProfileReplyType ==
  ASSUME TypeOK, NEW f \in Form, NEW user \in User, ProfileReply(f, user) PROVE TypeOK'
<1>1. Home \in View
  BY SessionAssumption DEF Home, View
<1>2. hud' \in Indicator(View)
  BY <1>1, IndicatorType DEF TypeOK, ProfileReply
<1>3. failures' \in 0..MaxFailures
  BY SessionAssumption DEF TypeOK, ProfileReply
<1>4. unanswered' \in SUBSET Form /\ asking' \in SUBSET (Form \X User)
  BY DEF TypeOK, ProfileReply
<1> QED  BY <1>2, <1>3, <1>4 DEF TypeOK, ProfileReply, server, disk, queues, client

LEMMA ConversationArrivesType == ASSUME TypeOK, ConversationArrives PROVE TypeOK'
<1>1. Home \in View
  BY SessionAssumption DEF Home, View
<1>2. hud' \in Indicator(View)
  BY <1>1, IndicatorType DEF TypeOK, ConversationArrives
<1> QED  BY <1>2 DEF TypeOK, ConversationArrives, server, disk, queues, bounds, client

LEMMA AnimateType == ASSUME TypeOK, Animate PROVE TypeOK'
<1>1. Home \in View
  BY SessionAssumption DEF Home, View
<1>2. hud' \in Indicator(View)
  BY <1>1, IndicatorType DEF TypeOK, Animate
<1> QED  BY <1>2 DEF TypeOK, Animate, server, disk, queues, bounds, client

LEMMA ReleaseType ==
  ASSUME TypeOK, NEW f \in Form, Release(f) PROVE TypeOK'
<1>1. f \in View
  BY SessionAssumption DEF Form, View
<1>2. hud' \in Indicator(View)
  BY <1>1, IndicatorType DEF TypeOK, Release
<1> QED  BY <1>2 DEF TypeOK, Release, server, disk, queues, bounds, client

LEMMA KillType == ASSUME TypeOK, Kill PROVE TypeOK'
<1> DEFINE F(j) == IF jobs[j].stage \in Running THEN [jobs[j] EXCEPT !.stage = "lost"]
                   ELSE jobs[j]
<1>1. \A j \in 1..Len(jobs) : F(j) \in JobRecord
  BY JobType, Stages DEF JobRecord
<1>2. jobs' = [j \in 1..Len(jobs) |-> F(j)]
  BY DEF Kill
<1> HIDE DEF F
<1>3. jobs' \in [1..Len(jobs) -> JobRecord] /\ Len(jobs) \in Nat
  BY <1>1, <1>2, LenProperties DEF TypeOK
<1>4. jobs' \in Seq(JobRecord) /\ Len(jobs') = Len(jobs)
  BY <1>3, IsASeq, LenProperties
<1>5. kills' \in 0..MaxKills
  BY SessionAssumption DEF TypeOK, Kill
<1>6. main' \in Seq(User) /\ worker' \in Seq(Task)
  BY DEF Kill
<1>7. current \in User
  BY DEF TypeOK
<1> QED
  BY <1>4, <1>5, <1>6, <1>7, LaunchType, LaunchHudType DEF TypeOK, Kill, server, disk,
      client

-----------------------------------------------------------------------------
(* The inductive invariant.                                                *)

\* Stages only a sign-up is in; those after its image was stored, and after its
\* account was made; those in which an account may lack its profile.
SignUpStages == {"uploading", "uploaded", "locating", "located", "creating", "created",
                 "issued", "stored", "confirmed"}
AccountStages == {"created", "signedIn", "issued", "stored", "confirmed"}
ImageStages   == {"uploaded", "locating", "located", "creating"} \cup AccountStages
OrphanStages  == {"created", "signedIn", "issued", "failing", "failed", "lost"}

\* What the stage of job j says about its image, account and profile.
JobOK(j) ==
  LET kind == jobs[j].kind
      stage == jobs[j].stage
      owned == accounts[jobs[j].email] = j
  IN
  /\ stage \in SignUpStages => kind = "signUp"
  /\ stage = "checking" => kind = "logIn"
  /\ kind = "signUp" /\ stage \in ImageStages => j \in images
  /\ kind = "signUp" /\ stage \in AccountStages => owned
  /\ kind = "signUp" /\ stage \in {"confirmed", "done"} => j \in profiles
  /\ Pending(j) /\ j \notin profiles => stage \in {"stored", "failing", "failed", "lost"}
  /\ owned /\ j \notin profiles => Pending(j) \/ stage \in OrphanStages

\* An account was made by the sign-up of its number, for its email.
Owners ==
  \A e \in Email : accounts[e] # NoUser =>
    /\ accounts[e] \in 1..Len(jobs)
    /\ jobs[accounts[e]].kind = "signUp"
    /\ jobs[accounts[e]].email = e

\* The account u exists and its image is stored.
Backed(u) == u \in images /\ \E e \in Email : accounts[e] = u

\* A profile that is to be written is that of such an account.
WritesBacked ==
  /\ \A i \in 1..Len(worker) : worker[i].does = "write" => Backed(worker[i].user)
  /\ \A w \in persisted : Backed(w[2])

\* On the worker queue a profile write comes right after the change to its user,
\* unless its handler started the client for another one.
Paired ==
  \A i \in 1..Len(worker) : worker[i].does = "write" =>
    LET u == worker[i].user IN
    \/ u \in overtaken
    \/ i = 1 /\ queueUser = u
    \/ i # 1 /\ worker[i - 1] = UserTask(u)

Safe ==
  /\ Known /\ Owners /\ WritesBacked /\ Paired /\ OwnQueue /\ ProfileBacked
  /\ \A j \in 1..Len(jobs) : JobOK(j)

-----------------------------------------------------------------------------
(* What the steps keep of the invariant.                                   *)

\* A step of the screens, or of the user, that touches no job, no write and
\* nothing on the server.
LEMMA ScreenStep ==
  ASSUME Safe,
         UNCHANGED <<accounts, images, profiles, persisted, jobs, worker, queueUser, overtaken>>
  PROVE  Safe'
BY DEF Safe, Known, Owners, WritesBacked, Backed, Paired, OwnQueue, ProfileBacked,
    JobOK, Pending

\* The job whose number an account has is a sign-up.
LEMMA OwnedSignUp ==
  ASSUME TypeOK, Owners, NEW j \in 1..Len(jobs), accounts[jobs[j].email] = j
  PROVE  jobs[j].kind = "signUp"
<1>1. jobs[j].email \in Email /\ j # NoUser
  BY JobType DEF JobRecord, NoUser, Job
<1> QED  BY <1>1 DEF Owners

\* The sign-up of an account that exists.
LEMMA BackedJob ==
  ASSUME TypeOK, Owners, NEW u \in 1..Len(jobs), Backed(u)
  PROVE  /\ u \in images
         /\ jobs[u].kind = "signUp" /\ accounts[jobs[u].email] = u
<1>1. u # NoUser
  BY DEF NoUser
<1> QED  BY <1>1 DEF Owners, Backed

\* The invariant, but for the tasks of the worker queue.
Stored ==
  /\ \A w \in persisted : w[2] \in 1..Len(jobs) /\ Backed(w[2])
  /\ Owners /\ OwnQueue /\ ProfileBacked
  /\ \A j \in 1..Len(jobs) : JobOK(j)

\* The invariant of the tasks of the worker queue.
Queued ==
  /\ \A i \in 1..Len(worker) : worker[i].does = "write" =>
       worker[i].user \in 1..Len(jobs) /\ Backed(worker[i].user)
  /\ Paired

LEMMA SafeParts == (Safe <=> Stored /\ Queued) /\ (Safe' <=> Stored' /\ Queued')
BY DEF Safe, Stored, Queued, Known, WritesBacked

\* One job changes its stage, and images are only added.
LEMMA JobStep ==
  ASSUME Stored, NEW j \in 1..Len(jobs), NEW stage, Restaged(jobs, jobs', j, stage),
         images \subseteq images', overtaken \subseteq overtaken',
         UNCHANGED <<accounts, profiles, persisted>>, JobOK(j)'
  PROVE  Stored'
<1>1. \A i \in 1..Len(jobs') : JobOK(i)'
  <2> TAKE i \in 1..Len(jobs')
  <2>1. i \in 1..Len(jobs)
    BY DEF Restaged
  <2>2. CASE i # j
    <3>1. jobs'[i] = jobs[i] /\ JobOK(i)
      BY <2>1, <2>2 DEF Restaged, Stored
    <3> QED  BY <3>1 DEF JobOK, Pending
  <2> QED  BY <2>2
<1>2. Owners'
  BY DEF Stored, Owners, Restaged
<1>3. OwnQueue' /\ ProfileBacked'
  BY DEF Stored, OwnQueue, ProfileBacked
<1>4. \A w \in persisted' : w[2] \in 1..Len(jobs') /\ Backed(w[2])'
  BY DEF Stored, Backed, Restaged
<1> QED  BY <1>1, <1>2, <1>3, <1>4 DEF Stored

\* The worker queue stays as it is, and no account is lost.
LEMMA QueueKept ==
  ASSUME Queued, Len(jobs') = Len(jobs), images \subseteq images',
         overtaken \subseteq overtaken', UNCHANGED <<accounts, worker, queueUser>>
  PROVE  Queued'
BY DEF Queued, Backed, Paired


\* One job changes its stage and the worker queue is left alone.
LEMMA QuietJobStep ==
  ASSUME Safe, NEW j \in 1..Len(jobs), NEW stage, Restaged(jobs, jobs', j, stage),
         images \subseteq images',
         UNCHANGED <<accounts, profiles, persisted, worker, queueUser, overtaken>>, JobOK(j)'
  PROVE  Safe'
<1>1. Stored /\ Queued
  BY SafeParts
<1>2. Stored'
  BY <1>1, JobStep
<1>3. Queued'
  <2>1. Len(jobs') = Len(jobs)
    BY DEF Restaged
  <2> QED  BY <1>1, <2>1, QueueKept
<1> QED  BY <1>2, <1>3, SafeParts

\* A job that fails before its profile is written.
LEMMA FailingJob ==
  ASSUME TypeOK, Safe, NEW j \in 1..Len(jobs),
         jobs[j].stage \in {"uploading", "creating", "created", "checking"},
         Proceed(j, "failing"), UNCHANGED <<server, persisted, client>>
  PROVE  Safe'
<1>1. Restaged(jobs, jobs', j, "failing")
  BY ProceedType, Stages
<1>2. JobOK(j)
  BY DEF Safe
<1>3. JobOK(j)'
  BY <1>1, <1>2
  DEF Restaged, JobOK, Pending, SignUpStages, ImageStages, AccountStages,
      OrphanStages, server, client
<1> QED  BY <1>1, <1>3, QuietJobStep DEF server, client

-----------------------------------------------------------------------------
(* The invariant is kept, one lemma per action.                            *)

LEMMA UploadReplySafe ==
  ASSUME TypeOK, Safe, NEW j \in 1..Len(jobs), UploadReply(j) PROVE Safe'
<1>1. CASE Proceed(j, "uploaded") /\ images' = images \cup {j}
  <2>1. Restaged(jobs, jobs', j, "uploaded") /\ JobOK(j)
    BY <1>1, ProceedType, Stages DEF Safe
  <2>2. JobOK(j)'
    BY <1>1, <2>1 DEF UploadReply, disk, Restaged, JobOK, Pending, SignUpStages,
        ImageStages,
      AccountStages, OrphanStages, client
  <2> QED  BY <1>1, <2>1, <2>2, QuietJobStep DEF UploadReply, disk, client
<1>2. CASE Proceed(j, "failing") /\ images' = images
  BY <1>2, FailingJob DEF UploadReply, disk, server, client
<1> QED  BY <1>1, <1>2 DEF UploadReply, Fail

LEMMA URLReplySafe ==
  ASSUME TypeOK, Safe, NEW j \in 1..Len(jobs), URLReply(j) PROVE Safe'
<1>1. PICK stage \in {"located", "silent"} : Proceed(j, stage)
  BY DEF URLReply, Fail
<1>2. Restaged(jobs, jobs', j, stage) /\ JobOK(j)
  BY <1>1, ProceedType, Stages DEF Safe
<1>3. JobOK(j)'
  BY <1>2 DEF URLReply, server, disk, Restaged, JobOK, Pending, SignUpStages,
      ImageStages,
    AccountStages, OrphanStages, client
<1> QED  BY <1>2, <1>3, QuietJobStep DEF URLReply, server, disk, client

LEMMA AccountReplySafe ==
  ASSUME TypeOK, Safe, NEW j \in 1..Len(jobs), AccountReply(j) PROVE Safe'
<1>1. CASE Proceed(j, "signedIn")
  <2>1. Restaged(jobs, jobs', j, "signedIn") /\ JobOK(j)
    BY <1>1, ProceedType, Stages DEF Safe
  <2>2. JobOK(j)'
    BY <2>1 DEF AccountReply, server, Restaged, JobOK, Pending, SignUpStages,
        ImageStages,
      AccountStages, OrphanStages, client
  <2> QED  BY <2>1, <2>2, QuietJobStep DEF AccountReply, server, client
<1>2. CASE Proceed(j, "failing")
  BY <1>2, FailingJob DEF AccountReply
<1> QED  BY <1>1, <1>2 DEF AccountReply, Fail

LEMMA LogInReplySafe ==
  ASSUME TypeOK, Safe, NEW j \in 1..Len(jobs), LogInReply(j) PROVE Safe'
<1> DEFINE user == accounts[jobs[j].email]
<1>1. user \in User
  BY JobType DEF TypeOK, JobRecord
<1>2. \/ Proceed(j, "failing")
      \/ jobs' = [jobs EXCEPT ![j].stage = "signedIn", ![j].user = user]
  BY DEF LogInReply, Fail
<1> HIDE DEF user
<1>3. CASE jobs' = [jobs EXCEPT ![j].stage = "signedIn", ![j].user = user]
  <2>1. Restaged(jobs, [jobs EXCEPT ![j].stage = "signedIn", ![j].user = user], j, "signedIn")
    <3>1. jobs \in Seq(JobRecord)
      BY DEF TypeOK
    <3> QED  BY <1>1, <3>1, FoundChange
  <2>2. Restaged(jobs, jobs', j, "signedIn") /\ JobOK(j)
    BY <1>3, <2>1 DEF Safe
  <2>3. JobOK(j)'
    BY <2>2 DEF LogInReply, server, Restaged, JobOK, Pending, SignUpStages, ImageStages,
      AccountStages, OrphanStages, client
  <2> QED  BY <2>2, <2>3, QuietJobStep DEF LogInReply, server, client
<1>4. CASE Proceed(j, "failing")
  BY <1>4, FailingJob DEF LogInReply
<1> QED  BY <1>2, <1>3, <1>4

LEMMA UploadedSafe ==
  ASSUME TypeOK, Safe, NEW j \in 1..Len(jobs), Uploaded(j) PROVE Safe'
<1>1. Restaged(jobs, jobs', j, "locating") /\ JobOK(j)
  BY HandlesType, Stages DEF Uploaded, Safe
<1>2. JobOK(j)'
  BY <1>1 DEF Uploaded, Handles, server, disk, Restaged, JobOK, Pending, SignUpStages,
      ImageStages,
    AccountStages, OrphanStages, client
<1> QED  BY <1>1, <1>2, QuietJobStep DEF Uploaded, server, disk, client

LEMMA LocatedSafe ==
  ASSUME TypeOK, Safe, NEW j \in 1..Len(jobs), Located(j) PROVE Safe'
<1>1. Restaged(jobs, jobs', j, "creating") /\ JobOK(j)
  BY HandlesType, Stages DEF Located, Safe
<1>2. JobOK(j)'
  BY <1>1 DEF Located, Handles, server, disk, Restaged, JobOK, Pending, SignUpStages,
      ImageStages,
    AccountStages, OrphanStages, client
<1> QED  BY <1>1, <1>2, QuietJobStep DEF Located, server, disk, client

LEMMA ConfirmedSafe ==
  ASSUME TypeOK, Safe, NEW j \in 1..Len(jobs), Confirmed(j) PROVE Safe'
<1>1. Restaged(jobs, jobs', j, "done") /\ JobOK(j)
  BY HandlesType, Stages DEF Confirmed, Safe
<1>2. JobOK(j)'
  BY <1>1 DEF Confirmed, Handles, server, disk, Restaged, JobOK, Pending,
      SignUpStages, ImageStages,
    AccountStages, OrphanStages, client
<1> QED  BY <1>1, <1>2, QuietJobStep DEF Confirmed, server, disk, client

LEMMA FailedSafe ==
  ASSUME TypeOK, Safe, NEW j \in 1..Len(jobs), Failed(j) PROVE Safe'
<1>1. Restaged(jobs, jobs', j, "failed") /\ JobOK(j)
  BY HandlesType, Stages DEF Failed, Safe
<1>2. JobOK(j)'
  BY <1>1 DEF Failed, Handles, server, disk, Restaged, JobOK, Pending, SignUpStages,
      ImageStages,
    AccountStages, OrphanStages, client
<1> QED  BY <1>1, <1>2, QuietJobStep DEF Failed, server, disk, client

LEMMA TapSafe ==
  ASSUME TypeOK, Safe, NEW kind \in {"signUp", "logIn"}, NEW e \in Email, NEW stage,
         <<kind, stage>> \in {<<"signUp", "uploading">>, <<"signUp", "silent">>,
                             <<"logIn", "checking">>},
         Tap(kind, e, stage)
  PROVE  Safe'
<1>0. PICK n \in Nat : n = Len(jobs) + 1
  BY DEF TypeOK
<1> DEFINE user == IF kind = "signUp" THEN Len(jobs) + 1 ELSE NoUser
           r == [kind |-> kind, email |-> e, form |-> Top, user |-> user, stage |-> stage]
<1>1. jobs' = Append(jobs, r) /\ r.kind = kind /\ r.email = e /\ r.stage = stage
  BY DEF Tap
<1>2. UNCHANGED <<accounts, images, profiles, persisted, worker, queueUser, overtaken>>
  BY DEF Tap, server, disk, queues, client
<1> HIDE DEF r
<1>3. /\ Len(jobs) \in Nat /\ Len(jobs') = n /\ n \notin 1..Len(jobs) /\ n # 0 /\ jobs'[n] = r
      /\ \A i \in 1..Len(jobs) : i \in 1..Len(jobs') /\ i # n /\ jobs'[i] = jobs[i]
  BY <1>0, <1>1 DEF TypeOK
<1>4. \A d \in Email : accounts[d] # n
  BY <1>3 DEF Safe, Owners, NoUser
<1>5. ~ Pending(n)
  BY <1>3 DEF Safe, Known, Pending
<1>6. JobOK(n)'
  BY <1>1, <1>2, <1>3, <1>4, <1>5
  DEF JobOK, Pending, SignUpStages, ImageStages, AccountStages, OrphanStages
<1>7. \A i \in 1..Len(jobs') : JobOK(i)'
  <2> TAKE i \in 1..Len(jobs')
  <2>1. CASE i = n
    BY <1>6, <2>1
  <2>2. CASE i # n
    <3>1. i \in 1..Len(jobs) /\ jobs'[i] = jobs[i]
      BY <1>0, <1>3, <2>2
    <3>2. JobOK(i)
      BY <3>1 DEF Safe
    <3> QED  BY <1>2, <3>1, <3>2 DEF JobOK, Pending
  <2> QED  BY <2>1, <2>2
<1>8. Owners'
  BY <1>2, <1>3 DEF Safe, Owners
<1>9. Known' /\ WritesBacked' /\ Paired' /\ OwnQueue' /\ ProfileBacked'
  BY <1>2, <1>3 DEF Safe, Known, WritesBacked, Backed, Paired, OwnQueue, ProfileBacked
<1> QED  BY <1>7, <1>8, <1>9 DEF Safe

LEMMA SignUpSafe ==
  ASSUME TypeOK, Safe, NEW e \in Email, SignUp(e) PROVE Safe'
BY TapSafe DEF SignUp

LEMMA LogInSafe ==
  ASSUME TypeOK, Safe, NEW e \in Email, LogIn(e) PROVE Safe'
BY TapSafe DEF LogIn

LEMMA ShowSignUpSafe == ASSUME Safe, ShowSignUp PROVE Safe'
BY ScreenStep DEF ShowSignUp, server, disk, queues, client

LEMMA ShowLoginSafe == ASSUME Safe, ShowLogin PROVE Safe'
BY ScreenStep DEF ShowLogin, server, disk, queues, client

LEMMA ShowProfileSafe == ASSUME Safe, ShowProfile PROVE Safe'
BY ScreenStep DEF ShowProfile, server, disk, queues, client

LEMMA CloseProfileSafe == ASSUME Safe, CloseProfile PROVE Safe'
BY ScreenStep DEF CloseProfile, server, disk, queues, client

LEMMA LogoutSafe == ASSUME Safe, Logout PROVE Safe'
BY ScreenStep DEF Logout, server, client

LEMMA ProfileReplySafe ==
  ASSUME Safe, NEW f, NEW user, ProfileReply(f, user) PROVE Safe'
BY ScreenStep DEF ProfileReply, server, disk, queues, client

LEMMA ConversationArrivesSafe == ASSUME Safe, ConversationArrives PROVE Safe'
BY ScreenStep DEF ConversationArrives, server, disk, queues, client

LEMMA AnimateSafe == ASSUME Safe, Animate PROVE Safe'
BY ScreenStep DEF Animate, server, disk, queues, client

LEMMA ReleaseSafe == ASSUME Safe, NEW f, Release(f) PROVE Safe'
BY ScreenStep DEF Release, server, disk, queues, client

\* An account for an email that had none.
LEMMA CreateAccountSafe ==
  ASSUME TypeOK, Safe, NEW j \in 1..Len(jobs), CreateAccount(j) PROVE Safe'
<1> DEFINE email == jobs[j].email
<1>1. CASE Proceed(j, "failing") /\ UNCHANGED accounts
  BY <1>1, FailingJob DEF CreateAccount, disk, server, client
<1>2. CASE /\ accounts[email] = NoUser /\ Proceed(j, "created")
           /\ accounts' = [accounts EXCEPT ![email] = j]
  <2>1. Restaged(jobs, jobs', j, "created") /\ JobOK(j)
    BY <1>2, ProceedType, Stages DEF Safe
  <2>2. email \in Email /\ accounts \in [Email -> User]
    BY JobType DEF TypeOK, JobRecord
  <2>3. \A e \in Email : accounts'[e] = IF e = email THEN j ELSE accounts[e]
    BY <1>2, <2>2
  <2>4. \A i \in 1..Len(jobs) :
          jobs'[i].kind = jobs[i].kind /\ jobs'[i].email = jobs[i].email /\ jobs[i].email \in Email
    BY <2>1, JobType DEF Restaged, JobRecord
  <2>5. jobs[j].kind = "signUp" /\ j \in images /\ j # 0 /\ jobs[j].stage = "creating"
    BY <2>1 DEF JobOK, Pending, SignUpStages, ImageStages, CreateAccount
  <2>6. UNCHANGED <<images, profiles, persisted, worker, queueUser, overtaken>>
    BY DEF CreateAccount, disk, client
  <2>7. JobOK(j)'
    BY <2>1, <2>2, <2>3, <2>4, <2>5, <2>6
    DEF JobOK, Pending, Pending, Restaged, SignUpStages, ImageStages, AccountStages,
        OrphanStages
  <2>8. \A i \in 1..Len(jobs') : JobOK(i)'
    <3> TAKE i \in 1..Len(jobs')
    <3>1. CASE i = j
      BY <2>7, <3>1
    <3>2. CASE i # j
      <4>1. i \in 1..Len(jobs) /\ i # 0 /\ jobs'[i] = jobs[i]
        BY <2>1, <3>2 DEF Restaged
      <4>2. accounts'[jobs'[i].email] = i <=> accounts[jobs[i].email] = i
        BY <1>2, <2>3, <2>4, <3>2, <4>1 DEF NoUser
      <4>3. JobOK(i)
        BY <4>1 DEF Safe
      <4> QED  BY <2>6, <4>1, <4>2, <4>3 DEF JobOK, Pending
    <3> QED  BY <3>1, <3>2
  <2>9. Owners'
    BY <2>1, <2>2, <2>3, <2>4, <2>5 DEF Safe, Owners, Restaged
  <2>10. \A u \in Job : Backed(u) => Backed(u)'
    BY <1>2, <2>3, <2>6 DEF Backed, NoUser, Job
  <2>11. \A i \in 1..Len(jobs) : i \in Job
    BY JobType
  <2>12. Known' /\ WritesBacked' /\ Paired' /\ OwnQueue'
    BY <2>1, <2>6, <2>10, <2>11 DEF Safe, Known, WritesBacked, Paired, OwnQueue,
        Restaged
  <2>13. ProfileBacked'
    BY <2>6, <2>10 DEF Safe, ProfileBacked, Backed, TypeOK
  <2> QED  BY <2>8, <2>9, <2>12, <2>13 DEF Safe
<1> QED  BY <1>1, <1>2 DEF CreateAccount, Fail

\* What a completed sign-up puts on the worker queue.
LEMMA SignedUpQueue ==
  ASSUME TypeOK, NEW j \in 1..Len(jobs), SignedUp(j), NEW n \in Nat, n = Len(worker),
         NEW user \in User, user = IF started THEN j ELSE current
  PROVE  /\ Len(worker') = n + 2
         /\ \A i \in 1..n : worker'[i] = worker[i]
         /\ worker'[n + 1] = UserTask(user) /\ worker'[n + 2] = WriteTask(j)
<1> DEFINE pair == <<UserTask(user), WriteTask(j)>>
<1>1. worker' = worker \o pair /\ worker \in Seq(Task) /\ pair \in Seq(Task)
  <2>1. worker' = worker \o pair
    BY DEF SignedUp
  <2>2. UserTask(user) \in Task /\ WriteTask(j) \in Task
    BY JobType, TaskType
  <2>3. worker \in Seq(Task)
    BY DEF TypeOK
  <2> QED  BY <2>1, <2>2, <2>3
<1>2. Len(pair) = 2 /\ pair[1] = UserTask(user) /\ pair[2] = WriteTask(j)
  OBVIOUS
<1> HIDE DEF pair
<1>3. /\ Len(worker \o pair) = Len(worker) + Len(pair)
      /\ \A i \in 1..Len(worker) + Len(pair) : (worker \o pair)[i] =
           IF i <= Len(worker) THEN worker[i] ELSE pair[i - Len(worker)]
  BY <1>1, ConcatProperties
<1>4. /\ Len(worker') = n + 2
      /\ \A i \in 1..n + 2 : worker'[i] = IF i <= n THEN worker[i] ELSE pair[i - n]
  BY <1>1, <1>2, <1>3
<1>5. \A i \in 1..n : worker'[i] = worker[i]
  BY <1>4
<1>6. worker'[n + 1] = pair[1] /\ worker'[n + 2] = pair[2]
  BY <1>4
<1> QED  BY <1>2, <1>4, <1>5, <1>6

LEMMA SignedUpSafe ==
  ASSUME TypeOK, Safe, NEW j \in 1..Len(jobs), SignedUp(j) PROVE Safe'
<1>1. Restaged(jobs, jobs', j, "issued") /\ JobOK(j) /\ jobs[j].stage = "signedIn"
      /\ jobs[j].kind = "signUp"
  BY HandlesType, Stages DEF SignedUp, Safe, Handles
<1>2. UNCHANGED <<accounts, images, profiles, persisted, queueUser>>
  BY DEF SignedUp, server, disk
<1>3. PICK user \in User : user = IF started THEN j ELSE current
  BY JobType DEF TypeOK
<1>4. overtaken \subseteq overtaken' /\ (user = j \/ j \in overtaken')
  BY <1>3 DEF SignedUp
<1>5. JobOK(j)'
  BY <1>1, <1>2
  DEF Restaged, JobOK, Pending, SignUpStages, ImageStages, AccountStages, OrphanStages
<1>6. Stored'
  BY <1>1, <1>2, <1>5, <1>4, JobStep, SafeParts
<1>7. Backed(j)
  <2>1. j \in images /\ accounts[jobs[j].email] = j
    BY <1>1 DEF JobOK, Pending, ImageStages, AccountStages
  <2>2. jobs[j].email \in Email
    BY JobType DEF JobRecord
  <2> QED  BY <2>1, <2>2 DEF Backed
<1>10. PICK n \in Nat : n = Len(worker)
  BY LenProperties DEF TypeOK
<1>11. /\ Len(worker') = n + 2
       /\ \A i \in 1..n : worker'[i] = worker[i]
       /\ worker'[n + 1] = UserTask(user) /\ worker'[n + 2] = WriteTask(j)
  BY <1>3, <1>10, SignedUpQueue
<1>12. UserTask(user).does = "user" /\ WriteTask(j).does = "write" /\ WriteTask(j).user = j
  BY DEF UserTask, WriteTask
<1>13. Queued'
  <2>1. \A i \in 1..Len(worker') : i \in 1..n \/ i = n + 1 \/ i = n + 2
    BY <1>10, <1>11
  <2>2. \A i \in 1..Len(worker') : worker'[i].does = "write" =>
          worker'[i].user \in 1..Len(jobs') /\ Backed(worker'[i].user)
    <3> SUFFICES ASSUME NEW i \in 1..Len(worker'), worker'[i].does = "write"
                 PROVE  worker'[i].user \in 1..Len(jobs') /\ Backed(worker'[i].user)
      OBVIOUS
    <3>1. CASE i \in 1..n
      BY <1>1, <1>10, <1>11, <3>1, SafeParts DEF Queued, Restaged
    <3>2. CASE i = n + 2
      BY <1>1, <1>7, <1>11, <1>12, <3>2 DEF Restaged
    <3> QED  BY <1>11, <1>12, <2>1, <3>1, <3>2
  <2>3. Paired'
    <3> SUFFICES ASSUME NEW i \in 1..Len(worker'), worker'[i].does = "write"
                 PROVE  \/ worker'[i].user \in overtaken'
                        \/ i = 1 /\ queueUser' = worker'[i].user
                        \/ i # 1 /\ worker'[i - 1] = UserTask(worker'[i].user)
      BY DEF Paired
    <3>1. CASE i \in 1..n
      <4>1. i \in 1..Len(worker) /\ worker'[i] = worker[i]
        BY <1>10, <1>11, <3>1
      <4>2. \/ worker[i].user \in overtaken
            \/ i = 1 /\ queueUser = worker[i].user
            \/ i # 1 /\ worker[i - 1] = UserTask(worker[i].user)
        BY <4>1, SafeParts DEF Queued, Paired
      <4>3. worker[i].user \in overtaken => worker'[i].user \in overtaken'
        BY <1>4, <4>1
      <4>4. i # 1 => worker'[i - 1] = worker[i - 1]
        <5>1. i # 1 => i - 1 \in 1..n
          BY <1>10, <3>1
        <5> QED  BY <1>11, <5>1
      <4> QED  BY <1>2, <4>1, <4>2, <4>3, <4>4
    <3>2. CASE i = n + 2
      BY <1>10, <1>11, <1>12, <1>4, <3>2
    <3> QED  BY <1>11, <1>12, <2>1, <3>1, <3>2
  <2> QED  BY <1>2, <2>2, <2>3 DEF Queued, Backed
<1> QED  BY <1>6, <1>13, SafeParts

\* A change of the user put at the end of the worker queue, or not heard at all.
LEMMA UserTaskQueued ==
  ASSUME TypeOK, Queued, NEW user, worker' = Append(worker, UserTask(user)),
         Len(jobs') = Len(jobs), UNCHANGED <<accounts, images, queueUser, overtaken>>
  PROVE  Queued'
<1>1. UserTask(user).does = "user"
  BY DEF UserTask
<1> DEFINE task == UserTask(user)
<1>2. PICK n \in Nat : n = Len(worker)
  BY DEF TypeOK
<1> HIDE DEF task
<1>3. /\ Len(worker') = n + 1 /\ worker'[n + 1] = task
      /\ \A i \in 1..n : worker'[i] = worker[i]
  BY <1>2 DEF task, TypeOK
<1>4. \A i \in 1..Len(worker') : worker'[i].does = "write" => i \in 1..n
  BY <1>1, <1>2, <1>3 DEF task
<1>5. Paired'
  BY <1>2, <1>3, <1>4 DEF Queued, Paired
<1>6. \A i \in 1..Len(worker') : worker'[i].does = "write" =>
        worker'[i].user \in 1..Len(jobs') /\ Backed(worker'[i].user)
  BY <1>2, <1>3, <1>4 DEF Queued
<1> QED  BY <1>5, <1>6 DEF Queued, Backed

LEMMA HearQueued ==
  ASSUME TypeOK, Queued, NEW user, worker' = Hear(user),
         Len(jobs') = Len(jobs), UNCHANGED <<accounts, images, queueUser, overtaken>>
  PROVE  Queued'
<1>1. CASE worker' = Append(worker, UserTask(user))
  BY <1>1, UserTaskQueued
<1>2. CASE worker' = worker
  BY <1>2, QueueKept
<1> QED  BY <1>1, <1>2 DEF Hear

LEMMA SignedOutSafe == ASSUME TypeOK, Safe, SignedOut PROVE Safe'
<1>1. Stored'
  BY SafeParts DEF SignedOut, server, disk, Stored, Backed, Owners, OwnQueue,
      ProfileBacked,
    JobOK, Pending
<1>2. Queued'
  BY HearQueued, SafeParts DEF SignedOut, server
<1> QED  BY <1>1, <1>2, SafeParts

LEMMA SignedInSafe ==
  ASSUME TypeOK, Safe, NEW j \in 1..Len(jobs), SignedIn(j) PROVE Safe'
<1>1. PICK stage \in {"done", "unheard"} : Handles(j, {"logIn"}, "signedIn", stage)
  BY DEF SignedIn
<1>2. Restaged(jobs, jobs', j, stage) /\ JobOK(j)
  BY <1>1, HandlesType, Stages DEF Safe
<1>3. UNCHANGED <<accounts, images, profiles, persisted, queueUser, overtaken>>
  BY DEF SignedIn, server, disk
<1>4. jobs[j].kind = "logIn" /\ jobs[j].stage = "signedIn"
  BY <1>1 DEF Handles
<1>5. accounts[jobs[j].email] # j
  BY <1>4, OwnedSignUp DEF Safe
<1>6. JobOK(j)'
  BY <1>2, <1>3, <1>4, <1>5
  DEF Restaged, JobOK, Pending, SignUpStages, ImageStages, AccountStages, OrphanStages
<1>7. Stored'
  BY <1>2, <1>3, <1>6, JobStep, SafeParts
<1>8. Queued'
  <2>1. \/ worker' = Hear(jobs[j].user)
        \/ worker' = Append(worker, UserTask(current))
    BY DEF SignedIn
  <2>2. Len(jobs') = Len(jobs) /\ Queued
    BY <1>2, SafeParts DEF Restaged
  <2> QED  BY <1>3, <2>1, <2>2, HearQueued, UserTaskQueued
<1> QED  BY <1>7, <1>8, SafeParts

\* The first task of the worker queue is run.
LEMMA RunTaskSafe == ASSUME TypeOK, Safe, RunTask PROVE Safe'
<1> DEFINE task == Head(worker)
<1>1. worker \in Seq(Task) /\ worker # << >> /\ worker' = Tail(worker)
  BY DEF TypeOK, RunTask
<1>2. /\ Len(worker) \in Nat /\ Len(worker) > 0 /\ Len(worker') = Len(worker) - 1
      /\ task = worker[1] /\ 1 \in 1..Len(worker)
      /\ \A i \in 1..Len(worker') :
           i \in Nat /\ i # 0 /\ i + 1 \in 1..Len(worker) /\ worker'[i] = worker[i + 1]
  BY <1>1
<1>3. UNCHANGED <<accounts, images, profiles, overtaken>>
  BY DEF RunTask, server
<1>4. Stored /\ Queued
  BY SafeParts
<1> HIDE DEF task
<1>5. ASSUME Len(jobs') = Len(jobs), task.does = "user" => queueUser' = task.user
      PROVE  Queued'
  <2>1. \A i \in 1..Len(worker') : worker'[i].does = "write" =>
          worker'[i].user \in 1..Len(jobs') /\ Backed(worker'[i].user)
    BY <1>2, <1>4, <1>5 DEF Queued
  <2>2. Paired'
    <3> SUFFICES ASSUME NEW i \in 1..Len(worker'), worker'[i].does = "write",
                        worker'[i].user \notin overtaken
                 PROVE  \/ i = 1 /\ queueUser' = worker'[i].user
                        \/ i # 1 /\ worker'[i - 1] = UserTask(worker'[i].user)
      BY <1>3 DEF Paired
    <3>1. worker[i] = UserTask(worker'[i].user)
      <4>1. i + 1 \in 1..Len(worker) /\ i + 1 # 1 /\ (i + 1) - 1 = i
            /\ worker'[i] = worker[i + 1]
        BY <1>2
      <4> QED  BY <1>4, <4>1 DEF Queued, Paired
    <3>2. CASE i = 1
      BY <1>2, <1>5, <3>1, <3>2 DEF UserTask
    <3>3. CASE i # 1
      <4>1. i - 1 \in 1..Len(worker') /\ (i - 1) + 1 = i
        BY <1>2, <3>3
      <4>2. worker'[i - 1] = worker[i]
        BY <1>2, <4>1
      <4> QED  BY <3>1, <3>3, <4>2
    <3> QED  BY <3>2, <3>3
  <2> QED  BY <1>3, <2>1, <2>2 DEF Queued, Backed
<1>6. CASE task.does = "user"
  <2>1. UNCHANGED <<persisted, jobs>> /\ queueUser' = task.user
    BY <1>6 DEF RunTask, task
  <2>2. Stored'
    BY <1>3, <1>4, <2>1 DEF Stored, Backed, Owners, OwnQueue, ProfileBacked, JobOK,
        Pending
  <2> QED  BY <1>5, <2>1, <2>2, SafeParts
<1>7. CASE task.does = "write"
  <2>1. PICK j \in 1..Len(jobs) :
          /\ j = task.user /\ Restaged(jobs, jobs', j, "stored")
          /\ persisted' = persisted \cup {<<queueUser, j>>} /\ queueUser' = queueUser
    BY <1>7, StoredType DEF Safe, task
  <2>2. (queueUser = j \/ j \in overtaken) /\ Backed(j)
    BY <1>2, <1>4, <1>7, <2>1 DEF Queued, Paired
  <2>3. j \in images /\ jobs[j].kind = "signUp" /\ accounts[jobs[j].email] = j
    BY <2>2, BackedJob DEF Safe
  <2>4. Pending(j)' /\ \A i : i # j => (Pending(i)' <=> Pending(i))
    <3> DEFINE v == <<queueUser, j>>
    <3>1. v[2] = j /\ persisted' = persisted \cup {v}
      BY <2>1
    <3> HIDE DEF v
    <3>2. Pending(j)'
      BY <3>1 DEF Pending
    <3>3. ASSUME NEW i, i # j PROVE Pending(i)' <=> Pending(i)
      BY <3>1, <3>3 DEF Pending
    <3> QED  BY <3>2, <3>3
  <2>5. JobOK(j)'
    BY <1>3, <2>1, <2>3, <2>4
    DEF Restaged, JobOK, SignUpStages, ImageStages, AccountStages, OrphanStages
  <2>6. \A i \in 1..Len(jobs') : JobOK(i)'
    <3> TAKE i \in 1..Len(jobs')
    <3>1. CASE i = j
      BY <2>5, <3>1
    <3>2. CASE i # j
      <4>1. i \in 1..Len(jobs) /\ jobs'[i] = jobs[i] /\ JobOK(i)
        BY <1>4, <2>1, <3>2 DEF Restaged, Stored
      <4>2. Pending(i)' <=> Pending(i)
        BY <2>4, <3>2
      <4> QED  BY <1>3, <4>1, <4>2 DEF JobOK
    <3> QED  BY <3>1, <3>2
  <2>7. Owners' /\ ProfileBacked'
    BY <1>3, <1>4, <2>1 DEF Stored, Owners, ProfileBacked, Restaged
  <2>8. OwnQueue'
    BY <1>3, <1>4, <2>1, <2>2 DEF Stored, OwnQueue
  <2>9. \A w \in persisted' : w[2] \in 1..Len(jobs') /\ Backed(w[2])
    BY <1>4, <2>1, <2>2 DEF Stored, Restaged
  <2>10. Stored'
    BY <1>3, <2>6, <2>7, <2>8, <2>9 DEF Stored, Backed
  <2>11. Len(jobs') = Len(jobs)
    BY <2>1 DEF Restaged
  <2> QED  BY <1>5, <1>7, <2>10, <2>11, SafeParts
<1> QED  BY <1>6, <1>7 DEF RunTask, task

LEMMA CommitSafe ==
  ASSUME TypeOK, Safe, NEW j \in 1..Len(jobs), Commit(j) PROVE Safe'
<1>1. profiles' = profiles \cup {j}
      /\ UNCHANGED <<accounts, images, persisted, jobs, worker, queueUser, overtaken>>
  BY DEF Commit, disk, queues, client
<1>2. Backed(j)
  BY DEF Safe, WritesBacked, Commit
<1>3. ProfileBacked'
  BY <1>1, <1>2 DEF Safe, ProfileBacked, Backed
<1>4. \A i \in 1..Len(jobs') : JobOK(i)'
  BY <1>1 DEF Safe, JobOK, Pending
<1>5. Known' /\ Owners' /\ WritesBacked' /\ Paired' /\ OwnQueue'
  BY <1>1 DEF Safe, Known, Owners, WritesBacked, Backed, Paired, OwnQueue
<1> QED  BY <1>3, <1>4, <1>5 DEF Safe

\* A profile write leaves the queue.
LEMMA SettleSafe ==
  ASSUME TypeOK, Safe, NEW j \in 1..Len(jobs), NEW stage \in {"confirmed", "failing"},
         Settle(j, stage), UNCHANGED <<accounts, images, profiles>>,
         <<queueUser, j>> \in persisted, stage = "confirmed" => j \in profiles
  PROVE  Safe'
<1>1. /\ persisted' = persisted \ {<<queueUser, j>>}
      /\ UNCHANGED <<worker, queueUser, overtaken>>
  BY DEF Settle, client
<1>2. (Pending(j)' => Pending(j)) /\ \A i : i # j => (Pending(i)' <=> Pending(i))
  BY <1>1 DEF Pending
<1>3. JobOK(j) /\ jobs[j].kind = "signUp"
  <2>1. Backed(j)
    BY DEF Safe, WritesBacked
  <2> QED  BY <2>1, BackedJob DEF Safe
<1>4. /\ Len(jobs') = Len(jobs)
      /\ \A i \in 1..Len(jobs) :
           /\ i # j => jobs'[i] = jobs[i]
           /\ jobs'[i].kind = jobs[i].kind /\ jobs'[i].email = jobs[i].email
      /\ jobs'[j].stage = IF jobs[j].stage = "stored" THEN stage ELSE jobs[j].stage
  <2>1. CASE jobs[j].stage = "stored"
    <3>1. Restaged(jobs, jobs', j, stage)
      BY <2>1, ProceedType, Stages DEF Settle
    <3> QED  BY <2>1, <3>1 DEF Restaged
  <2>2. CASE jobs[j].stage # "stored"
    BY <2>2 DEF Settle
  <2> QED  BY <2>1, <2>2
<1>5. JobOK(j)'
  BY <1>2, <1>3, <1>4
  DEF JobOK, SignUpStages, ImageStages, AccountStages, OrphanStages
<1>6. \A i \in 1..Len(jobs') : JobOK(i)'
  <2> TAKE i \in 1..Len(jobs')
  <2>1. CASE i = j
    BY <1>5, <2>1
  <2>2. CASE i # j
    <3>1. jobs'[i] = jobs[i] /\ JobOK(i)
      BY <1>4, <2>2 DEF Safe
    <3>2. Pending(i)' <=> Pending(i)
      BY <1>2, <2>2
    <3> QED  BY <3>1, <3>2 DEF JobOK
  <2> QED  BY <2>1, <2>2
<1>7. Owners' /\ ProfileBacked' /\ OwnQueue'
  BY <1>1, <1>4 DEF Safe, Owners, ProfileBacked, OwnQueue
<1>8. Known' /\ WritesBacked' /\ Paired'
  BY <1>1, <1>4 DEF Safe, Known, WritesBacked, Backed, Paired
<1> QED  BY <1>6, <1>7, <1>8 DEF Safe

LEMMA AckSafe ==
  ASSUME TypeOK, Safe, NEW j \in 1..Len(jobs), Ack(j) PROVE Safe'
BY SettleSafe DEF Ack, Settle, server, client

LEMMA RefuseSafe ==
  ASSUME TypeOK, Safe, NEW j \in 1..Len(jobs), Refuse(j) PROVE Safe'
BY SettleSafe DEF Refuse, Settle, server, client

\* The app is killed: jobs that run are lost, the tasks of the worker queue too.
LEMMA KillSafe == ASSUME TypeOK, Safe, Kill PROVE Safe'
<1> DEFINE F(j) == IF jobs[j].stage \in Running THEN [jobs[j] EXCEPT !.stage = "lost"]
                   ELSE jobs[j]
<1>1. jobs' = [j \in 1..Len(jobs) |-> F(j)]
  BY DEF Kill
<1>2. \A j \in 1..Len(jobs) :
        /\ F(j).kind = jobs[j].kind /\ F(j).email = jobs[j].email
        /\ F(j).stage = IF jobs[j].stage \in Running THEN "lost" ELSE jobs[j].stage
  BY JobType DEF JobRecord
<1> HIDE DEF F
<1>3. Len(jobs) \in Nat /\ Len(jobs') = Len(jobs)
  BY <1>1, LenProperties DEF TypeOK
<1>4. \A j \in 1..Len(jobs) :
        /\ jobs'[j].kind = jobs[j].kind /\ jobs'[j].email = jobs[j].email
        /\ jobs'[j].stage = IF jobs[j].stage \in Running THEN "lost" ELSE jobs[j].stage
  BY <1>1, <1>2
<1>5. UNCHANGED <<accounts, images, profiles, persisted, overtaken>> /\ worker' = << >>
  BY DEF Kill, server, disk, client
<1>6. \A j \in 1..Len(jobs') : JobOK(j)'
  <2> TAKE j \in 1..Len(jobs')
  <2>1. j \in 1..Len(jobs) /\ JobOK(j)
    BY <1>3 DEF Safe
  <2> QED
    BY <1>4, <1>5, <2>1
    DEF JobOK, Pending, SignUpStages, ImageStages, AccountStages, OrphanStages,
        Running, Dispatched
<1>7. Owners' /\ OwnQueue' /\ ProfileBacked'
  BY <1>3, <1>4, <1>5 DEF Safe, Owners, OwnQueue, ProfileBacked
<1>8. Known' /\ WritesBacked' /\ Paired'
  BY <1>3, <1>5 DEF Safe, Known, WritesBacked, Backed, Paired
<1> QED  BY <1>6, <1>7, <1>8 DEF Safe

LEMMA InitSafe == Init => Safe
<1> SUFFICES ASSUME Init PROVE Safe
  OBVIOUS
<1>1. jobs = << >> /\ Len(jobs) = 0 /\ worker = << >> /\ Len(worker) = 0
      /\ persisted = {} /\ profiles = {} /\ \A e \in Email : accounts[e] = NoUser
  BY DEF Init
<1> QED
  BY <1>1 DEF Safe, Known, Owners, WritesBacked, Paired, OwnQueue, ProfileBacked

-----------------------------------------------------------------------------
(* The theorems.                                                           *)

\* The inductive invariant: types, and what ties jobs, writes and server.
IInv == TypeOK /\ Safe

LEMMA Inductive == IInv /\ [Next]_vars => IInv'
<1> SUFFICES ASSUME TypeOK, Safe, [Next]_vars PROVE TypeOK' /\ Safe'
  BY DEF IInv
<1>1. ASSUME NEW e \in Email, SignUp(e) PROVE TypeOK' /\ Safe'
  BY <1>1, SignUpType, SignUpSafe
<1>2. ASSUME NEW e \in Email, LogIn(e) PROVE TypeOK' /\ Safe'
  BY <1>2, LogInType, LogInSafe
<1>3. CASE ShowSignUp
  BY <1>3, ShowSignUpType, ShowSignUpSafe
<1>4. CASE ShowLogin
  BY <1>4, ShowLoginType, ShowLoginSafe
<1>5. CASE ShowProfile
  BY <1>5, ShowProfileType, ShowProfileSafe
<1>6. CASE CloseProfile
  BY <1>6, CloseProfileType, CloseProfileSafe
<1>7. CASE Logout
  BY <1>7, LogoutType, LogoutSafe
<1>8. ASSUME NEW j \in 1..Len(jobs), Reply(j) PROVE TypeOK' /\ Safe'
  BY <1>8, UploadReplyType, URLReplyType, CreateAccountType, AccountReplyType,
     LogInReplyType, UploadReplySafe, URLReplySafe, CreateAccountSafe, AccountReplySafe,
     LogInReplySafe DEF Reply
<1>9. ASSUME NEW j \in 1..Len(jobs), Handler(j) PROVE TypeOK' /\ Safe'
  BY <1>9, UploadedType, LocatedType, SignedUpType, ConfirmedType, SignedInType,
      FailedType,
     UploadedSafe, LocatedSafe, SignedUpSafe, ConfirmedSafe, SignedInSafe, FailedSafe
  DEF Handler
<1>10. ASSUME NEW j \in 1..Len(jobs), Write(j) PROVE TypeOK' /\ Safe'
  BY <1>10, CommitType, AckType, RefuseType, CommitSafe, AckSafe, RefuseSafe DEF Write
<1>11. CASE SignedOut
  BY <1>11, SignedOutType, SignedOutSafe
<1>12. CASE RunTask
  BY <1>12, RunTaskType, RunTaskSafe DEF Safe
<1>13. ASSUME NEW f \in Form, NEW user \in User, ProfileReply(f, user)
       PROVE  TypeOK' /\ Safe'
  BY <1>13, ProfileReplyType, ProfileReplySafe
<1>14. ASSUME NEW f \in Form, Release(f) PROVE TypeOK' /\ Safe'
  BY <1>14, ReleaseType, ReleaseSafe
<1>15. CASE ConversationArrives
  BY <1>15, ConversationArrivesType, ConversationArrivesSafe
<1>16. CASE Animate
  BY <1>16, AnimateType, AnimateSafe
<1>17. CASE Kill
  BY <1>17, KillType, KillSafe
<1>18. CASE UNCHANGED vars
  <2>1. TypeOK'
    BY <1>18 DEF vars, server, disk, queues, screen, bounds, TypeOK, client
  <2>2. Safe'
    BY <1>18, ScreenStep DEF vars, server, disk, queues, client
  <2> QED  BY <2>1, <2>2
<1> QED
  BY <1>1, <1>2, <1>3, <1>4, <1>5, <1>6, <1>7, <1>8, <1>9, <1>10, <1>11, <1>12, <1>13,
     <1>14, <1>15, <1>16, <1>17, <1>18 DEF Next

\* What sign-up, login and logout keep in every reachable state: the invariant the
\* theorems below rest on (AuthService.swift, RegistrationController.swift).
THEOREM SessionInvariant == Spec => []IInv
<1>1. Init => IInv
  BY InitType, InitSafe DEF IInv
<1> QED  BY <1>1, Inductive, PTL DEF Spec

\* Every variable keeps its type.
THEOREM SessionTypeCorrect == Spec => []TypeOK
<1>1. IInv => TypeOK
  BY DEF IInv
<1> QED  BY <1>1, SessionInvariant, PTL

\* A profile document belongs to an account that exists, and its image is stored.
THEOREM ProfileBackedAlways == Spec => []ProfileBacked
<1>1. IInv => ProfileBacked
  BY DEF IInv, Safe
<1> QED  BY <1>1, SessionInvariant, PTL

\* The profile document of an account is only ever queued for that account.
THEOREM OwnQueueAlways == Spec => []OwnQueue
<1>1. IInv => OwnQueue
  BY DEF IInv, Safe
<1> QED  BY <1>1, SessionInvariant, PTL

\* An account stays without a profile document only while its sign-up is being
\* completed, after the user was told of an error, or after a kill.
THEOREM NoSilentOrphanAlways == Spec => []NoSilentOrphan
<1>1. IInv => NoSilentOrphan
  <2> SUFFICES ASSUME IInv, NEW e \in Email, accounts[e] # NoUser, accounts[e] \notin profiles
               PROVE  \/ Pending(accounts[e])
                      \/ jobs[accounts[e]].stage \in OrphanStages
    BY DEF NoSilentOrphan, OrphanStages
  <2>1. PICK u : u = accounts[e]
    OBVIOUS
  <2>2. u \in 1..Len(jobs) /\ jobs[u].email = e
    BY <2>1 DEF IInv, Safe, Owners
  <2>3. JobOK(u)
    BY <2>2 DEF IInv, Safe
  <2> QED  BY <2>1, <2>2, <2>3 DEF JobOK
<1> QED  BY <1>1, SessionInvariant, PTL

-----------------------------------------------------------------------------
(***************************************************************************)
(* The screens: whose conversations are listened to, and what the progress *)
(* indicator covers.                                                       *)
(*                                                                         *)
(* Neither property is inductive.  The user signed in is listened to, or a *)
(* job that signed that user in is on its way to listen, or has ended      *)
(* without doing so (Heard); for that a sign-up must know its own user     *)
(* (OwnNumber).  An indicator that is still appearing covers nothing yet   *)
(* and will later, when its job may have ended: whatever it lasts over has *)
(* a job that has not ended (Held), and is no form that was deallocated    *)
(* (CoversLiving), since a job of such a form dismisses nothing; a tap     *)
(* shows the indicator over a form that is alive (Presented).              *)
(***************************************************************************)

\* The user of a sign-up has its number.
OwnNumber == \A j \in 1..Len(jobs) : jobs[j].kind = "signUp" => jobs[j].user = j

\* Stages of a job whose user is signed in and may not be listened to.
Signing == {"signedIn", "issued", "stored", "confirmed", "failing", "unheard", "failed"}

Signer(user) == \E j \in 1..Len(jobs) : jobs[j].user = user /\ jobs[j].stage \in Signing

Heard == current # NoUser => current \in listeners \/ Signer(current)

CoversLiving == hud.view \in alive \cup {Home, NoView}

\* An indicator without a view does not stay.
ViewNeeded == hud.view = NoView => hud.phase # "shown"

\* A job of the form f has not ended, or was dropped without a word.
Held(f) == \E j \in 1..Len(jobs) :
             jobs[j].form = f /\ jobs[j].stage \in Running \cup {"silent"}

Covered ==
  \A f \in 1..Len(forms) :
    forms[f] \in {"login", "registration"} /\ Lasting(hud, f) => Held(f)

Indicated == CoversLiving /\ ViewNeeded /\ Covered

\* A screen that is presented is alive.
Presented == \A i \in 1..Len(open) : open[i] \in alive

Screens == OwnNumber /\ Heard /\ Presented /\ Indicated

-----------------------------------------------------------------------------
(* One job goes on.                                                        *)

\* What a change of the stage of job j, and of its user, leaves as it was.
GoesOn(j, stage, user) ==
  /\ Len(jobs') = Len(jobs)
  /\ \A i \in 1..Len(jobs) :
       /\ jobs'[i].kind = jobs[i].kind /\ jobs'[i].form = jobs[i].form
       /\ jobs'[i].user = IF i = j THEN user ELSE jobs[i].user
       /\ jobs'[i].stage = IF i = j THEN stage ELSE jobs[i].stage

LEMMA StageGoesOn ==
  ASSUME TypeOK, NEW j \in 1..Len(jobs), NEW stage,
         jobs' = [jobs EXCEPT ![j].stage = stage]
  PROVE  GoesOn(j, stage, jobs[j].user)
<1>1. \A i \in 1..Len(jobs) : jobs[i] \in JobRecord
  BY JobType
<1>2. jobs[j] = [kind |-> jobs[j].kind, email |-> jobs[j].email, form |-> jobs[j].form,
                 user |-> jobs[j].user, stage |-> jobs[j].stage]
  BY <1>1 DEF JobRecord
<1>3. jobs \in [1..Len(jobs) -> JobRecord] /\ Len(jobs) \in Nat
  BY LenProperties DEF TypeOK
<1>4. Len(jobs') = Len(jobs)
  <2>1. jobs' \in [1..Len(jobs) -> JobRecord \cup {[jobs[j] EXCEPT !.stage = stage]}]
    BY <1>3
  <2> QED  BY <1>3, <2>1, IsASeq, LenProperties
<1>5. \A i \in 1..Len(jobs) :
        jobs'[i] = IF i = j THEN [jobs[j] EXCEPT !.stage = stage] ELSE jobs[i]
  BY <1>3
<1>6. LET r == [jobs[j] EXCEPT !.stage = stage] IN
      /\ r.kind = jobs[j].kind /\ r.form = jobs[j].form
      /\ r.user = jobs[j].user /\ r.stage = stage
  BY <1>2
<1> QED  BY <1>4, <1>5, <1>6 DEF GoesOn

LEMMA FoundGoesOn ==
  ASSUME TypeOK, NEW j \in 1..Len(jobs), NEW stage, NEW user,
         jobs' = [jobs EXCEPT ![j].stage = stage, ![j].user = user]
  PROVE  GoesOn(j, stage, user)
<1> DEFINE r == [jobs[j] EXCEPT !.stage = stage, !.user = user]
<1>1. \A i \in 1..Len(jobs) : jobs[i] \in JobRecord
  BY JobType
<1>2. jobs \in [1..Len(jobs) -> JobRecord] /\ Len(jobs) \in Nat
  BY LenProperties DEF TypeOK
<1>3. jobs' = [jobs EXCEPT ![j] = r]
  BY <1>2
<1>4. /\ r.kind = jobs[j].kind /\ r.form = jobs[j].form
      /\ r.user = user /\ r.stage = stage
  BY <1>1 DEF JobRecord
<1> HIDE DEF r
<1>5. Len(jobs') = Len(jobs)
  <2>1. jobs' \in [1..Len(jobs) -> JobRecord \cup {r}]
    BY <1>2, <1>3
  <2> QED  BY <1>2, <2>1, IsASeq, LenProperties
<1>6. \A i \in 1..Len(jobs) : jobs'[i] = IF i = j THEN r ELSE jobs[i]
  BY <1>2, <1>3
<1> QED  BY <1>4, <1>5, <1>6 DEF GoesOn

\* A job whose user stays signs it in no less than before.
LEMMA SignerKept ==
  ASSUME NEW j \in 1..Len(jobs), NEW stage, GoesOn(j, stage, jobs[j].user),
         jobs[j].stage \in Signing => stage \in Signing,
         NEW user, Signer(user)
  PROVE  Signer(user)'
<1>1. PICK i \in 1..Len(jobs) : jobs[i].user = user /\ jobs[i].stage \in Signing
  BY DEF Signer
<1>2. jobs'[i].user = user /\ jobs'[i].stage \in Signing
  BY <1>1 DEF GoesOn
<1> QED  BY <1>2 DEF Signer, GoesOn

\* A form keeps the job that holds it, unless that job ends.
LEMMA HeldKept ==
  ASSUME NEW j \in 1..Len(jobs), NEW stage, NEW user, GoesOn(j, stage, user),
         NEW f, Held(f),
         \/ jobs[j].form # f
         \/ jobs[j].stage \notin Running \cup {"silent"}
         \/ stage \in Running \cup {"silent"}
  PROVE  Held(f)'
<1>1. PICK i \in 1..Len(jobs) :
        jobs[i].form = f /\ jobs[i].stage \in Running \cup {"silent"}
  BY DEF Held
<1>2. jobs'[i].form = f /\ jobs'[i].stage \in Running \cup {"silent"}
  BY <1>1 DEF GoesOn
<1> QED  BY <1>2 DEF Held, GoesOn

LEMMA OwnKept ==
  ASSUME OwnNumber, NEW j \in 1..Len(jobs), NEW stage, NEW user, GoesOn(j, stage, user),
         user = jobs[j].user \/ jobs[j].kind # "signUp"
  PROVE  OwnNumber'
BY DEF OwnNumber, GoesOn

\* What the indicator lasts over is alive.
LEMMA LastingAlive ==
  ASSUME TypeOK, CoversLiving, NEW f \in Nat \ {0}, Lasting(hud, f)
  PROVE  f \in alive
BY SessionAssumption DEF CoversLiving, Lasting, Home

LEMMA IndicatedKept ==
  ASSUME TypeOK, Indicated, UNCHANGED <<forms, alive, hud>>,
         \A f \in alive : Held(f) => Held(f)'
  PROVE  Indicated'
<1>1. ASSUME NEW f \in 1..Len(forms), forms[f] \in {"login", "registration"},
             Lasting(hud, f)
      PROVE  Held(f)'
  <2>1. f \in alive
    BY <1>1, LastingAlive DEF Indicated
  <2> QED  BY <1>1, <2>1 DEF Indicated, Covered
<1>2. Covered'
  BY <1>1 DEF Covered
<1> QED  BY <1>2 DEF Indicated, CoversLiving, ViewNeeded

\* After a dismissal the indicator lasts over nothing.
LEMMA DismissedIndicated ==
  ASSUME TypeOK, Indicated, UNCHANGED <<forms, alive>>, hud' = Dismiss(hud)
  PROVE  Indicated'
<1>1. /\ hud'.view = hud.view
      /\ hud'.phase = "shown" => hud.phase = "shown"
      /\ \A w : ~ Lasting(hud', w)
  BY DismissFacts DEF TypeOK
<1> QED  BY <1>1 DEF Indicated, CoversLiving, ViewNeeded, Covered

\* The jobs stay as they are, and the indicator lasts over nothing new.
LEMMA LastingNoMore ==
  ASSUME TypeOK, Indicated, UNCHANGED <<forms, jobs>>,
         hud'.view \in alive' \cup {Home, NoView},
         hud'.view = NoView => hud'.phase # "shown",
         \A w : Lasting(hud', w) => Lasting(hud, w)
  PROVE  Indicated'
BY DEF Indicated, CoversLiving, ViewNeeded, Covered, Held

\* A step of one job that leaves its user and the screens as they are.
LEMMA QuietJob ==
  ASSUME TypeOK, Screens, NEW j \in 1..Len(jobs), NEW stage,
         GoesOn(j, stage, jobs[j].user),
         jobs[j].stage \in Signing => stage \in Signing,
         \/ jobs[j].form \notin alive
         \/ jobs[j].stage \notin Running \cup {"silent"}
         \/ stage \in Running \cup {"silent"},
         current' = current \/ (jobs[j].user = current' /\ stage \in Signing),
         UNCHANGED screen
  PROVE  Screens'
<1>1. UNCHANGED <<forms, alive, open, hud, listeners>>
  BY DEF screen
<1>2. OwnNumber'
  BY OwnKept DEF Screens
<1>3. Heard'
  <2>1. CASE current' = current
    BY <1>1, <2>1, SignerKept DEF Screens, Heard
  <2>2. CASE jobs[j].user = current' /\ stage \in Signing
    BY <2>2 DEF Heard, Signer, GoesOn
  <2> QED  BY <2>1, <2>2
<1>4. Indicated'
  BY <1>1, HeldKept, IndicatedKept DEF Screens
<1> QED  BY <1>1, <1>2, <1>3, <1>4 DEF Screens, Presented

\* A step that leaves jobs, user and listeners as they are.
LEMMA QuietScreen ==
  ASSUME Screens, UNCHANGED <<jobs, current, listeners>>, Presented', Indicated'
  PROVE  Screens'
BY DEF Screens, OwnNumber, Heard, Signer

-----------------------------------------------------------------------------
(* The steps.                                                              *)

LEMMA InitScreens == Init => Screens
<1> SUFFICES ASSUME Init PROVE Screens
  OBVIOUS
<1>1. /\ jobs = << >> /\ Len(jobs) = 0 /\ current = NoUser /\ hud = LaunchHud
      /\ forms = LaunchForms(NoUser)
  BY DEF Init
<1>2. hud.view = Home /\ hud.phase # "shown" /\ Home # NoView
  BY <1>1, SessionAssumption DEF LaunchHud, Show, Hidden, Moving, Home
<1>3. \A f \in 1..Len(forms) : ~ Lasting(hud, f)
  BY <1>2, LenProperties DEF Lasting, Home
<1>4. Presented
  BY DEF Init, LaunchOpen, Presented
<1> QED  BY <1>1, <1>2, <1>3, <1>4
         DEF Screens, OwnNumber, Heard, Indicated, CoversLiving, ViewNeeded, Covered

\* The job of a tap.
LEMMA TapScreens ==
  ASSUME TypeOK, Screens, NEW kind \in {"signUp", "logIn"}, NEW e,
         NEW stage \in Running \cup {"silent"},
         open # << >>, Tap(kind, e, stage)
  PROVE  Screens'
<1> DEFINE user == IF kind = "signUp" THEN Len(jobs) + 1 ELSE NoUser
           r == [kind |-> kind, email |-> e, form |-> Top, user |-> user, stage |-> stage]
<1>1. /\ jobs' = Append(jobs, r) /\ hud' = Show(hud, Top)
      /\ UNCHANGED <<current, forms, alive, open, listeners>>
  BY DEF Tap, disk
<1>2. PICK n \in Nat : n = Len(jobs)
  BY LenProperties DEF TypeOK
<1>3. /\ Len(jobs') = n + 1 /\ jobs'[n + 1] = r
      /\ \A j \in 1..n : jobs'[j] = jobs[j]
  <2> HIDE DEF r
  <2>1. jobs \in Seq(JobRecord \cup {r})
    BY DEF TypeOK
  <2> QED  BY <1>1, <1>2, <2>1
<1>4. r.kind = kind /\ r.form = Top /\ r.user = user /\ r.stage = stage
  OBVIOUS
<1>5. kind = "signUp" => user = n + 1
  BY <1>2
<1> HIDE DEF r, user
<1>6. OwnNumber'
  <2> SUFFICES ASSUME NEW j \in 1..(n + 1), jobs'[j].kind = "signUp"
               PROVE  jobs'[j].user = j
    BY <1>3 DEF OwnNumber
  <2>1. CASE j = n + 1
    BY <1>3, <1>4, <1>5, <2>1
  <2>2. CASE j \in 1..n
    BY <1>2, <1>3, <2>2 DEF Screens, OwnNumber
  <2> QED  BY <2>1, <2>2
<1>7. Heard'
  <2>1. Signer(current) => Signer(current)'
    BY <1>1, <1>2, <1>3 DEF Signer
  <2> QED  BY <1>1, <2>1 DEF Screens, Heard
<1>8. /\ hud'.view \in {hud.view, Top}
      /\ hud'.view = NoView => hud'.phase # "shown"
      /\ \A w : Lasting(hud', w) => Lasting(hud, w) \/ w = Top
  <2>1. hud \in Indicator(View) /\ (hud.view = NoView => hud.phase # "shown")
    BY DEF TypeOK, Screens, Indicated, ViewNeeded
  <2>2. Top \in View
    BY TopType
  <2> QED  BY <1>1, <2>1, <2>2, ShowFacts
<1>9. Covered'
  <2> SUFFICES ASSUME NEW f \in 1..Len(forms), forms[f] \in {"login", "registration"},
                      Lasting(hud', f)
               PROVE  Held(f)'
    BY <1>1 DEF Covered
  <2>1. CASE f = Top
    <3>1. n + 1 \in 1..Len(jobs')
      BY <1>3
    <3> QED  BY <1>3, <1>4, <2>1, <3>1 DEF Held
  <2>2. CASE f # Top
    <3>1. Held(f)
      BY <1>8, <2>2 DEF Screens, Indicated, Covered
    <3> QED  BY <1>2, <1>3, <3>1 DEF Held
  <2> QED  BY <2>1, <2>2
<1>10. Top \in alive
  <2>1. Len(open) \in 1..Len(open)
    BY DEF TypeOK
  <2> QED  BY <2>1 DEF Screens, Presented, Top
<1>11. CoversLiving' /\ ViewNeeded'
  BY <1>1, <1>8, <1>10 DEF Screens, Indicated, CoversLiving, ViewNeeded
<1>12. Presented'
  BY <1>1 DEF Screens, Presented
<1> QED  BY <1>6, <1>7, <1>9, <1>11, <1>12 DEF Screens, Indicated

\* A screen is presented.
LEMMA PresentScreens ==
  ASSUME TypeOK, Indicated, NEW kind, NEW under, Present(kind, under),
         under = open \/ under = << >>, Presented,
         UNCHANGED <<jobs, hud>>
  PROVE  Presented' /\ Indicated'
<1>1. PICK n \in Nat : n = Len(forms)
  BY LenProperties DEF TypeOK
<1>2. /\ Len(forms') = n + 1 /\ alive' = alive \cup {n + 1}
      /\ \A f \in 1..n : forms'[f] = forms[f]
  <2>1. forms \in Seq(FormKind \cup {kind})
    BY DEF TypeOK
  <2> QED  BY <1>1, <2>1 DEF Present
<1>3. ~ Lasting(hud, n + 1)
  <2>1. n + 1 \notin alive
    BY <1>1 DEF TypeOK
  <2> QED  BY <2>1, LastingAlive DEF Indicated
<1>4. Covered'
  <2> SUFFICES ASSUME NEW f \in 1..(n + 1), forms'[f] \in {"login", "registration"},
                      Lasting(hud, f)
               PROVE  Held(f)
    BY <1>2 DEF Covered, Held
  <2>1. f \in 1..n
    BY <1>3
  <2> QED  BY <1>1, <1>2, <2>1 DEF Indicated, Covered
<1>5. Presented'
  <2>1. under \in Seq(1..n)
    <3>1. open \in Seq(1..n) /\ << >> \in Seq(1..n)
      BY <1>1 DEF TypeOK
    <3> QED  BY <3>1
  <2>2. open' = Append(under, n + 1)
    BY <1>1 DEF Present
  <2>3. \A i \in 1..Len(under) : under[i] \in alive
    BY DEF Presented
  <2> QED  BY <1>1, <1>2, <2>1, <2>2, <2>3 DEF Presented
<1> QED  BY <1>2, <1>4, <1>5 DEF Indicated, CoversLiving, ViewNeeded

LEMMA SignUpScreens == ASSUME TypeOK, Screens, NEW e, SignUp(e) PROVE Screens'
BY TapScreens DEF SignUp, Shows, Running

LEMMA LogInScreens == ASSUME TypeOK, Screens, NEW e, LogIn(e) PROVE Screens'
BY TapScreens DEF LogIn, Shows, Running

LEMMA ShowSignUpScreens == ASSUME TypeOK, Screens, ShowSignUp PROVE Screens'
<1>1. Present("registration", open) /\ UNCHANGED <<jobs, current, listeners, hud>>
  BY DEF ShowSignUp, disk
<1> QED  BY <1>1, PresentScreens, QuietScreen DEF Screens

LEMMA ShowLoginScreens == ASSUME TypeOK, Screens, ShowLogin PROVE Screens'
<1>1. UNCHANGED <<jobs, current, listeners, hud, forms, alive>>
  BY DEF ShowLogin, disk
<1>2. Presented'
  <2>1. open \in Seq(Nat) /\ open # << >>
    BY LenProperties DEF TypeOK, ShowLogin, Shows
  <2>2. \A i \in 1..Len(open') : open'[i] = open[i] /\ i \in 1..Len(open)
    BY <2>1 DEF ShowLogin
  <2> QED  BY <1>1, <2>2 DEF Screens, Presented
<1>3. Indicated'
  BY <1>1 DEF Screens, Indicated, CoversLiving, ViewNeeded, Covered, Held
<1> QED  BY <1>1, <1>2, <1>3, QuietScreen

LEMMA ShowProfileScreens == ASSUME TypeOK, Screens, ShowProfile PROVE Screens'
<1>1. PICK n \in Nat : n = Len(forms)
  BY LenProperties DEF TypeOK
<1>2. Present("profile", << >>) /\ UNCHANGED <<jobs, current, listeners>>
  BY DEF ShowProfile, disk
<1>3. CASE hud' = hud
  BY <1>2, <1>3, PresentScreens, QuietScreen DEF Screens
<1>4. CASE hud' = Show(hud, n + 1)
  <2>1. /\ Len(forms') = n + 1 /\ alive' = alive \cup {n + 1} /\ open' = <<n + 1>>
        /\ forms'[n + 1] = "profile" /\ \A f \in 1..n : forms'[f] = forms[f]
    <3>1. forms \in Seq(FormKind \cup {"profile"})
      BY DEF TypeOK
    <3> QED  BY <1>1, <1>2, <3>1 DEF Present
  <2>2. n + 1 \in View
    BY <1>1, <1>2, SessionAssumption DEF Present, View
  <2>3. /\ hud'.view \in {hud.view, n + 1}
        /\ hud'.view = NoView => hud'.phase # "shown"
        /\ \A w : Lasting(hud', w) => Lasting(hud, w) \/ w = n + 1
    BY <1>4, <2>2, ShowFacts DEF TypeOK, Screens, Indicated, ViewNeeded
  <2>4. Covered'
    <3> SUFFICES ASSUME NEW f \in 1..(n + 1), forms'[f] \in {"login", "registration"},
                        Lasting(hud', f)
                 PROVE  Held(f)
      BY <1>2, <2>1 DEF Covered, Held
    <3>1. f \in 1..n
      BY <2>1
    <3> QED  BY <1>1, <2>1, <2>3, <3>1 DEF Screens, Indicated, Covered
  <2>5. CoversLiving' /\ ViewNeeded' /\ Presented'
    BY <2>1, <2>3 DEF Screens, Indicated, CoversLiving, ViewNeeded, Presented
  <2> QED  BY <1>2, <2>4, <2>5, QuietScreen DEF Indicated
<1> QED  BY <1>1, <1>3, <1>4 DEF ShowProfile

LEMMA CloseProfileScreens == ASSUME TypeOK, Screens, CloseProfile PROVE Screens'
<1>1. open' = << >> /\ UNCHANGED <<jobs, current, listeners, hud, forms, alive>>
  BY DEF CloseProfile, disk
<1>2. Presented'
  BY <1>1 DEF Presented
<1>3. Indicated'
  BY <1>1 DEF Screens, Indicated, CoversLiving, ViewNeeded, Covered, Held
<1> QED  BY <1>1, <1>2, <1>3, QuietScreen

LEMMA LogoutScreens == ASSUME TypeOK, Screens, Logout PROVE Screens'
<1>1. Present("login", << >>) /\ current' = NoUser /\ UNCHANGED <<jobs, hud>>
  BY DEF Logout
<1>2. Presented' /\ Indicated'
  BY <1>1, PresentScreens DEF Screens
<1> QED  BY <1>1, <1>2 DEF Screens, OwnNumber, Heard

LEMMA ReplyScreens ==
  ASSUME TypeOK, Safe, Screens, NEW j \in 1..Len(jobs), Reply(j) PROVE Screens'
<1> USE DEF Running, Dispatched, Signing
<1>1. CASE UploadReply(j)
  <2>1. PICK stage \in {"uploaded", "failing"} : jobs' = [jobs EXCEPT ![j].stage = stage]
    BY <1>1 DEF UploadReply, Fail, Proceed
  <2>2. jobs[j].stage = "uploading" /\ UNCHANGED current /\ UNCHANGED screen
    BY <1>1 DEF UploadReply, disk
  <2>3. GoesOn(j, stage, jobs[j].user)
    BY <2>1, StageGoesOn
  <2> QED  BY <2>2, <2>3, QuietJob
<1>2. CASE URLReply(j)
  <2>1. PICK stage \in {"located", "silent"} : jobs' = [jobs EXCEPT ![j].stage = stage]
    BY <1>2 DEF URLReply, Fail, Proceed
  <2>2. jobs[j].stage = "locating" /\ UNCHANGED current /\ UNCHANGED screen
    BY <1>2 DEF URLReply, disk
  <2>3. GoesOn(j, stage, jobs[j].user)
    BY <2>1, StageGoesOn
  <2> QED  BY <2>2, <2>3, QuietJob
<1>3. CASE CreateAccount(j)
  <2>1. PICK stage \in {"created", "failing"} : jobs' = [jobs EXCEPT ![j].stage = stage]
    BY <1>3 DEF CreateAccount, Fail, Proceed
  <2>2. jobs[j].stage = "creating" /\ UNCHANGED current /\ UNCHANGED screen
    BY <1>3 DEF CreateAccount, disk
  <2>3. GoesOn(j, stage, jobs[j].user)
    BY <2>1, StageGoesOn
  <2> QED  BY <2>2, <2>3, QuietJob
<1>4. CASE AccountReply(j)
  <2>1. PICK stage \in {"signedIn", "failing"} :
          /\ jobs' = [jobs EXCEPT ![j].stage = stage]
          /\ current' = current \/ current' = j
    BY <1>4 DEF AccountReply, Fail, Proceed
  <2>2. jobs[j].stage = "created" /\ UNCHANGED screen
    BY <1>4 DEF AccountReply
  <2>3. jobs[j].user = j
    BY <2>2 DEF Safe, JobOK, SignUpStages, Screens, OwnNumber
  <2>4. GoesOn(j, stage, jobs[j].user)
    BY <2>1, StageGoesOn
  <2> QED  BY <2>1, <2>2, <2>3, <2>4, QuietJob
<1>5. CASE LogInReply(j)
  <2> DEFINE user == accounts[jobs[j].email]
  <2>1. jobs[j].stage = "checking" /\ UNCHANGED screen
    BY <1>5 DEF LogInReply
  <2>2. jobs[j].kind # "signUp"
    BY <2>1 DEF Safe, JobOK
  <2>3. CASE jobs' = [jobs EXCEPT ![j].stage = "signedIn", ![j].user = user]
             /\ current' = user
    <3> HIDE DEF user
    <3>1. GoesOn(j, "signedIn", user)
      BY <2>3, FoundGoesOn
    <3>2. UNCHANGED <<forms, alive, open, hud, listeners>>
      BY <2>1 DEF screen
    <3>3. OwnNumber'
      BY <2>2, <3>1, OwnKept DEF Screens
    <3>4. Heard'
      BY <2>3, <3>1 DEF Heard, Signer, GoesOn
    <3>5. Indicated'
      BY <3>1, <3>2, HeldKept, IndicatedKept DEF Screens
    <3> QED  BY <3>2, <3>3, <3>4, <3>5 DEF Screens, Presented
  <2>4. CASE jobs' = [jobs EXCEPT ![j].stage = "failing"] /\ UNCHANGED current
    BY <2>1, <2>4, StageGoesOn, QuietJob
  <2> QED  BY <1>5, <2>3, <2>4 DEF LogInReply, Fail, Proceed
<1> QED  BY <1>1, <1>2, <1>3, <1>4, <1>5 DEF Reply

\* authenticationComplete: the user signed in is listened to from now on.
LEMMA CompleteScreens ==
  ASSUME TypeOK, Screens, NEW j \in 1..Len(jobs), NEW stage,
         GoesOn(j, stage, jobs[j].user), AuthenticationComplete, UNCHANGED current
  PROVE  Screens'
<1>1. /\ open' = << >> /\ listeners' = listeners \cup ({current} \ {NoUser})
      /\ hud' = Show(Dismiss(hud), Home) /\ UNCHANGED <<forms, alive>>
  BY DEF AuthenticationComplete
<1>2. Home \in View /\ Home # NoView
  BY SessionAssumption DEF Home, View
<1>3. /\ Dismiss(hud) \in Indicator(View) /\ Dismiss(hud).view = hud.view
      /\ Dismiss(hud).view = NoView => Dismiss(hud).phase # "shown"
      /\ \A w : ~ Lasting(Dismiss(hud), w)
  BY DismissFacts DEF TypeOK, Screens, Indicated, ViewNeeded
<1>4. /\ hud'.view \in {hud.view, Home}
      /\ hud'.view = NoView => hud'.phase # "shown"
      /\ \A w : Lasting(hud', w) => w = Home
  <2> DEFINE h == Dismiss(hud)
  <2> HIDE DEF h
  <2>1. /\ h \in Indicator(View) /\ h.view = hud.view
        /\ h.view = NoView => h.phase # "shown"
        /\ \A w : ~ Lasting(h, w)
    BY <1>3 DEF h
  <2>2. hud' = Show(h, Home)
    BY <1>1 DEF h
  <2> QED  BY <1>2, <2>1, <2>2, ShowFacts
<1>5. Indicated'
  BY <1>1, <1>4 DEF Screens, Indicated, CoversLiving, ViewNeeded, Covered, Home
<1>6. OwnNumber'
  BY OwnKept DEF Screens
<1>7. Heard'
  BY <1>1 DEF Heard
<1>8. Presented'
  BY <1>1 DEF Presented
<1> QED  BY <1>5, <1>6, <1>7, <1>8 DEF Screens

LEMMA HandlerScreens ==
  ASSUME TypeOK, Screens, NEW j \in 1..Len(jobs), Handler(j) PROVE Screens'
<1>1. ASSUME NEW stage, NEW kinds, NEW next, Handles(j, kinds, stage, next)
      PROVE  jobs[j].stage = stage /\ GoesOn(j, next, jobs[j].user)
  BY <1>1, StageGoesOn DEF Handles
<1>2. CASE Uploaded(j)
  <2>1. Handles(j, {"signUp"}, "uploaded", "locating")
        /\ UNCHANGED current /\ UNCHANGED screen
    BY <1>2 DEF Uploaded, disk
  <2>2. jobs[j].stage = "uploaded" /\ GoesOn(j, "locating", jobs[j].user)
    BY <1>1, <2>1
  <2> QED  BY <2>1, <2>2, QuietJob DEF Running, Dispatched, Signing
<1>3. CASE Located(j)
  <2>1. Handles(j, {"signUp"}, "located", "creating")
        /\ UNCHANGED current /\ UNCHANGED screen
    BY <1>3 DEF Located, disk
  <2>2. jobs[j].stage = "located" /\ GoesOn(j, "creating", jobs[j].user)
    BY <1>1, <2>1
  <2> QED  BY <2>1, <2>2, QuietJob DEF Running, Dispatched, Signing
<1>4. CASE SignedUp(j)
  <2>1. Handles(j, {"signUp"}, "signedIn", "issued")
        /\ UNCHANGED current /\ UNCHANGED screen
    BY <1>4 DEF SignedUp, disk
  <2>2. jobs[j].stage = "signedIn" /\ GoesOn(j, "issued", jobs[j].user)
    BY <1>1, <2>1
  <2> QED  BY <2>1, <2>2, QuietJob DEF Running, Dispatched, Signing
<1>5. CASE Confirmed(j)
  BY <1>1, <1>5, CompleteScreens DEF Confirmed, disk
<1>6. CASE SignedIn(j)
  <2>1. UNCHANGED current
    BY <1>6 DEF SignedIn, disk
  <2>2. CASE Handles(j, {"logIn"}, "signedIn", "done") /\ AuthenticationComplete
    BY <1>1, <2>1, <2>2, CompleteScreens
  <2>3. CASE /\ jobs[j].form \notin alive
             /\ Handles(j, {"logIn"}, "signedIn", "unheard") /\ UNCHANGED screen
    <3>1. GoesOn(j, "unheard", jobs[j].user)
      BY <1>1, <2>3
    <3> QED  BY <2>1, <2>3, <3>1, QuietJob DEF Signing
  <2> QED  BY <1>6, <2>2, <2>3 DEF SignedIn
<1>7. CASE Failed(j)
  <2>1. /\ Handles(j, {"signUp", "logIn"}, "failing", "failed") /\ UNCHANGED current
        /\ hud' = IF jobs[j].form \in alive THEN Dismiss(hud) ELSE hud
        /\ UNCHANGED <<forms, alive, open, asking, unanswered, listeners>>
    BY <1>7 DEF Failed, disk
  <2>2. GoesOn(j, "failed", jobs[j].user)
    BY <1>1, <2>1
  <2>3. CASE jobs[j].form \in alive
    <3>1. Indicated'
      BY <2>1, <2>3, DismissedIndicated DEF Screens
    <3>2. OwnNumber'
      BY <2>2, OwnKept DEF Screens
    <3>3. Signer(current) => Signer(current)'
      BY <2>1, <2>2, SignerKept DEF Signing
    <3> QED  BY <2>1, <3>1, <3>2, <3>3 DEF Screens, Heard, Presented
  <2>4. CASE jobs[j].form \notin alive
    <3>1. UNCHANGED screen
      BY <2>1, <2>4 DEF screen
    <3> QED  BY <2>1, <2>2, <2>4, <3>1, QuietJob DEF Signing
  <2> QED  BY <2>3, <2>4
<1> QED  BY <1>2, <1>3, <1>4, <1>5, <1>6, <1>7 DEF Handler

LEMMA StillScreens ==
  ASSUME Screens, UNCHANGED <<jobs, current, screen>> PROVE Screens'
BY DEF Screens, OwnNumber, Heard, Signer, Presented, Indicated, CoversLiving,
       ViewNeeded, Covered, Held, screen

LEMMA RunTaskScreens == ASSUME TypeOK, Safe, Screens, RunTask PROVE Screens'
<1>1. UNCHANGED current /\ UNCHANGED screen
  BY DEF RunTask
<1>2. CASE UNCHANGED jobs
  BY <1>1, <1>2, StillScreens
<1>3. CASE Head(worker).does = "write"
  <2>1. PICK j : j = Head(worker).user
    OBVIOUS
  <2>2. j \in 1..Len(jobs)
    BY <1>3, <2>1, StoredType DEF Safe
  <2>3. jobs' = [jobs EXCEPT ![j].stage = "stored"]
    BY <1>3, <2>1 DEF RunTask
  <2>4. GoesOn(j, "stored", jobs[j].user)
    BY <2>2, <2>3, StageGoesOn
  <2> QED  BY <1>1, <2>2, <2>4, QuietJob DEF Running, Signing
<1> QED  BY <1>2, <1>3 DEF RunTask

LEMMA WriteScreens ==
  ASSUME TypeOK, Screens, NEW j \in 1..Len(jobs), Write(j) PROVE Screens'
<1>1. UNCHANGED current /\ UNCHANGED screen
  BY DEF Write, Commit, Ack, Refuse, Settle, disk
<1>2. CASE UNCHANGED jobs
  BY <1>1, <1>2, StillScreens
<1>3. ASSUME NEW stage \in {"confirmed", "failing"},
             jobs' = [jobs EXCEPT ![j].stage = stage]
      PROVE  Screens'
  <2>1. GoesOn(j, stage, jobs[j].user)
    BY <1>3, StageGoesOn
  <2> QED  BY <1>1, <2>1, QuietJob DEF Running, Dispatched, Signing
<1> QED  BY <1>2, <1>3 DEF Write, Commit, Ack, Refuse, Settle, Proceed

\* Something dismisses the indicator, or not.
LEMMA DismissScreens ==
  ASSUME TypeOK, Screens, UNCHANGED <<jobs, current, forms, alive, open, listeners>>,
         hud' = Dismiss(hud) \/ hud' = hud
  PROVE  Screens'
<1>1. Presented'
  BY DEF Screens, Presented
<1>2. Indicated'
  <2>1. CASE hud' = Dismiss(hud)
    BY <2>1, DismissedIndicated DEF Screens
  <2>2. CASE hud' = hud
    BY <2>2 DEF Screens, Indicated, CoversLiving, ViewNeeded, Covered, Held
  <2> QED  BY <2>1, <2>2
<1> QED  BY <1>1, <1>2, QuietScreen

LEMMA ProfileReplyScreens ==
  ASSUME TypeOK, Screens, NEW f, NEW user, ProfileReply(f, user) PROVE Screens'
BY DismissScreens DEF ProfileReply, disk

LEMMA ConversationArrivesScreens ==
  ASSUME TypeOK, Screens, ConversationArrives PROVE Screens'
BY DismissScreens DEF ConversationArrives, disk

LEMMA AnimateScreens == ASSUME TypeOK, Screens, Animate PROVE Screens'
<1>1. /\ Moving(hud) /\ hud' = Settled(hud)
      /\ UNCHANGED <<jobs, current, forms, alive, open, listeners>>
  BY DEF Animate, disk
<1>2. /\ hud'.view \in {hud.view, NoView}
      /\ hud'.view = NoView => hud'.phase # "shown"
      /\ \A w : Lasting(hud', w) => Lasting(hud, w)
  BY <1>1, SettledFacts DEF TypeOK
<1>3. hud'.view \in alive' \cup {Home, NoView}
  BY <1>1, <1>2 DEF Screens, Indicated, CoversLiving
<1>4. Indicated'
  BY <1>1, <1>2, <1>3, LastingNoMore DEF Screens
<1>5. Presented'
  BY <1>1 DEF Screens, Presented
<1> QED  BY <1>1, <1>4, <1>5, QuietScreen

LEMMA ReleaseScreens ==
  ASSUME TypeOK, Screens, NEW f \in Form, Release(f) PROVE Screens'
<1>1. /\ alive' = alive \ {f} /\ \A i \in 1..Len(open) : open[i] # f
      /\ hud' = Released(hud, f)
      /\ UNCHANGED <<jobs, current, forms, open, listeners>>
  BY DEF Release, disk
<1>2. /\ \/ hud'.view = NoView
         \/ hud'.view = hud.view /\ hud.view # f
      /\ hud'.view = NoView => hud'.phase # "shown"
      /\ \A w : Lasting(hud', w) => Lasting(hud, w)
  BY <1>1, ReleasedFacts DEF TypeOK, Screens, Indicated, ViewNeeded
<1>3. hud'.view \in alive' \cup {Home, NoView}
  BY <1>1, <1>2 DEF Screens, Indicated, CoversLiving
<1>4. Indicated'
  BY <1>1, <1>2, <1>3, LastingNoMore DEF Screens
<1>5. Presented'
  BY <1>1 DEF Screens, Presented
<1> QED  BY <1>1, <1>4, <1>5, QuietScreen

LEMMA KillScreens == ASSUME TypeOK, Screens, Kill PROVE Screens'
<1> DEFINE F(j) == IF jobs[j].stage \in Running THEN [jobs[j] EXCEPT !.stage = "lost"]
                   ELSE jobs[j]
<1>1. jobs' = [j \in 1..Len(jobs) |-> F(j)] /\ UNCHANGED current
  BY DEF Kill, disk
<1>2. \A j \in 1..Len(jobs) : F(j).kind = jobs[j].kind /\ F(j).user = jobs[j].user
  BY JobType DEF JobRecord
<1> HIDE DEF F
<1>3. Len(jobs) \in Nat /\ Len(jobs') = Len(jobs)
  BY <1>1, LenProperties DEF TypeOK
<1>4. OwnNumber'
  BY <1>1, <1>2, <1>3 DEF Screens, OwnNumber
<1>5. Heard'
  BY <1>1 DEF Kill, LaunchListeners, Heard
<1>6. Presented'
  <2>1. open' = LaunchOpen(current) /\ alive' = 1..Len(LaunchForms(current))
    BY DEF Kill
  <2> QED  BY <2>1 DEF LaunchOpen, LaunchForms, Presented
<1>7. Indicated'
  <2>1. hud' = LaunchHud /\ forms' = LaunchForms(current)
    BY DEF Kill
  <2>2. hud'.view = Home /\ hud'.phase # "shown" /\ Home # NoView
    BY <2>1, SessionAssumption DEF LaunchHud, Show, Hidden, Moving, Home
  <2>3. \A f \in 1..Len(forms') : ~ Lasting(hud', f)
    BY <2>2 DEF Lasting, Home
  <2> QED  BY <2>2, <2>3 DEF Indicated, CoversLiving, ViewNeeded, Covered
<1> QED  BY <1>4, <1>5, <1>6, <1>7 DEF Screens

-----------------------------------------------------------------------------
(* The theorems.                                                           *)

LEMMA ScreensStep == IInv /\ Screens /\ [Next]_vars => Screens'
<1> SUFFICES ASSUME TypeOK, Safe, Screens, [Next]_vars PROVE Screens'
  BY DEF IInv
<1>1. CASE SignedOut
  BY <1>1, StillScreens DEF SignedOut, disk
<1>2. CASE UNCHANGED vars
  BY <1>2, StillScreens DEF vars, disk
<1> QED
  BY <1>1, <1>2, SignUpScreens, LogInScreens, ShowSignUpScreens, ShowLoginScreens,
     ShowProfileScreens, CloseProfileScreens, LogoutScreens, ReplyScreens,
     HandlerScreens, WriteScreens, RunTaskScreens, ProfileReplyScreens, ReleaseScreens,
     ConversationArrivesScreens, AnimateScreens, KillScreens
  DEF Next

LEMMA ScreensAlways == Spec => []Screens
<1> QED  BY InitScreens, ScreensStep, SessionInvariant, PTL DEF Spec

\* With nothing running and the conversations on the screen, the user signed in is
\* listened to, but for a login that outlived its form or a sign-up that signed in
\* and then failed (AuthService.swift, ConversationsController.authenticationComplete).
THEOREM HomeListensAlways == Spec => []HomeListens
<1>1. Screens => HomeListens
  BY DEF Screens, Heard, Signer, Signing, HomeListens, Running, Dispatched
<1> QED  BY <1>1, ScreensAlways, PTL

\* The indicator covers a login or sign-up form only while a job of that form is
\* running, or after a sign-up that was dropped without a word, however shows and
\* dismissals meet its animations (Utils/Extensions.swift, LoginController.swift).
THEOREM BusyIndicatorAlways == Spec => []BusyIndicator
<1>1. Screens => BusyIndicator
  <2> SUFFICES ASSUME Screens, NEW f \in 1..Len(forms), Blocks(hud, f),
                      forms[f] \in {"login", "registration"}
               PROVE  Held(f)
    BY DEF BusyIndicator, Held
  <2>1. f # NoView
    BY SessionAssumption
  <2>2. Lasting(hud, f)
    BY <2>1 DEF Blocks, Lasting
  <2> QED  BY <2>2 DEF Screens, Indicated, Covered
<1> QED  BY <1>1, ScreensAlways, PTL

-----------------------------------------------------------------------------
(***************************************************************************)
(* The profile screen: an indicator that lasts over it, shown already or   *)
(* still appearing, has a document asked for, or an answer that did not    *)
(* call back (Awaited).                                                    *)
(***************************************************************************)

Awaited ==
  \A f \in 1..Len(forms) :
    forms[f] = "profile" /\ Lasting(hud, f) =>
      f \in unanswered \/ \E user \in User : <<f, user>> \in asking

\* The indicator lasts over no profile screen that it did not last over before.
LEMMA AwaitedKept ==
  ASSUME Awaited, UNCHANGED <<forms, asking, unanswered>>,
         \A f \in 1..Len(forms) :
           forms[f] = "profile" /\ Lasting(hud', f) => Lasting(hud, f)
  PROVE  Awaited'
BY DEF Awaited

\* After a dismissal it lasts over nothing.
LEMMA DismissedAwaited ==
  ASSUME TypeOK, hud' = Dismiss(hud) PROVE Awaited'
<1>1. \A w : ~ Lasting(hud', w)
  BY DismissFacts DEF TypeOK
<1> QED  BY <1>1 DEF Awaited

\* What a new screen leaves as it was.
LEMMA NewScreen ==
  ASSUME TypeOK, NEW n \in Nat, n = Len(forms), NEW kind, NEW under, Present(kind, under)
  PROVE  /\ Len(forms') = n + 1 /\ forms'[n + 1] = kind
         /\ \A f \in 1..n : forms'[f] = forms[f]
         /\ n + 1 \in Form
         /\ open' = Append(under, n + 1)
<1>1. forms \in Seq(FormKind \cup {kind})
  BY DEF TypeOK
<1> QED  BY <1>1, SessionAssumption DEF Present, Form

\* Nothing is shown over a screen as it is presented.
LEMMA PresentAwaited ==
  ASSUME TypeOK, Indicated, Awaited, NEW kind, NEW under, Present(kind, under),
         UNCHANGED <<asking, unanswered, hud>>
  PROVE  Awaited'
<1>1. PICK n \in Nat : n = Len(forms)
  BY LenProperties DEF TypeOK
<1>2. Len(forms') = n + 1 /\ \A f \in 1..n : forms'[f] = forms[f]
  BY <1>1, NewScreen
<1>3. ~ Lasting(hud, n + 1)
  <2>1. n + 1 \notin alive
    BY <1>1 DEF TypeOK
  <2> QED  BY <2>1, LastingAlive DEF Indicated
<1>4. \A f \in 1..(n + 1) : Lasting(hud, f) => f \in 1..n
  BY <1>3
<1> QED  BY <1>1, <1>2, <1>4 DEF Awaited

LEMMA TapAwaited ==
  ASSUME TypeOK, Screens, Awaited, NEW kind \in {"signUp", "logIn"}, NEW e, NEW stage,
         open # << >>, forms[Top] # "profile", Tap(kind, e, stage)
  PROVE  Awaited'
<1>1. hud' = Show(hud, Top) /\ UNCHANGED <<forms, asking, unanswered>>
  BY DEF Tap
<1>2. hud \in Indicator(View) /\ (hud.view = NoView => hud.phase # "shown")
  BY DEF TypeOK, Screens, Indicated, ViewNeeded
<1>3. Top \in View
  BY TopType
<1>4. \A w : Lasting(hud', w) => Lasting(hud, w) \/ w = Top
  BY <1>1, <1>2, <1>3, ShowFacts
<1> QED  BY <1>1, <1>4, AwaitedKept

LEMMA ShowProfileAwaited ==
  ASSUME TypeOK, Screens, Awaited, ShowProfile PROVE Awaited'
<1>1. Present("profile", << >>) /\ unanswered' = unanswered
  BY DEF ShowProfile
<1>2. CASE UNCHANGED <<asking, hud>>
  BY <1>1, <1>2, PresentAwaited DEF Screens
<1>3. PICK n \in Nat : n = Len(forms)
  BY LenProperties DEF TypeOK
<1>4. CASE asking' = asking \cup {<<n + 1, current>>} /\ hud' = Show(hud, n + 1)
  <2>1. Len(forms') = n + 1 /\ (\A f \in 1..n : forms'[f] = forms[f]) /\ n + 1 \in View
    BY <1>1, <1>3, NewScreen DEF Form, View
  <2>2. hud \in Indicator(View) /\ (hud.view = NoView => hud.phase # "shown")
    BY DEF TypeOK, Screens, Indicated, ViewNeeded
  <2>3. \A w : Lasting(hud', w) => Lasting(hud, w) \/ w = n + 1
    BY <1>4, <2>1, <2>2, ShowFacts
  <2> SUFFICES ASSUME NEW f \in 1..(n + 1), forms'[f] = "profile", Lasting(hud', f)
               PROVE  f \in unanswered \/ \E user \in User : <<f, user>> \in asking'
    BY <1>1, <2>1 DEF Awaited
  <2>4. CASE f = n + 1
    BY <1>4, <2>4 DEF TypeOK
  <2>5. CASE f \in 1..n
    <3>1. Lasting(hud, f) /\ forms[f] = "profile"
      BY <2>1, <2>3, <2>5
    <3> QED  BY <1>3, <1>4, <2>5, <3>1 DEF Awaited
  <2> QED  BY <2>4, <2>5
<1> QED  BY <1>1, <1>2, <1>3, <1>4 DEF ShowProfile

\* authenticationComplete shows the indicator over the conversations only.
LEMMA CompleteAwaited ==
  ASSUME TypeOK, Screens, AuthenticationComplete PROVE Awaited'
<1> DEFINE h == Dismiss(hud)
<1>1. hud' = Show(h, Home) /\ Home \in View /\ Home = 0
  BY SessionAssumption DEF AuthenticationComplete, Home, View
<1>2. /\ h \in Indicator(View) /\ h.view = hud.view
      /\ h.view = NoView => h.phase # "shown"
      /\ \A w : ~ Lasting(h, w)
  BY DismissFacts DEF TypeOK, Screens, Indicated, ViewNeeded
<1> HIDE DEF h
<1>3. \A w : Lasting(hud', w) => w = 0
  BY <1>1, <1>2, ShowFacts
<1> QED  BY <1>3 DEF Awaited

LEMMA HandlerAwaited ==
  ASSUME TypeOK, Screens, Awaited, NEW j, Handler(j) PROVE Awaited'
<1>1. CASE AuthenticationComplete
  BY <1>1, CompleteAwaited
<1>2. CASE UNCHANGED <<forms, asking, unanswered, hud>>
  BY <1>2, AwaitedKept
<1>3. CASE hud' = Dismiss(hud)
  BY <1>3, DismissedAwaited
<1> QED
  BY <1>1, <1>2, <1>3
  DEF Handler, Uploaded, Located, SignedUp, Confirmed, SignedIn, Failed, screen

\* An answer that does not call back is remembered.
LEMMA ProfileReplyAwaited ==
  ASSUME TypeOK, Awaited, NEW f, NEW user, ProfileReply(f, user) PROVE Awaited'
<1>1. CASE hud' = Dismiss(hud)
  BY <1>1, DismissedAwaited
<1>2. CASE unanswered' = unanswered \cup {f} /\ UNCHANGED hud
  <2>1. UNCHANGED forms /\ asking' = asking \ {<<f, user>>}
    BY DEF ProfileReply
  <2> QED  BY <1>2, <2>1 DEF Awaited
<1> QED  BY <1>1, <1>2 DEF ProfileReply

\* A screen that waits is not deallocated, and the indicator goes with the screen.
LEMMA ReleaseAwaited ==
  ASSUME TypeOK, Screens, Awaited, NEW f, Release(f) PROVE Awaited'
<1>1. /\ hud' = Released(hud, f) /\ unanswered' = unanswered \ {f}
      /\ UNCHANGED <<forms, asking>>
  BY DEF Release
<1>2. /\ \/ hud'.view = NoView
         \/ hud'.view = hud.view /\ hud.view # f
      /\ \A w : Lasting(hud', w) => Lasting(hud, w)
  BY <1>1, ReleasedFacts DEF TypeOK, Screens, Indicated, ViewNeeded
<1>3. ~ Lasting(hud', f)
  BY <1>2 DEF Lasting
<1> QED  BY <1>1, <1>2, <1>3 DEF Awaited

LEMMA KillAwaited == ASSUME Kill PROVE Awaited'
<1>1. hud' = LaunchHud
  BY DEF Kill
<1>2. hud'.view = 0
  BY <1>1, SessionAssumption DEF LaunchHud, Show, Hidden, Moving, Home
<1> QED  BY <1>2 DEF Awaited, Lasting

LEMMA AwaitedStep ==
  ASSUME TypeOK, Screens, Awaited, [Next]_vars PROVE Awaited'
<1>1. CASE UNCHANGED <<forms, asking, unanswered, hud>>
  BY <1>1, AwaitedKept
<1>2. ASSUME NEW e \in Email, SignUp(e) \/ LogIn(e) PROVE Awaited'
  BY <1>2, TapAwaited DEF SignUp, LogIn, Shows
<1>3. CASE ShowSignUp \/ Logout
  BY <1>3, PresentAwaited DEF ShowSignUp, Logout, Screens
<1>4. CASE Animate
  <2>1. Moving(hud) /\ hud' = Settled(hud) /\ UNCHANGED <<forms, asking, unanswered>>
    BY <1>4 DEF Animate
  <2>2. \A w : Lasting(hud', w) => Lasting(hud, w)
    BY <2>1, SettledFacts DEF TypeOK
  <2> QED  BY <2>1, <2>2, AwaitedKept
<1>5. CASE ConversationArrives
  BY <1>5, DismissedAwaited DEF ConversationArrives
<1>6. ASSUME NEW j \in 1..Len(jobs), Reply(j) \/ Write(j)
      PROVE  UNCHANGED <<forms, asking, unanswered, hud>>
  BY <1>6 DEF Reply, UploadReply, URLReply, CreateAccount, AccountReply, LogInReply,
     Write, Commit, Ack, Refuse, Settle, screen
<1>7. CASE ShowLogin \/ CloseProfile \/ SignedOut \/ RunTask \/ UNCHANGED vars
  <2>1. UNCHANGED <<forms, asking, unanswered, hud>>
    BY <1>7 DEF ShowLogin, CloseProfile, SignedOut, RunTask, vars, screen
  <2> QED  BY <1>1, <2>1
<1> QED
  BY <1>1, <1>2, <1>3, <1>4, <1>5, <1>6, <1>7, ShowProfileAwaited, HandlerAwaited,
     ProfileReplyAwaited, ReleaseAwaited, KillAwaited
  DEF Next

\* The indicator covers a profile screen only while its document is asked for, or
\* after an answer that did not call it back, whatever else shows and dismisses the
\* same indicator (ProfileController.swift:54, Utils/Extensions.swift).
THEOREM ProfileCoveredAlways == Spec => []ProfileCovered
<1>1. Init => Awaited
  <2> SUFFICES ASSUME Init PROVE Awaited
    OBVIOUS
  <2>1. hud = LaunchHud
    BY DEF Init
  <2>2. hud.view = 0
    BY <2>1, SessionAssumption DEF LaunchHud, Show, Hidden, Moving, Home
  <2> QED  BY <2>2 DEF Awaited, Lasting
<1>2. Awaited => ProfileCovered
  <2> SUFFICES ASSUME Awaited, NEW f \in 1..Len(forms), forms[f] = "profile",
                      Blocks(hud, f)
               PROVE  f \in unanswered \/ \E user \in User : <<f, user>> \in asking
    BY DEF ProfileCovered
  <2>1. f # NoView
    BY SessionAssumption
  <2> QED  BY <2>1 DEF Awaited, Blocks, Lasting
<1>3. IInv /\ Screens /\ Awaited /\ [Next]_vars => Awaited'
  BY AwaitedStep DEF IInv
<1> QED  BY <1>1, <1>2, <1>3, SessionInvariant, ScreensAlways, PTL DEF Spec

-----------------------------------------------------------------------------
(***************************************************************************)
(* How jobs sign in and complete.  A job whose profile write is on the     *)
(* worker queue has been issued and has no other write there (Issuing), so *)
(* persisting the write moves a job on that has not ended.                 *)
(***************************************************************************)

Issuing ==
  /\ \A i \in 1..Len(worker) : worker[i].does = "write" =>
       /\ worker[i].user \in 1..Len(jobs)
       /\ jobs[worker[i].user].stage = "issued"
  /\ \A i, k \in 1..Len(worker) :
       /\ worker[i].does = "write" /\ worker[k].does = "write"
       /\ worker[i].user = worker[k].user
       => i = k

\* Stages of a job that has signed its user in and is to complete.
InCompletion == {"signedIn", "issued", "stored", "confirmed"}

\* Job j goes on, or ends without completing.
Continues(j) ==
  /\ \E stage, user :
       /\ GoesOn(j, stage, user)
       /\ jobs[j].stage \in Running
       /\ stage \in InCompletion => jobs[j].stage \in InCompletion
  /\ UNCHANGED <<current, forms, open, listeners>>

\* Job j signs its user in.
SignsIn(j) ==
  /\ \E user : GoesOn(j, "signedIn", user)
  /\ jobs[j].stage \in Running \ InCompletion
  /\ current' \in Job
  /\ UNCHANGED <<forms, open, listeners>>

\* Job j completes.
Completes(j) ==
  /\ GoesOn(j, "done", jobs[j].user)
  /\ jobs[j].stage \in InCompletion
  /\ open' = << >>
  /\ listeners' = listeners \cup ({current} \ {NoUser})
  /\ UNCHANGED <<current, forms>>

Idle == UNCHANGED <<jobs, current, forms, open, listeners>>

LEMMA ReplyMoves ==
  ASSUME TypeOK, NEW j \in 1..Len(jobs), Reply(j) PROVE Continues(j) \/ SignsIn(j)
<1> USE DEF Running, Dispatched, InCompletion
<1>1. CASE UploadReply(j)
  <2>1. PICK stage \in {"uploaded", "failing"} : jobs' = [jobs EXCEPT ![j].stage = stage]
    BY <1>1 DEF UploadReply, Fail, Proceed
  <2>2. GoesOn(j, stage, jobs[j].user)
    BY <2>1, StageGoesOn
  <2> QED  BY <1>1, <2>2 DEF UploadReply, Continues, disk, screen
<1>2. CASE URLReply(j)
  <2>1. PICK stage \in {"located", "silent"} : jobs' = [jobs EXCEPT ![j].stage = stage]
    BY <1>2 DEF URLReply, Fail, Proceed
  <2>2. GoesOn(j, stage, jobs[j].user)
    BY <2>1, StageGoesOn
  <2> QED  BY <1>2, <2>2 DEF URLReply, Continues, disk, screen
<1>3. CASE CreateAccount(j)
  <2>1. PICK stage \in {"created", "failing"} : jobs' = [jobs EXCEPT ![j].stage = stage]
    BY <1>3 DEF CreateAccount, Fail, Proceed
  <2>2. GoesOn(j, stage, jobs[j].user)
    BY <2>1, StageGoesOn
  <2> QED  BY <1>3, <2>2 DEF CreateAccount, Continues, disk, screen
<1>4. CASE AccountReply(j)
  <2>1. CASE jobs' = [jobs EXCEPT ![j].stage = "failing"] /\ UNCHANGED current
    <3>1. GoesOn(j, "failing", jobs[j].user)
      BY <2>1, StageGoesOn
    <3> QED  BY <1>4, <2>1, <3>1 DEF AccountReply, Continues, screen
  <2>2. CASE jobs' = [jobs EXCEPT ![j].stage = "signedIn"] /\ current' = j
    <3>1. GoesOn(j, "signedIn", jobs[j].user)
      BY <2>2, StageGoesOn
    <3>2. j \in Job
      BY JobType
    <3> QED  BY <1>4, <2>2, <3>1, <3>2 DEF AccountReply, SignsIn, screen
  <2> QED  BY <1>4, <2>1, <2>2 DEF AccountReply, Fail, Proceed
<1>5. CASE LogInReply(j)
  <2> DEFINE user == accounts[jobs[j].email]
  <2>1. CASE jobs' = [jobs EXCEPT ![j].stage = "failing"] /\ UNCHANGED current
    <3>1. GoesOn(j, "failing", jobs[j].user)
      BY <2>1, StageGoesOn
    <3> QED  BY <1>5, <2>1, <3>1 DEF LogInReply, Continues, screen
  <2>2. CASE /\ jobs' = [jobs EXCEPT ![j].stage = "signedIn", ![j].user = user]
             /\ current' = user /\ user # NoUser
    <3>1. user \in Job
      <4>1. jobs[j].email \in Email
        BY JobType DEF JobRecord
      <4>2. user \in User
        BY <4>1 DEF TypeOK
      <4> QED  BY <2>2, <4>2, SessionAssumption DEF User, Job, NoUser
    <3> HIDE DEF user
    <3>2. GoesOn(j, "signedIn", user)
      BY <2>2, FoundGoesOn
    <3> QED  BY <1>5, <2>2, <3>1, <3>2 DEF LogInReply, SignsIn, screen
  <2> QED  BY <1>5, <2>1, <2>2 DEF LogInReply, Fail, Proceed
<1> QED  BY <1>1, <1>2, <1>3, <1>4, <1>5 DEF Reply

LEMMA HandlerMoves ==
  ASSUME TypeOK, NEW j \in 1..Len(jobs), Handler(j) PROVE Continues(j) \/ Completes(j)
<1> USE DEF Running, Dispatched, InCompletion
<1>1. ASSUME NEW stage, NEW kinds, NEW next, Handles(j, kinds, stage, next)
      PROVE  jobs[j].stage = stage /\ GoesOn(j, next, jobs[j].user)
  BY <1>1, StageGoesOn DEF Handles
<1>2. CASE Uploaded(j)
  <2>1. jobs[j].stage = "uploaded" /\ GoesOn(j, "locating", jobs[j].user)
    BY <1>1, <1>2 DEF Uploaded
  <2> QED  BY <1>2, <2>1 DEF Uploaded, Continues, disk, screen
<1>3. CASE Located(j)
  <2>1. jobs[j].stage = "located" /\ GoesOn(j, "creating", jobs[j].user)
    BY <1>1, <1>3 DEF Located
  <2> QED  BY <1>3, <2>1 DEF Located, Continues, disk, screen
<1>4. CASE SignedUp(j)
  <2>1. jobs[j].stage = "signedIn" /\ GoesOn(j, "issued", jobs[j].user)
    BY <1>1, <1>4 DEF SignedUp
  <2> QED  BY <1>4, <2>1 DEF SignedUp, Continues, disk, screen
<1>5. CASE Confirmed(j)
  <2>1. jobs[j].stage = "confirmed" /\ GoesOn(j, "done", jobs[j].user)
    BY <1>1, <1>5 DEF Confirmed
  <2> QED  BY <1>5, <2>1 DEF Confirmed, AuthenticationComplete, Completes, disk
<1>6. CASE SignedIn(j) /\ Handles(j, {"logIn"}, "signedIn", "done")
                      /\ AuthenticationComplete
  <2>1. jobs[j].stage = "signedIn" /\ GoesOn(j, "done", jobs[j].user)
    BY <1>1, <1>6
  <2> QED  BY <1>6, <2>1 DEF SignedIn, AuthenticationComplete, Completes, disk
<1>7. CASE SignedIn(j) /\ Handles(j, {"logIn"}, "signedIn", "unheard") /\ UNCHANGED screen
  <2>1. jobs[j].stage = "signedIn" /\ GoesOn(j, "unheard", jobs[j].user)
    BY <1>1, <1>7
  <2> QED  BY <1>7, <2>1 DEF SignedIn, Continues, disk, screen
<1>8. CASE Failed(j)
  <2>1. jobs[j].stage = "failing" /\ GoesOn(j, "failed", jobs[j].user)
    BY <1>1, <1>8 DEF Failed
  <2> QED  BY <1>8, <2>1 DEF Failed, Continues, disk
<1>9. SignedIn(j) => \/ Handles(j, {"logIn"}, "signedIn", "done") /\ AuthenticationComplete
                     \/ Handles(j, {"logIn"}, "signedIn", "unheard") /\ UNCHANGED screen
  BY DEF SignedIn
<1> QED  BY <1>2, <1>3, <1>4, <1>5, <1>6, <1>7, <1>8, <1>9 DEF Handler

LEMMA WriteMoves ==
  ASSUME TypeOK, NEW j \in 1..Len(jobs), Write(j) PROVE Continues(j) \/ Idle
<1>1. UNCHANGED <<current, forms, open, listeners>>
  BY DEF Write, Commit, Ack, Refuse, Settle, disk, screen
<1>2. CASE UNCHANGED jobs
  BY <1>1, <1>2 DEF Idle
<1>3. ASSUME NEW stage \in {"confirmed", "failing"}, jobs[j].stage = "stored",
             jobs' = [jobs EXCEPT ![j].stage = stage]
      PROVE  Continues(j)
  <2>1. GoesOn(j, stage, jobs[j].user)
    BY <1>3, StageGoesOn
  <2> QED  BY <1>1, <1>3, <2>1 DEF Continues, Running, Dispatched, InCompletion
<1> QED  BY <1>2, <1>3 DEF Write, Commit, Ack, Refuse, Settle, Proceed

LEMMA RunTaskMoves ==
  ASSUME TypeOK, Issuing, RunTask
  PROVE  Idle \/ \E j \in 1..Len(jobs) : Continues(j)
<1>1. UNCHANGED <<current, forms, open, listeners>>
  BY DEF RunTask, screen
<1>2. CASE UNCHANGED jobs
  BY <1>1, <1>2 DEF Idle
<1>3. CASE Head(worker).does = "write"
  <2>1. PICK j : j = Head(worker).user
    OBVIOUS
  <2>2. 1 \in 1..Len(worker) /\ Head(worker) = worker[1]
    BY DEF TypeOK, RunTask
  <2>3. j \in 1..Len(jobs) /\ jobs[j].stage = "issued"
    BY <1>3, <2>1, <2>2 DEF Issuing
  <2>4. jobs' = [jobs EXCEPT ![j].stage = "stored"]
    BY <1>3, <2>1 DEF RunTask
  <2>5. GoesOn(j, "stored", jobs[j].user)
    BY <2>3, <2>4, StageGoesOn
  <2> QED  BY <1>1, <2>3, <2>5 DEF Continues, Running, InCompletion
<1> QED  BY <1>2, <1>3 DEF RunTask

-----------------------------------------------------------------------------
(* Each write on the worker queue is that of an issued job.                *)

\* The worker queue hears of a change of the user at most, and no issued job moves.
LEMMA IssuingKept ==
  ASSUME TypeOK, Issuing,
         worker' = worker \/ \E user : worker' = Append(worker, UserTask(user)),
         \A i \in 1..Len(jobs) :
           i \in 1..Len(jobs') /\ (jobs[i].stage = "issued" => jobs'[i].stage = "issued")
  PROVE  Issuing'
<1>1. CASE worker' = worker
  BY <1>1 DEF Issuing
<1>2. ASSUME NEW user, worker' = Append(worker, UserTask(user)) PROVE Issuing'
  <2> DEFINE task == UserTask(user)
  <2>1. task.does = "user"
    BY DEF UserTask
  <2>2. PICK n \in Nat : n = Len(worker)
    BY LenProperties DEF TypeOK
  <2>3. worker' = Append(worker, task) /\ worker \in Seq(Task \cup {task})
    BY <1>2 DEF TypeOK
  <2> HIDE DEF task
  <2>4. /\ Len(worker') = n + 1 /\ worker'[n + 1] = task
        /\ \A i \in 1..n : worker'[i] = worker[i]
    BY <2>2, <2>3
  <2>5. \A i \in 1..Len(worker') : worker'[i].does = "write" =>
          i \in 1..Len(worker) /\ worker'[i] = worker[i]
    BY <2>1, <2>2, <2>4
  <2> QED  BY <2>5 DEF Issuing
<1> QED  BY <1>1, <1>2

\* The job that moves was not issued.
LEMMA MoveKeepsIssued ==
  ASSUME NEW j, NEW stage, NEW user, GoesOn(j, stage, user), jobs[j].stage # "issued"
  PROVE  \A i \in 1..Len(jobs) :
           i \in 1..Len(jobs') /\ (jobs[i].stage = "issued" => jobs'[i].stage = "issued")
BY DEF GoesOn

LEMMA SignedUpIssuing ==
  ASSUME TypeOK, Issuing, NEW j \in 1..Len(jobs), SignedUp(j) PROVE Issuing'
<1>1. jobs[j].stage = "signedIn" /\ GoesOn(j, "issued", jobs[j].user)
  BY StageGoesOn DEF SignedUp, Handles
<1>2. PICK user \in User : user = IF started THEN j ELSE current
  BY JobType DEF TypeOK
<1>3. PICK n \in Nat : n = Len(worker)
  BY LenProperties DEF TypeOK
<1>4. /\ Len(worker') = n + 2 /\ worker'[n + 1] = UserTask(user)
      /\ worker'[n + 2] = WriteTask(j) /\ \A i \in 1..n : worker'[i] = worker[i]
  BY <1>2, <1>3, SignedUpQueue
<1>5. /\ UserTask(user).does = "user"
      /\ WriteTask(j).does = "write" /\ WriteTask(j).user = j
  BY DEF UserTask, WriteTask
<1>6. \A i \in 1..Len(worker') : worker'[i].does = "write" =>
        \/ i \in 1..n /\ worker'[i] = worker[i]
        \/ i = n + 2 /\ worker'[i].user = j
  <2> SUFFICES ASSUME NEW i \in 1..(n + 2), i \notin 1..n, i # n + 1 PROVE i = n + 2
    BY <1>4, <1>5
  <2> QED  OBVIOUS
<1>7. \A i \in 1..n : worker[i].does = "write" =>
        worker[i].user \in 1..Len(jobs) /\ worker[i].user # j
  BY <1>1, <1>3 DEF Issuing
<1>8. ASSUME NEW i \in 1..Len(worker'), worker'[i].does = "write"
      PROVE  worker'[i].user \in 1..Len(jobs') /\ jobs'[worker'[i].user].stage = "issued"
  <2>1. CASE i \in 1..n /\ worker'[i] = worker[i]
    BY <1>1, <1>3, <1>8, <2>1 DEF Issuing, GoesOn
  <2>2. CASE i = n + 2 /\ worker'[i].user = j
    BY <1>1, <2>2 DEF GoesOn
  <2> QED  BY <1>6, <1>8, <2>1, <2>2
<1>9. ASSUME NEW i \in 1..Len(worker'), NEW k \in 1..Len(worker'),
             worker'[i].does = "write", worker'[k].does = "write",
             worker'[i].user = worker'[k].user
      PROVE  i = k
  <2>1. CASE i \in 1..n /\ k \in 1..n
    BY <1>3, <1>4, <1>9, <2>1 DEF Issuing
  <2> QED  BY <1>4, <1>6, <1>7, <1>9, <2>1
<1> QED  BY <1>8, <1>9 DEF Issuing

\* The write of the task that is run is the only one of its job.
LEMMA RunTaskIssuing == ASSUME TypeOK, Issuing, RunTask PROVE Issuing'
<1>1. PICK n \in Nat : n = Len(worker)
  BY LenProperties DEF TypeOK
<1>2. /\ Head(worker) = worker[1] /\ n >= 1 /\ Len(worker') = n - 1
      /\ \A i \in 1..(n - 1) : i + 1 \in 1..n /\ worker'[i] = worker[i + 1]
  BY <1>1 DEF TypeOK, RunTask
<1>3. CASE UNCHANGED jobs
  BY <1>1, <1>2, <1>3 DEF Issuing
<1>4. CASE Head(worker).does = "write"
  <2>1. PICK j : j = worker[1].user
    OBVIOUS
  <2>2. j \in 1..Len(jobs)
    BY <1>1, <1>2, <1>4, <2>1 DEF Issuing
  <2>3. jobs' = [jobs EXCEPT ![j].stage = "stored"]
    BY <1>2, <1>4, <2>1 DEF RunTask
  <2>4. GoesOn(j, "stored", jobs[j].user)
    BY <2>2, <2>3, StageGoesOn
  <2>5. \A i \in 1..(n - 1) : worker'[i].does = "write" => worker'[i].user # j
    <3> SUFFICES ASSUME NEW i \in 1..(n - 1), worker[i + 1].does = "write",
                        worker[i + 1].user = j
                 PROVE  FALSE
      BY <1>2
    <3>1. i + 1 = 1
      BY <1>1, <1>2, <1>4, <2>1 DEF Issuing
    <3> QED  BY <3>1
  <2>6. ASSUME NEW i \in 1..(n - 1), worker'[i].does = "write"
        PROVE  /\ worker'[i].user \in 1..Len(jobs')
               /\ jobs'[worker'[i].user].stage = "issued"
    <3>1. worker'[i].user \in 1..Len(jobs) /\ jobs[worker'[i].user].stage = "issued"
      BY <1>1, <1>2, <2>6 DEF Issuing
    <3>2. worker'[i].user # j
      BY <2>5, <2>6
    <3> QED  BY <2>4, <3>1, <3>2 DEF GoesOn
  <2>7. ASSUME NEW i \in 1..(n - 1), NEW k \in 1..(n - 1),
               worker'[i].does = "write", worker'[k].does = "write",
               worker'[i].user = worker'[k].user
        PROVE  i = k
    <3>1. i + 1 = k + 1
      BY <1>1, <1>2, <2>7 DEF Issuing
    <3> QED  BY <3>1
  <2> QED  BY <1>2, <2>6, <2>7 DEF Issuing
<1> QED  BY <1>3, <1>4 DEF RunTask

LEMMA TapGrows ==
  ASSUME TypeOK, NEW kind, NEW e, NEW stage, Tap(kind, e, stage)
  PROVE  /\ Len(jobs') = Len(jobs) + 1 /\ Len(jobs) \in Nat
         /\ \A i \in 1..Len(jobs) : jobs'[i] = jobs[i]
         /\ jobs'[Len(jobs) + 1].stage = stage
<1> DEFINE user == IF kind = "signUp" THEN Len(jobs) + 1 ELSE NoUser
           r == [kind |-> kind, email |-> e, form |-> Top, user |-> user, stage |-> stage]
<1>1. jobs' = Append(jobs, r) /\ r.stage = stage
  BY DEF Tap
<1> HIDE DEF r
<1>2. jobs \in Seq(JobRecord \cup {r})
  BY DEF TypeOK
<1> QED  BY <1>1, <1>2

LEMMA IssuingStep ==
  ASSUME TypeOK, Issuing, [Next]_vars PROVE Issuing'
<1>1. CASE UNCHANGED <<jobs, worker>>
  BY <1>1 DEF Issuing
<1>2. ASSUME NEW e \in Email, SignUp(e) \/ LogIn(e) PROVE Issuing'
  <2>1. PICK kind, stage : Tap(kind, e, stage)
    BY <1>2 DEF SignUp, LogIn
  <2>2. worker' = worker
    BY <2>1 DEF Tap, queues, client
  <2> QED  BY <2>1, <2>2, TapGrows, IssuingKept
<1>3. ASSUME NEW j \in 1..Len(jobs), Reply(j) PROVE Issuing'
  <2>1. worker' = worker /\ jobs[j].stage # "issued"
    BY <1>3 DEF Reply, UploadReply, URLReply, CreateAccount, AccountReply, LogInReply, client
  <2>2. \E stage, user : GoesOn(j, stage, user)
    BY <1>3, ReplyMoves DEF Continues, SignsIn
  <2> QED  BY <2>1, <2>2, MoveKeepsIssued, IssuingKept
<1>4. ASSUME NEW j \in 1..Len(jobs), Handler(j) PROVE Issuing'
  <2>1. CASE SignedUp(j)
    BY <2>1, SignedUpIssuing
  <2>2. CASE ~ SignedUp(j)
    <3>1. worker' = worker \/ \E user : worker' = Append(worker, UserTask(user))
      BY <1>4, <2>2
      DEF Handler, Uploaded, Located, Confirmed, SignedIn, Failed, Hear, client
    <3>2. jobs[j].stage # "issued"
      BY <1>4, <2>2
      DEF Handler, Uploaded, Located, Confirmed, SignedIn, Failed, Handles
    <3>3. \E stage, user : GoesOn(j, stage, user)
      BY <1>4, HandlerMoves DEF Continues, Completes
    <3> QED  BY <3>1, <3>2, <3>3, MoveKeepsIssued, IssuingKept
  <2> QED  BY <2>1, <2>2
<1>5. ASSUME NEW j \in 1..Len(jobs), Write(j) PROVE Issuing'
  <2>1. worker' = worker
    BY <1>5 DEF Write, Commit, Ack, Refuse, Settle, queues, client
  <2>2. CASE UNCHANGED jobs
    BY <1>1, <2>1, <2>2
  <2>3. CASE jobs[j].stage = "stored" /\ \E stage : jobs' = [jobs EXCEPT ![j].stage = stage]
    <3>1. \E stage, user : GoesOn(j, stage, user)
      BY <2>3, StageGoesOn
    <3> QED  BY <2>1, <2>3, <3>1, MoveKeepsIssued, IssuingKept
  <2> QED  BY <1>5, <2>2, <2>3 DEF Write, Commit, Ack, Refuse, Settle, Proceed
<1>6. CASE SignedOut
  <2>1. worker' = worker \/ worker' = Append(worker, UserTask(NoUser))
    BY <1>6 DEF SignedOut, Hear
  <2> QED  BY <1>6, <2>1, IssuingKept DEF SignedOut
<1>7. CASE Kill
  <2>1. worker' = << >>
    BY <1>7 DEF Kill
  <2> QED  BY <2>1 DEF Issuing
<1>8. CASE UNCHANGED vars
  BY <1>1, <1>8 DEF vars, queues, client
<1>9. ASSUME NEW f \in Form, NEW user \in User, ProfileReply(f, user)
      PROVE  Issuing'
  BY <1>1, <1>9 DEF ProfileReply, queues, client
<1>10. CASE \/ ShowSignUp \/ ShowLogin \/ ShowProfile \/ CloseProfile \/ Logout
            \/ ConversationArrives \/ Animate
  BY <1>1, <1>10
  DEF ShowSignUp, ShowLogin, ShowProfile, CloseProfile, Logout, ConversationArrives,
      Animate, queues, client
<1>11. ASSUME NEW f \in Form, Release(f) PROVE Issuing'
  BY <1>1, <1>11 DEF Release, queues, client
<1> QED
  BY <1>2, <1>3, <1>4, <1>5, <1>6, <1>7, <1>8, <1>9, <1>10, <1>11, RunTaskIssuing DEF Next

-----------------------------------------------------------------------------
(***************************************************************************)
(* Conversations open for nobody.  The login screen is closed by a job     *)
(* that completes.  A job that runs while no form is presented was tapped  *)
(* before some other one completed (HomeAfterOne), and only such a job can *)
(* be signed in across a logout (OutAfterOne); when it completes there are *)
(* two.  A profile screen is never under or over a form (Rooted).          *)
(***************************************************************************)

OneDone == \E j \in 1..Len(jobs) : jobs[j].stage = "done"

Rooted ==
  /\ open # << >> => forms[open[1]] # "registration"
  /\ \A i \in 1..Len(open) : forms[open[i]] = "profile" => Len(open) = 1

HomeAfterOne ==
  AtHome /\ (\E j \in 1..Len(jobs) : jobs[j].stage \in Running) => OneDone

OutAfterOne ==
  current = NoUser /\ (\E j \in 1..Len(jobs) : jobs[j].stage \in InCompletion) => OneDone

Homecoming == Rooted /\ HomeAfterOne /\ OutAfterOne /\ OpenForSomebody

\* No job starts or signs in, and those that are done stay so.
NoneStarts ==
  /\ Len(jobs') = Len(jobs)
  /\ \A i \in 1..Len(jobs) :
       /\ jobs[i].stage = "done" => jobs'[i].stage = "done"
       /\ jobs'[i].stage \in Running => jobs[i].stage \in Running
       /\ jobs'[i].stage \in InCompletion => jobs[i].stage \in InCompletion

LEMMA DoneKept ==
  ASSUME Len(jobs') = Len(jobs),
         \A i \in 1..Len(jobs) : jobs[i].stage = "done" => jobs'[i].stage = "done"
  PROVE  (OneDone => OneDone') /\ (TwoDone => TwoDone')
BY DEF OneDone, TwoDone

\* Neither the user nor the screens change.
LEMMA StillHome ==
  ASSUME Homecoming, NoneStarts, UNCHANGED <<current, forms, open>> PROVE Homecoming'
<1>1. (OneDone => OneDone') /\ (TwoDone => TwoDone')
  BY DoneKept DEF NoneStarts
<1>2. Rooted' /\ (AtHome' => AtHome)
  BY DEF Homecoming, Rooted, AtHome
<1> QED
  BY <1>1, <1>2 DEF Homecoming, HomeAfterOne, OutAfterOne, OpenForSomebody, NoneStarts

\* The screens change, but no form is closed by that.
LEMMA ScreensHome ==
  ASSUME Homecoming, UNCHANGED <<jobs, current>>, Rooted', AtHome' => AtHome
  PROVE  Homecoming'
BY DEF Homecoming, HomeAfterOne, OutAfterOne, OpenForSomebody, OneDone, TwoDone

LEMMA ContinuesHome ==
  ASSUME Homecoming, NEW j \in 1..Len(jobs), Continues(j) PROVE Homecoming'
<1>1. NoneStarts
  BY DEF Continues, GoesOn, NoneStarts, Running, Dispatched
<1> QED  BY <1>1, StillHome DEF Continues

LEMMA SignsInHome ==
  ASSUME TypeOK, Homecoming, NEW j \in 1..Len(jobs), SignsIn(j) PROVE Homecoming'
<1>1. /\ Len(jobs') = Len(jobs)
      /\ \A i \in 1..Len(jobs) :
           /\ jobs[i].stage = "done" => jobs'[i].stage = "done"
           /\ jobs'[i].stage \in Running => jobs[i].stage \in Running
  BY DEF SignsIn, GoesOn, Running, Dispatched
<1>2. (OneDone => OneDone') /\ current' # NoUser
  BY <1>1, DoneKept DEF SignsIn, Job, NoUser
<1>3. Rooted' /\ (AtHome' => AtHome)
  BY DEF SignsIn, Homecoming, Rooted, AtHome
<1> QED
  BY <1>1, <1>2, <1>3 DEF Homecoming, HomeAfterOne, OutAfterOne, OpenForSomebody

\* The job that completes is not the one that was done before.
LEMMA CompletesHome ==
  ASSUME Homecoming, NEW j \in 1..Len(jobs), Completes(j) PROVE Homecoming'
<1>1. /\ Len(jobs') = Len(jobs) /\ jobs'[j].stage = "done"
      /\ \A i \in 1..Len(jobs) : jobs[i].stage = "done" => jobs'[i].stage = "done"
  BY DEF Completes, GoesOn
<1>2. OneDone'
  BY <1>1 DEF OneDone
<1>3. Rooted'
  BY DEF Completes, Rooted
<1>4. current = NoUser => TwoDone'
  <2> SUFFICES ASSUME current = NoUser PROVE TwoDone'
    OBVIOUS
  <2>1. PICK k \in 1..Len(jobs) : jobs[k].stage = "done"
    BY DEF Completes, Homecoming, OutAfterOne, OneDone
  <2>2. k # j
    BY <2>1 DEF Completes, InCompletion
  <2> QED  BY <1>1, <2>1, <2>2 DEF TwoDone
<1> QED
  BY <1>2, <1>3, <1>4
  DEF Homecoming, HomeAfterOne, OutAfterOne, OpenForSomebody, Completes

\* A tap starts a job, under a form.
LEMMA TapHome ==
  ASSUME TypeOK, Homecoming, NEW kind, NEW e, NEW stage, stage \notin InCompletion,
         open # << >>, forms[Top] # "profile", Tap(kind, e, stage)
  PROVE  Homecoming'
<1>1. UNCHANGED <<current, forms, open>>
  BY DEF Tap, disk
<1>2. Rooted'
  BY <1>1 DEF Homecoming, Rooted
<1>3. ~ AtHome'
  <2>1. Len(open) \in 1..Len(open)
    BY DEF TypeOK
  <2> QED  BY <1>1, <2>1 DEF AtHome, Top
<1>4. OneDone => OneDone'
  BY TapGrows DEF OneDone
<1>5. OutAfterOne'
  <2> SUFFICES ASSUME current = NoUser, NEW i \in 1..(Len(jobs) + 1),
                      jobs'[i].stage \in InCompletion
               PROVE  OneDone
    BY <1>1, <1>4, TapGrows DEF OutAfterOne
  <2>1. i \in 1..Len(jobs)
    BY TapGrows
  <2> QED  BY <2>1, TapGrows DEF Homecoming, OutAfterOne
<1> QED  BY <1>2, <1>3, <1>5 DEF Homecoming, HomeAfterOne, OpenForSomebody

\* The form for a sign-up is over one for a login, and no profile is there.
LEMMA ShowSignUpHome ==
  ASSUME TypeOK, Homecoming, ShowSignUp PROVE Homecoming'
<1>1. PICK n \in Nat : n = Len(forms)
  BY LenProperties DEF TypeOK
<1>2. PICK m \in Nat : m = Len(open)
  BY LenProperties DEF TypeOK
<1>3. m >= 1 /\ forms[open[m]] = "login"
  BY <1>2 DEF ShowSignUp, Shows, Top, TypeOK
<1>4. /\ forms'[n + 1] = "registration" /\ \A f \in 1..n : forms'[f] = forms[f]
      /\ open' = Append(open, n + 1)
  BY <1>1, NewScreen DEF ShowSignUp
<1>5. open \in Seq(1..n) /\ open \in Seq(Nat) /\ \A i \in 1..m : open[i] \in 1..n
  BY <1>1, <1>2, ElementOfSeq DEF TypeOK
<1>6. /\ Len(open') = m + 1 /\ open'[m + 1] = n + 1
      /\ \A i \in 1..m : open'[i] = open[i]
  BY <1>2, <1>4, <1>5
<1>7. \A i \in 1..m : forms[open[i]] # "profile"
  <2> SUFFICES ASSUME NEW i \in 1..m, forms[open[i]] = "profile" PROVE FALSE
    OBVIOUS
  <2>1. m = 1
    BY <1>2 DEF Homecoming, Rooted
  <2> QED  BY <1>3, <2>1
<1>8. \A i \in 1..(m + 1) : forms'[open'[i]] # "profile"
  <2> TAKE i \in 1..(m + 1)
  <2>1. CASE i \in 1..m
    BY <1>4, <1>5, <1>6, <1>7, <2>1
  <2>2. CASE i = m + 1
    BY <1>4, <1>6, <2>2
  <2> QED  BY <2>1, <2>2
<1>9. Rooted'
  <2>1. forms'[open'[1]] = forms[open[1]] /\ forms[open[1]] # "registration"
    <3>1. 1 \in 1..m /\ open # << >>
      BY <1>2, <1>3
    <3> QED  BY <1>4, <1>5, <1>6, <3>1 DEF Homecoming, Rooted
  <2> QED  BY <1>6, <1>8, <2>1 DEF Rooted
<1>10. ~ AtHome'
  BY <1>3, <1>6, <1>8 DEF AtHome
<1> QED  BY <1>9, <1>10, ScreensHome DEF ShowSignUp, disk

\* Under the form for a sign-up there is one for a login.
LEMMA ShowLoginHome ==
  ASSUME TypeOK, Homecoming, ShowLogin PROVE Homecoming'
<1>1. PICK m \in Nat : m = Len(open)
  BY LenProperties DEF TypeOK
<1>2. m >= 1 /\ forms[open[m]] = "registration"
  BY <1>1 DEF ShowLogin, Shows, Top, TypeOK
<1>3. m # 1
  BY <1>1, <1>2 DEF Homecoming, Rooted
<1>4. /\ Len(open') = m - 1 /\ \A i \in 1..(m - 1) : open'[i] = open[i]
      /\ forms' = forms
  <2>1. open \in Seq(Nat)
    BY LenProperties DEF TypeOK
  <2> QED  BY <1>1, <1>2, <2>1 DEF ShowLogin
<1>5. \A i \in 1..m : forms[open[i]] # "profile"
  BY <1>1, <1>3 DEF Homecoming, Rooted
<1>6. Rooted' /\ ~ AtHome'
  <2>1. 1 \in 1..(m - 1) /\ open # << >> /\ \A i \in 1..(m - 1) : i \in 1..m
    BY <1>1, <1>2, <1>3
  <2>2. forms[open[1]] # "registration"
    BY <2>1 DEF Homecoming, Rooted
  <2> QED  BY <1>4, <1>5, <2>1, <2>2 DEF Rooted, AtHome
<1> QED  BY <1>6, ScreensHome DEF ShowLogin, disk

LEMMA ShowProfileHome ==
  ASSUME TypeOK, Homecoming, ShowProfile PROVE Homecoming'
<1>1. PICK n \in Nat : n = Len(forms)
  BY LenProperties DEF TypeOK
<1>2. open' = <<n + 1>> /\ forms'[n + 1] = "profile"
  <2>1. Present("profile", << >>)
    BY DEF ShowProfile
  <2>2. open' = Append(<< >>, n + 1) /\ forms'[n + 1] = "profile"
    BY <1>1, <2>1, NewScreen
  <2> QED  BY <2>1, <2>2
<1>3. Rooted' /\ AtHome
  BY <1>2 DEF Rooted, AtHome, ShowProfile
<1> QED  BY <1>3, ScreensHome DEF ShowProfile, disk

\* A profile that is presented is all that is presented.
LEMMA ProfileAlone ==
  ASSUME TypeOK, Rooted, Shows("profile") PROVE AtHome
<1>1. PICK m \in Nat : m = Len(open)
  BY LenProperties DEF TypeOK
<1>2. m \in 1..m /\ forms[open[m]] = "profile"
  BY <1>1 DEF Shows, Top, TypeOK
<1>3. m = 1
  BY <1>1, <1>2 DEF Rooted
<1> QED  BY <1>1, <1>2, <1>3 DEF AtHome

LEMMA CloseProfileHome ==
  ASSUME TypeOK, Homecoming, CloseProfile PROVE Homecoming'
<1>1. open' = << >> /\ AtHome
  BY ProfileAlone DEF CloseProfile, Homecoming
<1>2. Rooted'
  BY <1>1 DEF Rooted
<1> QED  BY <1>1, <1>2, ScreensHome DEF CloseProfile, disk

\* A job that is to complete at a logout runs at home.
LEMMA LogoutHome ==
  ASSUME TypeOK, Homecoming, Logout PROVE Homecoming'
<1>1. PICK n \in Nat : n = Len(forms)
  BY LenProperties DEF TypeOK
<1>2. open' = <<n + 1>> /\ forms'[n + 1] = "login" /\ UNCHANGED jobs
  <2>1. Present("login", << >>) /\ UNCHANGED jobs
    BY DEF Logout
  <2>2. open' = Append(<< >>, n + 1) /\ forms'[n + 1] = "login"
    BY <1>1, <2>1, NewScreen
  <2> QED  BY <2>1, <2>2
<1>3. AtHome
  BY ProfileAlone DEF Logout, Homecoming
<1>4. Rooted' /\ ~ AtHome'
  BY <1>2 DEF Rooted, AtHome
<1>5. OutAfterOne'
  BY <1>2, <1>3
  DEF Homecoming, HomeAfterOne, OutAfterOne, OneDone, InCompletion, Running, Dispatched
<1> QED  BY <1>4, <1>5 DEF Homecoming, HomeAfterOne, OpenForSomebody

\* A launch ends every job, and presents the login screen to nobody only.
LEMMA KillHome == ASSUME TypeOK, Homecoming, Kill PROVE Homecoming'
<1> DEFINE F(j) == IF jobs[j].stage \in Running THEN [jobs[j] EXCEPT !.stage = "lost"]
                   ELSE jobs[j]
<1>1. jobs' = [j \in 1..Len(jobs) |-> F(j)]
  BY DEF Kill
<1>2. \A j \in 1..Len(jobs) : F(j).stage \notin Running
  BY JobType DEF JobRecord, Running, Dispatched
<1> HIDE DEF F
<1>3. Len(jobs) \in Nat /\ Len(jobs') = Len(jobs)
  BY <1>1, LenProperties DEF TypeOK
<1>4. \A j \in 1..Len(jobs') : jobs'[j].stage \notin Running
  BY <1>1, <1>2, <1>3
<1>5. HomeAfterOne' /\ OutAfterOne'
  BY <1>4 DEF HomeAfterOne, OutAfterOne, InCompletion, Running, Dispatched
<1>6. current' = current /\ open' = LaunchOpen(current) /\ forms' = LaunchForms(current)
  BY DEF Kill, disk
<1>7. Rooted' /\ (current = NoUser => ~ AtHome')
  BY <1>6 DEF LaunchOpen, LaunchForms, Rooted, AtHome
<1> QED  BY <1>5, <1>6, <1>7 DEF Homecoming, OpenForSomebody

LEMMA HomecomingStep ==
  ASSUME TypeOK, Issuing, Homecoming, [Next]_vars PROVE Homecoming'
<1>1. CASE Idle
  <2>1. NoneStarts
    BY <1>1 DEF Idle, NoneStarts
  <2> QED  BY <1>1, <2>1, StillHome DEF Idle
<1>2. ASSUME NEW e \in Email, SignUp(e) \/ LogIn(e) PROVE Homecoming'
  BY <1>2, TapHome DEF SignUp, LogIn, Shows, InCompletion
<1>3. ASSUME NEW j \in 1..Len(jobs), Reply(j) \/ Handler(j) \/ Write(j)
      PROVE  Homecoming'
  BY <1>1, <1>3, ReplyMoves, HandlerMoves, WriteMoves, ContinuesHome, SignsInHome,
     CompletesHome
<1>4. CASE RunTask
  BY <1>1, <1>4, RunTaskMoves, ContinuesHome
<1>5. CASE SignedOut \/ ConversationArrives \/ Animate \/ UNCHANGED vars
  <2>1. Idle
    BY <1>5 DEF SignedOut, ConversationArrives, Animate, vars, disk, screen, Idle
  <2> QED  BY <1>1, <2>1
<1>6. ASSUME NEW f \in Form, Release(f) PROVE Homecoming'
  <2>1. Idle
    BY <1>6 DEF Release, disk, Idle
  <2> QED  BY <1>1, <2>1
<1>7. ASSUME NEW f \in Form, NEW user \in User, ProfileReply(f, user) PROVE Homecoming'
  <2>1. Idle
    BY <1>7 DEF ProfileReply, disk, Idle
  <2> QED  BY <1>1, <2>1
<1> QED
  BY <1>2, <1>3, <1>4, <1>5, <1>6, <1>7, ShowSignUpHome, ShowLoginHome, ShowProfileHome,
     CloseProfileHome, LogoutHome, KillHome
  DEF Next

LEMMA IssuingAlways == Spec => []Issuing
<1>1. Init => Issuing
  BY DEF Init, Issuing
<1>2. IInv /\ Issuing /\ [Next]_vars => Issuing'
  BY IssuingStep DEF IInv
<1> QED  BY <1>1, <1>2, SessionInvariant, PTL DEF Spec

\* The conversations are open with nobody signed in only after two completions: a
\* sign-up or login that is under way across a logout closes the login screen when it
\* completes (ConversationsController.swift:198).
THEOREM OpenForSomebodyAlways == Spec => []OpenForSomebody
<1>1. Init => Homecoming
  <2> SUFFICES ASSUME Init PROVE Homecoming
    OBVIOUS
  <2>1. open = <<1>> /\ forms = <<"login">> /\ jobs = << >>
    BY DEF Init, LaunchOpen, LaunchForms
  <2> QED
    BY <2>1
    DEF Homecoming, Rooted, HomeAfterOne, OutAfterOne, OpenForSomebody, AtHome
<1>2. IInv /\ Issuing /\ Homecoming /\ [Next]_vars => Homecoming'
  BY HomecomingStep DEF IInv
<1>3. Homecoming => OpenForSomebody
  BY DEF Homecoming
<1> QED  BY <1>1, <1>2, <1>3, SessionInvariant, IssuingAlways, PTL DEF Spec

-----------------------------------------------------------------------------
(***************************************************************************)
(* The jobs and the screens implement Listening: a job that signs in is    *)
(* pending until it completes or ends, and completing is all that adds a   *)
(* listener but a launch.                                                  *)
(***************************************************************************)

LEMMA CompletingMoves ==
  ASSUME NEW j \in 1..Len(jobs), NEW stage, NEW user, GoesOn(j, stage, user)
  PROVE  Completing' = IF stage \in InCompletion THEN Completing \cup {j}
                                                 ELSE Completing \ {j}
BY DEF Completing, GoesOn, InCompletion

LEMMA IdleListens ==
  ASSUME UNCHANGED <<jobs, current, listeners>> PROVE UNCHANGED Listeners!vars
BY DEF Listeners!vars, Completing

LEMMA ContinuesListens ==
  ASSUME TypeOK, NEW j \in 1..Len(jobs), Continues(j)
  PROVE  Listeners!Next \/ UNCHANGED Listeners!vars
<1>1. PICK stage, user : /\ GoesOn(j, stage, user)
                         /\ stage \in InCompletion => jobs[j].stage \in InCompletion
  BY DEF Continues
<1>2. UNCHANGED <<current, listeners>> /\ j \in Job
  BY JobType DEF Continues
<1>3. j \in Completing <=> jobs[j].stage \in InCompletion
  BY DEF Completing, InCompletion
<1>4. CASE stage \in InCompletion \/ j \notin Completing
  <2>1. Completing' = Completing
    BY <1>1, <1>3, <1>4, CompletingMoves
  <2> QED  BY <1>2, <2>1 DEF Listeners!vars
<1>5. CASE stage \notin InCompletion /\ j \in Completing
  <2>1. Completing' = Completing \ {j}
    BY <1>1, <1>5, CompletingMoves
  <2>2. Listeners!GiveUp(j)
    BY <1>2, <1>5, <2>1 DEF Listeners!GiveUp
  <2> QED  BY <1>2, <2>2 DEF Listeners!Next
<1> QED  BY <1>4, <1>5

LEMMA SignsInListens ==
  ASSUME TypeOK, NEW j \in 1..Len(jobs), SignsIn(j) PROVE Listeners!Next
<1>1. j \in Job /\ current' \in Job /\ UNCHANGED listeners
  BY JobType DEF SignsIn
<1>2. j \notin Completing
  BY DEF SignsIn, Completing, InCompletion
<1>3. Completing' = Completing \cup {j}
  BY CompletingMoves DEF SignsIn, InCompletion
<1>4. Listeners!SignIn(current', j)
  BY <1>1, <1>2, <1>3 DEF Listeners!SignIn
<1> QED  BY <1>1, <1>4 DEF Listeners!Next

LEMMA CompletesListens ==
  ASSUME TypeOK, NEW j \in 1..Len(jobs), Completes(j) PROVE Listeners!Next
<1>1. j \in Job /\ UNCHANGED current
  BY JobType DEF Completes
<1>2. j \in Completing
  BY DEF Completes, Completing, InCompletion
<1>3. Completing' = Completing \ {j}
  BY CompletingMoves DEF Completes, InCompletion
<1>4. Listeners!Complete(j)
  BY <1>1, <1>2, <1>3 DEF Completes, Listeners!Complete
<1> QED  BY <1>1, <1>4 DEF Listeners!Next

LEMMA TapListens ==
  ASSUME TypeOK, NEW kind, NEW e, NEW stage, stage \notin InCompletion, Tap(kind, e, stage)
  PROVE  UNCHANGED Listeners!vars
<1>1. UNCHANGED <<current, listeners>>
  BY DEF Tap, disk
<1>2. PICK n \in Nat : n = Len(jobs)
  BY LenProperties DEF TypeOK
<1>3. /\ Len(jobs') = n + 1 /\ jobs'[n + 1].stage \notin InCompletion
      /\ \A i \in 1..n : jobs'[i] = jobs[i]
  BY <1>2, TapGrows
<1>4. Completing' = Completing
  <2>1. Completing' = {j \in 1..(n + 1) : jobs'[j].stage \in InCompletion}
    BY <1>3 DEF Completing, InCompletion
  <2>2. Completing = {j \in 1..n : jobs[j].stage \in InCompletion}
    BY <1>2 DEF Completing, InCompletion
  <2>3. \A j \in 1..(n + 1) : j \in 1..n \/ j = n + 1
    BY <1>2
  <2>4. \A j \in 1..n : j \in 1..(n + 1)
    BY <1>2
  <2> QED  BY <1>3, <2>1, <2>2, <2>3, <2>4
<1> QED  BY <1>1, <1>4 DEF Listeners!vars

LEMMA KillListens == ASSUME TypeOK, Kill PROVE Listeners!Next
<1> DEFINE F(j) == IF jobs[j].stage \in Running THEN [jobs[j] EXCEPT !.stage = "lost"]
                   ELSE jobs[j]
<1>1. jobs' = [j \in 1..Len(jobs) |-> F(j)]
  BY DEF Kill
<1>2. \A j \in 1..Len(jobs) : F(j).stage \notin InCompletion
  BY JobType DEF JobRecord, InCompletion, Running, Dispatched
<1> HIDE DEF F
<1>3. Len(jobs) \in Nat /\ Len(jobs') = Len(jobs)
  BY <1>1, LenProperties DEF TypeOK
<1>4. Completing' = {}
  BY <1>1, <1>2, <1>3 DEF Completing, InCompletion
<1>5. current' = current /\ listeners' = {current} \ {NoUser}
  BY DEF Kill, disk, LaunchListeners
<1>6. Listeners!Relaunch
  BY <1>4, <1>5 DEF Listeners!Relaunch
<1> QED  BY <1>6 DEF Listeners!Next

LEMMA ListensStep ==
  ASSUME TypeOK, Issuing, [Next]_vars PROVE [Listeners!Next]_(Listeners!vars)
<1>1. CASE Idle
  BY <1>1, IdleListens DEF Idle
<1>2. ASSUME NEW e \in Email, SignUp(e) \/ LogIn(e) PROVE UNCHANGED Listeners!vars
  BY <1>2, TapListens DEF SignUp, LogIn, InCompletion
<1>3. ASSUME NEW j \in 1..Len(jobs), Reply(j) \/ Handler(j) \/ Write(j)
      PROVE  [Listeners!Next]_(Listeners!vars)
  BY <1>1, <1>3, ReplyMoves, HandlerMoves, WriteMoves, ContinuesListens, SignsInListens,
     CompletesListens
<1>4. CASE RunTask
  BY <1>1, <1>4, RunTaskMoves, ContinuesListens
<1>5. CASE \/ SignedOut \/ ConversationArrives \/ Animate
           \/ ShowSignUp \/ ShowLogin \/ ShowProfile \/ CloseProfile \/ UNCHANGED vars
  <2>1. UNCHANGED <<jobs, current, listeners>>
    BY <1>5
    DEF SignedOut, ConversationArrives, Animate, ShowSignUp, ShowLogin, ShowProfile,
        CloseProfile, vars, disk, screen
  <2> QED  BY <2>1, IdleListens
<1>6. CASE Logout
  <2>1. current' = NoUser /\ UNCHANGED <<jobs, listeners>>
    BY <1>6 DEF Logout
  <2>2. Listeners!SignOut
    BY <2>1 DEF Listeners!SignOut, Completing
  <2> QED  BY <2>2 DEF Listeners!Next
<1>7. ASSUME NEW f \in Form, Release(f) PROVE UNCHANGED Listeners!vars
  BY <1>7, IdleListens DEF Release, disk
<1>8. ASSUME NEW f \in Form, NEW user \in User, ProfileReply(f, user)
      PROVE  UNCHANGED Listeners!vars
  BY <1>8, IdleListens DEF ProfileReply, disk
<1> QED
  BY <1>2, <1>3, <1>4, <1>5, <1>6, <1>7, <1>8, KillListens DEF Next

\* Signing up, logging in and out and launching the app implement Listening: each job
\* signs one user in and adds at most one listener, for whoever is signed in when it
\* completes (AuthService.swift, ConversationsController.authenticationComplete).
THEOREM ListeningRefined == Spec => ImplementsListening
<1>1. Init => Listeners!Init
  BY DEF Init, Listeners!Init, Completing, LaunchListeners
<1>2. IInv /\ Issuing /\ [Next]_vars => [Listeners!Next]_(Listeners!vars)
  BY ListensStep DEF IInv
<1> QED
  BY <1>1, <1>2, SessionInvariant, IssuingAlways, PTL
  DEF Spec, ImplementsListening, Listeners!Spec
=============================================================================
