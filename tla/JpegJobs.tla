------------------------------ MODULE JpegJobs ------------------------------
(***************************************************************************)
(* The JPEG job manager (mm_jpeg.c, mm_jpeg_interface.c): clients with a   *)
(* session each give it jobs; one thread takes them out of a queue, one    *)
(* at a time, and has a session's OMX component encode it; the component's *)
(* callback thread answers the client.  Abort and destroy wait until the   *)
(* component is idle.                                                      *)
(*                                                                         *)
(* A call of a client holds g_intf_lock from beginning to end, so only one *)
(* client is in a call.  The sections under a session's lock are steps; a  *)
(* wait for its condition lets go of it.                                   *)
(*                                                                         *)
(* The component is external.  It gives each job's output buffer back or   *)
(* reports an error, and it gives all buffers back before it is idle; its  *)
(* callbacks come from one thread.                                         *)
(***************************************************************************)
EXTENDS Integers, Sequences, FiniteSets

CONSTANTS
  Clients,   \* the clients; each uses one session at a time
  MaxJobs,   \* jobs each client ever starts (a bound)
  MaxOpens,  \* times a client opens (a bound)
  MaxSessions, \* sessions it creates each time (a bound)
  Failures   \* what may fail: a subset of {"encode", "omx"}

Nobody == "nobody"
MaxOngoing == 1   \* NUM_MAX_JPEG_CNCURRENT_JOBS

ASSUME JpegAssumption ==
  /\ MaxJobs \in [Clients -> Nat] /\ MaxOpens \in Nat /\ MaxSessions \in Nat
  /\ Failures \subseteq {"encode", "omx"}
  /\ Nobody \notin Clients /\ "mgr" \notin Clients
Jobs == UNION {{c} \X (1..MaxJobs[c]) : c \in Clients}
Client(j) == j[1]

VARIABLES
  cl,        \* a client's thread: [at, op, job], may it only stop?, opens and sessions left
  ses,       \* sessions: active, abort_flag, encoding, jobId
  omx,       \* components: the job they work on, are they going idle, their callback
  job_lock,  \* its owner
  job_queue, \* jobs to do, and EXIT
  ongoing,   \* ongoing_job_q
  job_sem,
  mgr,       \* the job manager's thread: [at, job]
  outcome    \* of each job: new, asked, answered, dropped or over when its abort or the
             \* destroy returned, wrong when it is answered once more (history)

vars == <<cl, ses, omx, job_lock, job_queue, ongoing, job_sem, mgr, outcome>>

Exit == <<"EXIT", 0>>
NoJob == <<Nobody, 0>>
FreshOmx == [work |-> NoJob, idling |-> FALSE, cb |-> "none"]

Init ==
  /\ cl = [c \in Clients |-> [at |-> "closed", op |-> "none", job |-> NoJob,
                              stopping |-> FALSE, opens |-> MaxOpens, sessions |-> 0]]
  /\ ses = [c \in Clients |-> [active |-> FALSE, abort_flag |-> FALSE,
                               encoding |-> FALSE, jobId |-> NoJob]]
  /\ omx = [c \in Clients |-> FreshOmx]
  /\ job_lock = Nobody /\ job_queue = <<>> /\ ongoing = <<>> /\ job_sem = 0
  /\ mgr = [at |-> "gone", job |-> NoJob]
  /\ outcome = [j \in Jobs |-> "new"]

\* What is left of a queue, in its order, when the jobs of S are removed one by one.
Kept(q, S) == {i \in DOMAIN q : q[i] \notin S}
Place(q, S, i) == Cardinality({k \in Kept(q, S) : k <= i})
Without(q, S) ==
  [n \in 1..Cardinality(Kept(q, S)) |-> q[CHOOSE i \in Kept(q, S) : Place(q, S, i) = n]]

JobsOf(c) == {j \in Jobs : Client(j) = c}
Resting == {"closed", "idle"}
IntfFree == \A c \in Clients : cl[c].at \in Resting
Opened == {c \in Clients : cl[c].at # "closed"}
To(c, at) == [cl EXCEPT ![c].at = at]
Back(c)   == [cl EXCEPT ![c].at = "idle", ![c].op = "none", ![c].job = NoJob]

-----------------------------------------------------------------------------
(* Calls that are done at once.                                            *)

\* jpeg_open; the first client launches the thread.
Open(c) ==
  /\ IntfFree /\ cl[c].at = "closed" /\ cl[c].opens > 0
  /\ cl' = [cl EXCEPT ![c].at = "idle", ![c].opens = @ - 1, ![c].sessions = MaxSessions]
  /\ ses' = [ses EXCEPT ![c] = [active |-> FALSE, abort_flag |-> FALSE,
                                encoding |-> FALSE, jobId |-> NoJob]]
  /\ mgr' = IF Opened = {} THEN [at |-> "wait", job |-> NoJob] ELSE mgr
  /\ UNCHANGED <<omx, job_lock, job_queue, ongoing, job_sem, outcome>>

\* encoding is as the last session in this place left it.
CreateSession(c) ==
  /\ IntfFree /\ cl[c].at = "idle" /\ ~ses[c].active /\ cl[c].sessions > 0
  /\ cl' = [cl EXCEPT ![c].sessions = @ - 1]
  /\ ses' = [ses EXCEPT ![c].active = TRUE, ![c].abort_flag = FALSE]
  /\ omx' = [omx EXCEPT ![c] = FreshOmx]
  /\ UNCHANGED <<job_lock, job_queue, ongoing, job_sem, mgr, outcome>>

StartJob(j) ==
  LET c == Client(j) IN
  /\ IntfFree /\ cl[c].at = "idle" /\ ses[c].active /\ ~cl[c].stopping
  /\ outcome[j] = "new" /\ \A n \in 1..(j[2] - 1) : outcome[<<c, n>>] # "new"
  /\ job_queue' = Append(job_queue, j)
  /\ job_sem' = job_sem + 1
  /\ outcome' = [outcome EXCEPT ![j] = "asked"]
  /\ UNCHANGED <<cl, ses, omx, job_lock, ongoing, mgr>>

-----------------------------------------------------------------------------
(* Abort and destroy.  The client destroys a session in which it aborted a *)
(* job before anything else, and before it closes.                         *)

CallAbort(j) ==
  LET c == Client(j) IN
  /\ IntfFree /\ cl[c].at = "idle" /\ ses[c].active /\ outcome[j] \in {"asked", "answered"}
  /\ cl' = [cl EXCEPT ![c].at = "lock", ![c].op = "abort", ![c].job = j, ![c].stopping = TRUE]
  /\ UNCHANGED <<ses, omx, job_lock, job_queue, ongoing, job_sem, mgr, outcome>>

CallDestroy(c) ==
  /\ IntfFree /\ cl[c].at = "idle" /\ ses[c].active
  /\ cl' = [cl EXCEPT ![c].at = "lock", ![c].op = "destroy"]
  /\ UNCHANGED <<ses, omx, job_lock, job_queue, ongoing, job_sem, mgr, outcome>>

\* mm_jpeg_session_abort, unless it is aborted: the component is told to go idle if a
\* job is being encoded, and waited for.
NotWaiting(c) == FALSE   \* mutant of Waiting: the component is not waited for
Waiting(c) == ses[c].encoding /\ ~ses[c].abort_flag
SessionAbort(c) ==
  /\ ses' = [ses EXCEPT ![c].abort_flag = TRUE]
  /\ omx' = [omx EXCEPT ![c].idling = @ \/ (ses[c].encoding /\ ~ses[c].abort_flag)]
  /\ cl' = To(c, IF Waiting(c) THEN "cond" ELSE "woken")

\* A job to do is only forgotten; an ongoing one is forgotten and its session aborted.
AbortJob(c) ==
  /\ cl[c].at = "lock" /\ cl[c].op = "abort" /\ job_lock = Nobody
  /\ job_lock' = c
  /\ LET j == cl[c].job
         todo == j \in {job_queue[i] : i \in DOMAIN job_queue}
         started == j \in {ongoing[i] : i \in DOMAIN ongoing}
     IN /\ job_queue' = Without(job_queue, {j})
        /\ ongoing' = IF todo THEN ongoing ELSE Without(ongoing, {j})
        /\ IF ~todo /\ started THEN SessionAbort(c)
                               ELSE cl' = To(c, "woken") /\ UNCHANGED <<ses, omx>>
  /\ UNCHANGED <<job_sem, mgr, outcome>>

DestroySession(c) ==
  /\ cl[c].at = "lock" /\ cl[c].op = "destroy" /\ job_lock = Nobody
  /\ job_lock' = c
  /\ job_queue' = Without(job_queue, JobsOf(c))
  /\ ongoing' = Without(ongoing, JobsOf(c))
  /\ SessionAbort(c)
  /\ UNCHANGED <<job_sem, mgr, outcome>>

Drop(S) == outcome' = [j \in Jobs |-> IF j \notin S \/ outcome[j] = "new" THEN outcome[j]
                                      ELSE IF outcome[j] = "asked" THEN "dropped" ELSE "over"]
AbortReturns(c) ==
  /\ cl[c].at = "woken" /\ cl[c].op = "abort"
  /\ job_lock' = Nobody /\ cl' = Back(c)
  /\ Drop({cl[c].job})
  /\ UNCHANGED <<ses, omx, job_queue, ongoing, job_sem, mgr>>

NoPost == job_sem   \* mutant of Post: the thread is not woken after a destroy
Post   == job_sem + 1

\* mm_jpeg_session_destroy takes the component down; then the thread is woken.
DestroyReturns(c) ==
  /\ cl[c].at = "woken" /\ cl[c].op = "destroy"
  /\ omx' = [omx EXCEPT ![c] = FreshOmx]
  /\ ses' = [ses EXCEPT ![c].active = FALSE]
  /\ job_lock' = Nobody /\ job_sem' = Post
  /\ cl' = [Back(c) EXCEPT ![c].stopping = FALSE]
  /\ Drop(JobsOf(c))
  /\ UNCHANGED <<job_queue, ongoing, mgr>>

\* mm_jpeg_close; with the last client the thread is told to exit, and joined.
Close(c) ==
  /\ IntfFree /\ cl[c].at = "idle" /\ ~ses[c].active /\ job_lock = Nobody
  /\ IF Opened = {c}
     THEN /\ job_queue' = Append(job_queue, Exit) /\ job_sem' = job_sem + 1
          /\ cl' = To(c, "join")
     ELSE cl' = To(c, "closed") /\ UNCHANGED <<job_queue, job_sem>>
  /\ UNCHANGED <<ses, omx, job_lock, ongoing, mgr, outcome>>

Joined(c) ==
  /\ cl[c].at = "join" /\ mgr.at = "gone"
  /\ cl' = To(c, "closed")
  /\ job_queue' = <<>> /\ ongoing' = <<>> /\ job_sem' = 0
  /\ UNCHANGED <<ses, omx, job_lock, mgr, outcome>>

-----------------------------------------------------------------------------
(* Answers.                                                                *)

Answer(j) == outcome' = [outcome EXCEPT ![j] = IF @ = "asked" THEN "answered" ELSE "wrong"]

\* mm_jpeg_job_done
JobDone(c) ==
  /\ ongoing' = Without(ongoing, {ses[c].jobId})
  /\ job_sem' = job_sem + 1

-----------------------------------------------------------------------------
(* The job manager's thread.                                               *)

\* While a job is ongoing the wake-up is forgotten.
Wait ==
  /\ mgr.at = "wait" /\ job_sem > 0
  /\ job_sem' = job_sem - 1
  /\ mgr' = IF Len(ongoing) >= MaxOngoing THEN mgr ELSE [mgr EXCEPT !.at = "lock"]
  /\ UNCHANGED <<cl, ses, omx, job_lock, job_queue, ongoing, outcome>>

TakeNothing ==
  /\ mgr.at = "lock" /\ job_lock = Nobody /\ job_queue = <<>>
  /\ mgr' = [mgr EXCEPT !.at = "wait"]
  /\ UNCHANGED <<cl, ses, omx, job_lock, job_queue, ongoing, job_sem, outcome>>

TakeExit ==
  /\ mgr.at = "lock" /\ job_lock = Nobody /\ job_queue # <<>> /\ Head(job_queue) = Exit
  /\ mgr' = [mgr EXCEPT !.at = "gone"]
  /\ job_queue' = Tail(job_queue)
  /\ UNCHANGED <<cl, ses, omx, job_lock, ongoing, job_sem, outcome>>

TakeJob ==
  /\ mgr.at = "lock" /\ job_lock = Nobody /\ job_queue # <<>> /\ Head(job_queue) # Exit
  /\ LET j == Head(job_queue)
         c == Client(j)
     IN /\ job_lock' = "mgr" /\ mgr' = [at |-> "encode", job |-> j]
        /\ ongoing' = Append(ongoing, j)
        /\ ses' = [ses EXCEPT ![c].jobId = j, ![c].abort_flag = FALSE, ![c].encoding = FALSE]
  /\ job_queue' = Tail(job_queue)
  /\ UNCHANGED <<cl, omx, job_sem, outcome>>

\* mm_jpeg_session_encode
Encode ==
  LET c == Client(mgr.job) IN
  /\ mgr.at = "encode"
  /\ ses' = [ses EXCEPT ![c].encoding = TRUE]
  /\ omx' = [omx EXCEPT ![c].work = mgr.job]
  /\ mgr' = [at |-> "wait", job |-> NoJob] /\ job_lock' = Nobody
  /\ UNCHANGED <<cl, job_queue, ongoing, job_sem, outcome>>

\* It fails before or after the session is marked: the client is told here.
EncodeFails ==
  LET c == Client(mgr.job) IN
  /\ mgr.at = "encode" /\ "encode" \in Failures
  /\ Answer(mgr.job) /\ JobDone(c)
  /\ ses' = [ses EXCEPT ![c].encoding = FALSE]
  /\ mgr' = [at |-> "wait", job |-> NoJob] /\ job_lock' = Nobody
  /\ UNCHANGED <<cl, omx, job_queue>>

-----------------------------------------------------------------------------
(* The callback thread of a component.                                     *)

Signal(c) == cl' = IF cl[c].at = "cond" THEN To(c, "woken") ELSE cl

\* mm_jpeg_fbd looks at abort_flag without the lock.
FbdAborted(c) ==
  /\ omx[c].work # NoJob /\ omx[c].cb = "none" /\ ses[c].abort_flag
  /\ omx' = [omx EXCEPT ![c].work = NoJob]
  /\ Signal(c)
  /\ UNCHANGED <<ses, job_lock, job_queue, ongoing, job_sem, mgr, outcome>>

FbdUnaborted(c) ==
  /\ omx[c].work # NoJob /\ omx[c].cb = "none" /\ ~ses[c].abort_flag
  /\ omx' = [omx EXCEPT ![c].cb = "fbd"]
  /\ UNCHANGED <<cl, ses, job_lock, job_queue, ongoing, job_sem, mgr, outcome>>

FbdDone(c) ==
  /\ omx[c].cb = "fbd"
  /\ Answer(ses[c].jobId) /\ JobDone(c)
  /\ ses' = [ses EXCEPT ![c].encoding = FALSE]
  /\ omx' = [omx EXCEPT ![c].cb = "none", ![c].work = NoJob]
  /\ UNCHANGED <<cl, job_lock, job_queue, mgr>>

\* mm_jpeg_event_handler of an error: once aborted, only a signal.
EventError(c) ==
  /\ "omx" \in Failures /\ omx[c].work # NoJob /\ omx[c].cb = "none"
  /\ omx' = [omx EXCEPT ![c].work = NoJob]
  /\ Signal(c)
  /\ IF ses[c].encoding /\ ~ses[c].abort_flag
     THEN /\ Answer(ses[c].jobId) /\ JobDone(c)
          /\ ses' = [ses EXCEPT ![c].encoding = FALSE]
     ELSE UNCHANGED <<ses, outcome, ongoing, job_sem>>
  /\ UNCHANGED <<job_lock, job_queue, mgr>>

\* The component is idle.
EventIdle(c) ==
  /\ omx[c].idling /\ omx[c].work = NoJob
  /\ omx' = [omx EXCEPT ![c].idling = FALSE]
  /\ Signal(c)
  /\ UNCHANGED <<ses, job_lock, job_queue, ongoing, job_sem, mgr, outcome>>

-----------------------------------------------------------------------------
Returns(c) == AbortJob(c) \/ DestroySession(c) \/ AbortReturns(c) \/ DestroyReturns(c) \/ Joined(c)
Omx(c) == FbdAborted(c) \/ FbdUnaborted(c) \/ FbdDone(c) \/ EventError(c) \/ EventIdle(c)
Mgr == Wait \/ TakeNothing \/ TakeExit \/ TakeJob \/ Encode \/ EncodeFails

\* All bounds are used up and everything is closed.
Terminated ==
  /\ \A c \in Clients : cl[c].at = "closed" /\ cl[c].opens = 0
  /\ UNCHANGED vars

Next ==
  \/ \E c \in Clients : \/ Open(c) \/ CreateSession(c) \/ CallDestroy(c) \/ Close(c)
                        \/ Returns(c) \/ Omx(c)
  \/ \E j \in Jobs : StartJob(j) \/ CallAbort(j)
  \/ Mgr
  \/ Terminated

Spec == /\ Init /\ [][Next]_vars /\ WF_vars(Mgr)
        /\ \A c \in Clients :
             /\ WF_vars(Returns(c)) /\ WF_vars(Omx(c))
             /\ WF_vars(CallDestroy(c) /\ cl[c].stopping)

-----------------------------------------------------------------------------
(* Properties.                                                             *)

\* A client is answered once for each job, and not any more when its abort, or the
\* destroy of the session, has returned.
AnsweredOnce == \A j \in Jobs : outcome[j] # "wrong"

\* No wake-up of the thread is lost: each job is answered, or dropped by its client,
\* also when other clients abort their jobs.
EveryJobEnds == \A j \in Jobs : (outcome[j] = "asked") ~> (outcome[j] # "asked")

=============================================================================
