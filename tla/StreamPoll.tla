----------------------------- MODULE StreamPoll -----------------------------
(***************************************************************************)
(* Buffers of the streams of a channel, and the thread that polls them     *)
(* (mm_camera_stream.c, mm_camera_thread.c, start and stop of              *)
(* mm_camera_channel.c).                                                   *)
(*                                                                         *)
(* A stream's buffers are in the driver or in user space, where they are   *)
(* reference counted under buf_lock: one reference for the super-buffer    *)
(* side of the channel ("bundle"), one for the stream's own command thread *)
(* while it calls back, one for the HAL ("app") per callback.  The last    *)
(* buf_done queues the buffer in the driver again.  The channel has one    *)
(* poll thread for all its streams; a stream is polled only while          *)
(* queued_buffer_count > 0.  Other threads change what is polled by        *)
(* writing poll_entries and then a command to the thread's pipe.           *)
(*                                                                         *)
(* One thread at a time starts or stops the channel (ch_lock).  Steps      *)
(* taken under buf_lock are one action; what happens outside is not.       *)
(***************************************************************************)
EXTENDS Integers, Sequences, FiniteSets

CONSTANTS
  Streams,           \* streams of the channel
  Bufs,              \* buffer indices of a stream
  Initial,           \* Initial[s]: buffers with initial_reg_flag
  Bundled,           \* streams of the bundle: all, or none (no notify callback)
  HasCb,             \* streams with a data callback of their own
  Failures,          \* which calls may fail
  Orderly,           \* only schedules in which nothing strays (see Join, PutBuf)?
  MaxPending         \* bound: commands on the pipe when the channel is started

None == "none"
FailureKinds == {"get_bufs", "streamon", "qbuf", "cache", "malloc"}

ASSUME StreamAssumption ==
  /\ Streams # {} /\ IsFiniteSet(Streams) /\ IsFiniteSet(Bufs)
  /\ None \notin Streams \cup Bufs
  /\ Initial \in [Streams -> SUBSET Bufs]
  /\ Bundled \in {{}, Streams} /\ HasCb \subseteq Streams
  /\ Failures \subseteq FailureKinds
  /\ Orderly \in BOOLEAN /\ MaxPending \in Nat

VARIABLES
  str,       \* the mm_stream_t: FSM state, buf_refcnt, queued_buffer_count,
             \* and its cmd_thread: alive, queue, buffer being dispatched;
             \* late: a return that began before PUT_BUF has not ended
  drv,       \* the driver's queues of each stream
  pt,        \* poll thread: poll_entries, pipe, poll_fds, where it is
  ctl,       \* the thread that holds ch_lock to start or stop the channel
  bundle,    \* bundle.is_active with cmd_thread running; super_buf_notify_cb set
  hold,      \* references <<s, b, who>> of the bundle side and of the HAL
  returning, \* of these, the ones whose return has passed the state check
  crashed    \* a thread used memory that was released: not followed further

vars == <<str, drv, pt, ctl, bundle, hold, returning, crashed>>

Ok(call) == IF call \in Failures THEN BOOLEAN ELSE {TRUE}

NoRefs   == [b \in Bufs |-> 0]
Drained  == [queued |-> {}, done |-> <<>>, on |-> FALSE]
InState(st) == {s \in Streams : str[s].state = st}

Init ==
  /\ str = [s \in Streams |->
              [state |-> "CFG", refcnt |-> NoRefs, count |-> 0,
               alive |-> FALSE, cmdq |-> <<>>, disp |-> None, late |-> FALSE]]
  /\ drv = [s \in Streams |-> Drained]
  /\ pt = [entries |-> {}, pipe |-> <<>>, fds |-> {},
           pc |-> "poll", ready |-> {}, s |-> None, b |-> None]
  /\ ctl = [phase |-> "stopped", step |-> "none", s |-> None, waiting |-> FALSE]
  /\ bundle = [alive |-> FALSE, notify |-> Bundled # {}]
  /\ hold = {} /\ returning = {} /\ crashed = FALSE

-----------------------------------------------------------------------------
(* Poll entries. *)

\* The entry is written first, then the command; a synchronous caller waits
\* for the poll thread to have rebuilt poll_fds.
AddPollFdSilent(p, s) == [p EXCEPT !.entries = @ \cup {s}]   \* mutant
AddPollFd(p, s) ==
  [p EXCEPT !.entries = @ \cup {s}, !.pipe = Append(@, "ENTRIES_UPDATED_ASYNC")]

\* Refused, with nothing sent, if the entry is not the stream's any more.
DelPollFd(p, s, cmd) ==
  IF s \in p.entries
  THEN [p EXCEPT !.entries = @ \ {s}, !.pipe = Append(@, cmd)]
  ELSE p

\* streamoff: if the entry is gone already, an asynchronous update may still be
\* in the pipe, and the caller waits for a commit instead.
DelForStop(p, s) ==
  IF s \in p.entries THEN DelPollFd(p, s, "ENTRIES_UPDATED")
                     ELSE [p EXCEPT !.pipe = Append(@, "COMMIT")]

-----------------------------------------------------------------------------
(* Reference counts: mm_stream_buf_done and mm_stream_qbuf, under buf_lock. *)

\* x is the stream with its references already taken back.
QbufNoPoll(s, b, x) ==   \* mutant: the first buffer does not restart polling
  /\ str' = [str EXCEPT ![s] = [x EXCEPT !.count = @ + 1]]
  /\ drv' = [drv EXCEPT ![s].queued = @ \cup {b}]
  /\ UNCHANGED pt
QbufAlwaysPoll(s, b, x) ==   \* mutant: every buffer sends an update
  /\ str' = [str EXCEPT ![s] = [x EXCEPT !.count = @ + 1]]
  /\ drv' = [drv EXCEPT ![s].queued = @ \cup {b}]
  /\ pt' = AddPollFd(pt, s)
Qbuf(s, b, x) ==
  \E valid \in Ok("cache"), accepted \in Ok("qbuf") :
    IF valid
    THEN /\ str' = [str EXCEPT ![s] = [x EXCEPT !.count = @ + 1]]
         /\ pt' = IF x.count = 0 THEN AddPollFd(pt, s) ELSE pt
         /\ drv' = IF accepted THEN [drv EXCEPT ![s].queued = @ \cup {b}] ELSE drv
    ELSE /\ str' = [str EXCEPT ![s] = x]
         /\ UNCHANGED <<drv, pt>>

BufDoneEager(s, b, x) ==   \* mutant: any return queues the buffer
  IF x.refcnt[b] > 0
  THEN Qbuf(s, b, [x EXCEPT !.refcnt[b] = @ - 1])
  ELSE str' = [str EXCEPT ![s] = x] /\ UNCHANGED <<drv, pt>>
BufDoneUnchecked(s, b, x) ==   \* mutant: a second return counts below zero
  LET y == [x EXCEPT !.refcnt[b] = @ - 1]
  IN  IF x.refcnt[b] = 1
      THEN Qbuf(s, b, y)
      ELSE str' = [str EXCEPT ![s] = y] /\ UNCHANGED <<drv, pt>>
BufDone(s, b, x) ==
  LET y == [x EXCEPT !.refcnt[b] = IF @ = 0 THEN 0 ELSE @ - 1]
  IN  IF x.refcnt[b] = 1
      THEN Qbuf(s, b, y)
      ELSE str' = [str EXCEPT ![s] = y] /\ UNCHANGED <<drv, pt>>

\* The HAL or the bundle's threads return a buffer (mm_camera_qbuf): the state
\* is looked at without a lock; outside ACTIVE the return is refused.
Return(h) ==
  /\ h \in hold
  /\ hold' = hold \ {h}
  /\ returning' = IF str[h[1]].state = "ACTIVE" THEN returning \cup {h} ELSE returning
  /\ UNCHANGED <<str, drv, pt, ctl, bundle, crashed>>

ReturnDone(h) ==
  /\ h \in returning
  /\ returning' = returning \ {h}
  /\ BufDone(h[1], h[2], str[h[1]])
  /\ UNCHANGED <<ctl, bundle, hold, crashed>>

\* A return that goes on after PUT_BUF has freed buf_status is a stray access,
\* of no buffers or, after another start, of buffers it knows nothing about.
StaleReturn(s) ==
  /\ str[s].late
  /\ crashed' = TRUE
  /\ UNCHANGED <<str, drv, pt, ctl, bundle, hold, returning>>

-----------------------------------------------------------------------------
(* The driver fills queued buffers while it streams; they leave in the order *)
(* they were filled in.                                                      *)

Fill(s) ==
  /\ drv[s].on
  /\ \E b \in drv[s].queued :
       drv' = [drv EXCEPT ![s].queued = @ \ {b}, ![s].done = Append(@, b)]
  /\ UNCHANGED <<str, pt, ctl, bundle, hold, returning, crashed>>

-----------------------------------------------------------------------------
(* The poll thread. *)

\* A command on the pipe is handled alone; poll_fds is rebuilt from the entries
\* as they are now.
PollPipeNoAnswer ==   \* mutant: a commit is not answered
  /\ pt.pc = "poll" /\ pt.pipe # <<>>
  /\ LET cmd == Head(pt.pipe)
     IN  /\ pt' = [pt EXCEPT !.pipe = Tail(@),
                             !.fds = IF cmd = "COMMIT" THEN @ ELSE pt.entries]
         /\ ctl' = [ctl EXCEPT !.waiting = @ /\ cmd # "ENTRIES_UPDATED"]
  /\ UNCHANGED <<str, drv, bundle, hold, returning, crashed>>
PollPipe ==
  /\ pt.pc = "poll" /\ pt.pipe # <<>>
  /\ LET cmd == Head(pt.pipe)
     IN  /\ pt' = [pt EXCEPT !.pipe = Tail(@),
                             !.fds = IF cmd = "COMMIT" THEN @ ELSE pt.entries]
         /\ ctl' = [ctl EXCEPT !.waiting = @ /\ cmd = "ENTRIES_UPDATED_ASYNC"]
  /\ UNCHANGED <<str, drv, bundle, hold, returning, crashed>>

\* poll() reports the streams that have a frame; the loop then visits them.
PollData ==
  /\ pt.pc = "poll" /\ pt.pipe = <<>>
  /\ LET ready == {s \in pt.fds : drv[s].done # <<>>}
     IN  ready # {} /\ pt' = [pt EXCEPT !.pc = "notify", !.ready = ready]
  /\ UNCHANGED <<str, drv, ctl, bundle, hold, returning, crashed>>

PollAgain ==
  /\ pt.pc = "notify" /\ pt.ready = {}
  /\ pt' = [pt EXCEPT !.pc = "poll"]
  /\ UNCHANGED <<str, drv, ctl, bundle, hold, returning, crashed>>

\* One visit: no call if the entry was cleared meanwhile; mm_stream_data_notify
\* returns at once in a wrong state, or if the driver has no frame after all.
\* The state check and DQBUF are one step: what a stop does between them
\* (STREAMOFF, after which DQBUF finds nothing, and the state) it may as well do
\* before the visit; and what it does after DQBUF comes before CountDown or File.
Notify(s) ==
  /\ pt.pc = "notify" /\ s \in pt.ready
  /\ IF s \in pt.entries /\ str[s].state = "ACTIVE" /\ drv[s].done # <<>>
     THEN /\ drv' = [drv EXCEPT ![s].done = Tail(@)]
          /\ pt' = [pt EXCEPT !.ready = @ \ {s}, !.pc = "dequeued",
                              !.s = s, !.b = Head(drv[s].done)]
     ELSE pt' = [pt EXCEPT !.ready = @ \ {s}] /\ UNCHANGED drv
  /\ UNCHANGED <<str, ctl, bundle, hold, returning, crashed>>

\* mm_stream_read_msm_frame after DQBUF: the last buffer to leave the driver
\* takes the stream off the poll thread, which sends the command to itself.
CountDownToOne ==   \* mutant: the last buffer takes the stream off and stays counted
  /\ pt.pc = "dequeued"
  /\ LET s == pt.s
         last == str[s].count = 1
         p == IF last THEN DelPollFd(pt, s, "ENTRIES_UPDATED_ASYNC") ELSE pt
     IN  /\ str' = IF last THEN str ELSE [str EXCEPT ![s].count = @ - 1]
         /\ pt' = [p EXCEPT !.pc = "file"]
  /\ UNCHANGED <<drv, ctl, bundle, hold, returning, crashed>>
CountDown ==
  /\ pt.pc = "dequeued"
  /\ LET s == pt.s
         p == IF str[s].count = 1 THEN DelPollFd(pt, s, "ENTRIES_UPDATED_ASYNC") ELSE pt
     IN  /\ str' = [str EXCEPT ![s].count = @ - 1]
         /\ pt' = [p EXCEPT !.pc = "file"]
  /\ UNCHANGED <<drv, ctl, bundle, hold, returning, crashed>>

\* The frame goes to the bundle's command thread and to the stream's own, with
\* a reference for each; a message that cannot be allocated keeps its reference.
\* A frame whose cache cannot be cleaned is dropped.  Released buffers, and a
\* command queue that was destroyed, cannot be used.
File ==
  /\ pt.pc = "file"
  /\ pt' = [pt EXCEPT !.pc = "notify", !.s = None, !.b = None]
  /\ LET s == pt.s
         b == pt.b
         shared == s \in Bundled
         own    == s \in HasCb
         n == (IF shared THEN 1 ELSE 0) + (IF own THEN 1 ELSE 0)
     IN  \/ str[s].state = "CFG" /\ crashed' = TRUE /\ UNCHANGED <<str, hold>>
         \/ str[s].state # "CFG" /\ FALSE \in Ok("cache") /\ UNCHANGED <<str, hold, crashed>>
         \/ \E toBundle, toOwn \in Ok("malloc") :
              /\ str[s].state # "CFG"
              /\ str' = [str EXCEPT
                           ![s].refcnt[b] = @ + n,
                           ![s].cmdq = IF own /\ toOwn THEN Append(@, b) ELSE @]
              /\ hold' = IF shared /\ toBundle THEN hold \cup {<<s, b, "bundle">>} ELSE hold
              /\ crashed' = \/ shared /\ toBundle /\ ~bundle.alive
                            \/ own /\ toOwn /\ ~str[s].alive
  /\ UNCHANGED <<drv, ctl, bundle, returning>>

-----------------------------------------------------------------------------
(* The stream's command thread: mm_stream_dispatch_app_data. *)

\* The callback gets a reference of its own ...
DispatchNoRef(s) ==   \* mutant: the callback shares the thread's reference
  /\ str[s].disp = None /\ str[s].cmdq # <<>>
  /\ str' = [str EXCEPT ![s].cmdq = Tail(@), ![s].disp = Head(str[s].cmdq)]
  /\ hold' = hold \cup {<<s, Head(str[s].cmdq), "app">>}
  /\ UNCHANGED <<drv, pt, ctl, bundle, returning, crashed>>
Dispatch(s) ==
  /\ str[s].disp = None /\ str[s].cmdq # <<>>
  /\ LET b == Head(str[s].cmdq)
     IN  /\ str' = [str EXCEPT ![s].cmdq = Tail(@), ![s].disp = b, ![s].refcnt[b] = @ + 1]
         /\ hold' = hold \cup {<<s, b, "app">>}
  /\ UNCHANGED <<drv, pt, ctl, bundle, returning, crashed>>

\* ... and the thread then drops the one data_notify took for it.
DispatchedKept(s) ==   \* mutant: the thread's reference is never dropped
  /\ str[s].disp # None
  /\ str' = [str EXCEPT ![s].disp = None]
  /\ UNCHANGED <<drv, pt, ctl, bundle, hold, returning, crashed>>
Dispatched(s) ==
  /\ str[s].disp # None
  /\ BufDone(s, str[s].disp, [str[s] EXCEPT !.disp = None])
  /\ UNCHANGED <<ctl, bundle, hold, returning, crashed>>

-----------------------------------------------------------------------------
(* Starting the channel: mm_channel_start. *)

Idle == ctl.step = "none"
At(phase, step) == ctl.phase = phase /\ ctl.step = step
Goto(phase, step, s) == ctl' = [ctl EXCEPT !.phase = phase, !.step = step, !.s = s]

\* The bundle's threads are launched before any stream starts.  A channel whose
\* bundle was torn down by a stop is not started again: the HAL deletes it.
\* It is started again only when the poll thread is back in poll().
StartChannel ==
  /\ At("stopped", "none")
  /\ Bundled = {} \/ bundle.notify
  /\ Len(pt.pipe) <= MaxPending /\ pt.pc = "poll"
  /\ bundle' = [bundle EXCEPT !.alive = @ \/ bundle.notify]
  /\ Goto("starting", "none", None)
  /\ UNCHANGED <<str, drv, pt, hold, returning, crashed>>

GetBuf(s) ==
  /\ At("starting", "none") /\ str[s].state = "CFG"
  /\ \E ok \in Ok("get_bufs") :
       IF ok THEN /\ str' = [str EXCEPT ![s].state = "BUFFED", ![s].refcnt = NoRefs]
                  /\ Goto("starting", "reg", s)
             ELSE /\ Goto("aborting", "none", None)
                  /\ UNCHANGED str
  /\ UNCHANGED <<drv, pt, bundle, hold, returning, crashed>>

\* Every buffer with initial_reg_flag is queued, the others are with the upper
\* layer.  The first one queued starts polling; the loop stops at the first
\* QBUF that fails, after counting it, or at a cache that cannot be invalidated.
RegBuf ==
  /\ At("starting", "reg")
  /\ LET s == ctl.s
         CountTo(n) == /\ str' = [str EXCEPT ![s].count = n]
                       /\ pt' = IF n > 0 THEN AddPollFd(pt, s) ELSE pt
     IN  \/ /\ drv' = [drv EXCEPT ![s].queued = Initial[s]]
            /\ str' = [str EXCEPT
                         ![s].state = "REG", ![s].count = Cardinality(Initial[s]),
                         ![s].refcnt = [b \in Bufs |-> IF b \in Initial[s] THEN 0 ELSE 1]]
            /\ pt' = IF Initial[s] # {} THEN AddPollFd(pt, s) ELSE pt
            /\ hold' = hold \cup {<<s, b, "app">> : b \in Bufs \ Initial[s]}
            /\ Goto("starting", "start", s)
         \/ \E Q \in SUBSET Initial[s] :
            /\ Q # Initial[s]
            /\ \/ "qbuf"  \in Failures /\ CountTo(Cardinality(Q) + 1)
               \/ "cache" \in Failures /\ CountTo(Cardinality(Q))
            /\ drv' = [drv EXCEPT ![s].queued = Q]
            /\ Goto("aborting", "none", None)
            /\ UNCHANGED hold
  /\ UNCHANGED <<bundle, returning, crashed>>

\* ACTIVE is set, and the command thread launched, before STREAMON; if STREAMON
\* fails the stream is taken off the poll thread and the thread released.
Start ==
  /\ At("starting", "start")
  /\ LET s == ctl.s
     IN  /\ str' = [str EXCEPT ![s].state = "ACTIVE", ![s].alive = s \in HasCb]
         /\ \E ok \in Ok("streamon") :
              IF ok THEN /\ drv' = [drv EXCEPT ![s].on = TRUE]
                         /\ Goto("starting", "none", None)
                         /\ UNCHANGED pt
                    ELSE /\ pt' = DelPollFd(pt, s, "ENTRIES_UPDATED")
                         /\ ctl' = [phase |-> "starting", step |-> "undo", s |-> s,
                                    waiting |-> s \in pt.entries]
                         /\ UNCHANGED drv
  /\ UNCHANGED <<bundle, hold, returning, crashed>>

Started ==
  /\ At("starting", "none") /\ InState("ACTIVE") = Streams
  /\ Goto("active", "none", None)
  /\ UNCHANGED <<str, drv, pt, bundle, hold, returning, crashed>>

-----------------------------------------------------------------------------
(* Stopping: mm_channel_stop, and the error path of mm_channel_start. *)

StopChannel ==
  /\ At("active", "none")
  /\ Goto("stopping", "none", None)
  /\ UNCHANGED <<str, drv, pt, bundle, hold, returning, crashed>>

\* STREAM STOP, step 1: off the poll thread.
StreamOff(s) ==
  /\ ctl.phase \in {"stopping", "aborting"} /\ Idle /\ str[s].state = "ACTIVE"
  /\ pt' = DelForStop(pt, s)
  /\ ctl' = [ctl EXCEPT !.step = "off", !.s = s, !.waiting = pt'.pipe # pt.pipe]
  /\ UNCHANGED <<str, drv, bundle, hold, returning, crashed>>

\* Step 2, once the poll thread has answered: VIDIOC_STREAMOFF drops the queues.
StreamedOff ==
  /\ ctl.step = "off" /\ ~ctl.waiting
  /\ drv' = [drv EXCEPT ![ctl.s] = Drained]
  /\ Goto(ctl.phase, "join", ctl.s)
  /\ UNCHANGED <<str, pt, bundle, hold, returning, crashed>>

\* The command thread empties its queue and is joined, then the state changes.
\* Nothing makes this wait for a frame the poll thread took after it was put back
\* on the list by a return or by the command thread itself: Orderly does.
CmdThreadDrained(s) == str[s].cmdq = <<>> /\ str[s].disp = None
Join ==
  /\ \/ ctl.step = "join" /\ Goto(ctl.phase, "unreg", ctl.s)
     \/ ctl.step = "undo" /\ ~ctl.waiting /\ Goto("aborting", "none", None)
  /\ CmdThreadDrained(ctl.s)
  /\ Orderly => pt.s # ctl.s
  /\ str' = [str EXCEPT ![ctl.s].alive = FALSE, ![ctl.s].state = "REG"]
  /\ UNCHANGED <<drv, pt, bundle, hold, returning, crashed>>

Unreg(s) ==
  /\ str[s].state = "REG"
  /\ \/ ctl.step = "unreg" /\ s = ctl.s
     \/ ctl.phase = "aborting" /\ Idle
  /\ drv' = [drv EXCEPT ![s] = Drained]
  /\ str' = [str EXCEPT ![s].state = "BUFFED", ![s].refcnt = NoRefs]
  /\ Goto(ctl.phase, "none", None)
  /\ UNCHANGED <<pt, bundle, hold, returning, crashed>>

\* All streams are off: the bundle's threads are joined and the bundle cleared.
ReleaseBundle ==
  /\ At("stopping", "none") /\ InState("BUFFED") = Streams
  /\ bundle' = [alive |-> FALSE, notify |-> FALSE]
  /\ Goto("putting", "none", None)
  /\ UNCHANGED <<str, drv, pt, hold, returning, crashed>>

\* The HAL takes its memory back: what it still holds means nothing any more.
\* Returns under way are not waited for; Orderly keeps to what the comment in
\* mm_camera_qbuf assumes, that they are done before the stream is stopped.
PutBuf(s) ==
  /\ ctl.phase \in {"putting", "aborting"} /\ Idle /\ str[s].state = "BUFFED"
  /\ LET underWay == \E h \in returning : h[1] = s
     IN  /\ Orderly => ~underWay
         /\ str' = [str EXCEPT ![s].state = "CFG", ![s].late = @ \/ underWay]
  /\ drv' = [drv EXCEPT ![s] = Drained]
  /\ hold' = {h \in hold : h[1] # s}
  /\ returning' = {h \in returning : h[1] # s}
  /\ UNCHANGED <<pt, ctl, bundle, crashed>>

Stopped ==
  /\ ctl.phase \in {"putting", "aborting"} /\ Idle /\ InState("CFG") = Streams
  /\ Goto("stopped", "none", None)
  /\ UNCHANGED <<str, drv, pt, bundle, hold, returning, crashed>>

-----------------------------------------------------------------------------
PollThread == \/ PollPipe \/ PollData \/ PollAgain \/ CountDown \/ File
              \/ \E s \in Streams : Notify(s)
Launch     == \/ \E s \in Streams : GetBuf(s)
              \/ RegBuf \/ Start \/ Started
Teardown   == \/ \E s \in Streams : StreamOff(s) \/ Unreg(s) \/ PutBuf(s)
              \/ StreamedOff \/ Join \/ ReleaseBundle \/ Stopped
CmdThread(s) == Dispatch(s) \/ Dispatched(s)

Next ==
  /\ ~crashed
  /\ \/ StartChannel \/ Launch \/ StopChannel \/ Teardown
     \/ PollThread
     \/ \E s \in Streams : CmdThread(s) \/ Fill(s) \/ StaleReturn(s)
     \/ \E h \in hold : Return(h)
     \/ \E h \in returning : ReturnDone(h)

Spec == Init /\ [][Next]_vars

\* The poll thread, the streams' command threads and whoever starts or stops
\* the channel keep running, and a return that has begun ends.
Fairness ==
  /\ WF_vars(~crashed /\ PollThread)
  /\ WF_vars(~crashed /\ (Launch \/ Teardown))
  /\ \A s \in Streams : WF_vars(~crashed /\ CmdThread(s))
  /\ \A s \in Streams, b \in Bufs :
       WF_vars(~crashed /\ (ReturnDone(<<s, b, "app">>) \/ ReturnDone(<<s, b, "bundle">>)))

FairSpec == Spec /\ Fairness

-----------------------------------------------------------------------------
(* Properties. *)

Ref == Streams \X Bufs \X {"bundle", "app"}
StreamRec == [state : {"CFG", "BUFFED", "REG", "ACTIVE"}, refcnt : [Bufs -> Nat],
              count : Nat, alive : BOOLEAN, cmdq : Seq(Bufs), disp : Bufs \cup {None},
              late : BOOLEAN]
Cmds == {"ENTRIES_UPDATED", "ENTRIES_UPDATED_ASYNC", "COMMIT"}
PollRec == [entries : SUBSET Streams, pipe : Seq(Cmds), fds : SUBSET Streams,
            pc : {"poll", "notify", "dequeued", "file"}, ready : SUBSET Streams,
            s : Streams \cup {None}, b : Bufs \cup {None}]

\* The types of the variables.
TypeOK ==
  /\ str \in [Streams -> StreamRec]
  /\ drv \in [Streams -> [queued : SUBSET Bufs, done : Seq(Bufs), on : BOOLEAN]]
  /\ pt \in PollRec
  /\ ctl \in [phase : {"stopped", "starting", "aborting", "active", "stopping", "putting"},
              step : {"none", "reg", "start", "undo", "off", "join", "unreg"},
              s : Streams \cup {None}, waiting : BOOLEAN]
  /\ bundle \in [alive : BOOLEAN, notify : BOOLEAN]
  /\ hold \subseteq Ref /\ returning \subseteq Ref /\ crashed \in BOOLEAN

Filled(s)   == {drv[s].done[i] : i \in DOMAIN drv[s].done}
InDriver(s) == drv[s].queued \cup Filled(s)

\* How many references to buffer b of s are about: at the bundle side, at the
\* HAL, on their way back, and in the stream's command thread.
Holders(s, b) ==
  Cardinality({h \in hold : h[1] = s /\ h[2] = b})
    + Cardinality({h \in returning : h[1] = s /\ h[2] = b})
    + Cardinality({i \in DOMAIN str[s].cmdq : str[s].cmdq[i] = b})
    + (IF str[s].disp = b THEN 1 ELSE 0)

PollHas(s, b) == pt.s = s /\ pt.b = b

\* The driver never fills a buffer that somebody may still read: what is queued
\* or filled has no reference, nobody holds it and the poll thread is not
\* handling it, however returns, callbacks, and stop and start interleave.
DriverExclusive ==
  \A s \in InState("ACTIVE") : \A b \in InDriver(s) :
    /\ str[s].refcnt[b] = 0 /\ Holders(s, b) = 0 /\ ~PollHas(s, b)
    /\ ~(b \in drv[s].queued /\ b \in Filled(s))

\* A buffer somebody holds is referenced at least that often, so the last
\* return, and only the last, can queue it.
RefsCoverHolders ==
  \A s \in InState("ACTIVE"), b \in Bufs : Holders(s, b) <= str[s].refcnt[b]

\* Where no call fails no buffer is stranded: while the stream runs, each is in
\* the driver, in the poll thread's hands, or referenced by somebody who holds it.
NoBufferStranded ==
  \A s \in InState("ACTIVE"), b \in Bufs :
    /\ str[s].refcnt[b] = Holders(s, b)
    /\ drv[s].on => b \in InDriver(s) \/ PollHas(s, b) \/ Holders(s, b) > 0

\* queued_buffer_count is the number of buffers in the driver, plus the one
\* the poll thread has dequeued but not yet counted: DQBUF is outside buf_lock.
CountExact ==
  \A s \in Streams :
    drv[s].on => str[s].count = Cardinality(InDriver(s))
                   + (IF pt.pc = "dequeued" /\ pt.s = s THEN 1 ELSE 0)

\* Unless it is being stopped, a running stream is on the poll thread's list
\* exactly while it has buffers in the driver; and when the pipe is empty the
\* poll thread polls what the list says.
PollFollowsCount ==
  /\ \A s \in Streams : drv[s].on /\ ctl.s # s => (s \in pt.entries <=> str[s].count > 0)
  /\ pt.pipe = <<>> => pt.fds = pt.entries

\* The poll thread writes to the pipe only it reads, and returners write to it
\* under buf_lock: they never fill it, for there are few updates to send before
\* the poll thread reads again: one to take each stream off the list and one to
\* put it back, or one each after what was left when the channel was started;
\* and the one that a stop waits for.
PipeShort ==
  LET n == Cardinality(Streams)
  IN  \/ Len(pt.pipe) <= 2 * n + 1
      \/ Len(pt.pipe) <= n + MaxPending + 1

\* No thread uses a stream's buffers, or a command thread's queue, after a stop
\* or a failed start has released them.  The code does not keep it: neither a
\* return nor a frame the poll thread took is waited for.
NoStrayAccess == ~crashed

\* Every filled buffer is taken out of the driver, or the stream is stopped:
\* no update of the poll list is lost.
FrameTaken ==
  \A s \in Streams, b \in Bufs : b \in Filled(s) ~> b \notin Filled(s)

\* Stopping the channel, or giving up a start that failed, ends: the poll thread
\* answers, the command threads empty their queues.
StopEnds == ctl.phase \in {"stopping", "aborting"} ~> ctl.phase = "stopped"

=============================================================================
