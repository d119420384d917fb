# The Hammerhead camera stack in TLA+

The repository is an Android Lollipop device tree: mostly board configuration, with the device HALs of
many vendors beside it.  The one large concurrent program in it that is written here and not fetched from
elsewhere is Qualcomm's camera stack, which is present in several copies (flo, hammerhead, mako, shamu).
This project models the most recent of them, `src/lge/hammerhead/camera/QCamera2`: threads, pipes, hand-made
semaphores, reference counts and queues, with no test in the tree.  File names below are relative to that
directory; `channel.c`, `stream.c`, `thread.c` and `camera.c` stand for
`stack/mm-camera-interface/src/mm_camera_channel.c`, `mm_camera_stream.c`, `mm_camera_thread.c` and `mm_camera.c`,
`HWI` for `HAL/QCamera2HWI.cpp`, `SM` for `HAL/QCameraStateMachine.cpp` and `mm_jpeg.c` for the file in
`stack/mm-jpeg-interface/src`.

Contents: [the system](#the-system), [modules](#modules), [runs](#runs), [proofs](#proofs),
[what the code does against its comments](#what-the-code-does-against-its-comments),
[what else was met](#what-else-was-met), [what is not modelled](#what-is-not-modelled), [plan](#plan).

## The system

A client (the camera HAL, `HAL/`) opens a camera, adds a channel to it and streams to the channel, and
starts the channel.  The HAL itself is a state machine that one thread runs; it takes the framework's calls and the
events of the threads below.  Pictures go through a post-processor and the JPEG job manager.  The layer below (`stack/mm-camera-interface`) takes filled buffers out of V4L2
drivers, gathers the buffers of all streams that belong to one sensor frame into a *super buffer*, and calls
the client back.  The client returns each buffer when it has done with it.

    driver --frame--> poll thread --cmd--> cmd_thread --super buffer--> cb_thread --callback--> HAL
       ^                  |                (matching queue)                                     |
       |                  +--cmd--> the stream's cmd_thread --callback--------------------------+
       +---------------------------- buf_done / qbuf <-------------------------------------------+

    framework --request--> state machine thread --channels, post-processor--> HAL and stack below
                               ^   ^
                 event (JPEG)  |   | event (SNAPSHOT_DONE), answered in processSyncEvt
                               |   |
    super buffer --> data thread --job--> JPEG job manager --> OMX component
                               |                                   |  callback
    framework <--image-- notifier <--- state machine thread <------+

| component | state | operations | what makes it correct |
|---|---|---|---|
| super-buffer queue (`channel.c`) | linked list of nodes, `match_cnt`, `expected_frame_id`, `pending_cnt`, notify mode | file a frame, read metadata, request, cancel, flush, configure, trim, dispatch, return a buffer | matched nodes are in front and counted; every buffer is in one place; bounded; deliveries are whole, in order, spaced; never without buffers |
| stream buffers (`stream.c`) | FSM state, `buf_refcnt`, `in_kernel`, `queued_buffer_count` under `buf_lock`; callbacks under `cb_lock` | get, register, queue, dequeue, deliver, return, put buffers; stream on and off | the driver has a buffer or somebody holds it, never both and never neither; the count is exact |
| data poll thread (`thread.c`) | `poll_entries`, `poll_fds`, a pipe, `status` | launch, release, add, delete and update entries, poll, notify | what is polled is what has buffers in the driver; a synchronous caller is answered |
| channel start and stop (`channel.c`) | channel state, bundle, `ch_lock` | start with its error path, stop | stops end; nothing released is used |
| command threads (`thread.c`, `stack/common/cam_queue.h`, `cam_semaphore.h`) | list, semaphore, `running` | launch, enqueue, post, handle, EXIT, join, destroy | no message is lost or reordered, no sleep over a message, nothing is left at the end |
| camera object and interface (`camera.c`, `mm_camera_interface.c`) | handle table, reference counts, `g_intf_lock`, `cam_lock`, event threads | open, close, event registration, map and unmap with the server's answer | one owner per handle; the wait for the server ends |
| HAL state machine (`HAL/QCameraStateMachine.cpp`) | preview, recording and picture states; API lock and result | API calls and events, one at a time | every caller gets its own result; no call in a state that cannot take it |
| HAL streams, channels, memory | stream threads, held buffers, display buffers | start, stop, `bufDone` from any thread | returns each buffer once, while the channel exists |
| HAL queue, command thread, post-processor (`util/`, `HAL/QCameraPostProc.cpp`) | queues of jobs | reprocess, encode, save, abort | each super buffer is processed or returned |
| JPEG job manager (`stack/mm-jpeg-interface`) | clients, sessions, job and ongoing queues | start, abort and finish jobs | each job is answered once; abort ends |
| OMX core (`mm-image-codec/qomx_core`) | library handles, component references | get and free handles | a library is unloaded after its last component and not used after that |
| HAL version 3, parameters, EXIF, thermal adapter, socket | | | see *What is not modelled* |
| the board `bcm/ar6mx` and the other devices | | | configuration; other HALs |

**How they interact.**  The poll thread of a channel serves all its streams.  It writes commands to the
queues of the channel's `cmd_thread` and of the streams' own command threads and wakes them with a
semaphore.  `cmd_thread` writes to `cb_thread`.  Returns come from any client thread and lock only the
stream's `buf_lock`; a return that puts the first buffer into the driver writes `poll_entries` and a command
to the poll thread's pipe.  API calls hold `ch_lock` of their channel.

**What is hard.**  Frames of several streams arrive in any relative order, with gaps.  `DQBUF` is outside
the lock its count is under.  A stream's state is looked at without a lock.  The poll thread writes to the
pipe that only it reads.  A stop removes the fd, turns the stream off, joins its thread and frees buffers as
separate steps with returns in between.  Most errors (allocation, cache, ioctl) are ignored by callers.  The
list of hazards, each at its line and with the properties about it, is in `PROJECT.json`.

## Modules

### SuperBufQueue (with BundleContract, MCSuperBufQueue, SuperBufQueueProofs, SuperBufPlacesProofs)

The queue of a started, bundled channel, and all that touches it.

| variable | code |
|---|---|
| `last` | what the driver has delivered on each stream; a frame `<<s, n>>` stands for the buffer it came in |
| `user` | buffers outside the driver (not `in_kernel`) |
| `cmdq`, `cbq` | `cmd_thread.cmd_queue`, `cb_thread.cmd_queue` |
| `chan` | the list of nodes, `match_cnt`, `expected_frame_id`, `pending_cnt`, notify mode |
| `spinning` | a trimming loop that cannot end, its lock held |
| `sent`, `client` | history of the last delivery; what the HAL holds |
| `leaked` | history: frames nobody has and nobody will give back |

One action per command the thread can take (`ProcessData`, `ProcessRequest`, `ProcessConfigNotify`,
`ProcessFlush`), each with the trimming and dispatching that follows it in
`mm_channel_process_stream_buf`; one per operation that enqueues a command; `DispatchSuperBuf` for
`cb_thread`, `QBuf` for a return.  The command thread is the only one that reads or writes `chan`, so a
command is one step.  `unmatched_bundles` is a local of the
scan that counts the unmatched nodes, and is `Cardinality(Unmatched(...))`.  Frame numbers are kept below `FrameIdxLimit`, as the 32-bit
numbers of the code are; the driver numbers frames from 1.  The queues of the two threads are FIFO
sequences: that they are is what CmdThread shows.

Allocations fail one by one (`MallocOutcomes`).  A node of the list or a callback message that cannot be had is handled, and
the frames are given back.  What is not handled is a message of the poll thread, and the *list node* of any message:
`cam_queue_enq` returns an error that no caller looks at, so the message is lost with its frames (`Enqueue`,
`DataNotify`, `Send`).  These frames, and those of a refused metadata frame (`Refused`), go to `leaked`.

`BundleContract` is the promise to the HAL without a queue: frames are borrowed from the driver, given back
only while the channel holds them, and promised to the HAL as whole super buffers of increasing number.
`KeepsContract` maps the queue to it.

### StreamPoll (with MCStreamPoll, StreamPollProofs)

The buffers of the streams of a channel, the poll thread, the streams' own command threads, and one thread at a
time that starts or stops the channel.

| variable | code |
|---|---|
| `str` | `mm_stream_t`: state, `buf_status[].buf_refcnt`, `queued_buffer_count`, `cmd_thread` |
| `drv` | the driver: queued and filled buffers, streaming or not |
| `pt` | `poll_entries`, the pipe, `poll_fds`, and where the poll thread is in its loop |
| `ctl` | who holds `ch_lock`: the phase and step of `mm_channel_start` or `mm_channel_stop` |
| `bundle` | `bundle.is_active`, `super_buf_notify_cb` |
| `hold`, `returning` | references outside the layer; of these, returns that have passed the state check |
| `crashed` | a thread has used released memory; the model takes no step after that |

What is done under `buf_lock` is one action (`BufDone` with the QBUF and the poll-list update it makes); what
is outside is separate: `Notify` (the look at entry and state, then DQBUF), `CountDown` (the count behind it),
`File` (references and messages); `Return` (the state check in `mm_camera_qbuf`'s path) and `ReturnDone`.  Look and DQBUF
are one step because a stop between them can be put before the look: after STREAMOFF, DQBUF finds nothing.

Nothing waits for a return that has passed the check, nor for a frame the poll thread has taken.  A return that is still under
way when PUT_BUF frees `buf_status` leaves the mark `late`, and its rest is `StaleReturn`: `crashed`.  A frame that is filed
after the stop is `crashed` too; the poll thread can still take one after step 1 of stream off, since a return, or
the command thread's own drop, puts the stream back on the list.  `Orderly` is the constant that keeps to the schedules
in which neither happens.  Only `sp_live` sets it, because "the stop ends" says nothing of a system that has crashed; the safety properties and
all the proofs are without it, and `NoStrayAccess` is the property that the code does not keep (`sp_stray`).
The steps of start and stop follow the code's order, with the error path; a step that fails is a choice of the
constant `Failures`.  Simplifications, each towards more behaviour unless noted:

* the order in which streams start and stop is left open;
* writes to one poll entry's fields are one step (their reader is woken by the command written after them);
* an iteration of the poll thread for an error event only repeats `poll` and is a stutter;
* `in_kernel` is written but never read to decide anything, and is left out;
* the wait for the poll thread's answer is a wait for the signal; a spurious wake-up of the single
  `pthread_cond_wait` is left out (less behaviour; see the hazards);
* a stopped channel with a bundle is not started again, because the stop clears the bundle and the HAL deletes
  the channel; others are restarted when the poll thread is back in `poll` (less behaviour);
* `VIDIOC_REQBUFS` failing has the effect of `get_bufs` failing.

### CmdThread (with Mailbox, MCCmdThread, CmdThreadProofs)

The two threads of a bundle at the grain of the semaphore: append and post are separate steps of a sender; the
thread waits once and then dequeues until the queue is empty, so it can find it empty, and can go to
sleep between the two steps of a sender.  One command may make `cmd_thread` send several super buffers to
`cb_thread`.  The release appends EXIT, posts, joins and destroys, `cmd_thread` first.  `Mailbox` is the
promise: a message to an open thread is handled once, in order, and a thread is closed when it has nothing
left.  It is what the other two modules assume of their queues.  That nothing is sent to a bundle whose threads are being released is assumed
here; a frame taken after stream off breaks it (`crashed` in StreamPoll).  That EXIT's own allocations succeed is
assumed; list nodes of other commands may be lost.

### Camera (with MCCamera, CameraProofs)

The locks of the camera object (`mm_camera_interface.c`, `camera.c`): every call takes `g_intf_lock`, looks the
camera up by its handle, takes that object's `cam_lock` and lets `g_intf_lock` go; a call on a channel goes on to
its `ch_lock` the same way.  Closing takes the object out of `g_cam_ctrl`, and frees it under its own lock.

| variable | code |
|---|---|
| `cam_obj`, `ref_count` | `g_cam_ctrl.cam_obj[]`, one camera: its handle and its references |
| `made`, `live` | handles given out; objects not yet freed (history) |
| `intf_lock`, `cam_lock`, `ch_lock` | owners of `g_intf_lock`, of each object's and each channel's lock |
| `ch`, `hdls` | `cam_obj->ch[]` with handle and state; channel handles given out |
| `th` | where each thread is, in which call, with which handles and slot |
| `has` | what a client knows: its reference and its last handle of the camera, the channels it has added, those it has started |
| `leaving` | callback threads that have been told to exit |

Clients may call with the handle of a camera that has been closed.  One thread, `Manager`, makes the calls on
channels: the HAL's state machine.  It may have several channels, and each one's callback thread gives buffers back with `qbuf` at any
time, also while a stop joins it.  So do the `Returners`, the threads of the HAL that no stop of a channel joins: the streams' `mProcTh`
(`HAL/QCameraStream.cpp:432`), the post-processor's and the notifier.  They return any buffer at any time (`GiveBack`), with the handle of
a channel that may be stopped, deleted or gone with its camera.  A start may fail; the callback thread it leaves behind is one of the
`Returners` then.  Handles do not wrap: the counter is a `uint16_t`, and `MaxOpens` bounds it.
`camera_open` may fail.  The wait for the server's answer is a step with `cam_lock` held.

### HalStateMachine (with MCHalStateMachine, HalStateMachineProofs)

`SM` and the functions of `HWI` its handlers call.  A handler is one step of the machine's thread: an operator takes
the record `hal` (channels, parameters, window, post-processor) to the set of its outcomes, with and without the
failures in `Failures`, and the state's `procEvt...` operator says which state follows and whether the caller is
answered.

| variable | code |
|---|---|
| `m_state` | `m_state` |
| `hal` | `m_channels[]` (none, stopped, running), ZSL mode and recording hint as committed, as `_new` and as last set, `mPreviewWindow`, whether the post-processor runs |
| `api_queue`, `evt_queue` | the two queues of `smEvtProcRoutine`, requests first |
| `call`, `m_apiResult` | the API call in `waitAPIResult`, and its result |
| `server` | the server is preparing a snapshot |
| `pictures`, `notifier` | images queued to the notifier; the notifier, waiting in `processSyncEvt` or answered |

One framework thread calls: its client object holds a lock.  The calls modelled are those that change the state, the
channels or the parameters.  Left out: registering a face image, autofocus, events of the thermal adapter,
the dead daemon, the destructor, and calls that only read.  Channel operations are atomic here; their insides are
StreamPoll, Camera and SuperBufQueue.  `MaxEvents` is 1, so `evt_queue` holds up to three events.

### PostProc (with MCPostProc, PostProcProofs)

A picture from its frames to the images (`HAL/QCameraPostProc.cpp`, `util/QCameraCmdThread.cpp`,
`util/QCameraQueue.cpp`, the notifier of `HAL/QCamera2HWICallbacks.cpp`): the channel's thread that files frames, the
data thread, the encoder's callback, the state machine's thread and the notifier.

| variable | code |
|---|---|
| `queue` | `m_inputJpegQ`, `m_ongoingJpegQ`, `m_inputRawQ`, `m_inputPPQ`, `m_ongoingPPQ` |
| `data` | the data thread: `is_active` and `cmd_queue` of `m_dataProcTh` |
| `notifier` | `isSnapshotActive`, `numOfSnapshotRcvd`, commands, `mDataQ`, the callback it is in |
| `sm`, `evt_queue`, `picture`, `pics` | the state machine's thread as far as pictures need it |
| `encoder` | jobs the encoder has and has neither answered nor lost to an abort |
| `out`, `shown` | history: frames not yet given back, images delivered |
| `marred` | history: pictures cancelled, with a failure or an image not passed on, or begun while something of an earlier one was under way |
| `leaked`, `confused` | history: raw frames the code forgets; whether an event has taken another's job |

The notifier's START and the STOPs of both threads go to the head of the queue (`enqueueWithPriority`); the data thread's START is
appended.  The sender of the data thread's STOP waits for it.  So `start` and `stop` of one picture and the next can meet in a
queue: a picture cancelled before the data thread has taken its START leaves the thread active, and a job filed then stays in
`m_ongoingJpegQ`, in the way of the next picture's.  Nothing makes the application wait for what the last picture left behind, and
the model does not either.

A DO_NEXT_JOB is two steps: the job is put among the ongoing ones (`DataNext`), then it is encoded, or taken off the tail of the queue if that fails, and
the raw frame and the one to be reprocessed are handed on (`Encode`).  In between the state machine's thread may take the job for the event of another.
An image may be dropped silently on three ways (`"unsent"` in `Failures`): by `processJpegEvt` and by the notifier, when its message type is
disabled or it cannot be queued, and by `processRawImageImpl`, which then returns NO_ERROR and forgets the frame (`leaked`).

### JpegJobs (with MCJpegJobs, JpegJobsProofs)

The JPEG job manager (`mm_jpeg.c`, `mm_jpeg_interface.c`): clients with a session each, the thread that takes jobs, the OMX
components with their callbacks.

| variable | code |
|---|---|
| `cl` | a client's thread: the call it is in and where it waits; a call holds `g_intf_lock` |
| `ses` | `active`, `abort_flag`, `encoding`, `jobId` of the session |
| `omx` | the component (external): the job it works on, whether it is going idle, the callback it is in |
| `job_lock`, `job_queue`, `ongoing`, `job_sem` | `job_lock`, `job_mgr.job_queue`, `ongoing_job_q`, `job_mgr.job_sem` |
| `mgr` | `mm_jpeg_jobmgr_thread` |
| `outcome` | what became of each job (history) |

Assumed of the component: it gives each job's output buffer back once or reports one error, an encode call that fails
reports no event, it is idle only after its buffers are back, and freeing its handle ends its callbacks.  Assumed of a
client, as the HAL does it: after aborting a job it destroys the session before it does anything else in it, and it closes without a
session.  The second matters: `mm_jpeg_close` with an active session posts no wake-up.

## Runs

Every configuration is in the `.cfg` named; bounds are the constants marked "bound" in the modules.
Each property that holds is shown to be breakable by a mutation of the code's model (the definitions marked
`mutant`), listed in `PROJECT.json`.

| run | instance | shows |
|---|---|---|
| `sbq` | 3 streams of 3, 3 and 2 buffers, 3 frames, water mark 1, look-back 1, frames 2 apart, 1 unmatched node, both notify modes, flush, future-frame and good-range metadata, failing allocations, one lost list node, fairness, deadlock checked | `TypeOK`, `MatchedFirst`, `OwnedOnce`, `NoBufferLost`, `WaterMarkKept`, `NoMatchWaits`, `NoStall`, `BuffersSettle`, and the refinement `KeepsContract` |
| `sp_shared` | 2 bundled streams of 2 interchangeable buffers (symmetry), one with its own callback, late returns | `TypeOK`, `DriverExclusive`, `NoBufferStranded`, `CountExact`, `PollFollowsCount`, `PipeShort` |
| `sp_live` | 2 streams of 1 buffer with callbacks, one buffer held by the upper layer at the start, every call may fail, restarts, `Orderly`, fairness | `RefsCoverHolders`, `FrameTaken`, `StopEnds` |
| `sp_stray` | 1 stream of 1 buffer, nothing fails | `NoStrayAccess`, a comment the code does not keep |
| `cmd_thread` | 2 senders, 3 messages, up to 2 super buffers a command, lost list nodes, relaunch, fairness, deadlock checked | `TypeOK`, `NoLostWakeup`, and the refinement `IsMailbox` |
| `camera` | the thread with the channels and another client, a thread that returns buffers, 2 channels one after the other in 1 slot, with their callbacks' `qbuf`, 2 opens, fairness | `TypeOK`, `NoUseAfterFree`, `NoUseAfterDelete`, `RefsCounted`, `NoCircularWait`, `EveryCallReturns` |
| `hal_modes` | calls that switch ZSL mode and recording hint between previews, recordings and pictures, without failing starts | `TypeOK`, `PreviewRuns`, `PicturesOnly`, `CaptureAlone` |
| `hal_failures` | an application with a window and without ZSL, any call below may fail, fairness | `NoHiddenRecording`, `EveryCallAnswered` |
| `pp_picture` | a picture of 2 shots and one of 1 shot by each route, begun and cancelled at any time, every part may fail, fairness | `FramesKeptOnce`, `NotReadWhileReturned`, `PictureEnds` |
| `pp_doc_output` | the same | `OutputBufferFree`, a comment the code does not keep |
| `pp_event_job` | the same | `EventFindsItsJob`, a comment the code does not keep |
| `jpeg_jobs` | 2 clients with 2 and 1 jobs, 2 sessions one after the other each, encoding and the component may fail, fairness, deadlock checked | `AnsweredOnce`, `EveryJobEnds` |

**Why the bounds are enough.**  Three streams let a node be partly filled in more than one way, and three frames let a queue hold a
matched node and an unmatched one while a late frame arrives behind them, which is what the orderings in `comp_and_enqueue`
distinguish; one stream with fewer buffers than the others makes the queue short of them.  Water mark, look-back and unmatched limit are
as small as they can be without turning the code they guard off.  One command at a time in the queue (`MaxCmds`) loses no order of
commands, as what arrives while one is handled may be chosen after it, and one frame or super buffer lost (`MaxLeaked`) meets every state of the queue.
One-buffer streams make every frame and every return
cross `queued_buffer_count` 0 and 1, where the poll list changes; two buffers let one be in the driver
while another is held.  Two streams share the poll thread and its pipe.  `PipeShort`'s bound, here two updates a
stream and one synchronous command, is reached; a real pipe holds many more commands.
Two clients and two opens let a call with an old handle meet a close and the object after it; two channels in one slot let a return with the
handle of the first meet the second, and a stop join a callback that waits for `cam_lock`; two channels at the same time are
covered by the proofs.  The HAL's states and channels are all there and its handlers look at no history, so the runs go through every
combination of state, channels and parameters that the calls of the instance reach.  Two pictures let whatever
the first left behind meet the second, and two shots of the first let one image be copied while the other's
job waits.  Two clients of the encoder let one's abort meet the other's waiting job; two
sessions let one inherit what the other left.

**Deadlock.**  `cmd_thread`, `jpeg_jobs` and `sbq` check it.  The StreamPoll runs do not: a bundled channel
ends stopped, and a system that has used released memory takes no further step.  Nor do `camera` (the opens are used
up), the HAL's runs (a call that is never answered is what the code does, see below) and `pp_picture` (the pictures
are used up); their liveness properties say what must not get stuck.

**Fairness.**  Each thread of the layer runs while it has work: POSIX threads that are not blocked are
scheduled, and what they block on is in the models.  A thread that starts or stops a channel continues, and so
does a return that has begun.  In `SuperBufQueue` the HAL keeps giving buffers back, as a client must;
in `StreamPoll` it need not.  The sensor and the driver owe nothing: `FrameTaken` starts when a
buffer is filled.  In `PostProc` and `JpegJobs` the encoder answers, in `HalStateMachine` the server prepares the snapshot it
accepted, in `Camera` the server answers a mapping; the application need neither take nor cancel a picture.  Weak fairness
suffices everywhere but in `Camera`: a thread that waits for a mutex others keep taking gets it only if it is free again
and again and the mutex does not starve it, which is strong fairness of the thread's steps.

## Proofs

`SuperBufQueueProofs` proves for every set of streams, number of buffers, queue parameters and frame bound that
satisfies `ParameterAssumption`:

* `TypeCorrect`, `MatchedFirstAlways`, `NeverSpinsAlways`, `UnmatchedBoundedAlways`, `WaterMarkAlways`,
  `NoMatchWaitsAlways`, `WholeSuperBufsAlways`: the properties of those names.  `NeverSpins` (no trimming loop runs
  for ever), `WholeSuperBufs` (what is delivered is one frame of every stream) and `UnmatchedBounded` are proved and not run.
  The bound of the last is one more than the documented one, see [below](#what-the-code-does-against-its-comments).

`MatchedFirst` alone is not inductive.  The invariant adds that a node is matched exactly when all streams have
filled it and that no node is empty (`Ordered`), that the queue is at most `MaxUnmatchedFrames + 1` longer than
`match_cnt`, and what is between two commands the state of the trimming (water mark, nothing matched while it
is wanted).  The proof goes operator by operator: each of cut, insert, join, trim and dispatch preserves
`ChanInv`; the lemmas about positions (`FirstIsLeast`, `CutFacts`, `InsertFacts`, `LeadingIsCount`) carry it.

`SuperBufPlacesProofs` goes on, under the same assumption:

* `Placement`, the inductive invariant, and from it `OwnedOnceAlways`;
* `NoBufferLostAlways`, for any metadata and any failing allocations: what is lost is exactly what those failures lose (`KeptOK`);
* `ImplementsContract`: `Spec => KeepsContract`, step by step: `DataNotify` is `Borrow`, each command of the thread is
  `Sort`, `DispatchSuperBuf` is `CallBack`, `QBuf` is `Return`, the calls that only enqueue a command stutter;
* `NoStallAlways`, if each stream has more buffers than `WaterMark + MaxUnmatchedFrames` (`EnoughBuffers`).
  `getBufNumRequired` (`HAL/QCamera2HWI.cpp:1240`) gives the streams of a bundle at least three more, whichever the mode.  A buffer a failure has lost counts as one outside the queue;
* `BurstIntervalAlways`, if nobody flushes and no metadata frame moves `expected_frame_id` (`Plain`); either does
  break the interval, as it is meant to.  The interval is one frame shorter than the documented one.

All of it rests on the order of frame numbers.  What arrives is newer than all its stream has contributed (`CmdsOK`, `LastOK`);
a super buffer is sent when every stream has contributed to it, so what is still to come is newer than it; hence nodes are in
strict order, matched ones included (`QueueOK`), what is queued is newer than `sent` and what is in `cbq` or with the
HAL is not (`OutOK`), and places cannot share a frame.  `Sorted` says of each operator that a frame it is given is kept or
given back and not both; `Sends` says it of a whole command.  For `NoStall`, a queue with every buffer of every stream would have
only full nodes, so only matched ones, and more than the water mark.  For `BurstInterval`, `Spread` keeps
`expected_frame_id` the distance ahead of all that is matched or sent.

`CmdThreadProofs` proves for every set of senders and messages that satisfies `CmdThreadAssumption`:

* `TypeCorrect`; `NoLostWakeupAlways`: no thread sleeps over a command;
* `ImplementsMailbox`: the safety part of `IsMailbox`.

`NoLostWakeup` needs the stronger `WakeInv` (also a thread about to sleep on a zero semaphore), and the
refinement needs `ExitInv`: before EXIT is sent it is in no queue, after it is sent it is the last command
because nobody sends any more, so a thread that has left its loop has an empty queue; and `AliveInv`, which
ties the existing threads to the step of the release.

`CameraProofs` proves for every finite set of clients and of threads that return buffers, and any number of slots, opens and channels that satisfy
`CameraAssumption` and `ThreadAssumption`:

* `TypeCorrect`, `NoUseAfterFreeAlways`, `NoUseAfterDeleteAlways`, `RefsCountedAlways`: the properties of those
  names, each from `Invariance`.
* `NoCircularWaitAlways`, from `OwnerInv` as well.

`NoUseAfterFree` is not inductive: `Close` may only free the object because nobody else is inside it.  Those who
wait for its lock are excluded by `CloseInv` (a closer holds `g_intf_lock` until it has the lock, and its object is no longer
found), those who hold its lock by `LockInv`, and those in a channel by `CallInv` and `AddedInv`: they belong to a manager that still has a
channel, so a reference, so its camera is the open one (`RefInv`), which a closer's is not.  A callback in `qbuf` holds no
lock: `SlotInv` says that its channel is active, so not deleted, and its camera open.  That is so of the channel's own callback, because the stop
joins it.  The `qbuf` of a thread of the HAL is left out of both properties once it has let `cam_lock` go (`Guarded`): nothing keeps it in its channel.  `RefInv` equates `ref_count` with
the number of clients that have a reference: the last close leaves none.  The proof has one lemma per action.

`NoCircularWait` follows from the order in which threads wait (`Rank`): a stop for the callback it joins, then `g_intf_lock`,
`cam_lock`, `ch_lock`.  Who is waited for is always further in it (`WaitsDown`), so that no set of threads waits for itself.  That needs
where the owner of a lock may be (`OwnerInv`, the converse of `LockInv`), and that the owner of a `ch_lock` and whoever waits for one
are the manager both.  A `qbuf` that took `ch_lock` would break it.

`StreamPollProofs` proves for every finite set of streams and buffers that satisfies the module's assumptions, orderly or not:

* `TypeCorrect`, `RefsCoverHoldersAlways` and `DriverExclusiveAlways`, with nothing more: whatever fails, and whenever returns end.  A stray access
  ends the model's behaviour, so all this is said of the states up to one;
* `CountExactAlways`, if no `QBUF` fails: a failing one is counted and not in the driver;
* `PollFollowsCountAlways`, if each stream starts with a buffer in the driver: without one the poll list is not
  told until the first return;
* `NoBufferStrandedAlways` under `Steady`: no call on a registered buffer fails, no message is lost, all buffers
  start in the driver and every frame has a taker.  Each of these is needed: the code ignores the errors;
* `PipeShortAlways`, with nothing more: two commands a stream and one that is waited for, or one a stream on top of
  `MaxPending`, the model's bound on what is left in the pipe when the channel is started.

The invariant is kept stream by stream (`StreamOK`): `RefsOK`, a buffer somebody holds is referenced at least so often;
`ExclOK`, what the driver or the poll thread has is not; `FreeOK` and `WhereOK`, where an unreferenced one is; `CountOK` and
`ExactOK`, the count, with late returns kept apart from those of a restarted stream (PUT_BUF moves them to `late`); `ListOK`, the poll list, whose updates in the pipe are ahead of `fds` (`Synced`).  `PlaceOK` ties the
state of a stream to the step of the thread that starts or stops the channel, and says when a stream is live,
so when the rest has to hold.  An action touches one stream; `Untouched` and the lemmas about it carry
the others.

`PipeShort` is about a sequence of steps of several threads, so its invariant counts what may still be sent: `Due` is the number
of streams that the poll thread is about to visit (each may lose its last buffer and be taken off the list) and of those that
may be put on it, because they have no buffer in the driver, are about to lose it, or have yet to be filled.  An update that is sent was due, and
nothing becomes due but when the poll thread has emptied its pipe, or the channel is started (`RoomOK`).  A stream about to be visited has a
buffer in the driver and so is not put on the list before (`VisitOK`, from `CountOK`); one that is not filled yet is not visited,
and no return counts for it (`QuietOK`).

`JpegJobsProofs` proves for every finite set of clients and any number of jobs and sessions:

* `TypeCorrect`, `AnsweredOnceAlways`;
* `OneAtATimeAlways`: the components of two sessions never work at the same time, which no run checks.

It needs the whole discipline of `job_lock`: a call that aborts or destroys holds it until it returns, but for the wait
(`CallInv`); queued jobs are those of active sessions that have been asked for (`QueueInv`) and at most one is ongoing (`OngoingInv`);
what a component works on is the unanswered job of its session, and in the one ongoing slot unless it is aborted, when its abort waits for
the component (`WorkInv`, `WaitInv`).  A component's callback that has passed the look at `abort_flag` is
in the window the abort's wait covers.  `JpegAssumption` names clients apart from the thread and from nobody.

`HalStateMachineProofs` proves for every set of calls, every set of failures and any number of JPEG events that satisfy
`HalAssumption`:

* `TypeCorrect`, with the bound of the event queue, and `NoHiddenRecordingAlways`, with nothing more;
* `CaptureAloneAlways`, if adding and starting channels do not fail (`NoAddStart`);
* `PreviewRunsAlways`, if setting the hint does not fail either (`Steady`): a ZSL preview whose hint could not be set is prepared
  again and not started;
* `PicturesOnlyAlways`, under `Steady` and for an application that neither releases the camera nor has parameters refused
  (`CalmRequests`); TLC finds what happens otherwise, see [below](#what-else-was-met).

The thread handles one command at a time, so a step is a handler's or leaves `m_state` and `hal` alone (`StepKept`), and each
theorem follows from one fact about handlers: `Kept`, proved state by state and call by call from lemmas about what the
channel operations add, start and delete.  `NoHiddenRecording`, `CaptureAlone` and `PreviewRuns` are then inductive as they stand.
`PicturesOnly` is not: a live snapshot that starts the post-processor and then has no channel to start
would leave it running.  `Pics` adds why it has one: `VIDEO` and `SNAPSHOT` come and go together, a recording has them, and so
has a preview whose hint is set or will be with the next commit.  The queue's bound needs that of the server's and of the notifier's
events at most one is on its way (`OneOfEach`), as the server prepares only in PREPARE_SNAPSHOT and the notifier waits for its answer.

`PostProcProofs` proves for every set of routes and failures and any number of shots and pictures:

* `FramesKeptOnceAlways` and `NotReadWhileReturnedAlways`, with nothing more.

Both properties are about the behaviour up to the first event that takes another's job (`confused`), which `pp_event_job` shows to be possible; so the
invariant is `confused`, or `Inv` and `FreshInv` (`Invariance`).  That no other way leads to a frame given back twice, lost or read while it is
returned is what the two theorems say: not a start that meets a stop, not an abort that meets an answer, not a failing encode.

Where frames are is first a matter of sets (`Good`): the jobs held, the raw frames the notifier has, and what is out.  A
reprocessed frame stands for its source too, so that the source is in no place of its own.  Five lemmas say how frames come
(`Receive`), are reprocessed (`Reprocess`), go to the notifier (`Give`) and are given back (`Release`, `ReleaseRaw`); the queues are
sequences without repetition (`Once`), of which `TakeStep` and `PutStep` take and to which they add.  A frame that comes is
new, because what is still due of a picture is not here yet, nor is anything of a later picture (`NotYet`).  A stop
of the data thread flushes the queues and must not find a job in `processJpegEvt`, whose frames would stay: the state
machine sends one STOP and waits for it, so that there is at most one in the queue and none while it copies an image
(`ThreadInv`).

For `NotReadWhileReturned` what the encoder has must be ongoing (`FreshInv`), which an answer could break, as it takes the head
of `m_ongoingJpegQ`.  If the head is the event's own job, it is with the encoder no more.  To know that, all that the encoder ever had and that
is not settled (`Spent`: the jobs it has, the answers in the event queue) is kept apart from all that is still to be encoded (`ToEncode`), image by image; a
frame that comes is of a shot of which nothing is spent, and the data thread's own job, between `DataNext` and `Encode`, is the only one that is ongoing.

Every invariant that a passing run checks is proved, under the assumptions named above.  Only model-checked is what holds
under fairness (`BuffersSettle`, `FrameTaken`, `StopEnds`, `EveryCallReturns`, `EveryCallAnswered`, `PictureEnds`,
`EveryJobEnds`, the liveness of `IsMailbox`), since the prover does not reason about ENABLED.

## What the code does against its comments

Shown by a run:

* `pp_doc_output`: the data thread starts the next JPEG job as soon as `m_ongoingJpegQ` is empty, and its comment says
  that encoding is then fine (`HAL/QCameraPostProc.cpp:1308`).  `processJpegEvt` empties that queue before it
  copies the image out of the session's only output buffer, so a second shot is encoded into the buffer while the
  first is copied.
* `pp_event_job`: `findJpegJobByJobId` is documented to find a job "by its job ID", with the note that to dequeue serves, as only one job is
  with the encoder (`HAL/QCameraPostProc.cpp:670`).  A picture that is cancelled after its job is answered and before
  the state machine has handled the event leaves the event behind, and it takes the next picture's job: its image is never
  passed on, its frames are given back while they are read.
* `sp_stray`: `mm_camera_qbuf` locks nothing, as "qbuf will be done before channel/stream is fully stopped because qbuf is done
  within dataCB context" (`camera.c:476`).  The HAL returns buffers from threads of its own, `mProcTh` among them, which is told to exit after
  `stop_channel` has returned (`HAL/QCameraChannel.cpp:269`).  A return that has passed the state check goes on in
  `buf_status` after PUT_BUF has freed it.  That is the only way in this instance but one: a frame that the poll thread took after stream off
  put it back on its list.

Without a run, since the model states the code's bound and the proof holds for that one:

* `max_unmatched_frames` is the "max number of unmatched frames in queue" (`stack/common/mm_camera_interface.h:247`).  The queue holds one more:
  the limit is tested before the node is added (`UnmatchedBounded`).
* `post_frame_skip` is "how many frames needing to be skipped for next delivery" (`mm_camera_interface.h:244`).  One fewer is skipped:
  `expected_frame_id` becomes the frame sent plus `post_frame_skip` (`BurstInterval`).

## What else was met

While modelling; where a property would say otherwise the model takes the code's side.

* *Super-buffer queue.*  A flush "until" a frame drops every super buffer.  A metadata frame that announces both notices at once is refused
  and its buffer neither queued nor given back.  `cam_queue_enq` fails when its list node cannot be allocated (`stack/common/cam_queue.h:55`), which nobody
  looks at: the message and the buffers in it are lost.  `NoBufferLost` says that there are no other losses.
* *Streams.*  A buffer returned between the two steps of stream off puts the fd back on the poll thread, though
  "step 1" removed it; the poll thread may then take a frame and file it after the stop.
* *Camera.*  `mm_camera_del_channel` clears the slot after its state machine has made it NOTUSED and unlocked it
  (`camera.c:774`): a channel added by another thread in between loses its handle.
* *State machine.*  ZSL mode set while a picture is taken makes STOP_PREVIEW leave the capture channel running in
  PREVIEW_STOPPED, and START_RECORDING with ZSL mode leaves the ZSL channel running.  A recording that fails to start ends in
  PREVIEWING without a preview if the restart fails too.  START_RECORDING while a preview's picture is taken calls
  `stopRecording` (`SM:2456`).  Parameters that need a restart are committed during a recording.  An application that sets
  the hint in a recording without it, releases the camera and goes on gets a preview whose hint is committed without its `SNAPSHOT`
  channel: a live snapshot then fails and leaves the post-processor running (`hal_modes` has no RELEASE).
* *Answers.*  PREPARE_SNAPSHOT has no case in the states that take a picture, and a live snapshot that fails in
  PREVIEWING is not signalled: both callers wait for ever (`Unanswered`).  A cancel or stop that overtakes
  SNAPSHOT_DONE makes it an event no state answers, and the notifier stays in `processSyncEvt` (`HWI:2311`).
* *Parameters.*  A refused SET_PARAMS leaves its values among the new ones, and the next commit makes them current.
* *Post-processor.*  The notifier's START and the STOPs overtake what is queued, also each other, and a STOP the data thread's START: it then
  stays active, and a job filed meanwhile blocks the next picture's.  A JPEG that fails is not counted, nor is an image whose message type is disabled when
  the notifier looks (`HAL/QCamera2HWICallbacks.cpp:1090`), so its picture's SNAPSHOT_DONE never comes.  A raw image that is not sent, for the same reasons,
  is reported as sent and its frame never given back (`HAL/QCameraPostProc.cpp:1185`).  Frames whose job cannot be
  allocated are lost.  `jobId` is written after the job has been started, so its event may come first.
* *JPEG jobs.*  A session inherits `encoding` from the one before it in its place; if that was aborted, destroying the new one
  before its first job asks a component without buffers to go idle.  `mm_jpeg_close` with an active session and an
  abort without a destroy post no wake-up: another client's job can be left waiting.
* *OMX core.*  An `OMX_GetHandle` that loads the library and then fails unloads it again, but leaves `open` and the two function
  pointers set (`qomx_core.c:245`): the next one calls into a library that is no longer there.

## What is not modelled

* The launch and release of the poll thread, and the threads of a bundle on the error path of a start, are in no
  model.  Spurious wake-ups, and failures of pthread_create and of the allocations for EXIT, are left out, as the code does not
  cope with them.
* Event registration, the shutdown event, and a server that never answers.
* The HAL's streams, channels and memory appear as the environment: holders that return buffers from any thread,
  and in HalStateMachine as channels that are there, stopped or running.  HAL version 3 is another client of the
  same operations.
* Of the HAL's requests: face registration, autofocus, thermal events, the dead daemon, destruction; of the
  post-processor: `init`, `deinit` with EXIT, the set-up of sessions, notifications without images, failing allocations; of the JPEG job manager:
  the configuration of sessions, closing with one active, failing allocations and a component that refuses a command.
* The OMX core loads a library with its first component and unloads it with the last, under one lock; in JpegJobs it is part of the component.
* Parameter values, EXIF, buffer offsets, mapping and format negotiation are data without concurrency.  The domain
  socket and the thermal adapter are I/O.
* `bcm/ar6mx` is init scripts, overlays and policy.  The other devices' HALs (audio, sensors, light, power,
  emulator) are separate programs; flo, mako and shamu hold other copies of the stack modelled here.
* The wrap of frame numbers at 2^32, which a TODO in the code leaves open, that of the camera handle's 16-bit counter, and drivers that number their first
  frame 0.

## Plan

Done: SuperBufQueue with its contract and proofs (all its safety properties and the refinement); CmdThread as an implementation of Mailbox, with proofs;
Camera, StreamPoll, JpegJobs, HalStateMachine and PostProc with proofs.

Models that could follow: the poll thread's launch, release and synchronous call with spurious wake-ups; the OMX core;
the threads of a bundle on the error path of a start.
