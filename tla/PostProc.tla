------------------------------ MODULE PostProc ------------------------------
(***************************************************************************)
(* From the frames of a picture to the images the application gets         *)
(* (QCameraPostProc.cpp, QCameraCmdThread.cpp, QCameraQueue.cpp, and the   *)
(* callback notifier of QCamera2HWICallbacks.cpp).                         *)
(*                                                                         *)
(* The channel's thread files frames by route: to be encoded, to be sent   *)
(* raw, or to be reprocessed and then encoded.  The data thread hands them *)
(* on, one JPEG job at a time.  The encoder's answer is an event for the   *)
(* state machine's thread, which copies the image out of the one output    *)
(* buffer there is, queues it to the notifier, and gives the frames back.  *)
(* The notifier counts images, and with the last one waits in              *)
(* processSyncEvt until the state machine has stopped the post-processor.  *)
(***************************************************************************)
EXTENDS Integers, Sequences, FiniteSets, Functions

CONSTANTS
  Routes,   \* ways a picture may take: a subset of {"jpeg", "raw", "reprocess"}
  Shots,    \* images of each picture (numOfSnapshotsExpected)
  MaxPics,  \* pictures that are ever taken (a bound)
  Failures  \* what may fail: a subset of {"encode", "answer", "raw", "reprocess",
            \* "unsent"}, the last being an image that is not passed on: its message type
            \* is disabled, there is no callback, or there is no memory to queue it

ASSUME PostProcAssumption ==
  /\ Routes \subseteq {"jpeg", "raw", "reprocess"}
  /\ Failures \subseteq {"encode", "answer", "raw", "reprocess", "unsent"}
  /\ MaxPics \in Nat \ {0} /\ Shots \in [1..MaxPics -> Nat \ {0}]

VARIABLES
  picture,   \* the picture being taken: [pic (0: none), route, due (shots to come)]
  pics,      \* pictures taken so far
  evt_queue, \* events for the state machine: [evt, ok], and the job (history)
  sm,        \* its thread: [at, job, evt]
  queue,     \* m_inputJpegQ, m_ongoingJpegQ, m_inputRawQ, m_inputPPQ, m_ongoingPPQ
  data,      \* the data thread: [at, job (it is about to encode), active, cmds]
  encoder,   \* the jobs started and neither answered nor aborted
  notifier,  \* the notifier: [at, active, rcvd, expected, cmds, mDataQ, cb]
  out,       \* frames received and not given back
  shown,     \* images the application got (history)
  marred,    \* pictures cancelled, with a failure, or begun too early (history)
  leaked,    \* frames nothing will give back (history)
  confused   \* has an event taken another's job? (history)

vars == <<picture, pics, evt_queue, sm, queue, data, encoder, notifier, out, shown, marred,
          leaked, confused>>
history == <<leaked, confused>>

\* A frame is of a shot of a picture, from the camera or from reprocessing.  A JPEG
\* job has the name of its src_frame; if that is a reprocessed one, it has two frames.
Frame(p, s, from) == <<p, s, from>>
Source(f)  == Frame(f[1], f[2], "cam")
Frames(job) == {job, Source(job)}
Image(job) == <<job[1], job[2]>>
AllFrames(seq) == UNION {Frames(job) : job \in Range(seq)}
First(seq) == IF seq = <<>> THEN <<>> ELSE <<Head(seq)>>
Rest(seq)  == SubSeq(seq, 2, Len(seq))
May(kind)  == IF kind \in Failures THEN BOOLEAN ELSE {TRUE}
Mar(bad, p) == marred' = IF bad THEN marred \cup {p} ELSE marred

NoPicture == [pic |-> 0, route |-> "none", due |-> {}]
Idle == [at |-> "idle", job |-> <<>>, ok |-> FALSE]

Init ==
  /\ picture = NoPicture /\ pics = 0 /\ evt_queue = <<>> /\ sm = Idle
  /\ queue = [inputJpeg |-> <<>>, ongoingJpeg |-> <<>>, inputRaw |-> <<>>,
              inputPP |-> <<>>, ongoingPP |-> <<>>]
  /\ data = [at |-> "idle", job |-> <<>>, active |-> FALSE, cmds |-> <<>>]
  /\ encoder = {}
  /\ notifier = [at |-> "idle", active |-> FALSE, rcvd |-> 0, cmds |-> <<>>,
                 expected |-> 0, mDataQ |-> <<>>, cb |-> <<>>]
  /\ out = {} /\ shown = {} /\ marred = {} /\ leaked = {} /\ confused = FALSE

-----------------------------------------------------------------------------
(* Commands to a thread; with priority they go to the head of its queue.   *)

sendCmd(t, cmd)      == [t EXCEPT !.cmds = Append(@, cmd)]
sendPriority(t, cmd) == [t EXCEPT !.cmds = <<cmd>> \o @]
Got(t, cmd) == t.cmds # <<>> /\ Head(t.cmds) = cmd
getCmd(t)   == [t EXCEPT !.cmds = Tail(@)]

-----------------------------------------------------------------------------
(* The state machine's thread: the pictures.  A request overtakes events.  *)

\* Has all that earlier pictures left behind been dealt with?
Settled == /\ evt_queue = <<>> /\ data.at = "idle" /\ data.cmds = <<>> /\ encoder = {}
           /\ notifier.at = "idle" /\ notifier.cmds = <<>> /\ out \subseteq leaked

\* start: START goes to the head of the notifier's commands and to the end of the data
\* thread's.  Nothing waits for the last picture's events and commands to be dealt with.
start(r) ==
  /\ pics < MaxPics
  /\ sm.at = "idle" /\ picture = NoPicture
  /\ pics' = pics + 1
  /\ picture' = [pic |-> pics + 1, route |-> r, due |-> 1..Shots[pics + 1]]
  /\ data' = sendCmd(data, "START")
  /\ notifier' = sendPriority(notifier, "START")
  /\ Mar(~Settled, pics + 1)
  /\ UNCHANGED <<evt_queue, sm, queue, encoder, out, shown, history>>

\* stop: the notifier is not waited for, the data thread is.
stop(at) ==
  /\ sm' = [sm EXCEPT !.at = at]
  /\ notifier' = sendPriority(notifier, "STOP")
  /\ data' = sendPriority(data, "STOP")

\* The application cancels, at any time.
cancelPicture ==
  /\ sm.at = "idle" /\ picture # NoPicture
  /\ stop("cancelling")
  /\ Mar(TRUE, picture.pic)
  /\ UNCHANGED <<picture, pics, evt_queue, queue, encoder, out, shown, history>>

\* SNAPSHOT_DONE: the same, and then the notifier is answered.
SnapshotDone ==
  /\ sm.at = "idle" /\ picture # NoPicture
  /\ evt_queue # <<>> /\ Head(evt_queue).evt = "DONE"
  /\ evt_queue' = Tail(evt_queue)
  /\ stop("finishing")
  /\ UNCHANGED <<picture, pics, queue, encoder, out, shown, marred, history>>

\* The data thread has stopped: now the channel is, and no more frames come.
ChannelStopped ==
  /\ sm.at \in {"cancelled", "finished"}
  /\ sm' = Idle /\ picture' = NoPicture
  /\ notifier' = IF sm.at = "finished" /\ notifier.at = "waiting"
                 THEN [notifier EXCEPT !.at = "calling"] ELSE notifier
  /\ UNCHANGED <<pics, evt_queue, queue, data, encoder, out, shown, marred, history>>

\* No picture is being taken: the events have no case in the state.
NotHandled ==
  /\ sm.at = "idle" /\ picture = NoPicture /\ evt_queue # <<>>
  /\ evt_queue' = Tail(evt_queue)
  /\ UNCHANGED <<picture, pics, sm, queue, data, encoder, notifier, out, shown, marred, history>>

-----------------------------------------------------------------------------
(* The channel's thread.  A raw frame is announced twice: processRawData   *)
(* sends a command, and then its caller does.                              *)

processData(s) ==
  /\ picture' = [picture EXCEPT !.due = @ \ {s}]
  /\ LET f == Frame(picture.pic, s, "cam")
         to == CASE picture.route = "jpeg" -> "inputJpeg"
                 [] picture.route = "raw" -> "inputRaw"
                 [] picture.route = "reprocess" -> "inputPP"
         told == sendCmd(data, "NEXT")
     IN /\ out' = out \cup {f}
        /\ queue' = [queue EXCEPT ![to] = Append(@, f)]
        /\ data' = IF to = "inputRaw" THEN sendCmd(told, "NEXT") ELSE told
  /\ UNCHANGED <<pics, evt_queue, sm, encoder, notifier, shown, marred, history>>

\* The reprocess channel's thread has the oldest frame's result.
processPPData ==
  /\ queue.ongoingPP # <<>>
  /\ LET src == Head(queue.ongoingPP)
         f == Frame(src[1], src[2], "pp")
     IN /\ out' = out \cup {f}
        /\ queue' = [queue EXCEPT !.ongoingPP = Tail(@), !.inputJpeg = Append(@, f)]
  /\ data' = sendCmd(data, "NEXT")
  /\ UNCHANGED <<picture, pics, evt_queue, sm, encoder, notifier, shown, marred, history>>

-----------------------------------------------------------------------------
(* The encoder (external) and its answer.                                  *)

jpegEvtHandle(job, ok) ==
  /\ job \in encoder /\ ok \in May("answer")
  /\ encoder' = encoder \ {job}
  /\ evt_queue' = Append(evt_queue, [evt |-> "JPEG", job |-> job, ok |-> ok])
  /\ Mar(~ok, job[1])
  /\ UNCHANGED <<picture, pics, sm, queue, data, notifier, out, shown, history>>

\* findJpegJobByJobId takes the head of the ongoing jobs, whatever the ID.
findJpegJobByJobId == First(queue.ongoingJpeg)
Mistaken(jobId) == findJpegJobByJobId \notin {<<>>, <<jobId>>}

\* The job is taken; what the event points to, the output buffer, is read next.
JpegEvent ==
  /\ sm.at = "idle" /\ picture # NoPicture
  /\ evt_queue # <<>> /\ Head(evt_queue).evt = "JPEG"
  /\ evt_queue' = Tail(evt_queue)
  /\ sm' = [at |-> "copying", job |-> findJpegJobByJobId, ok |-> Head(evt_queue).ok]
  /\ queue' = [queue EXCEPT !.ongoingJpeg = Rest(@)]
  /\ confused' = (confused \/ Mistaken(Head(evt_queue).job))
  /\ UNCHANGED <<picture, pics, data, encoder, notifier, out, shown, marred, leaked>>

\* An entry of the notifier's queue: an image, with the raw frame to give back after.
Snapshot(job, raw) == [image |-> Image(job), raw |-> raw]
sendDataNotify(cb) ==
  sendCmd([notifier EXCEPT !.mDataQ = Append(@, cb)], "NEXT")

NotWoken == data   \* mutant of Woken: processJpegEvt sends no DO_NEXT_JOB
Woken    == sendCmd(data, "NEXT")

\* The rest of processJpegEvt.
processJpegEvt(sent) ==
  /\ sm.at = "copying" /\ sent \in May("unsent")
  /\ notifier' = IF sm.ok /\ sent /\ sm.job # <<>>
                 THEN sendDataNotify(Snapshot(Head(sm.job), <<>>)) ELSE notifier
  /\ marred' = IF sent THEN marred ELSE marred \cup {job[1] : job \in Range(sm.job)}
  /\ out' = out \ AllFrames(sm.job)
  /\ data' = Woken
  /\ sm' = Idle
  /\ UNCHANGED <<picture, pics, evt_queue, queue, encoder, shown, history>>

-----------------------------------------------------------------------------
(* The data thread.                                                        *)

Heeds(cmd) == data.at = "idle" /\ Got(data, cmd)

DataStart ==
  /\ Heeds("START")
  /\ data' = [getCmd(data) EXCEPT !.active = TRUE]
  /\ UNCHANGED <<picture, pics, evt_queue, sm, queue, encoder, notifier, out, shown, marred, history>>

NotAborted == encoder   \* mutant of Aborted: the stop leaves the jobs to the encoder
Aborted    == {}        \* abort_job of the ongoing jobs, destroy_session of any other

\* mutant of Flushed: m_ongoingPPQ is flushed without its release function
FlushedNotPP == UNION {AllFrames(queue[q]) : q \in DOMAIN queue \ {"ongoingPP"}}
Flushed      == UNION {AllFrames(queue[q]) : q \in DOMAIN queue}

\* The jobs are aborted, and everything queued is given back.
DataStop ==
  /\ Heeds("STOP")
  /\ data' = [getCmd(data) EXCEPT !.active = FALSE]
  /\ encoder' = Aborted
  /\ out' = out \ Flushed
  /\ queue' = [q \in DOMAIN queue |-> <<>>]
  /\ sm' = [sm EXCEPT !.at = IF @ = "cancelling" THEN "cancelled" ELSE "finished"]
  /\ UNCHANGED <<picture, pics, evt_queue, notifier, shown, marred, history>>

\* What a NEXT takes: a job to encode only if none is ongoing.
NextJob == IF queue.ongoingJpeg = <<>> THEN First(queue.inputJpeg) ELSE <<>>
NextRaw == First(queue.inputRaw)
NextPP  == First(queue.inputPP)

\* DO_NEXT_JOB of an active thread.  The job is put among the ongoing ones first, where
\* the state machine's thread may find it.
DataNext ==
  /\ Heeds("NEXT") /\ data.active
  /\ data' = [getCmd(data) EXCEPT !.at = "encoding", !.job = NextJob]
  /\ queue' = [queue EXCEPT
                 !.inputJpeg = IF NextJob = <<>> THEN @ ELSE Tail(@),
                 !.ongoingJpeg = @ \o NextJob]
  /\ UNCHANGED <<picture, pics, evt_queue, sm, encoder, notifier, out, shown, marred, history>>

\* dequeue(false): the last of the ongoing jobs, whichever that is.
ButLast(seq) == IF seq = <<>> THEN seq ELSE SubSeq(seq, 1, Len(seq) - 1)

\* processRawImageImpl returns NO_ERROR, and keeps the frame, when it sends nothing.
RawOutcomes == {"sent"} \cup (IF "raw" \in Failures THEN {"failed"} ELSE {})
                        \cup (IF "unsent" \in Failures THEN {"unsent"} ELSE {})

\* The rest of DO_NEXT_JOB: the encoder is given the job, and one raw frame and one to be
\* reprocessed are handed on.  What fails is released, but a raw frame not sent.  In one
\* step: the notifier and the reprocess channel can only answer what they have been sent.
Encode(encoded, raw, reprocessed) ==
  /\ data.at = "encoding"
  /\ encoded \in May("encode") /\ raw \in RawOutcomes /\ reprocessed \in May("reprocess")
  /\ data' = [data EXCEPT !.at = "idle", !.job = <<>>]
  /\ LET failed == (IF encoded THEN <<>> ELSE data.job)
                     \o (IF raw = "failed" THEN NextRaw ELSE <<>>)
                     \o (IF reprocessed THEN <<>> ELSE NextPP)
         unsent == IF raw = "unsent" THEN NextRaw ELSE <<>>
     IN /\ out' = out \ AllFrames(failed)
        /\ leaked' = leaked \cup Range(unsent)
        /\ marred' = marred \cup {f[1] : f \in Range(failed \o unsent)}
  /\ encoder' = IF encoded THEN encoder \cup Range(data.job) ELSE encoder
  /\ notifier' = IF raw = "sent" /\ NextRaw # <<>>
                 THEN sendDataNotify(Snapshot(Head(NextRaw), NextRaw)) ELSE notifier
  /\ queue' = [queue EXCEPT
                 !.ongoingJpeg = IF encoded \/ data.job = <<>> THEN @ ELSE ButLast(@),
                 !.inputRaw = Rest(@), !.inputPP = Rest(@),
                 !.ongoingPP = IF reprocessed THEN @ \o NextPP ELSE @]
  /\ UNCHANGED <<picture, pics, evt_queue, sm, shown, confused>>

\* DO_NEXT_JOB of an inactive one.
DataReturn ==
  /\ Heeds("NEXT") /\ ~data.active
  /\ data' = getCmd(data)
  /\ out' = out \ UNION {AllFrames(First(queue[q])) : q \in {"inputJpeg", "inputRaw", "inputPP"}}
  /\ queue' = [queue EXCEPT !.inputJpeg = Rest(@), !.inputRaw = Rest(@), !.inputPP = Rest(@)]
  /\ UNCHANGED <<picture, pics, evt_queue, sm, encoder, notifier, shown, marred, history>>

-----------------------------------------------------------------------------
(* The notifier's thread.                                                  *)

RawFrames(cbs) == UNION {Range(cb.raw) : cb \in Range(cbs)}
\* The setting when the notifier starts: that of the latest picture.
numOfSnapshotsExpected == IF pics \in DOMAIN Shots THEN Shots[pics] ELSE 0
Counting(n, on, expected) ==
  [n EXCEPT !.active = on, !.expected = expected, !.rcvd = 0]
Listening(cmd) == notifier.at = "idle" /\ Got(notifier, cmd)

NotifierStart ==
  /\ Listening("START")
  /\ notifier' = Counting(getCmd(notifier), TRUE, numOfSnapshotsExpected)
  /\ UNCHANGED <<picture, pics, evt_queue, sm, queue, data, encoder, out, shown, marred, history>>

NotifierStop ==
  /\ Listening("STOP")
  /\ notifier' = [Counting(getCmd(notifier), FALSE, 0) EXCEPT !.mDataQ = <<>>]
  /\ out' = out \ RawFrames(notifier.mDataQ)
  /\ UNCHANGED <<picture, pics, evt_queue, sm, queue, data, encoder, shown, marred, history>>

\* A flushed or unwanted image: nothing is called or counted, the frame is released.
NotifierDrop ==
  /\ Listening("NEXT")
  /\ notifier.mDataQ # <<>> /\ notifier.active => "unsent" \in Failures
  /\ notifier' = [getCmd(notifier) EXCEPT !.mDataQ = Rest(@)]
  /\ out' = out \ RawFrames(First(notifier.mDataQ))
  /\ marred' = IF notifier.active
               THEN marred \cup {cb.image[1] : cb \in Range(First(notifier.mDataQ))}
               ELSE marred
  /\ UNCHANGED <<picture, pics, evt_queue, sm, queue, data, encoder, shown, history>>

\* With the last image the state machine is told, and waited for, first.
NotifierNext ==
  /\ Listening("NEXT") /\ notifier.mDataQ # <<>> /\ notifier.active
  /\ LET rcvd == notifier.rcvd + 1
     IN /\ notifier' = [getCmd(notifier) EXCEPT
                          !.mDataQ = Tail(@), !.cb = First(notifier.mDataQ), !.rcvd = rcvd,
                          !.at = IF rcvd = notifier.expected THEN "waiting" ELSE "calling"]
        /\ evt_queue' = IF rcvd = notifier.expected
                        THEN Append(evt_queue, [evt |-> "DONE", job |-> <<>>, ok |-> TRUE])
                        ELSE evt_queue
  /\ UNCHANGED <<picture, pics, sm, queue, data, encoder, out, shown, marred, history>>

mDataCb ==
  /\ notifier.at = "calling"
  /\ notifier' = [notifier EXCEPT !.at = "idle", !.cb = <<>>]
  /\ shown' = shown \cup {Head(notifier.cb).image}
  /\ out' = out \ RawFrames(notifier.cb)
  /\ UNCHANGED <<picture, pics, evt_queue, sm, queue, data, encoder, marred, history>>

-----------------------------------------------------------------------------
StateMachine == \/ SnapshotDone \/ ChannelStopped \/ NotHandled \/ JpegEvent
                \/ \E sent \in BOOLEAN : processJpegEvt(sent)
DataThread ==
  \/ DataStart \/ DataStop \/ DataReturn \/ DataNext
  \/ \E encoded, reprocessed \in BOOLEAN, raw \in RawOutcomes : Encode(encoded, raw, reprocessed)
Notifier == NotifierStart \/ NotifierStop \/ NotifierDrop \/ NotifierNext \/ mDataCb
Encoder == \E job \in encoder, ok \in BOOLEAN : jpegEvtHandle(job, ok)

Next ==
  \/ \E r \in Routes : start(r)
  \/ cancelPicture
  \/ \E s \in picture.due : processData(s)
  \/ processPPData
  \/ StateMachine \/ DataThread \/ Notifier \/ Encoder

\* Every thread runs, and the encoder and the reprocessing answer; nobody has to take
\* or cancel a picture.
Spec == /\ Init /\ [][Next]_vars
        /\ WF_vars(StateMachine) /\ WF_vars(DataThread) /\ WF_vars(Notifier)
        /\ WF_vars(Encoder) /\ WF_vars(processPPData)

-----------------------------------------------------------------------------
(* Properties.                                                             *)

\* Where frames are kept: the queues, the job in processJpegEvt, and raw frames that
\* are with the notifier.
Kept == queue.inputJpeg \o queue.ongoingJpeg \o queue.inputRaw \o queue.inputPP
        \o queue.ongoingPP \o sm.job
RawKept == RawFrames(notifier.mDataQ \o notifier.cb)

\* A frame that was received and not given back is in exactly one place, with the
\* reprocessed frame if it was reprocessed: every path through the post-processor, its
\* failures, the stop and the flush of the notifier included, gives it back once, but for
\* the raw frames processRawImageImpl forgets (leaked), and as long as no event has
\* taken another's job.
FramesKeptOnce ==
  ~confused =>
    /\ IsInjective(Kept)
    /\ \A job \in Range(Kept) : job # Source(job) => Source(job) \notin Range(Kept)
    /\ AllFrames(Kept) \cap (RawKept \cup leaked) = {} /\ RawKept \cap leaked = {}
    /\ out = AllFrames(Kept) \cup RawKept \cup leaked

\* No frame goes back to the camera while the encoder reads it: however answers, aborts
\* and failures overlap, and whenever pictures begin and are cancelled, if only every
\* event takes its own job.
NotReadWhileReturned == ~confused => \A job \in encoder : Frames(job) \subseteq out

\* "find a jpeg job from ongoing Jpeg queue by its job ID": an event takes its own job, or
\* none if that was aborted.
EventFindsItsJob == ~confused

\* A picture all frames of which have come, or that has ended, ends with all of its
\* images at the application, unless it was cancelled, an image failed or was not passed
\* on, or it was begun while something of an earlier one was still under way.
Complete(p) == picture.pic # p /\ {<<p, s>> : s \in 1..Shots[p]} \subseteq shown
Unfinished(p) == /\ p \notin marred /\ ~Complete(p)
                 /\ picture.pic = p => picture.due = {}
PictureEnds == []<>(\A p \in 1..pics : ~Unfinished(p))

\* "no ongoing jpeg job, we are fine to send jpeg encoding job": while an image is being
\* copied out of the output buffer, no job is writing to it.
OutputBufferFree == sm.at = "copying" => encoder = {}

=============================================================================
