-------------------------- MODULE HalStateMachine --------------------------
(***************************************************************************)
(* The state machine of the camera HAL (QCameraStateMachine.cpp) with the  *)
(* functions of QCamera2HWI.cpp that its handlers call.                    *)
(*                                                                         *)
(* The framework's calls become requests in api_queue, and the caller      *)
(* waits with m_lock for the answer.  Callbacks of the stack below         *)
(* (metadata, JPEG) and of the notifier thread become events in evt_queue. *)
(* One thread handles them one at a time, requests first, and in each      *)
(* state adds, starts, stops and deletes channels.  The CAPTURE channel    *)
(* stands for the RAW one too.                                             *)
(***************************************************************************)
EXTENDS Integers, Sequences, FiniteSets

CONSTANTS
  Requests,   \* the calls the framework makes: records [evt, arg]
  Failures,   \* what may fail: a subset of FailureKinds
  MaxEvents   \* bound on the JPEG events and on the notifier's queue

FailureKinds == {"add", "start", "take", "prepare", "pp", "params"}

\* The calls, and what SET_PARAMS changes.
Apis == {"SET_PREVIEW_WINDOW", "SET_PARAMS", "QUERY", "RELEASE",
         "START_PREVIEW", "START_NODISPLAY_PREVIEW", "STOP_PREVIEW",
         "START_RECORDING", "STOP_RECORDING",
         "PREPARE_SNAPSHOT", "TAKE_PICTURE", "CANCEL_PICTURE"}
Changes == [zsl : BOOLEAN, hint : BOOLEAN, other : {"none", "restart", "bad"}]
IsCall(r) == r.evt \in Apis /\ r.arg \in IF r.evt = "SET_PARAMS" THEN Changes ELSE BOOLEAN

ASSUME HalAssumption == /\ \A r \in Requests : IsCall(r)
                        /\ Failures \subseteq FailureKinds /\ MaxEvents \in Nat \ {0}

Channels  == {"ZSL", "PREVIEW", "VIDEO", "SNAPSHOT", "CAPTURE"}
PicStates == {"PIC_TAKING", "VIDEO_PIC_TAKING", "PREVIEW_PIC_TAKING"}
RecStates == {"RECORDING", "VIDEO_PIC_TAKING"}
States    == {"PREVIEW_STOPPED", "PREVIEW_READY", "PREVIEWING", "PREPARE_SNAPSHOT"}
             \cup PicStates \cup RecStates
PreviewStates == States \ {"PREVIEW_STOPPED", "PREVIEW_READY", "PIC_TAKING"}

VARIABLES
  m_state,     \* the state
  hal,         \* what the handlers work on: m_channels; of the parameters, ZSL mode
               \* and recording hint, committed, _new, and the hint as last set by the
               \* user; mPreviewWindow; is the post-processor started?
  api_queue,   \* requests: [evt, arg]
  evt_queue,   \* names of events
  call,        \* the API the framework waits for
  m_apiResult, \* its result, once it is there: none, ok, failed
  server,      \* is the server preparing a snapshot?
  pictures,    \* pictures queued to the notifier
  notifier     \* the notifier thread: idle, waiting in processSyncEvt, answered

vars == <<m_state, hal, api_queue, evt_queue, call, m_apiResult, server, pictures, notifier>>
callback == <<pictures, notifier>>

NoApi == "NONE"

Init ==
  /\ m_state = "PREVIEW_STOPPED"
  /\ hal = [chan |-> [c \in Channels |-> "none"], zsl |-> FALSE, zslNew |-> FALSE,
            hint |-> FALSE, hintNew |-> FALSE, hintKey |-> FALSE,
            window |-> FALSE, pp |-> FALSE]
  /\ api_queue = <<>> /\ evt_queue = <<>>
  /\ call = NoApi /\ m_apiResult = "none"
  /\ server = FALSE /\ pictures = 0 /\ notifier = "idle"

-----------------------------------------------------------------------------
(* Channels.  Operators that may fail return the set of their outcomes.    *)

May(kind)   == IF kind \in Failures THEN BOOLEAN ELSE {TRUE}
Out(h, ok)  == [h |-> h, ok |-> ok]
AndThen(S, Op(_))   == UNION {IF o.ok THEN Op(o.h) ELSE {o} : o \in S}
OnFailure(S, Op(_)) == {IF o.ok THEN o ELSE Out(Op(o.h), FALSE) : o \in S}

With(h, C, v) ==
  [h EXCEPT !.chan = [c \in Channels |-> IF c \in C THEN v ELSE h.chan[c]]]
delChannels(h, C) == With(h, C, "none")

\* Adds the channels of seq in order; if one fails, it and those before are gone.
addChannels(h, seq) ==
  {Out(With(h, {seq[i] : i \in 1..Len(seq)}, "stopped"), TRUE)} \cup
  (IF "add" \in Failures
   THEN {Out(delChannels(h, {seq[i] : i \in 1..k}), FALSE) : k \in 1..Len(seq)}
   ELSE {})

\* Starting a channel that runs is logged as an invalid event, and succeeds.
startChannel(h, c) ==
  CASE h.chan[c] = "none"    -> {Out(h, FALSE)}
    [] h.chan[c] = "running" -> {Out(h, TRUE)}
    [] OTHER -> {Out(IF ok THEN With(h, {c}, "running") ELSE h, ok) : ok \in May("start")}

stopChannel(h, c) ==
  IF h.chan[c] = "none" THEN Out(h, FALSE) ELSE Out(With(h, {c}, "stopped"), TRUE)

\* The channels of the preview, as the committed parameters say now.
ZslPreview(h) == h.zsl /\ ~h.hint
PreviewChannels(h) == CASE ZslPreview(h) -> <<"ZSL">>
                        [] h.hint -> <<"SNAPSHOT", "VIDEO", "PREVIEW">>
                        [] OTHER  -> <<"PREVIEW">>

preparePreview(h)   == addChannels(h, PreviewChannels(h))
unpreparePreview(h) ==
  delChannels(h, {PreviewChannels(h)[i] : i \in 1..Len(PreviewChannels(h))})
startPreview(h) == startChannel(h, IF ZslPreview(h) THEN "ZSL" ELSE "PREVIEW")
stopPreview(h)  == unpreparePreview(h)   \* deleting a channel stops it

PrepareAndStart(h) ==
  AndThen(preparePreview(h), LAMBDA p : OnFailure(startPreview(p), unpreparePreview))

-----------------------------------------------------------------------------
(* Parameters.                                                             *)

\* updateParameters compares with what the user set last and keeps the changes
\* apart.  p.other stands for the other parameters: one may need a restart, or be bad.
updateParameters(h, p) ==
  [h EXCEPT !.zslNew  = p.zsl,
            !.hintNew = IF p.hint # h.hintKey THEN p.hint ELSE @]
needRestart(h, p) ==
  p.zsl # h.zslNew \/ (p.hint # h.hintKey /\ p.hint # h.hint) \/ p.other = "restart"

\* commitSetBatch: all that is new, whoever set it.
Committed(h) == [h EXCEPT !.zsl = h.zslNew, !.hint = h.hintNew]
commitParameters(h, p) ==
  {Out(IF ok THEN [Committed(h) EXCEPT !.hintKey = p.hint] ELSE h, ok) : ok \in May("params")}

\* The result of the commit is not looked at.
CommitAnyway(h, p) == {o.h : o \in commitParameters(h, p)}

-----------------------------------------------------------------------------
(* Pictures and recording.                                                 *)

ppStart(h) == {Out([h EXCEPT !.pp = ok \/ @], ok) : ok \in May("pp")}
ppStop(h)  == [h EXCEPT !.pp = FALSE]
ppAnyway(h) == {Out(o.h, TRUE) : o \in ppStart(h)}   \* its result is not looked at

addCapture(h) == addChannels(h, <<"CAPTURE">>)  \* mutant of toCapture
toCapture(h)  == addChannels(delChannels(h, {"PREVIEW"}), <<"CAPTURE">>)

takePicture(h) ==
  IF h.zsl
  THEN IF h.chan["ZSL"] = "none" THEN {Out(h, FALSE)}
       ELSE AndThen(ppAnyway(h), LAMBDA p :
              OnFailure({Out(p, ok) : ok \in May("take")}, ppStop))
  ELSE AndThen(toCapture(h), LAMBDA a :
         AndThen(ppAnyway(a), LAMBDA p :
           OnFailure(startChannel(p, "CAPTURE"),
                     LAMBDA f : delChannels(ppStop(f), {"CAPTURE"}))))

\* mutant of cancelPicture: a capture leaves the post-processor on
cancelCapture(h) == IF h.zsl THEN ppStop(h) ELSE delChannels(h, {"CAPTURE"})
cancelPicture(h) ==
  IF h.zsl THEN ppStop(h) ELSE delChannels(ppStop(h), {"CAPTURE"})

takeLiveSnapshot(h)   == AndThen(ppStart(h), LAMBDA p : startChannel(p, "SNAPSHOT"))
cancelLiveSnapshot(h) == stopChannel(ppStop(h), "SNAPSHOT").h

\* Without the hint the preview is restarted for recording: the PREVIEW channel,
\* whichever channel shows the preview.
SetHint(h) ==
  LET n == [h EXCEPT !.hintNew = TRUE] IN
  {IF ok THEN Committed(n) ELSE n : ok \in May("params")}
startRecording(h) ==
  LET ready == IF h.hint THEN {Out(h, TRUE)}
               ELSE UNION {AndThen(preparePreview(n), LAMBDA p : startChannel(p, "PREVIEW")) :
                           n \in SetHint(delChannels(h, {"PREVIEW"}))}
  IN AndThen(ready, LAMBDA r : startChannel(r, "VIDEO"))
stopShown(h) == stopChannel(h, "PREVIEW")  \* mutant of stopRecording
stopRecording(h) == stopChannel(h, "VIDEO")

-----------------------------------------------------------------------------
(* The states.  Each function returns the set of its outcomes: next state, *)
(* hal, result, and who gets it: the API's caller, the notifier, nobody.   *)

GoTo(S, okState, failState) ==
  {[st |-> IF o.ok THEN okState ELSE failState, h |-> o.h, ok |-> o.ok, to |-> "api"] : o \in S}
Answer(S, st)  == GoTo(S, st, st)
Done(h, st)    == Answer({Out(h, TRUE)}, st)
Invalid(h, st) == Answer({Out(h, FALSE)}, st)
Silent(h, st)  == {[st |-> st, h |-> h, ok |-> TRUE, to |-> "nobody"]}
EvtDone(h, st) == {[st |-> st, h |-> h, ok |-> TRUE, to |-> "notifier"]}

\* SET_PARAMS in every state; Restart says what is done when the preview has to be
\* restarted for the change.
SetParams(h, p, st, Restart(_)) ==
  LET u == updateParameters(h, p) IN
  CASE p.other = "bad" -> Invalid(u, st)
    [] p.other # "bad" /\ needRestart(h, p) -> Restart(u)
    [] OTHER -> Answer(commitParameters(u, p), st)

\* mutant of RestartPreview: prepared, never started
PrepareAgain(u, p, st, failState) ==
  GoTo(UNION {preparePreview(c) : c \in CommitAnyway(stopPreview(u), p)}, st, failState)
\* The preview is stopped, the change committed, the preview started again.
RestartPreview(u, p, st, failState) ==
  GoTo(UNION {PrepareAndStart(c) : c \in CommitAnyway(stopPreview(u), p)}, st, failState)

procEvtPreviewStoppedState(e, h) ==
  LET st == "PREVIEW_STOPPED"
      Commit(u) == Answer(commitParameters(u, e.arg), st)
  IN
  CASE e.evt = "SET_PREVIEW_WINDOW" -> Done([h EXCEPT !.window = e.arg], st)
    [] e.evt = "SET_PARAMS" -> SetParams(h, e.arg, st, Commit)
    [] e.evt = "START_PREVIEW" /\ ~h.window -> GoTo(preparePreview(h), "PREVIEW_READY", st)
    [] e.evt = "START_NODISPLAY_PREVIEW" \/ (e.evt = "START_PREVIEW" /\ h.window) ->
         GoTo(PrepareAndStart(h), "PREVIEWING", st)
    [] e.evt = "RELEASE" -> Done(delChannels(h, Channels), st)
    [] e.evt \in {"STOP_PREVIEW", "CANCEL_PICTURE", "QUERY"} -> Done(h, st)
    [] e.evt \in {"START_RECORDING", "STOP_RECORDING", "PREPARE_SNAPSHOT", "TAKE_PICTURE"} ->
         Invalid(h, st)
    [] OTHER -> Silent(h, st)

procEvtPreviewReadyState(e, h) ==
  LET st == "PREVIEW_READY"
      w  == [h EXCEPT !.window = e.arg]
      Restart(u) ==
        GoTo(UNION {preparePreview(c) : c \in CommitAnyway(unpreparePreview(u), e.arg)},
             st, "PREVIEW_STOPPED")
  IN
  CASE e.evt = "SET_PREVIEW_WINDOW" /\ ~e.arg -> Done(w, st)
    [] e.evt = "SET_PREVIEW_WINDOW" /\ e.arg ->
         GoTo(OnFailure(startPreview(w), unpreparePreview), "PREVIEWING", "PREVIEW_STOPPED")
    [] e.evt = "SET_PARAMS" -> SetParams(h, e.arg, st, Restart)
    [] e.evt = "STOP_PREVIEW" -> Done(unpreparePreview(h), "PREVIEW_STOPPED")
    [] e.evt \in {"START_PREVIEW", "QUERY"} -> Done(h, st)
    [] e.evt \in {"START_NODISPLAY_PREVIEW", "START_RECORDING", "STOP_RECORDING",
                  "PREPARE_SNAPSHOT", "TAKE_PICTURE", "CANCEL_PICTURE", "RELEASE"} ->
         Invalid(h, st)
    [] OTHER -> Silent(h, st)

\* Preparing a snapshot that the server accepts is answered by an event; a live
\* snapshot that fails is not answered.
procEvtPreviewingState(e, h) ==
  LET st == "PREVIEWING"
      Restart(u) == RestartPreview(u, e.arg, st, "PREVIEW_STOPPED")
  IN
  CASE e.evt = "SET_PARAMS" -> SetParams(h, e.arg, st, Restart)
    [] e.evt = "STOP_PREVIEW" -> Done(stopPreview(h), "PREVIEW_STOPPED")
    [] e.evt = "START_RECORDING" -> GoTo(startRecording(h), "RECORDING", st)
    [] e.evt = "PREPARE_SNAPSHOT" ->
         UNION {IF ok THEN Silent(h, "PREPARE_SNAPSHOT") ELSE Invalid(h, st) :
                ok \in May("prepare")}
    [] e.evt = "TAKE_PICTURE" /\ ~h.hint ->
         GoTo(takePicture(h), IF h.zsl THEN "PREVIEW_PIC_TAKING" ELSE "PIC_TAKING",
              "PREVIEW_STOPPED")
    [] e.evt = "TAKE_PICTURE" /\ h.hint ->
         UNION {IF o.ok THEN Done(o.h, "PREVIEW_PIC_TAKING") ELSE Silent(o.h, st) :
                o \in takeLiveSnapshot(h)}
    [] e.evt \in {"START_PREVIEW", "START_NODISPLAY_PREVIEW", "QUERY"} -> Done(h, st)
    [] e.evt \in {"SET_PREVIEW_WINDOW", "CANCEL_PICTURE", "STOP_RECORDING", "RELEASE"} ->
         Invalid(h, st)
    [] OTHER -> Silent(h, st)

\* mutant of procEvtPrepareSnapshotState: nobody is told
PreparedSilently(e, h) ==
  Silent(h, IF e.evt = "PREP_SNAPSHOT_DONE" THEN "PREVIEWING" ELSE "PREPARE_SNAPSHOT")
procEvtPrepareSnapshotState(e, h) ==
  LET st == "PREPARE_SNAPSHOT" IN
  CASE e.evt = "PREP_SNAPSHOT_DONE" -> Done(h, "PREVIEWING")
    [] e.evt \in {"PREPARE_SNAPSHOT", "JPEG_EVT_NOTIFY", "SNAPSHOT_DONE"} ->
         Silent(h, st)
    [] OTHER -> Invalid(h, st)

procEvtPicTakingState(e, h) ==
  LET st == "PIC_TAKING"
      Commit(u) == Answer(commitParameters(u, e.arg), st)
  IN
  CASE e.evt = "SET_PARAMS" -> SetParams(h, e.arg, st, Commit)
    [] e.evt \in {"STOP_PREVIEW", "CANCEL_PICTURE"} ->
         Done(cancelPicture(h), "PREVIEW_STOPPED")
    [] e.evt = "SNAPSHOT_DONE" -> EvtDone(cancelPicture(h), "PREVIEW_STOPPED")
    [] e.evt = "QUERY" -> Done(h, st)
    [] e.evt \in {"SET_PREVIEW_WINDOW", "TAKE_PICTURE", "START_RECORDING", "STOP_RECORDING",
                  "START_PREVIEW", "START_NODISPLAY_PREVIEW", "RELEASE"} -> Invalid(h, st)
    [] OTHER -> Silent(h, st)

procEvtRecordingState(e, h) ==
  LET st == "RECORDING"
      Refuse(u) == Invalid(u, st)
  IN
  CASE e.evt = "SET_PARAMS" -> SetParams(h, e.arg, st, Refuse)
    [] e.evt = "TAKE_PICTURE" -> GoTo(takeLiveSnapshot(h), "VIDEO_PIC_TAKING", st)
    [] e.evt = "STOP_RECORDING" -> Answer({stopRecording(h)}, "PREVIEWING")
    [] e.evt \in {"START_RECORDING", "PREPARE_SNAPSHOT", "QUERY"} -> Done(h, st)
    [] e.evt \in {"SET_PREVIEW_WINDOW", "CANCEL_PICTURE", "START_PREVIEW",
                  "START_NODISPLAY_PREVIEW", "STOP_PREVIEW", "RELEASE"} -> Invalid(h, st)
    [] OTHER -> Silent(h, st)

procEvtVideoPicTakingState(e, h) ==
  LET st == "VIDEO_PIC_TAKING"
      Refuse(u) == Invalid(u, st)
  IN
  CASE e.evt = "SET_PARAMS" -> SetParams(h, e.arg, st, Refuse)
    [] e.evt = "STOP_RECORDING" -> Answer({stopRecording(h)}, "PREVIEW_PIC_TAKING")
    [] e.evt = "CANCEL_PICTURE" -> Done(cancelLiveSnapshot(h), "RECORDING")
    [] e.evt = "SNAPSHOT_DONE" -> EvtDone(cancelLiveSnapshot(h), "RECORDING")
    [] e.evt = "QUERY" -> Done(h, st)
    [] e.evt \in {"SET_PREVIEW_WINDOW", "START_RECORDING", "START_PREVIEW",
                  "START_NODISPLAY_PREVIEW", "STOP_PREVIEW", "TAKE_PICTURE", "RELEASE"} ->
         Invalid(h, st)
    [] OTHER -> Silent(h, st)

\* START_RECORDING stops the video channel here.
procEvtPreviewPicTakingState(e, h) ==
  LET st == "PREVIEW_PIC_TAKING"
      cancelled  == IF h.zsl THEN cancelPicture(h) ELSE cancelLiveSnapshot(h)
      Restart(u) == RestartPreview(u, e.arg, st, "PIC_TAKING")
  IN
  CASE e.evt = "SET_PARAMS" -> SetParams(h, e.arg, st, Restart)
    [] e.evt = "CANCEL_PICTURE" -> Done(cancelled, "PREVIEWING")
    [] e.evt = "SNAPSHOT_DONE" -> EvtDone(cancelled, "PREVIEWING")
    [] e.evt = "STOP_PREVIEW" ->
         Done(unpreparePreview(stopChannel(cancelled, IF h.zsl THEN "ZSL" ELSE "PREVIEW").h),
              "PREVIEW_STOPPED")
    [] e.evt = "START_RECORDING" -> GoTo({stopRecording(h)}, "VIDEO_PIC_TAKING", st)
    [] e.evt = "QUERY" -> Done(h, st)
    [] e.evt \in {"STOP_RECORDING", "START_PREVIEW", "START_NODISPLAY_PREVIEW",
                  "TAKE_PICTURE", "SET_PREVIEW_WINDOW", "RELEASE"} -> Invalid(h, st)
    [] OTHER -> Silent(h, st)

stateMachine(e) ==
  CASE m_state = "PREVIEW_STOPPED"    -> procEvtPreviewStoppedState(e, hal)
    [] m_state = "PREVIEW_READY"      -> procEvtPreviewReadyState(e, hal)
    [] m_state = "PREVIEWING"         -> procEvtPreviewingState(e, hal)
    [] m_state = "PREPARE_SNAPSHOT"   -> procEvtPrepareSnapshotState(e, hal)
    [] m_state = "PIC_TAKING"         -> procEvtPicTakingState(e, hal)
    [] m_state = "RECORDING"          -> procEvtRecordingState(e, hal)
    [] m_state = "VIDEO_PIC_TAKING"   -> procEvtVideoPicTakingState(e, hal)
    [] m_state = "PREVIEW_PIC_TAKING" -> procEvtPreviewPicTakingState(e, hal)

-----------------------------------------------------------------------------
(* The thread: smEvtProcRoutine.                                           *)

HasRequest == api_queue # <<>>
NextCmd    == IF HasRequest THEN Head(api_queue) ELSE [evt |-> Head(evt_queue), arg |-> FALSE]

\* The semaphore counts both queues, and what a command does is done when its
\* answer is signalled: one step.
Handle ==
  /\ HasRequest \/ evt_queue # <<>>
  /\ IF HasRequest THEN api_queue' = Tail(api_queue) /\ UNCHANGED evt_queue
                   ELSE evt_queue' = Tail(evt_queue) /\ UNCHANGED api_queue
  /\ \E o \in stateMachine(NextCmd) :
       /\ m_state' = o.st /\ hal' = o.h
       /\ m_apiResult' = IF o.to # "api" THEN m_apiResult ELSE IF o.ok THEN "ok" ELSE "failed"
       /\ notifier' = IF o.to = "notifier" /\ notifier = "waiting" THEN "answered" ELSE notifier
       /\ server' = (server \/ (m_state = "PREVIEWING" /\ o.st = "PREPARE_SNAPSHOT"))
  /\ pictures' \in IF NextCmd.evt = "JPEG_EVT_NOTIFY" /\ m_state \in PicStates /\ pictures < MaxEvents
                   THEN {pictures, pictures + 1} ELSE {pictures}
  /\ UNCHANGED call

-----------------------------------------------------------------------------
(* The framework: one call at a time, its client object holds a lock.      *)

\* processAPI and the wait: m_lock is held from the request to the wait, and the
\* answer needs it.
Ask(r) == /\ api_queue' = Append(api_queue, r)
          /\ call' = r.evt /\ m_apiResult' = "none"
          /\ UNCHANGED <<m_state, hal, evt_queue, server, callback>>

Request(r) == call = NoApi /\ Ask(r)

\* take_picture prepares the snapshot and, whatever comes of it, takes the picture.
TakeNext == /\ call = "PREPARE_SNAPSHOT" /\ m_apiResult # "none"
            /\ Ask([evt |-> "TAKE_PICTURE", arg |-> FALSE])

Return ==
  /\ call # "PREPARE_SNAPSHOT" /\ m_apiResult # "none"
  /\ call' = NoApi /\ m_apiResult' = "none"
  /\ UNCHANGED <<m_state, hal, api_queue, evt_queue, server, callback>>

-----------------------------------------------------------------------------
(* Threads of the stack below, and the notifier.                           *)

\* The metadata callback: the server has prepared the snapshot.
PrepareDone ==
  /\ server /\ server' = FALSE
  /\ evt_queue' = Append(evt_queue, "PREP_SNAPSHOT_DONE")
  /\ UNCHANGED <<m_state, hal, api_queue, call, m_apiResult, callback>>

\* jpegEvtHandle: only while the post-processor runs, which aborts its jobs.
JpegEvent ==
  /\ hal.pp /\ Len(evt_queue) < MaxEvents
  /\ evt_queue' = Append(evt_queue, "JPEG_EVT_NOTIFY")
  /\ UNCHANGED <<m_state, hal, api_queue, call, m_apiResult, server, callback>>

\* mutant of NotifierTake: takes from an empty queue
NotifierTakeAny ==
  /\ notifier = "idle" /\ pictures' = pictures - 1
  /\ UNCHANGED <<m_state, hal, api_queue, evt_queue, call, m_apiResult, server, notifier>>
\* The notifier takes a picture.  With the last one expected it waits in
\* processSyncEvt until SNAPSHOT_DONE is answered, then calls the framework back.
NotifierTake ==
  /\ notifier = "idle" /\ pictures > 0
  /\ pictures' = pictures - 1
  /\ \/ UNCHANGED <<notifier, evt_queue>>
     \/ notifier' = "waiting" /\ evt_queue' = Append(evt_queue, "SNAPSHOT_DONE")
  /\ UNCHANGED <<m_state, hal, api_queue, call, m_apiResult, server>>

NotifierReturn ==
  /\ notifier = "answered" /\ notifier' = "idle"
  /\ UNCHANGED <<m_state, hal, api_queue, evt_queue, call, m_apiResult, server, pictures>>

-----------------------------------------------------------------------------
Next == \/ Handle \/ PrepareDone \/ JpegEvent \/ NotifierTake \/ NotifierReturn
        \/ TakeNext \/ Return
        \/ \E r \in Requests : Request(r)

Spec == Init /\ [][Next]_vars

\* The threads of the HAL go on, and the server prepares the snapshots it
\* accepted; the framework need not call, and no picture need come.
FairSpec == /\ Spec
            /\ WF_vars(Handle) /\ WF_vars(PrepareDone) /\ WF_vars(NotifierReturn)
            /\ WF_vars(TakeNext) /\ WF_vars(Return)

-----------------------------------------------------------------------------
(* Properties. *)

TypeOK ==
  /\ m_state \in States
  /\ hal \in [chan : [Channels -> {"none", "stopped", "running"}],
              zsl : BOOLEAN, zslNew : BOOLEAN,
              hint : BOOLEAN, hintNew : BOOLEAN, hintKey : BOOLEAN,
              window : BOOLEAN, pp : BOOLEAN]
  /\ Len(evt_queue) <= MaxEvents + 2
  /\ pictures \in 0..MaxEvents /\ notifier \in {"idle", "waiting", "answered"}
  /\ server \in BOOLEAN /\ m_apiResult \in {"none", "ok", "failed"}

Runs(c) == hal.chan[c] = "running"

\* Video is recorded only in the two recording states: no order of calls, pictures
\* and failures leaves the video channel running behind a state that says otherwise.
NoHiddenRecording == Runs("VIDEO") => m_state \in RecStates

\* In a state that shows a preview some channel with a preview stream runs, whatever
\* changes of ZSL mode and recording hint came in between (without failures).
PreviewRuns == m_state \in PreviewStates => Runs("ZSL") \/ Runs("PREVIEW")

\* The post-processor works only while a picture is being taken: every way out of
\* those states stops it (unless a start fails, or the application goes on with a
\* camera it has released, or with parameters that were refused).
PicturesOnly == hal.pp => m_state \in PicStates

\* In the state that takes a picture without a preview, the preview channel does not
\* run beside the capture channel: the sensor is in one mode.
CaptureAlone == m_state = "PIC_TAKING" => ~Runs("PREVIEW")

\* Two calls are never answered: take_picture while a picture is being taken (its
\* PREPARE_SNAPSHOT has no case in those states), and a live snapshot that fails in
\* the previewing state.
Unanswered(r) ==
  \/ r.evt = "PREPARE_SNAPSHOT" /\ m_state \in PicStates
  \/ r.evt = "TAKE_PICTURE" /\ m_state = "PREVIEWING" /\ hal.hint

\* Every other call of the framework gets its answer, in every state, whether a
\* handler or an event gives it.
EveryCallAnswered == (HasRequest /\ ~Unanswered(Head(api_queue))) ~> (m_apiResult # "none")

=============================================================================
