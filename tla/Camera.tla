------------------------------- MODULE Camera -------------------------------
(***************************************************************************)
(* The camera object and its locks (mm_camera_interface.c, mm_camera.c,    *)
(* and the state machine of a channel in mm_camera_channel.c).             *)
(*                                                                         *)
(* Every call takes g_intf_lock, looks the camera up by its handle, takes  *)
(* its cam_lock and then lets g_intf_lock go; a call on a channel does the *)
(* same with cam_lock and ch_lock.  Stopping a channel joins the thread of *)
(* its callback with ch_lock held, and the callback gives its buffers back *)
(* with qbuf, which stops at cam_lock for that reason.  Closing frees the  *)
(* camera, deleting a channel clears its slot.                             *)
(***************************************************************************)
EXTENDS Integers, FiniteSets

CONSTANTS
  Manager,   \* the thread that has channels: the one of the HAL's state machine
  Others,    \* threads that make calls on the camera only
  Returners, \* threads of the HAL that give buffers back and that no stop joins: the
             \* streams' mProcTh, the post-processor's, the notifier, and the callback
             \* thread a failed start leaves behind
  Slots,     \* the slots of cam_obj->ch (MM_CAMERA_CHANNEL_MAX): 1..n
  Nobody,    \* no owner of a lock
  MaxOpens,  \* camera objects that are ever made (a bound)
  MaxHdl     \* channels that are ever added (a bound)

ASSUME CameraAssumption ==
  /\ IsFiniteSet(Others) /\ IsFiniteSet(Returners)
  /\ MaxOpens \in Nat \ {0} /\ MaxHdl \in Nat /\ Slots \subseteq Nat \ {0}

Clients == {Manager} \cup Others
Cb(s)   == <<"cb", s>>                 \* cb_thread of the channel in a slot
Cbs     == {Cb(s) : s \in Slots}
Threads == Clients \cup Cbs \cup Returners
ASSUME ThreadAssumption ==
  /\ Clients \cap Cbs = {} /\ Returners \cap (Clients \cup Cbs) = {}
  /\ Nobody \notin Threads

VARIABLES
  cam_obj,   \* g_cam_ctrl.cam_obj: handle of the camera object that is open, or 0
  ref_count, \* its references
  made,      \* camera objects made so far: handles 1..made
  live,      \* the objects not yet freed
  intf_lock, cam_lock, ch_lock,   \* their owners
  ch,        \* slots: [hdl, state]
  hdls,      \* channel handles given out
  th,        \* threads: where they are (at), in which call (op), for which camera
             \* object and channel handle, and the slot they found
  has,       \* what a client knows: its reference and its last handle of the camera,
             \* the channels it has added, and those of them it has started
  leaving    \* slots whose callback thread has been told to exit

vars == <<cam_obj, ref_count, made, live, intf_lock, cam_lock, ch_lock, ch, hdls, th, has,
          leaving>>
camera == <<cam_obj, ref_count, made, live>>
locks  == <<intf_lock, cam_lock, ch_lock>>

NoChannel == [hdl |-> 0, state |-> "NOTUSED"]
Resting(at) == [at |-> at, op |-> "none", cam |-> 0, hdl |-> 0, slot |-> 0]
CameraOps  == {"open", "close", "map", "add"}
ChannelOps == {"delete", "start", "stop", "request"}

Init ==
  /\ cam_obj = 0 /\ ref_count = 0 /\ made = 0 /\ live = {}
  /\ intf_lock = Nobody
  /\ cam_lock = [o \in 1..MaxOpens |-> Nobody]
  /\ ch_lock = [s \in Slots |-> Nobody]
  /\ ch = [s \in Slots |-> NoChannel] /\ hdls = 0
  /\ th = [t \in Threads |-> Resting(IF t \in Cbs THEN "none" ELSE "idle")]
  /\ has = [c \in Clients |-> [ref |-> FALSE, cam |-> 0, added |-> {}, active |-> {}]]
  /\ leaving = {}

-----------------------------------------------------------------------------
(* The calls a client may make: it closes what it opened, when its         *)
(* channels are deleted, and deletes what it has stopped.  A call may use  *)
(* the handle of a camera that is closed.                                  *)

Allowed(c, op, hdl) ==
  LET h == has[c] IN
  CASE op = "open"  -> ~h.ref
    [] op = "close" -> h.ref /\ h.added = {}
    [] op = "map"   -> h.cam # 0
    [] op = "add"   -> c = Manager /\ h.ref
    [] op \in {"start", "delete"} -> hdl \in h.added \ h.active
    [] op \in {"stop", "request"} -> hdl \in h.active

Call(c, op, hdl) ==
  /\ th[c].at = "idle" /\ Allowed(c, op, hdl)
  /\ op \notin ChannelOps => hdl = 0
  /\ th' = [th EXCEPT ![c] = [at |-> "intf", op |-> op, cam |-> has[c].cam,
                              hdl |-> hdl, slot |-> 0]]
  /\ UNCHANGED <<camera, locks, ch, hdls, has, leaving>>

\* A frame: the callback gives the buffer back.
Frame(s) ==
  /\ th[Cb(s)].at = "loop"
  /\ th' = [th EXCEPT ![Cb(s)].at = "intf", ![Cb(s)].op = "qbuf"]
  /\ UNCHANGED <<camera, locks, ch, hdls, has, leaving>>

\* A thread of the HAL gives a buffer back whenever it has done with it, with the
\* handles it got it with, whatever has become of the camera and the channel since.
GiveBack(r, hdl) ==
  /\ th[r].at = "idle" /\ has[Manager].cam # 0 /\ hdl \in 1..hdls
  /\ th' = [th EXCEPT ![r] = [at |-> "intf", op |-> "qbuf", cam |-> has[Manager].cam,
                              hdl |-> hdl, slot |-> 0]]
  /\ UNCHANGED <<camera, locks, ch, hdls, has, leaving>>

\* A call returns to where its thread came from.
Returned(t) == IF t \in Cbs THEN [th EXCEPT ![t].at = "loop"]
                            ELSE [th EXCEPT ![t] = Resting("idle")]

-----------------------------------------------------------------------------
(* Under g_intf_lock.                                                      *)

At(t, at) == th[t].at = at
Found(t)  == cam_obj # 0 /\ th[t].cam = cam_obj   \* get_camera_by_handler

\* mutant of Open: the reference is counted first
OpenCounts(t) ==
  /\ At(t, "intf") /\ intf_lock = Nobody /\ th[t].op = "open"
  /\ ref_count' = ref_count + 1
  /\ \/ cam_obj # 0 /\ has' = [has EXCEPT ![t].ref = TRUE, ![t].cam = cam_obj]
     \/ cam_obj = 0 /\ UNCHANGED has
  /\ th' = Returned(t)
  /\ UNCHANGED <<cam_obj, made, live, locks, ch, hdls, leaving>>

\* mutant of Open: opened already, but no reference more
OpenShares(t) ==
  /\ At(t, "intf") /\ intf_lock = Nobody /\ th[t].op = "open" /\ made < MaxOpens
  /\ made' = (IF cam_obj = 0 THEN made + 1 ELSE made)
  /\ cam_obj' = made' /\ ref_count' = 1 /\ live' = live \cup {made'}
  /\ has' = [has EXCEPT ![t].ref = TRUE, ![t].cam = made']
  /\ th' = Returned(t)
  /\ UNCHANGED <<locks, ch, hdls, leaving>>

\* camera_open: a reference more, or a new object, unless opening it fails.
Open(t) ==
  /\ At(t, "intf") /\ intf_lock = Nobody /\ th[t].op = "open"
  /\ \/ /\ cam_obj # 0 /\ ref_count' = ref_count + 1
        /\ has' = [has EXCEPT ![t].ref = TRUE, ![t].cam = cam_obj]
        /\ UNCHANGED <<cam_obj, made, live>>
     \/ /\ cam_obj = 0 /\ made < MaxOpens
        /\ made' = made + 1 /\ cam_obj' = made + 1 /\ ref_count' = 1
        /\ live' = live \cup {made + 1}
        /\ has' = [has EXCEPT ![t].ref = TRUE, ![t].cam = made + 1]
     \/ cam_obj = 0 /\ UNCHANGED <<camera, has>>
  /\ th' = Returned(t)
  /\ UNCHANGED <<locks, ch, hdls, leaving>>

NotFound(t) ==
  /\ At(t, "intf") /\ intf_lock = Nobody /\ th[t].op # "open" /\ ~Found(t)
  /\ th' = Returned(t)
  /\ UNCHANGED <<camera, locks, ch, hdls, has, leaving>>

\* mm_camera_intf_close: the last reference takes the object out of g_cam_ctrl.
Unref(t) ==
  /\ At(t, "intf") /\ intf_lock = Nobody /\ th[t].op = "close" /\ Found(t)
  /\ ref_count' = ref_count - 1
  /\ has' = [has EXCEPT ![t].ref = FALSE]
  /\ IF ref_count > 1
     THEN th' = Returned(t) /\ UNCHANGED <<cam_obj, intf_lock>>
     ELSE /\ cam_obj' = 0 /\ intf_lock' = t
          /\ th' = [th EXCEPT ![t].at = "cam"]
  /\ UNCHANGED <<made, live, cam_lock, ch_lock, ch, hdls, leaving>>

\* mutant of Enter: g_intf_lock is let go before cam_lock is taken
EnterUnlocked(t) ==
  /\ At(t, "intf") /\ intf_lock = Nobody /\ th[t].op \notin {"open", "close"} /\ Found(t)
  /\ th' = [th EXCEPT ![t].at = "cam"]
  /\ UNCHANGED <<camera, locks, ch, hdls, has, leaving>>
Enter(t) ==
  /\ At(t, "intf") /\ intf_lock = Nobody /\ th[t].op \notin {"open", "close"} /\ Found(t)
  /\ intf_lock' = t
  /\ th' = [th EXCEPT ![t].at = "cam"]
  /\ UNCHANGED <<camera, cam_lock, ch_lock, ch, hdls, has, leaving>>

-----------------------------------------------------------------------------
(* Under cam_lock.                                                         *)

LockCam(t) ==
  /\ At(t, "cam") /\ cam_lock[th[t].cam] = Nobody
  /\ cam_lock' = [cam_lock EXCEPT ![th[t].cam] = t]
  /\ intf_lock' = Nobody
  /\ th' = [th EXCEPT ![t].at = "camera"]
  /\ UNCHANGED <<camera, ch_lock, ch, hdls, has, leaving>>

CamUnlocked(t) == [cam_lock EXCEPT ![th[t].cam] = Nobody]
In(t, ops) == At(t, "camera") /\ th[t].op \in ops

\* mm_camera_close: frees the object.
Close(t) ==
  /\ In(t, {"close"})
  /\ live' = live \ {th[t].cam} /\ cam_lock' = CamUnlocked(t)
  /\ th' = Returned(t)
  /\ UNCHANGED <<cam_obj, ref_count, made, intf_lock, ch_lock, ch, hdls, has, leaving>>

\* mm_camera_map_buf: the answer of the server is waited for with cam_lock held.
MapSent(t) ==
  /\ In(t, {"map"})
  /\ th' = [th EXCEPT ![t].at = "server"]
  /\ UNCHANGED <<camera, locks, ch, hdls, has, leaving>>
Mapped(t) ==
  /\ At(t, "server")
  /\ cam_lock' = CamUnlocked(t) /\ th' = Returned(t)
  /\ UNCHANGED <<camera, intf_lock, ch_lock, ch, hdls, has, leaving>>

\* mm_camera_add_channel: the first slot not used, if any; MaxHdl bounds the handles.
AddChannel(t) ==
  LET free == {s \in Slots : ch[s].state = "NOTUSED"} IN
  /\ In(t, {"add"})
  /\ \/ (free = {} \/ hdls = MaxHdl) /\ UNCHANGED <<ch, hdls, has>>
     \/ /\ hdls < MaxHdl /\ hdls' = hdls + 1
        /\ \E s \in free :
             /\ \A other \in free : s <= other
             /\ ch' = [ch EXCEPT ![s] = [hdl |-> hdls + 1, state |-> "STOPPED"]]
        /\ has' = [has EXCEPT ![t].added = @ \cup {hdls + 1}]
  /\ cam_lock' = CamUnlocked(t) /\ th' = Returned(t)
  /\ UNCHANGED <<camera, intf_lock, ch_lock, leaving>>

\* get_channel_by_handler, for qbuf and for the calls that go on to ch_lock.  A client
\* deletes its channel last, so the channel is there; were it not, the call would hang
\* here and EveryCallReturns fail.  A returner's may be gone: nothing is done then.
SlotsOf(t) == {s \in Slots : ch[s].hdl = th[t].hdl}
FindChannel(t) ==
  /\ In(t, ChannelOps)
  /\ \E s \in SlotsOf(t) : th' = [th EXCEPT ![t].at = "ch", ![t].slot = s]
  /\ UNCHANGED <<camera, locks, ch, hdls, has, leaving>>
\* mutant of QbufUnlocked: qbuf takes ch_lock, as every other call does
QbufLocked(t) ==
  /\ In(t, {"qbuf"})
  /\ \E s \in SlotsOf(t) : th' = [th EXCEPT ![t].at = "ch", ![t].slot = s]
  /\ UNCHANGED <<camera, locks, ch, hdls, has, leaving>>
QbufUnlocked(t) ==
  /\ In(t, {"qbuf"})
  /\ \/ \E s \in SlotsOf(t) : th' = [th EXCEPT ![t].at = "qbuf", ![t].slot = s]
     \/ SlotsOf(t) = {} /\ th' = Returned(t)
  /\ cam_lock' = CamUnlocked(t)
  /\ UNCHANGED <<camera, intf_lock, ch_lock, ch, hdls, has, leaving>>

\* mm_channel_qbuf, with no lock of this module.
Qbuf(t) ==
  /\ At(t, "qbuf")
  /\ th' = Returned(t)
  /\ UNCHANGED <<camera, locks, ch, hdls, has, leaving>>

-----------------------------------------------------------------------------
(* Under ch_lock: mm_channel_fsm_fn, which lets it go.                     *)

LockCh(t) ==
  /\ At(t, "ch") /\ ch_lock[th[t].slot] = Nobody
  /\ ch_lock' = [ch_lock EXCEPT ![th[t].slot] = t]
  /\ cam_lock' = CamUnlocked(t)
  /\ th' = [th EXCEPT ![t].at = "fsm"]
  /\ UNCHANGED <<camera, intf_lock, ch, hdls, has, leaving>>

ChUnlocked(t) == [ch_lock EXCEPT ![th[t].slot] = Nobody]
State(t)      == ch[th[t].slot].state

\* An event the state does not know is only logged.
Unknown(t) == CASE th[t].op \in {"start", "delete"} -> State(t) # "STOPPED"
                [] th[t].op \in {"stop", "request"} -> State(t) # "ACTIVE"

Nothing(t) ==
  /\ At(t, "fsm") /\ th[t].op \in {"start", "stop", "request"}
  /\ Unknown(t) \/ th[t].op = "request"
  /\ ch_lock' = ChUnlocked(t) /\ th' = Returned(t)
  /\ UNCHANGED <<camera, intf_lock, cam_lock, ch, hdls, has, leaving>>

\* mm_channel_start launches the threads.  If it fails the channel stays STOPPED and
\* is not the client's to stop; the thread it launched is one of the Returners then.
Start(t) ==
  LET s == th[t].slot IN
  /\ At(t, "fsm") /\ th[t].op = "start" /\ ~Unknown(t)
  /\ ch_lock' = ChUnlocked(t)
  /\ \/ /\ ch' = [ch EXCEPT ![s].state = "ACTIVE"]
        /\ has' = [has EXCEPT ![t].active = @ \cup {th[t].hdl}]
        /\ th' = [Returned(t) EXCEPT ![Cb(s)] =
                    [Resting("loop") EXCEPT !.cam = th[t].cam, !.hdl = th[t].hdl]]
     \/ th' = Returned(t) /\ UNCHANGED <<ch, has>>
  /\ UNCHANGED <<camera, intf_lock, cam_lock, hdls, leaving>>

\* mm_channel_stop: the callback's thread is told to exit, and joined.
Stop(t) ==
  /\ At(t, "fsm") /\ th[t].op = "stop" /\ ~Unknown(t)
  /\ leaving' = leaving \cup {th[t].slot}
  /\ th' = [th EXCEPT ![t].at = "join"]
  /\ UNCHANGED <<camera, locks, ch, hdls, has>>
Exit(s) ==
  /\ s \in leaving /\ th[Cb(s)].at = "loop"
  /\ th' = [th EXCEPT ![Cb(s)] = Resting("none")]
  /\ leaving' = leaving \ {s}
  /\ UNCHANGED <<camera, locks, ch, hdls, has>>
NotJoined(t) == TRUE   \* mutant of Joined: the stop does not wait
Joined(t)    == th[Cb(th[t].slot)].at = "none"
Stopped(t) ==
  /\ At(t, "join") /\ Joined(t)
  /\ ch' = [ch EXCEPT ![th[t].slot].state = "STOPPED"]
  /\ has' = [has EXCEPT ![t].active = @ \ {th[t].hdl}]
  /\ ch_lock' = ChUnlocked(t) /\ th' = Returned(t)
  /\ UNCHANGED <<camera, intf_lock, cam_lock, hdls, leaving>>

\* mm_camera_del_channel: the state machine makes the slot NOTUSED and unlocks; the
\* slot is cleared after that, whatever the state machine said.
Release(t) ==
  /\ At(t, "fsm") /\ th[t].op = "delete"
  /\ ch' = IF Unknown(t) THEN ch ELSE [ch EXCEPT ![th[t].slot].state = "NOTUSED"]
  /\ ch_lock' = ChUnlocked(t)
  /\ th' = [th EXCEPT ![t].at = "clear"]
  /\ UNCHANGED <<camera, intf_lock, cam_lock, hdls, has, leaving>>
Clear(t) ==
  /\ At(t, "clear")
  /\ ch' = [ch EXCEPT ![th[t].slot] = NoChannel]
  /\ ch_lock' = ChUnlocked(t)
  /\ has' = [has EXCEPT ![t].added = @ \ {th[t].hdl}]
  /\ th' = Returned(t)
  /\ UNCHANGED <<camera, intf_lock, cam_lock, hdls, leaving>>

-----------------------------------------------------------------------------
UnderIntf(t) == Open(t) \/ NotFound(t) \/ Unref(t) \/ Enter(t)
UnderCam(t)  == \/ Close(t) \/ MapSent(t) \/ Mapped(t) \/ AddChannel(t)
                \/ FindChannel(t) \/ QbufUnlocked(t) \/ Qbuf(t)
UnderCh(t)   == Nothing(t) \/ Start(t) \/ Stop(t) \/ Stopped(t) \/ Release(t) \/ Clear(t)

Step(t) == UnderIntf(t) \/ LockCam(t) \/ UnderCam(t) \/ LockCh(t) \/ UnderCh(t)

Next == \/ \E c \in Clients, op \in CameraOps \cup ChannelOps, hdl \in 0..MaxHdl : Call(c, op, hdl)
        \/ \E s \in Slots : Frame(s) \/ Exit(s)
        \/ \E r \in Returners, hdl \in 1..MaxHdl : GiveBack(r, hdl)
        \/ \E t \in Threads : Step(t)

Spec == Init /\ [][Next]_vars

\* Threads go on and the server answers; a thread that waits for a lock gets it when
\* the lock is free again and again; a thread told to exit sees no frame after the last.
FairSpec ==
  /\ Spec
  /\ \A t \in Threads : SF_vars(Step(t))
  /\ SF_vars(\E s \in Slots : Exit(s))

-----------------------------------------------------------------------------
Ats == {"none", "idle", "loop", "intf", "cam", "camera", "server", "ch", "fsm", "qbuf",
        "join", "clear"}
Owners == Threads \cup {Nobody}

TypeOK ==
  /\ cam_obj \in 0..MaxOpens /\ made \in 0..MaxOpens /\ live \subseteq 1..made
  /\ ref_count \in 0..Cardinality(Clients)
  /\ intf_lock \in Owners
  /\ cam_lock \in [1..MaxOpens -> Owners] /\ ch_lock \in [Slots -> Owners]
  /\ ch \in [Slots -> [hdl : 0..MaxHdl, state : {"NOTUSED", "STOPPED", "ACTIVE"}]]
  /\ hdls \in 0..MaxHdl /\ leaving \subseteq Slots
  /\ th \in [Threads -> [at : Ats, op : CameraOps \cup ChannelOps \cup {"qbuf", "none"},
                         cam : 0..MaxOpens, hdl : 0..MaxHdl, slot : Slots \cup {0}]]
  /\ has \in [Clients -> [ref : BOOLEAN, cam : 0..MaxOpens,
                          added : SUBSET (1..MaxHdl), active : SUBSET (1..MaxHdl)]]

\* A returner's qbuf, past cam_lock, is kept out of nothing by nothing.  What it may
\* meet is in StreamPoll (NoStrayAccess); here it is left out of the properties.
Guarded(t) == t \in Returners => th[t].at # "qbuf"

\* No thread waits for a lock of a camera object, or works in it under a lock or in a
\* callback that is joined, after it was freed: whatever handle it came with, however
\* closes and calls overlap, and whichever threads still give buffers back.
Inside == {"cam", "camera", "server", "ch", "fsm", "join", "qbuf"}
NoUseAfterFree ==
  \A t \in Threads : Guarded(t) /\ th[t].at \in Inside => th[t].cam \in live

\* A thread that has found its channel and goes on to its ch_lock, or is the channel's
\* own callback giving a buffer back with no lock at all, works in that channel, not in
\* what the slot has become: the callback because the stop joins it.
NoUseAfterDelete ==
  \A t \in Threads : Guarded(t) /\ th[t].at \in {"ch", "fsm", "join", "qbuf"} =>
                       ch[th[t].slot].hdl = th[t].hdl /\ State(t) # "NOTUSED"

\* The references of an open camera are those the clients have.
RefsCounted ==
  cam_obj # 0 => ref_count = Cardinality({c \in Clients : has[c].ref /\ has[c].cam = cam_obj})

\* What a thread waits for, and that no threads wait for each other: stop joins a
\* callback that waits for cam_lock, but nobody who holds it waits for the ch_lock of
\* the stop.
WaitsFor(t) == CASE At(t, "intf") -> intf_lock
                 [] At(t, "cam")  -> cam_lock[th[t].cam]
                 [] At(t, "ch")   -> ch_lock[th[t].slot]
                 [] At(t, "join") -> Cb(th[t].slot)
                 [] OTHER -> Nobody
NoCircularWait ==
  \A S \in SUBSET Threads : S # {} => \E t \in S : WaitsFor(t) \notin S

\* Every call returns.
EveryCallReturns == \A c \in Clients : (th[c].at # "idle") ~> (th[c].at = "idle")

=============================================================================
