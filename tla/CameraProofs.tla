---------------------------- MODULE CameraProofs ----------------------------
(***************************************************************************)
(* Proofs about Camera: its types, and that nothing is used after it is    *)
(* freed or deleted, for any number of clients, slots, opens and channels, *)
(* and of threads that give buffers back whenever they like.               *)
(***************************************************************************)
EXTENDS Camera, FiniteSetTheorems, TLAPS

Holders == {c \in Clients : has[c].ref}

\* The calls a thread can be in, by where it is.
OpInv ==
  /\ \A t \in Cbs : /\ th[t].at \in {"none", "loop", "intf", "cam", "camera", "qbuf"}
                    /\ th[t].at \notin {"none", "loop"} => th[t].op = "qbuf"
  /\ \A r \in Returners : /\ th[r].at \in {"idle", "intf", "cam", "camera", "qbuf"}
                          /\ th[r].at # "idle" => th[r].op = "qbuf"
  /\ \A c \in Clients : /\ th[c].at \notin {"none", "loop", "qbuf"} /\ th[c].op # "qbuf"
                        /\ th[c].at # "idle" => th[c].op # "none"
                        /\ th[c].at \notin {"idle", "intf"} => th[c].op # "open"
                        /\ th[c].at = "server" => th[c].op = "map"
                        /\ th[c].at \in {"ch", "fsm", "join", "clear"} => th[c].op \in ChannelOps
                        /\ th[c].at = "join" => th[c].op = "stop"
                        /\ th[c].at = "clear" => th[c].op = "delete"

\* References: each is to the camera that is open.
RefInv ==
  /\ cam_obj # 0 => cam_obj \in live
  /\ ref_count = Cardinality(Holders)
  /\ \A c \in Clients : has[c].ref => cam_obj # 0 /\ has[c].cam = cam_obj
  /\ cam_obj # 0 => Holders # {}

\* Channels are the manager's, who has a reference while it has any.
AddedInv ==
  /\ \A c \in Clients \ {Manager} : has[c].added = {}
  /\ has[Manager].added # {} => has[Manager].ref
  /\ \A c \in Clients : has[c].active \subseteq has[c].added
  /\ \A h \in has[Manager].added : h <= hdls

\* A call in progress is one its client may still make.
CallInv ==
  \A c \in Clients : th[c].at # "idle" =>
    /\ th[c].op = "open" => ~has[c].ref
    /\ th[c].op = "close" /\ th[c].at = "intf" =>
         has[c].ref /\ has[c].cam = th[c].cam /\ has[c].added = {}
    /\ th[c].op = "add" => c = Manager /\ has[c].ref /\ has[c].cam = th[c].cam
    /\ th[c].op \in ChannelOps => th[c].hdl \in has[c].added /\ has[c].cam = th[c].cam
    /\ th[c].op \in {"start", "delete"} => th[c].hdl \notin has[c].active
    /\ th[c].op \in {"stop", "request"} => th[c].hdl \in has[c].active

\* The slots hold the manager's channels, each in the state the manager knows, but for
\* one that is about to be cleared.
SlotInv ==
  /\ \A s, r \in Slots : ch[s].hdl = ch[r].hdl /\ ch[s].hdl # 0 => s = r
  /\ \A s \in Slots : /\ ch[s].hdl # 0 => ch[s].hdl \in has[Manager].added
                      /\ ch[s].state = "ACTIVE" <=> ch[s].hdl \in has[Manager].active
                      /\ ch[s].hdl = 0 => ch[s].state = "NOTUSED"
                      /\ ch[s].state = "NOTUSED" /\ ch[s].hdl # 0 =>
                           th[Manager].at = "clear" /\ th[Manager].slot = s
  /\ \A c \in Clients : th[c].at \in {"ch", "fsm", "join", "clear"} =>
                          th[c].slot \in Slots /\ ch[th[c].slot].hdl = th[c].hdl
  /\ \A s \in Slots : th[Cb(s)].at # "none" =>
                        /\ ch[s].hdl = th[Cb(s)].hdl
                        /\ ch[s].hdl \in has[Manager].active
                        /\ th[Cb(s)].cam = cam_obj
                        /\ th[Cb(s)].at = "qbuf" => th[Cb(s)].slot = s

\* Who holds g_intf_lock and the cam_locks.
LockInv ==
  \A t \in Threads : /\ th[t].at = "cam" => intf_lock = t
                     /\ th[t].at \in {"camera", "server", "ch"} => cam_lock[th[t].cam] = t

\* An object that is being closed cannot be found any more, and nobody is on the way
\* to its lock.
CloseInv ==
  \A t \in Clients : th[t].op = "close" /\ th[t].at \in {"cam", "camera"} =>
    /\ th[t].cam # cam_obj
    /\ \A u \in Threads \ {t} : th[u].at = "cam" => th[u].cam # th[t].cam

Inv == /\ TypeOK /\ OpInv /\ RefInv /\ AddedInv /\ CallInv /\ SlotInv /\ LockInv
       /\ CloseInv /\ NoUseAfterFree

-----------------------------------------------------------------------------
(* Steps of one thread.                                                    *)

ThOK == th \in [Threads -> [at : Ats, op : CameraOps \cup ChannelOps \cup {"qbuf", "none"},
                           cam : 0..MaxOpens, hdl : 0..MaxHdl, slot : Slots \cup {0}]]

OthersStay(t) == \A u \in Threads \ {t} : th'[u] = th[u]

\* The thread goes on in its call.
GoesOn(t, at) ==
  /\ OthersStay(t)
  /\ th'[t].at = at /\ th'[t].op = th[t].op
  /\ th'[t].cam = th[t].cam /\ th'[t].hdl = th[t].hdl

\* Its call returns.
Rests(t) ==
  /\ OthersStay(t)
  /\ t \notin Cbs => th'[t].at = "idle" /\ th'[t].op = "none"
  /\ t \in Cbs => GoesOn(t, "loop")

\* What Clients, Cbs, Returners and Threads have to do with each other.
LEMMA ThreadFacts ==
  /\ Manager \in Clients /\ Clients \subseteq Threads /\ Cbs \subseteq Threads
  /\ Returners \subseteq Threads
  /\ \A s \in Slots : Cb(s) \in Cbs
  /\ \A s, r \in Slots : Cb(s) = Cb(r) => s = r
  /\ \A t \in Threads : t \in Clients \/ t \in Cbs \/ t \in Returners
  /\ \A t \in Returners : t \notin Clients /\ t \notin Cbs
  /\ \A t \in Cbs : t \notin Clients /\ \E s \in Slots : t = Cb(s)
  /\ Nobody \notin Threads
  /\ 0 \notin Slots
  BY ThreadAssumption, CameraAssumption DEF Threads, Clients, Cbs, Cb

\* A step that only changes where a thread is.
LEMMA MoveFacts ==
  ASSUME TypeOK, NEW t \in Threads, NEW at \in Ats, th' = [th EXCEPT ![t].at = at]
  PROVE  GoesOn(t, at) /\ th'[t].slot = th[t].slot /\ ThOK'
<1> USE DEF TypeOK
<1>1. GoesOn(t, at) /\ th'[t].slot = th[t].slot
  BY DEF GoesOn, OthersStay
<1>2. ThOK'
  <2> DEFINE new == [th[t] EXCEPT !.at = at]
  <2>1. new \in [at : Ats, op : CameraOps \cup ChannelOps \cup {"qbuf", "none"},
                 cam : 0..MaxOpens, hdl : 0..MaxHdl, slot : Slots \cup {0}]
    <3>1. th[t] \in [at : Ats, op : CameraOps \cup ChannelOps \cup {"qbuf", "none"},
                     cam : 0..MaxOpens, hdl : 0..MaxHdl, slot : Slots \cup {0}]
      OBVIOUS
    <3> HIDE DEF TypeOK
    <3> QED BY <3>1
  <2>2. th' = [th EXCEPT ![t] = new]
    OBVIOUS
  <2> HIDE DEF new
  <2> QED BY <2>1, <2>2 DEF ThOK
<1> QED BY <1>1, <1>2

\* A step in which a thread finds its slot.
LEMMA FindFacts ==
  ASSUME TypeOK, NEW t \in Threads, NEW at \in Ats, NEW s \in Slots,
         th' = [th EXCEPT ![t].at = at, ![t].slot = s]
  PROVE  GoesOn(t, at) /\ th'[t].slot = s /\ ThOK'
<1> USE DEF TypeOK
<1> DEFINE mid == [th EXCEPT ![t].at = at]
<1>1. GoesOn(t, at) /\ th'[t].slot = s
  BY DEF GoesOn, OthersStay
<1>2. ThOK'
  <2>1. mid \in [Threads -> [at : Ats, op : CameraOps \cup ChannelOps \cup {"qbuf", "none"},
                            cam : 0..MaxOpens, hdl : 0..MaxHdl, slot : Slots \cup {0}]]
    OBVIOUS
  <2>2. th' = [mid EXCEPT ![t].slot = s]
    BY <2>1
  <2> HIDE DEF mid
  <2> SUFFICES ASSUME NEW u \in Threads
               PROVE  th'[u] \in [at : Ats, op : CameraOps \cup ChannelOps \cup {"qbuf", "none"},
                                 cam : 0..MaxOpens, hdl : 0..MaxHdl, slot : Slots \cup {0}]
    BY <2>1, <2>2 DEF ThOK
  <2>3. CASE u = t
    <3>1. th'[u] = [mid[t] EXCEPT !.slot = s]
      BY <2>1, <2>2, <2>3
    <3> QED BY <2>1, <3>1
  <2>4. CASE u # t
    BY <2>1, <2>2, <2>4
  <2> QED BY <2>3, <2>4
<1> QED BY <1>1, <1>2

\* Returned ends the call of its thread and moves no other.
LEMMA RestFacts ==
  ASSUME TypeOK, NEW t \in Threads, th' = Returned(t)
  PROVE  Rests(t) /\ ThOK'
<1> USE ThreadFacts
<1>1. CASE t \in Cbs
  <2>1. th' = [th EXCEPT ![t].at = "loop"]
    BY <1>1 DEF Returned
  <2> QED BY <1>1, <2>1, MoveFacts DEF Rests, GoesOn, Ats
<1>2. CASE t \notin Cbs
  <2>1. th' = [th EXCEPT ![t] = Resting("idle")]
    BY <1>2 DEF Returned
  <2>2. OthersStay(t) /\ th'[t].at = "idle" /\ th'[t].op = "none"
    BY <2>1 DEF OthersStay, TypeOK, Resting
  <2>3. ThOK'
    BY <2>1, CameraAssumption DEF ThOK, TypeOK, Resting, Ats
  <2> QED BY <1>2, <2>2, <2>3 DEF Rests
<1> QED BY <1>1, <1>2

-----------------------------------------------------------------------------
(* What a step that only moves a thread preserves.                         *)

\* The references, when no client gains or loses one.
LEMMA RefKept ==
  ASSUME RefInv, UNCHANGED <<cam_obj, ref_count, has>>, cam_obj # 0 => cam_obj \in live'
  PROVE  RefInv'
  BY DEF RefInv, Holders

\* The channels of the clients, when none is added or deleted.
LEMMA AddedKept ==
  ASSUME AddedInv, UNCHANGED <<has, hdls>>
  PROVE  AddedInv'
  BY DEF AddedInv

\* The calls in progress, when one of them goes on or returns.
LEMMA CallKept ==
  ASSUME CallInv, OpInv, NEW t \in Threads, UNCHANGED has,
         \/ Rests(t)
         \/ \E at \in Ats \ {"intf", "idle"} : th[t].at # "idle" /\ GoesOn(t, at)
  PROVE  CallInv'
<1> USE ThreadFacts
<1> SUFFICES ASSUME NEW c \in Clients, th'[c].at # "idle"
             PROVE  CallInv!(c)'
  BY DEF CallInv
<1>1. CASE c # t
  BY <1>1 DEF CallInv, Rests, GoesOn, OthersStay
<1>2. CASE c = t
  BY <1>2 DEF CallInv, Rests, GoesOn
<1> QED BY <1>1, <1>2

\* The slot a thread has found, and where the callback of a slot is, stay true.
LEMMA SlotKept ==
  ASSUME SlotInv, OpInv, NEW t \in Threads, UNCHANGED <<ch, has, cam_obj>>,
         \/ Rests(t)
         \/ \E at \in Ats \ {"clear"} : GoesOn(t, at),
         th[t].at \notin {"clear", "none"},
         th'[t].at \in {"ch", "fsm", "join"} =>
           th'[t].slot \in Slots /\ ch[th'[t].slot].hdl = th[t].hdl,
         \A s \in Slots : t = Cb(s) /\ th'[t].at = "qbuf" => th'[t].slot = s
  PROVE  SlotInv'
<1> USE ThreadFacts
<1>1. \A s, r \in Slots : ch'[s].hdl = ch'[r].hdl /\ ch'[s].hdl # 0 => s = r
  BY DEF SlotInv
<1>2. ASSUME NEW s \in Slots
      PROVE  /\ ch'[s].hdl # 0 => ch'[s].hdl \in has'[Manager].added
             /\ ch'[s].state = "ACTIVE" <=> ch'[s].hdl \in has'[Manager].active
             /\ ch'[s].hdl = 0 => ch'[s].state = "NOTUSED"
             /\ ch'[s].state = "NOTUSED" /\ ch'[s].hdl # 0 =>
                  th'[Manager].at = "clear" /\ th'[Manager].slot = s
  BY <1>2 DEF SlotInv, Rests, GoesOn, OthersStay
<1>3. ASSUME NEW c \in Clients, th'[c].at \in {"ch", "fsm", "join", "clear"}
      PROVE  th'[c].slot \in Slots /\ ch'[th'[c].slot].hdl = th'[c].hdl
  BY <1>3 DEF SlotInv, Rests, GoesOn, OthersStay
<1>4. ASSUME NEW s \in Slots, th'[Cb(s)].at # "none"
      PROVE  /\ ch'[s].hdl = th'[Cb(s)].hdl
             /\ ch'[s].hdl \in has'[Manager].active
             /\ th'[Cb(s)].cam = cam_obj'
             /\ th'[Cb(s)].at = "qbuf" => th'[Cb(s)].slot = s
  <2>1. CASE t = Cb(s)
    BY <1>4, <2>1 DEF SlotInv, Rests, GoesOn
  <2>2. CASE t # Cb(s)
    BY <1>4, <2>2 DEF SlotInv, Rests, GoesOn, OthersStay
  <2> QED BY <2>1, <2>2
<1> QED BY <1>1, <1>2, <1>3, <1>4 DEF SlotInv

-----------------------------------------------------------------------------
(* Steps that only move a thread and take or let go locks.                 *)

\* NotFound preserves the invariant.
LEMMA NotFoundStep ==
  ASSUME Inv, NEW t \in Threads, NotFound(t)
  PROVE  Inv'
<1> USE ThreadFacts DEF Inv
<1>1. Rests(t) /\ ThOK'
  BY RestFacts DEF NotFound
<1>2. /\ th[t].at = "intf"
      /\ UNCHANGED <<cam_obj, ref_count, made, live, ch, hdls, has>>
  BY DEF NotFound, At, Found, camera
<1>3. TypeOK'
  BY <1>1, <1>2 DEF TypeOK, ThOK, NotFound, At, Found, Owners, locks
<1>4. OpInv'
  BY <1>1, <1>2 DEF OpInv, Rests, GoesOn, OthersStay, NotFound, At, Found
<1>5. RefInv' /\ AddedInv'
  BY <1>2, RefKept, AddedKept DEF RefInv
<1>6. CallInv'
  BY <1>1, <1>2, CallKept DEF Ats
<1>7. SlotInv'
  BY <1>1, <1>2, SlotKept DEF Rests, GoesOn, Ats, SlotInv, OpInv
<1>8. LockInv'
  BY <1>1, <1>2
     DEF LockInv, NoUseAfterFree, Guarded, Inside, TypeOK, Rests, GoesOn, OthersStay, NotFound, At, Found, locks
<1>9. CloseInv'
  BY <1>1, <1>2 DEF CloseInv, LockInv, OpInv, Rests, GoesOn, OthersStay, NotFound, At, Found
<1>10. NoUseAfterFree'
  BY <1>1, <1>2
     DEF NoUseAfterFree, Guarded, Inside, RefInv, OpInv, Rests, GoesOn, OthersStay, NotFound, At, Found
<1> QED BY <1>3, <1>4, <1>5, <1>6, <1>7, <1>8, <1>9, <1>10

\* Enter preserves the invariant.
LEMMA EnterStep ==
  ASSUME Inv, NEW t \in Threads, Enter(t)
  PROVE  Inv'
<1> USE ThreadFacts DEF Inv
<1>1. GoesOn(t, "cam") /\ th'[t].slot = th[t].slot /\ ThOK'
  BY MoveFacts DEF Enter, Ats
<1>2. /\ th[t].at = "intf"
      /\ UNCHANGED <<cam_obj, ref_count, made, live, ch, hdls, has>>
  BY DEF Enter, At, Found, camera
<1>3. TypeOK'
  BY <1>1, <1>2 DEF TypeOK, ThOK, Enter, At, Found, Owners, locks
<1>4. OpInv'
  BY <1>1, <1>2 DEF OpInv, Rests, GoesOn, OthersStay, Enter, At, Found
<1>5. RefInv' /\ AddedInv'
  BY <1>2, RefKept, AddedKept DEF RefInv
<1>6. CallInv'
  BY <1>1, <1>2, CallKept DEF Ats
<1>7. SlotInv'
  BY <1>1, <1>2, SlotKept DEF Rests, GoesOn, Ats, SlotInv, OpInv
<1>8. LockInv'
  BY <1>1, <1>2
     DEF LockInv, NoUseAfterFree, Guarded, Inside, TypeOK, Rests, GoesOn, OthersStay, Enter, At, Found, locks
<1>9. CloseInv'
  BY <1>1, <1>2 DEF CloseInv, LockInv, OpInv, Rests, GoesOn, OthersStay, Enter, At, Found
<1>10. NoUseAfterFree'
  BY <1>1, <1>2
     DEF NoUseAfterFree, Guarded, Inside, RefInv, OpInv, Rests, GoesOn, OthersStay, Enter, At, Found
<1> QED BY <1>3, <1>4, <1>5, <1>6, <1>7, <1>8, <1>9, <1>10

\* LockCam preserves the invariant.
LEMMA LockCamStep ==
  ASSUME Inv, NEW t \in Threads, LockCam(t)
  PROVE  Inv'
<1> USE ThreadFacts DEF Inv
<1>1. GoesOn(t, "camera") /\ th'[t].slot = th[t].slot /\ ThOK'
  BY MoveFacts DEF LockCam, Ats
<1>2. /\ th[t].at = "cam"
      /\ UNCHANGED <<cam_obj, ref_count, made, live, ch, hdls, has>>
  BY DEF LockCam, At, camera
<1>3. TypeOK'
  BY <1>1, <1>2 DEF TypeOK, ThOK, LockCam, At, Owners, locks
<1>4. OpInv'
  BY <1>1, <1>2 DEF OpInv, Rests, GoesOn, OthersStay, LockCam, At
<1>5. RefInv' /\ AddedInv'
  BY <1>2, RefKept, AddedKept DEF RefInv
<1>6. CallInv'
  BY <1>1, <1>2, CallKept DEF Ats
<1>7. SlotInv'
  BY <1>1, <1>2, SlotKept DEF Rests, GoesOn, Ats, SlotInv, OpInv
<1>8. LockInv'
  BY <1>1, <1>2
     DEF LockInv, NoUseAfterFree, Guarded, Inside, TypeOK, Rests, GoesOn, OthersStay, LockCam, At, locks
<1>9. CloseInv'
  BY <1>1, <1>2 DEF CloseInv, LockInv, OpInv, Rests, GoesOn, OthersStay, LockCam, At
<1>10. NoUseAfterFree'
  BY <1>1, <1>2
     DEF NoUseAfterFree, Guarded, Inside, RefInv, OpInv, Rests, GoesOn, OthersStay, LockCam, At
<1> QED BY <1>3, <1>4, <1>5, <1>6, <1>7, <1>8, <1>9, <1>10

\* MapSent preserves the invariant.
LEMMA MapSentStep ==
  ASSUME Inv, NEW t \in Threads, MapSent(t)
  PROVE  Inv'
<1> USE ThreadFacts DEF Inv
<1>1. GoesOn(t, "server") /\ th'[t].slot = th[t].slot /\ ThOK'
  BY MoveFacts DEF MapSent, Ats
<1>2. /\ th[t].at = "camera"
      /\ UNCHANGED <<cam_obj, ref_count, made, live, ch, hdls, has>>
  BY DEF MapSent, At, In, camera
<1>3. TypeOK'
  BY <1>1, <1>2 DEF TypeOK, ThOK, MapSent, At, In, Owners, locks
<1>4. OpInv'
  BY <1>1, <1>2 DEF OpInv, Rests, GoesOn, OthersStay, MapSent, At, In
<1>5. RefInv' /\ AddedInv'
  BY <1>2, RefKept, AddedKept DEF RefInv
<1>6. CallInv'
  BY <1>1, <1>2, CallKept DEF Ats
<1>7. SlotInv'
  BY <1>1, <1>2, SlotKept DEF Rests, GoesOn, Ats, SlotInv, OpInv
<1>8. LockInv'
  BY <1>1, <1>2
     DEF LockInv, NoUseAfterFree, Guarded, Inside, TypeOK, Rests, GoesOn, OthersStay, MapSent, At, In, locks
<1>9. CloseInv'
  BY <1>1, <1>2 DEF CloseInv, LockInv, OpInv, Rests, GoesOn, OthersStay, MapSent, At, In
<1>10. NoUseAfterFree'
  BY <1>1, <1>2
     DEF NoUseAfterFree, Guarded, Inside, RefInv, OpInv, Rests, GoesOn, OthersStay, MapSent, At, In
<1> QED BY <1>3, <1>4, <1>5, <1>6, <1>7, <1>8, <1>9, <1>10

\* Mapped preserves the invariant.
LEMMA MappedStep ==
  ASSUME Inv, NEW t \in Threads, Mapped(t)
  PROVE  Inv'
<1> USE ThreadFacts DEF Inv
<1>1. Rests(t) /\ ThOK'
  BY RestFacts DEF Mapped
<1>2. /\ th[t].at = "server"
      /\ UNCHANGED <<cam_obj, ref_count, made, live, ch, hdls, has>>
  BY DEF Mapped, At, CamUnlocked, camera
<1>3. TypeOK'
  BY <1>1, <1>2 DEF TypeOK, ThOK, Mapped, At, CamUnlocked, Owners, locks
<1>4. OpInv'
  BY <1>1, <1>2 DEF OpInv, Rests, GoesOn, OthersStay, Mapped, At, CamUnlocked
<1>5. RefInv' /\ AddedInv'
  BY <1>2, RefKept, AddedKept DEF RefInv
<1>6. CallInv'
  BY <1>1, <1>2, CallKept DEF Ats
<1>7. SlotInv'
  BY <1>1, <1>2, SlotKept DEF Rests, GoesOn, Ats, SlotInv, OpInv
<1>8. LockInv'
  <2>1. \A u \in Threads \ {t} : th[u].at \in {"camera", "server", "ch"} => th[u].cam # th[t].cam
    BY <1>2 DEF LockInv
  <2>2. /\ intf_lock' = intf_lock
        /\ \A o \in (1..MaxOpens) \ {th[t].cam} : cam_lock'[o] = cam_lock[o]
    BY DEF Mapped, CamUnlocked, TypeOK
  <2>3. \A u \in Threads : th[u].at \in {"camera", "server", "ch"} => th[u].cam \in 1..MaxOpens
    BY DEF NoUseAfterFree, Guarded, Inside, TypeOK
  <2> QED BY <1>1, <2>1, <2>2, <2>3 DEF LockInv, Rests, GoesOn, OthersStay
<1>9. CloseInv'
  BY <1>1, <1>2 DEF CloseInv, LockInv, OpInv, Rests, GoesOn, OthersStay, Mapped, At, CamUnlocked
<1>10. NoUseAfterFree'
  BY <1>1, <1>2
     DEF NoUseAfterFree, Guarded, Inside, RefInv, OpInv, Rests, GoesOn, OthersStay, Mapped, At, CamUnlocked
<1> QED BY <1>3, <1>4, <1>5, <1>6, <1>7, <1>8, <1>9, <1>10

\* FindChannel preserves the invariant.
LEMMA FindChannelStep ==
  ASSUME Inv, NEW t \in Threads, FindChannel(t)
  PROVE  Inv'
<1> USE ThreadFacts DEF Inv
<1>1. /\ GoesOn(t, "ch") /\ ThOK'
      /\ th'[t].slot \in Slots /\ ch[th'[t].slot].hdl = th[t].hdl
  <2>1. PICK s \in Slots : /\ ch[s].hdl = th[t].hdl
                         /\ th' = [th EXCEPT ![t].at = "ch", ![t].slot = s]
    BY DEF FindChannel, SlotsOf
  <2>2. GoesOn(t, "ch") /\ th'[t].slot = s /\ ThOK'
    BY <2>1, FindFacts DEF Ats
  <2> QED BY <2>1, <2>2
<1>2. /\ th[t].at = "camera"
      /\ th[t].op \in ChannelOps /\ UNCHANGED <<locks, leaving>>
      /\ UNCHANGED <<cam_obj, ref_count, made, live, ch, hdls, has>>
  BY DEF FindChannel, At, In, SlotsOf, ChannelOps, camera
<1>3. TypeOK'
  BY <1>1, <1>2 DEF TypeOK, ThOK, ChannelOps, locks, Owners, locks
<1>4. OpInv'
  BY <1>1, <1>2 DEF OpInv, Rests, GoesOn, OthersStay, ChannelOps, locks
<1>5. RefInv' /\ AddedInv'
  BY <1>2, RefKept, AddedKept DEF RefInv
<1>6. CallInv'
  BY <1>1, <1>2, CallKept DEF Ats
<1>7. SlotInv'
  BY <1>1, <1>2, SlotKept DEF Rests, GoesOn, Ats, SlotInv, OpInv
<1>8. LockInv'
  <2>1. \A u \in Threads \ {t} : th[u].at \in {"camera", "server", "ch"} => th[u].cam # th[t].cam
    BY <1>2 DEF LockInv
  <2>2. /\ intf_lock' = intf_lock
        /\ \A o \in (1..MaxOpens) \ {th[t].cam} : cam_lock'[o] = cam_lock[o]
        /\ th'[t].at = "ch" => cam_lock' = cam_lock
    BY <1>1, <1>2 DEF TypeOK, locks, GoesOn
  <2>3. \A u \in Threads : th[u].at \in {"camera", "server", "ch"} => th[u].cam \in 1..MaxOpens
    BY DEF NoUseAfterFree, Guarded, Inside, TypeOK
  <2>4. th'[t].at = "ch" => cam_lock[th[t].cam] = t
    BY <1>2 DEF LockInv
  <2> QED BY <1>1, <2>1, <2>2, <2>3, <2>4 DEF LockInv, GoesOn, OthersStay
<1>9. CloseInv'
  BY <1>1, <1>2 DEF CloseInv, LockInv, OpInv, Rests, GoesOn, OthersStay, ChannelOps, locks
<1>10. NoUseAfterFree'
  BY <1>1, <1>2
     DEF NoUseAfterFree, Guarded, Inside, RefInv, OpInv, Rests, GoesOn, OthersStay, ChannelOps, locks
<1> QED BY <1>3, <1>4, <1>5, <1>6, <1>7, <1>8, <1>9, <1>10

\* The two outcomes of get_channel_by_handler for qbuf.
QbufFound(t) ==
  /\ In(t, {"qbuf"})
  /\ \E s \in SlotsOf(t) : th' = [th EXCEPT ![t].at = "qbuf", ![t].slot = s]
  /\ cam_lock' = CamUnlocked(t)
  /\ UNCHANGED <<camera, intf_lock, ch_lock, ch, hdls, has, leaving>>
QbufNotFound(t) ==
  /\ In(t, {"qbuf"}) /\ th' = Returned(t)
  /\ cam_lock' = CamUnlocked(t)
  /\ UNCHANGED <<camera, intf_lock, ch_lock, ch, hdls, has, leaving>>

\* qbuf that has found its channel preserves the invariant.
LEMMA QbufFoundStep ==
  ASSUME Inv, NEW t \in Threads, QbufFound(t)
  PROVE  Inv'
<1> USE ThreadFacts DEF Inv
<1>1. /\ GoesOn(t, "qbuf") /\ ThOK'
      /\ th'[t].slot \in Slots /\ ch[th'[t].slot].hdl = th[t].hdl
  <2>1. PICK s \in Slots : /\ ch[s].hdl = th[t].hdl
                         /\ th' = [th EXCEPT ![t].at = "qbuf", ![t].slot = s]
    BY DEF QbufFound, SlotsOf
  <2>2. GoesOn(t, "qbuf") /\ th'[t].slot = s /\ ThOK'
    BY <2>1, FindFacts DEF Ats
  <2> QED BY <2>1, <2>2
<1>2. /\ th[t].at = "camera"
      /\ th[t].op = "qbuf" /\ cam_lock' = [cam_lock EXCEPT ![th[t].cam] = Nobody]
      /\ UNCHANGED <<intf_lock, ch_lock, leaving>>
      /\ UNCHANGED <<cam_obj, ref_count, made, live, ch, hdls, has>>
  BY DEF QbufFound, At, In, CamUnlocked, camera
<1>2a. t \notin Clients /\ (t \in Cbs \/ t \in Returners)
  BY <1>2 DEF OpInv
<1>2b. \A s \in Slots : t = Cb(s) => th'[t].slot = s
  <2>1. \A s \in Slots : t = Cb(s) => ch[s].hdl = th[t].hdl /\ ch[s].hdl # 0
    BY <1>2 DEF SlotInv, AddedInv, TypeOK
  <2> QED BY <1>1, <2>1 DEF SlotInv
<1>3. TypeOK'
  BY <1>1, <1>2 DEF TypeOK, ThOK, ChannelOps, locks, Owners, locks
<1>4. OpInv'
  BY <1>1, <1>2, <1>2a DEF OpInv, GoesOn, OthersStay
<1>5. RefInv' /\ AddedInv'
  BY <1>2, RefKept, AddedKept DEF RefInv
<1>6. CallInv'
  BY <1>1, <1>2, CallKept DEF Ats
<1>7. SlotInv'
  <2>1. \E at \in Ats \ {"clear"} : GoesOn(t, at)
    BY <1>1 DEF Ats
  <2> QED BY <1>1, <1>2, <1>2b, <2>1, SlotKept
<1>8. LockInv'
  <2>1. \A u \in Threads \ {t} : th[u].at \in {"camera", "server", "ch"} => th[u].cam # th[t].cam
    BY <1>2 DEF LockInv
  <2>2. /\ intf_lock' = intf_lock
        /\ \A o \in (1..MaxOpens) \ {th[t].cam} : cam_lock'[o] = cam_lock[o]
        /\ th'[t].at = "qbuf"
    BY <1>1, <1>2 DEF TypeOK, GoesOn
  <2>3. \A u \in Threads : th[u].at \in {"camera", "server", "ch"} => th[u].cam \in 1..MaxOpens
    BY DEF NoUseAfterFree, Guarded, Inside, TypeOK
  <2> QED BY <1>1, <2>1, <2>2, <2>3 DEF LockInv, GoesOn, OthersStay
<1>9. CloseInv'
  BY <1>1, <1>2, <1>2a DEF CloseInv, GoesOn, OthersStay
<1>10. NoUseAfterFree'
  BY <1>1, <1>2
     DEF NoUseAfterFree, Guarded, Inside, RefInv, OpInv, Rests, GoesOn, OthersStay, ChannelOps, locks
<1> QED BY <1>3, <1>4, <1>5, <1>6, <1>7, <1>8, <1>9, <1>10

\* qbuf that has not found its channel preserves the invariant.
LEMMA QbufNotFoundStep ==
  ASSUME Inv, NEW t \in Threads, QbufNotFound(t)
  PROVE  Inv'
<1> USE ThreadFacts DEF Inv
<1>1. Rests(t) /\ ThOK'
  BY RestFacts DEF QbufNotFound
<1>2. /\ th[t].at = "camera" /\ th[t].op = "qbuf"
      /\ cam_lock' = [cam_lock EXCEPT ![th[t].cam] = Nobody] /\ UNCHANGED <<intf_lock, ch_lock, leaving>>
      /\ UNCHANGED <<cam_obj, ref_count, made, live, ch, hdls, has>>
  BY DEF QbufNotFound, At, In, CamUnlocked, camera
<1>3. TypeOK'
  BY <1>1, <1>2 DEF TypeOK, ThOK, Owners, locks
<1>4. OpInv'
  BY <1>1, <1>2 DEF OpInv, Rests, GoesOn, OthersStay
<1>5. RefInv' /\ AddedInv'
  BY <1>2, RefKept, AddedKept DEF RefInv
<1>6. CallInv'
  BY <1>1, <1>2, CallKept DEF Ats
<1>7. SlotInv'
  BY <1>1, <1>2, SlotKept DEF Rests, GoesOn, Ats, SlotInv, OpInv
<1>8. LockInv'
  <2>1. \A u \in Threads \ {t} : th[u].at \in {"camera", "server", "ch"} => th[u].cam # th[t].cam
    BY <1>2 DEF LockInv
  <2>2. /\ intf_lock' = intf_lock
        /\ \A o \in (1..MaxOpens) \ {th[t].cam} : cam_lock'[o] = cam_lock[o]
    BY <1>2 DEF TypeOK
  <2>3. \A u \in Threads : th[u].at \in {"camera", "server", "ch"} => th[u].cam \in 1..MaxOpens
    BY DEF NoUseAfterFree, Guarded, Inside, TypeOK
  <2> QED BY <1>1, <2>1, <2>2, <2>3 DEF LockInv, Rests, GoesOn, OthersStay
<1>9. CloseInv'
  BY <1>1, <1>2 DEF CloseInv, LockInv, OpInv, Rests, GoesOn, OthersStay
<1>10. NoUseAfterFree'
  BY <1>1, <1>2
     DEF NoUseAfterFree, Guarded, Inside, RefInv, OpInv, Rests, GoesOn, OthersStay
<1> QED BY <1>3, <1>4, <1>5, <1>6, <1>7, <1>8, <1>9, <1>10

\* QbufUnlocked preserves the invariant.
LEMMA QbufUnlockedStep ==
  ASSUME Inv, NEW t \in Threads, QbufUnlocked(t)
  PROVE  Inv'
BY QbufFoundStep, QbufNotFoundStep DEF QbufUnlocked, QbufFound, QbufNotFound

\* Qbuf preserves the invariant.
LEMMA QbufStep ==
  ASSUME Inv, NEW t \in Threads, Qbuf(t)
  PROVE  Inv'
<1> USE ThreadFacts DEF Inv
<1>1. Rests(t) /\ ThOK'
  BY RestFacts DEF Qbuf
<1>2. /\ th[t].at = "qbuf"
      /\ UNCHANGED <<cam_obj, ref_count, made, live, ch, hdls, has>>
  BY DEF Qbuf, At, camera
<1>3. TypeOK'
  BY <1>1, <1>2 DEF TypeOK, ThOK, Qbuf, At, Owners, locks
<1>4. OpInv'
  BY <1>1, <1>2 DEF OpInv, Rests, GoesOn, OthersStay, Qbuf, At
<1>5. RefInv' /\ AddedInv'
  BY <1>2, RefKept, AddedKept DEF RefInv
<1>6. CallInv'
  BY <1>1, <1>2, CallKept DEF Ats
<1>7. SlotInv'
  BY <1>1, <1>2, SlotKept DEF Rests, GoesOn, Ats, SlotInv, OpInv
<1>8. LockInv'
  BY <1>1, <1>2
     DEF LockInv, NoUseAfterFree, Guarded, Inside, TypeOK, Rests, GoesOn, OthersStay, Qbuf, At, locks
<1>9. CloseInv'
  BY <1>1, <1>2 DEF CloseInv, LockInv, OpInv, Rests, GoesOn, OthersStay, Qbuf, At
<1>10. NoUseAfterFree'
  BY <1>1, <1>2 DEF NoUseAfterFree, Guarded, Inside, RefInv, OpInv, Rests, GoesOn, OthersStay, Qbuf, At
<1> QED BY <1>3, <1>4, <1>5, <1>6, <1>7, <1>8, <1>9, <1>10

\* LockCh preserves the invariant.
LEMMA LockChStep ==
  ASSUME Inv, NEW t \in Threads, LockCh(t)
  PROVE  Inv'
<1> USE ThreadFacts DEF Inv
<1>1. GoesOn(t, "fsm") /\ th'[t].slot = th[t].slot /\ ThOK'
  BY MoveFacts DEF LockCh, Ats
<1>2. /\ th[t].at = "ch"
      /\ UNCHANGED <<cam_obj, ref_count, made, live, ch, hdls, has>>
  BY DEF LockCh, At, CamUnlocked, camera
<1>3. TypeOK'
  BY <1>1, <1>2 DEF TypeOK, ThOK, LockCh, At, CamUnlocked, Owners, locks
<1>4. OpInv'
  BY <1>1, <1>2 DEF OpInv, Rests, GoesOn, OthersStay, LockCh, At, CamUnlocked
<1>5. RefInv' /\ AddedInv'
  BY <1>2, RefKept, AddedKept DEF RefInv
<1>6. CallInv'
  BY <1>1, <1>2, CallKept DEF Ats
<1>7. SlotInv'
  BY <1>1, <1>2, SlotKept DEF Rests, GoesOn, Ats, SlotInv, OpInv
<1>8. LockInv'
  BY <1>1, <1>2
     DEF LockInv, NoUseAfterFree, Guarded, Inside, TypeOK, Rests, GoesOn, OthersStay, LockCh, At, CamUnlocked, locks
<1>9. CloseInv'
  BY <1>1, <1>2 DEF CloseInv, LockInv, OpInv, Rests, GoesOn, OthersStay, LockCh, At, CamUnlocked
<1>10. NoUseAfterFree'
  BY <1>1, <1>2
     DEF NoUseAfterFree, Guarded, Inside, RefInv, OpInv, Rests, GoesOn, OthersStay, LockCh, At, CamUnlocked
<1> QED BY <1>3, <1>4, <1>5, <1>6, <1>7, <1>8, <1>9, <1>10

\* Nothing preserves the invariant.
LEMMA NothingStep ==
  ASSUME Inv, NEW t \in Threads, Nothing(t)
  PROVE  Inv'
<1> USE ThreadFacts DEF Inv
<1>1. Rests(t) /\ ThOK'
  BY RestFacts DEF Nothing
<1>2. /\ th[t].at = "fsm"
      /\ UNCHANGED <<cam_obj, ref_count, made, live, ch, hdls, has>>
  BY DEF Nothing, At, ChUnlocked, camera
<1>3. TypeOK'
  BY <1>1, <1>2 DEF TypeOK, ThOK, Nothing, At, ChUnlocked, Owners, locks
<1>4. OpInv'
  BY <1>1, <1>2 DEF OpInv, Rests, GoesOn, OthersStay, Nothing, At, ChUnlocked
<1>5. RefInv' /\ AddedInv'
  BY <1>2, RefKept, AddedKept DEF RefInv
<1>6. CallInv'
  BY <1>1, <1>2, CallKept DEF Ats
<1>7. SlotInv'
  BY <1>1, <1>2, SlotKept DEF Rests, GoesOn, Ats, SlotInv, OpInv
<1>8. LockInv'
  BY <1>1, <1>2
     DEF LockInv, NoUseAfterFree, Guarded, Inside, TypeOK, Rests, GoesOn, OthersStay, Nothing, At, ChUnlocked, locks
<1>9. CloseInv'
  BY <1>1, <1>2 DEF CloseInv, LockInv, OpInv, Rests, GoesOn, OthersStay, Nothing, At, ChUnlocked
<1>10. NoUseAfterFree'
  BY <1>1, <1>2
     DEF NoUseAfterFree, Guarded, Inside, RefInv, OpInv, Rests, GoesOn, OthersStay, Nothing, At, ChUnlocked
<1> QED BY <1>3, <1>4, <1>5, <1>6, <1>7, <1>8, <1>9, <1>10

\* Stop preserves the invariant.
LEMMA StopStep ==
  ASSUME Inv, NEW t \in Threads, Stop(t)
  PROVE  Inv'
<1> USE ThreadFacts DEF Inv
<1>1. GoesOn(t, "join") /\ th'[t].slot = th[t].slot /\ ThOK'
  BY MoveFacts DEF Stop, Ats
<1>2. /\ th[t].at = "fsm"
      /\ UNCHANGED <<cam_obj, ref_count, made, live, ch, hdls, has>>
  BY DEF Stop, At, camera
<1>3. TypeOK'
  <2>1. th[t].slot \in Slots
    BY <1>2, ThreadFacts DEF SlotInv, OpInv
  <2> QED BY <1>1, <1>2, <2>1 DEF TypeOK, ThOK, Stop, Owners, locks, camera
<1>4. OpInv'
  BY <1>1, <1>2 DEF OpInv, Rests, GoesOn, OthersStay, Stop, At
<1>5. RefInv' /\ AddedInv'
  BY <1>2, RefKept, AddedKept DEF RefInv
<1>6. CallInv'
  BY <1>1, <1>2, CallKept DEF Ats
<1>7. SlotInv'
  BY <1>1, <1>2, SlotKept DEF Rests, GoesOn, Ats, SlotInv, OpInv
<1>8. LockInv'
  BY <1>1, <1>2
     DEF LockInv, NoUseAfterFree, Guarded, Inside, TypeOK, Rests, GoesOn, OthersStay, Stop, At, locks
<1>9. CloseInv'
  BY <1>1, <1>2 DEF CloseInv, LockInv, OpInv, Rests, GoesOn, OthersStay, Stop, At
<1>10. NoUseAfterFree'
  BY <1>1, <1>2 DEF NoUseAfterFree, Guarded, Inside, RefInv, OpInv, Rests, GoesOn, OthersStay, Stop, At
<1> QED BY <1>3, <1>4, <1>5, <1>6, <1>7, <1>8, <1>9, <1>10

-----------------------------------------------------------------------------
(* Steps that begin a call, or end a callback's thread.                    *)

\* Call preserves the invariant.
LEMMA CallStep ==
  ASSUME Inv, NEW c \in Clients, NEW op \in CameraOps \cup ChannelOps,
         NEW hdl \in 0..MaxHdl, Call(c, op, hdl)
  PROVE  Inv'
<1> USE ThreadFacts DEF Inv
<1>1. /\ th[c].at = "idle" /\ Allowed(c, op, hdl)
      /\ th' = [th EXCEPT ![c] = [at |-> "intf", op |-> op, cam |-> has[c].cam,
                                  hdl |-> hdl, slot |-> 0]]
      /\ UNCHANGED <<cam_obj, ref_count, made, live, intf_lock, cam_lock, ch_lock, ch, hdls,
                     has, leaving>>
  BY DEF Call, camera, locks
<1>2. /\ OthersStay(c) /\ th'[c].at = "intf" /\ th'[c].op = op
      /\ th'[c].cam = has[c].cam /\ th'[c].hdl = hdl
  BY <1>1 DEF OthersStay, TypeOK
<1>3. TypeOK'
  <2>1. has[c].cam \in 0..MaxOpens
    BY DEF TypeOK
  <2> QED BY <1>1, <2>1 DEF TypeOK, Ats
<1>4. OpInv'
  BY <1>2 DEF OpInv, OthersStay, CameraOps, ChannelOps
<1>5. RefInv' /\ AddedInv'
  BY <1>1, RefKept, AddedKept DEF RefInv
<1>6. CallInv'
  <2> SUFFICES ASSUME NEW d \in Clients, th'[d].at # "idle"
               PROVE  CallInv!(d)'
    BY DEF CallInv
  <2>1. CASE d # c
    BY <1>1, <1>2, <2>1 DEF CallInv, OthersStay
  <2>2. CASE d = c
    <3>1. /\ op = "open" => ~has[c].ref
          /\ op = "close" => has[c].ref /\ has[c].added = {}
          /\ op = "add" => c = Manager /\ has[c].ref
          /\ op \in {"start", "delete"} => hdl \in has[c].added /\ hdl \notin has[c].active
          /\ op \in {"stop", "request"} => hdl \in has[c].active
      BY <1>1 DEF Allowed
    <3>2. has[c].active \subseteq has[c].added
      BY DEF AddedInv
    <3> QED BY <1>1, <1>2, <2>2, <3>1, <3>2 DEF ChannelOps
  <2> QED BY <2>1, <2>2
<1>7. SlotInv'
  BY <1>1, <1>2 DEF SlotInv, OthersStay
<1>8. LockInv' /\ CloseInv' /\ NoUseAfterFree'
  BY <1>1, <1>2 DEF LockInv, CloseInv, NoUseAfterFree, Guarded, Inside, OthersStay
<1> QED BY <1>3, <1>4, <1>5, <1>6, <1>7, <1>8

\* Frame preserves the invariant.
LEMMA FrameStep ==
  ASSUME Inv, NEW s \in Slots, Frame(s)
  PROVE  Inv'
<1> USE ThreadFacts DEF Inv
<1>1. PICK t \in Threads : t = Cb(s)
  OBVIOUS
<1>2. /\ t \in Cbs /\ th[t].at = "loop"
      /\ UNCHANGED <<cam_obj, ref_count, made, live, intf_lock, cam_lock, ch_lock, ch, hdls,
                     has, leaving>>
  BY <1>1 DEF Frame, camera, locks
<1>3. th' = [th EXCEPT ![t].at = "intf", ![t].op = "qbuf"]
  BY <1>1 DEF Frame
<1>4. th[t] \in [at : Ats, op : CameraOps \cup ChannelOps \cup {"qbuf", "none"},
                 cam : 0..MaxOpens, hdl : 0..MaxHdl, slot : Slots \cup {0}]
  BY <1>2 DEF TypeOK
<1>5. th' = [th EXCEPT ![t] = [at |-> "intf", op |-> "qbuf", cam |-> th[t].cam,
                               hdl |-> th[t].hdl, slot |-> th[t].slot]]
  <2> DEFINE mid == [th EXCEPT ![t].at = "intf"]
  <2>1. /\ mid \in [Threads -> [at : Ats, op : CameraOps \cup ChannelOps \cup {"qbuf", "none"},
                               cam : 0..MaxOpens, hdl : 0..MaxHdl, slot : Slots \cup {0}]]
        /\ mid[t] = [at |-> "intf", op |-> th[t].op, cam |-> th[t].cam,
                     hdl |-> th[t].hdl, slot |-> th[t].slot]
        /\ \A u \in Threads \ {t} : mid[u] = th[u]
    BY <1>2, <1>4 DEF TypeOK, Ats
  <2>2. th' = [mid EXCEPT ![t].op = "qbuf"]
    BY <1>3
  <2> HIDE DEF mid
  <2>3. th' = [mid EXCEPT ![t] = [mid[t] EXCEPT !.op = "qbuf"]]
    BY <2>1, <2>2
  <2>4. [mid[t] EXCEPT !.op = "qbuf"] = [at |-> "intf", op |-> "qbuf", cam |-> th[t].cam,
                               hdl |-> th[t].hdl, slot |-> th[t].slot]
    BY <2>1
  <2> QED BY <1>2, <2>1, <2>3, <2>4 DEF TypeOK
<1>6. /\ OthersStay(t) /\ th'[t].at = "intf" /\ th'[t].op = "qbuf"
      /\ th'[t].cam = th[t].cam /\ th'[t].hdl = th[t].hdl
  BY <1>2, <1>5 DEF OthersStay, TypeOK
<1>7. TypeOK'
  <2>1. ThOK'
    BY <1>2, <1>5, <1>4 DEF TypeOK, ThOK, Ats
  <2> QED BY <1>2, <2>1 DEF TypeOK, ThOK, Owners
<1>8. OpInv'
  BY <1>2, <1>6 DEF OpInv, OthersStay
<1>9. RefInv' /\ AddedInv'
  BY <1>2, RefKept, AddedKept DEF RefInv
<1>10. CallInv'
  BY <1>2, <1>6 DEF CallInv, OthersStay
<1>11. SlotInv'
  BY <1>2, <1>6, <1>1 DEF SlotInv, OthersStay
<1>12. LockInv' /\ CloseInv' /\ NoUseAfterFree'
  BY <1>2, <1>6 DEF LockInv, CloseInv, NoUseAfterFree, Guarded, Inside, OthersStay
<1> QED BY <1>7, <1>8, <1>9, <1>10, <1>11, <1>12

\* GiveBack preserves the invariant.
LEMMA GiveBackStep ==
  ASSUME Inv, NEW r \in Returners, NEW hdl \in 1..MaxHdl, GiveBack(r, hdl)
  PROVE  Inv'
<1> USE ThreadFacts DEF Inv
<1>1. /\ th[r].at = "idle" /\ r \notin Clients /\ r \notin Cbs /\ r \in Threads
      /\ th' = [th EXCEPT ![r] = [at |-> "intf", op |-> "qbuf", cam |-> has[Manager].cam,
                                  hdl |-> hdl, slot |-> 0]]
      /\ UNCHANGED <<cam_obj, ref_count, made, live, intf_lock, cam_lock, ch_lock, ch, hdls,
                     has, leaving>>
  BY DEF GiveBack, camera, locks
<1>2. OthersStay(r) /\ th'[r].at = "intf" /\ th'[r].op = "qbuf"
  BY <1>1 DEF OthersStay, TypeOK
<1>3. TypeOK'
  <2>1. has[Manager].cam \in 0..MaxOpens /\ hdl \in 0..MaxHdl
    BY DEF TypeOK
  <2> QED BY <1>1, <2>1 DEF TypeOK, Ats
<1>4. OpInv'
  BY <1>1, <1>2 DEF OpInv, OthersStay
<1>5. RefInv' /\ AddedInv'
  BY <1>1, RefKept, AddedKept DEF RefInv
<1>6. CallInv'
  BY <1>1, <1>2 DEF CallInv, OthersStay
<1>7. SlotInv'
  BY <1>1, <1>2 DEF SlotInv, OthersStay
<1>8. LockInv' /\ CloseInv' /\ NoUseAfterFree'
  BY <1>1, <1>2 DEF LockInv, CloseInv, NoUseAfterFree, Guarded, Inside, OthersStay
<1> QED BY <1>3, <1>4, <1>5, <1>6, <1>7, <1>8

\* Exit preserves the invariant.
LEMMA ExitStep ==
  ASSUME Inv, NEW s \in Slots, Exit(s)
  PROVE  Inv'
<1> USE ThreadFacts DEF Inv
<1> DEFINE t == Cb(s)
<1>1. /\ t \in Cbs /\ th[t].at = "loop"
      /\ th' = [th EXCEPT ![t] = Resting("none")] /\ leaving' = leaving \ {s}
      /\ UNCHANGED <<cam_obj, ref_count, made, live, intf_lock, cam_lock, ch_lock, ch, hdls, has>>
  BY DEF Exit, camera, locks
<1>2. OthersStay(t) /\ th'[t].at = "none"
  BY <1>1 DEF OthersStay, TypeOK, Resting
<1>3. TypeOK'
  BY <1>1, CameraAssumption DEF TypeOK, Resting, Ats
<1>4. OpInv'
  BY <1>1, <1>2 DEF OpInv, OthersStay
<1>5. RefInv' /\ AddedInv'
  BY <1>1, RefKept, AddedKept DEF RefInv
<1>6. CallInv'
  BY <1>1, <1>2 DEF CallInv, OthersStay
<1>7. SlotInv'
  BY <1>1, <1>2 DEF SlotInv, OthersStay
<1>8. LockInv' /\ CloseInv' /\ NoUseAfterFree'
  BY <1>1, <1>2 DEF LockInv, CloseInv, NoUseAfterFree, Guarded, Inside, OthersStay
<1> QED BY <1>3, <1>4, <1>5, <1>6, <1>7, <1>8

-----------------------------------------------------------------------------
(* Steps that change the channels: those of the manager's own calls.       *)

\* A thread at work in a channel is the manager's, and its slot holds its channel.
LEMMA ManagerFacts ==
  ASSUME Inv, NEW t \in Threads, th[t].at \in {"ch", "fsm", "join", "clear"}
  PROVE  /\ t = Manager /\ t \in Clients /\ t \notin Cbs
         /\ th[t].slot \in Slots /\ ch[th[t].slot].hdl = th[t].hdl /\ th[t].hdl \in 1..MaxHdl
         /\ th[t].hdl \in has[t].added /\ has[t].ref
         /\ th[t].cam = cam_obj
<1> USE ThreadFacts DEF Inv
<1>1. t \in Clients /\ t \notin Cbs /\ th[t].op \in ChannelOps
  BY DEF OpInv
<1>2. th[t].hdl \in has[t].added /\ has[t].cam = th[t].cam
  BY <1>1 DEF CallInv
<1>3. t = Manager /\ has[t].ref
  BY <1>1, <1>2 DEF AddedInv
<1>4. has[t].cam = cam_obj
  BY <1>1, <1>3 DEF RefInv
<1>5. th[t].hdl \in 1..MaxHdl
  BY <1>1, <1>2 DEF TypeOK
<1> QED BY <1>1, <1>2, <1>3, <1>4, <1>5 DEF SlotInv

\* AddChannel preserves the invariant.
LEMMA AddChannelStep ==
  ASSUME Inv, NEW t \in Threads, AddChannel(t)
  PROVE  Inv'
<1> USE ThreadFacts DEF Inv
<1>1. Rests(t) /\ ThOK'
  BY RestFacts DEF AddChannel
<1>2. /\ th[t].at = "camera" /\ th[t].op = "add" /\ cam_lock' = [cam_lock EXCEPT ![th[t].cam] = Nobody]
      /\ UNCHANGED <<cam_obj, ref_count, made, live, intf_lock, ch_lock, leaving>>
  BY DEF AddChannel, In, At, CamUnlocked, camera
<1>3. t = Manager /\ t \in Clients /\ has[t].ref
  BY <1>2 DEF OpInv, CallInv
<1>4. LockInv'
  <2>1. \A u \in Threads \ {t} : th[u].at \in {"camera", "server", "ch"} => th[u].cam # th[t].cam
    BY <1>2 DEF LockInv
  <2>2. \A o \in (1..MaxOpens) \ {th[t].cam} : cam_lock'[o] = cam_lock[o]
    BY <1>2 DEF TypeOK
  <2>3. \A u \in Threads : th[u].at \in {"camera", "server", "ch"} => th[u].cam \in 1..MaxOpens
    BY DEF NoUseAfterFree, Guarded, Inside, TypeOK
  <2> QED BY <1>1, <1>2, <2>1, <2>2, <2>3 DEF LockInv, Rests, GoesOn, OthersStay
<1>5. OpInv' /\ CloseInv' /\ NoUseAfterFree'
  BY <1>1, <1>2, <1>3 DEF OpInv, CloseInv, NoUseAfterFree, Guarded, Inside, Rests, OthersStay
<1>6. CASE UNCHANGED <<ch, hdls, has>>
  <2>1. TypeOK'
    BY <1>1, <1>2, <1>6 DEF TypeOK, ThOK, Owners
  <2>2. RefInv' /\ AddedInv' /\ CallInv' /\ SlotInv'
    BY <1>1, <1>2, <1>3, <1>6, RefKept, AddedKept, CallKept, SlotKept
       DEF RefInv, Rests, SlotInv, OpInv, Ats
  <2> QED BY <1>4, <1>5, <2>1, <2>2
<1>7. ASSUME NEW s \in Slots, ch[s].state = "NOTUSED", hdls < MaxHdl, hdls' = hdls + 1,
             ch' = [ch EXCEPT ![s] = [hdl |-> hdls + 1, state |-> "STOPPED"]],
             has' = [has EXCEPT ![t].added = @ \cup {hdls + 1}]
      PROVE  Inv'
  <2>1. /\ \A c \in Clients : has'[c].ref = has[c].ref /\ has'[c].cam = has[c].cam
                              /\ has'[c].active = has[c].active
        /\ \A c \in Clients \ {t} : has'[c] = has[c]
        /\ has'[t].added = has[t].added \cup {hdls + 1}
    BY <1>3, <1>7 DEF TypeOK
  <2>2. /\ ch'[s].hdl = hdls + 1 /\ ch'[s].state = "STOPPED"
        /\ \A r \in Slots \ {s} : ch'[r] = ch[r]
        /\ hdls \in Nat /\ hdls + 1 \in 1..MaxHdl
    <3>1. hdls \in Nat /\ hdls + 1 \in 1..MaxHdl
      <4>1. hdls \in 0..MaxHdl
        BY DEF TypeOK
      <4> QED BY <1>7, <4>1, CameraAssumption
    <3> QED BY <1>7, <3>1 DEF TypeOK
  <2>3. TypeOK'
    <3>1. has' \in [Clients -> [ref : BOOLEAN, cam : 0..MaxOpens,
                                added : SUBSET (1..MaxHdl), active : SUBSET (1..MaxHdl)]]
      <4>1. \A c \in Clients : has'[c].added \in SUBSET (1..MaxHdl)
        <5>1. \A c \in Clients : has[c].added \in SUBSET (1..MaxHdl)
          BY DEF TypeOK
        <5> QED BY <1>3, <2>1, <2>2, <5>1
      <4>2. has' = [c \in Clients |-> [ref |-> has'[c].ref, cam |-> has'[c].cam,
                                       added |-> has'[c].added, active |-> has'[c].active]]
        <5>1. has' = [has EXCEPT ![t] = [has[t] EXCEPT !.added = has[t].added \cup {hdls + 1}]]
          BY <1>3, <1>7 DEF TypeOK
        <5>2. \A c \in Clients : has[c] = [ref |-> has[c].ref, cam |-> has[c].cam,
                                       added |-> has[c].added, active |-> has[c].active]
          BY DEF TypeOK
        <5>3. has'[t] = [has[t] EXCEPT !.added = has[t].added \cup {hdls + 1}]
          BY <1>3, <5>1 DEF TypeOK
        <5>4. \A c \in Clients : has'[c] = [ref |-> has'[c].ref, cam |-> has'[c].cam,
                                       added |-> has'[c].added, active |-> has'[c].active]
          BY <2>1, <5>2, <5>3
        <5> QED BY <5>1, <5>4 DEF TypeOK
      <4>3. \A c \in Clients : /\ has'[c].ref \in BOOLEAN /\ has'[c].cam \in 0..MaxOpens
                               /\ has'[c].active \in SUBSET (1..MaxHdl)
        BY <2>1 DEF TypeOK
      <4> QED BY <4>1, <4>2, <4>3
    <3>2. ch' \in [Slots -> [hdl : 0..MaxHdl, state : {"NOTUSED", "STOPPED", "ACTIVE"}]]
      BY <1>7, <2>2 DEF TypeOK
    <3> QED BY <1>1, <1>2, <1>7, <2>2, <3>1, <3>2, CameraAssumption DEF TypeOK, ThOK, Owners
  <2>4. RefInv'
    <3>1. Holders' = Holders
      BY <2>1 DEF Holders
    <3> QED BY <1>2, <2>1, <3>1 DEF RefInv
  <2>5. AddedInv'
    <3>1. \A h \in has[Manager].added : h \in Nat /\ h <= hdls
      BY DEF AddedInv, TypeOK
    <3>2. \A h \in has'[Manager].added : h <= hdls'
      BY <1>3, <1>7, <2>1, <2>2, <3>1
    <3> QED BY <1>3, <2>1, <3>2 DEF AddedInv
  <2>6. CallInv'
    <3> SUFFICES ASSUME NEW c \in Clients, th'[c].at # "idle"
                 PROVE  CallInv!(c)'
      BY DEF CallInv
    <3>1. c # t /\ th'[c] = th[c] /\ has'[c] = has[c]
      BY <1>1, <1>3, <2>1 DEF Rests, OthersStay
    <3> QED BY <3>1 DEF CallInv
  <2>7. SlotInv'
    <3>1. \A h \in has[Manager].added : h \in Nat /\ h <= hdls /\ h # hdls + 1
      BY <2>2 DEF AddedInv, TypeOK
    <3>2. ch[s].hdl = 0
      BY <1>2, <1>3, <1>7 DEF SlotInv
    <3>3. \A r \in Slots : ch[r].hdl # hdls + 1
      BY <2>2, <3>1 DEF SlotInv
    <3>4. hdls + 1 # 0 /\ hdls + 1 \notin has[Manager].active /\ 0 \notin has[Manager].active
      BY <2>2, <3>1 DEF AddedInv, TypeOK
    <3>5. th[Cb(s)].at = "none"
      BY <3>2, <3>4 DEF SlotInv
    <3>6. \A u \in Cbs : th'[u] = th[u]
      BY <1>1, <1>3 DEF Rests, OthersStay
    <3>7. \A r, q \in Slots : ch'[r].hdl = ch'[q].hdl /\ ch'[r].hdl # 0 => r = q
      BY <2>2, <3>3 DEF SlotInv
    <3>8. \A r \in Slots : /\ ch'[r].hdl # 0 => ch'[r].hdl \in has'[Manager].added
                           /\ ch'[r].state = "ACTIVE" <=> ch'[r].hdl \in has'[Manager].active
                           /\ ch'[r].hdl = 0 => ch'[r].state = "NOTUSED"
                           /\ ~(ch'[r].state = "NOTUSED" /\ ch'[r].hdl # 0)
      BY <1>2, <1>3, <2>1, <2>2, <3>4 DEF SlotInv
    <3>9. \A c \in Clients : th'[c].at \notin {"ch", "fsm", "join", "clear"}
      BY <1>1, <1>3 DEF Rests, OthersStay, AddedInv, CallInv, OpInv
    <3>10. \A r \in Slots : th'[Cb(r)].at # "none" =>
                        /\ ch'[r].hdl = th'[Cb(r)].hdl
                        /\ ch'[r].hdl \in has'[Manager].active
                        /\ th'[Cb(r)].cam = cam_obj'
                        /\ th'[Cb(r)].at = "qbuf" => th'[Cb(r)].slot = r
      BY <1>2, <2>1, <2>2, <3>5, <3>6 DEF SlotInv
    <3> QED BY <3>7, <3>8, <3>9, <3>10 DEF SlotInv
  <2> QED BY <1>4, <1>5, <2>3, <2>4, <2>5, <2>6, <2>7
<1> QED BY <1>6, <1>7 DEF AddChannel

-----------------------------------------------------------------------------
(* Steps of the state machine.                                             *)

\* A slot that only changes its state.
LEMMA StateFacts ==
  ASSUME TypeOK, NEW s \in Slots, NEW state \in {"NOTUSED", "STOPPED", "ACTIVE"},
         ch' = [ch EXCEPT ![s].state = state]
  PROVE  /\ ch'[s].hdl = ch[s].hdl /\ ch'[s].state = state
         /\ \A r \in Slots \ {s} : ch'[r] = ch[r]
         /\ ch' \in [Slots -> [hdl : 0..MaxHdl, state : {"NOTUSED", "STOPPED", "ACTIVE"}]]
<1> DEFINE new == [ch[s] EXCEPT !.state = state]
<1>1. /\ ch \in [Slots -> [hdl : 0..MaxHdl, state : {"NOTUSED", "STOPPED", "ACTIVE"}]]
      /\ ch[s] \in [hdl : 0..MaxHdl, state : {"NOTUSED", "STOPPED", "ACTIVE"}]
  BY DEF TypeOK
<1>2. /\ new \in [hdl : 0..MaxHdl, state : {"NOTUSED", "STOPPED", "ACTIVE"}]
      /\ new.hdl = ch[s].hdl /\ new.state = state
  BY <1>1
<1>3. ch' = [ch EXCEPT ![s] = new]
  OBVIOUS
<1> HIDE DEF new
<1>4. ch'[s] = new /\ \A r \in Slots \ {s} : ch'[r] = ch[r]
  BY <1>1, <1>3
<1>5. ch' \in [Slots -> [hdl : 0..MaxHdl, state : {"NOTUSED", "STOPPED", "ACTIVE"}]]
  BY <1>1, <1>2, <1>3
<1> QED BY <1>2, <1>4, <1>5

\* What a start that goes well does.
Started(t) ==
  /\ ch' = [ch EXCEPT ![th[t].slot].state = "ACTIVE"]
  /\ has' = [has EXCEPT ![t].active = has[t].active \cup {th[t].hdl}]
  /\ th' = [Returned(t) EXCEPT ![Cb(th[t].slot)] =
              [Resting("loop") EXCEPT !.cam = th[t].cam, !.hdl = th[t].hdl]]

\* A Start that goes well preserves the invariant.
LEMMA StartedStep ==
  ASSUME Inv, NEW t \in Threads, Start(t), Started(t)
  PROVE  Inv'
<1> USE ThreadFacts DEF Inv
<1>1. /\ th[t].at = "fsm" /\ th[t].op = "start" /\ hdls' = hdls /\ leaving' = leaving
      /\ UNCHANGED <<cam_obj, ref_count, made, live, intf_lock, cam_lock>>
  BY DEF Start, At, camera, Unknown, State
<1>2. /\ t = Manager /\ t \in Clients /\ t \notin Cbs
      /\ th[t].slot \in Slots /\ ch[th[t].slot].hdl = th[t].hdl /\ th[t].hdl \in 1..MaxHdl
      /\ th[t].hdl \in has[t].added /\ has[t].ref /\ th[t].cam = cam_obj
  BY <1>1, ManagerFacts
<1>3. ch[th[t].slot].state = "STOPPED"
  BY DEF Start, Unknown, State
<1> DEFINE cb == Cb(th[t].slot)
<1>4. /\ th'[t].at = "idle" /\ th'[t].op = "none"
      /\ th'[cb].at = "loop" /\ th'[cb].hdl = th[t].hdl /\ th'[cb].cam = th[t].cam
      /\ \A u \in Threads \ {t, cb} : th'[u] = th[u]
      /\ ThOK'
  <2>1. cb \in Cbs /\ cb # t
    BY <1>2
  <2> DEFINE mid == [th EXCEPT ![t] = Resting("idle")]
             new == [Resting("loop") EXCEPT !.cam = th[t].cam, !.hdl = th[t].hdl]
  <2>2. th' = [mid EXCEPT ![cb] = new]
    BY <1>2 DEF Started, Returned
  <2>3. new = [at |-> "loop", op |-> "none", cam |-> th[t].cam, hdl |-> th[t].hdl, slot |-> 0]
    <3> DEFINE r == [Resting("loop") EXCEPT !.cam = th[t].cam]
    <3>1. r = [at |-> "loop", op |-> "none", cam |-> th[t].cam, hdl |-> 0, slot |-> 0]
      BY DEF Resting
    <3>2. new = [r EXCEPT !.hdl = th[t].hdl]
      OBVIOUS
    <3> HIDE DEF r, new
    <3> QED BY <3>1, <3>2
  <2>4. /\ mid \in [Threads -> [at : Ats, op : CameraOps \cup ChannelOps \cup {"qbuf", "none"},
                               cam : 0..MaxOpens, hdl : 0..MaxHdl, slot : Slots \cup {0}]]
        /\ mid[t].at = "idle" /\ mid[t].op = "none"
        /\ \A u \in Threads \ {t} : mid[u] = th[u]
    BY CameraAssumption DEF TypeOK, Resting, Ats
  <2>5. th[t].cam \in 0..MaxOpens /\ th[t].hdl \in 0..MaxHdl
    BY DEF TypeOK
  <2>6. new \in [at : Ats, op : CameraOps \cup ChannelOps \cup {"qbuf", "none"},
                 cam : 0..MaxOpens, hdl : 0..MaxHdl, slot : Slots \cup {0}]
    BY <2>3, <2>5 DEF Ats
  <2> HIDE DEF mid, new, cb
  <2>7. ThOK'
    BY <2>2, <2>4, <2>6 DEF ThOK
  <2> QED BY <2>1, <2>2, <2>3, <2>4, <2>7
<1>5. /\ \A c \in Clients : has'[c].ref = has[c].ref /\ has'[c].cam = has[c].cam
                              /\ has'[c].added = has[c].added
      /\ \A c \in Clients \ {t} : has'[c] = has[c]
      /\ has'[t].active = has[t].active \cup {th[t].hdl}
      /\ has' \in [Clients -> [ref : BOOLEAN, cam : 0..MaxOpens,
                               added : SUBSET (1..MaxHdl), active : SUBSET (1..MaxHdl)]]
  <2> DEFINE new == has[t].active \cup {th[t].hdl}
  <2>1. has[t] \in [ref : BOOLEAN, cam : 0..MaxOpens,
                    added : SUBSET (1..MaxHdl), active : SUBSET (1..MaxHdl)]
    BY <1>2 DEF TypeOK
  <2>2. new \in SUBSET (1..MaxHdl)
    BY <1>2, <2>1
  <2>3. has' = [has EXCEPT ![t].active = new]
    BY DEF Started
  <2>4. new = has[t].active \cup {th[t].hdl}
    OBVIOUS
  <2> HIDE DEF new
  <2>5. has' = [has EXCEPT ![t] = [has[t] EXCEPT !.active = new]]
    BY <2>3
  <2>6. [has[t] EXCEPT !.active = new] = [ref |-> has[t].ref, cam |-> has[t].cam,
            active |-> new, added |-> has[t].added]
    BY <2>1
  <2>7. /\ \A c \in Clients \ {t} : has'[c] = has[c]
        /\ has'[t] = [ref |-> has[t].ref, cam |-> has[t].cam,
                      active |-> new, added |-> has[t].added]
    BY <1>2, <2>5, <2>6 DEF TypeOK
  <2>8. has' \in [Clients -> [ref : BOOLEAN, cam : 0..MaxOpens,
                              added : SUBSET (1..MaxHdl), active : SUBSET (1..MaxHdl)]]
    BY <1>2, <2>1, <2>2, <2>5, <2>6 DEF TypeOK
  <2>9. /\ has'[t].ref = has[t].ref /\ has'[t].cam = has[t].cam
        /\ has'[t].added = has[t].added /\ has'[t].active = new
    BY <2>7
  <2> QED BY <1>2, <2>4, <2>7, <2>8, <2>9
<1>6. /\ ch'[th[t].slot].hdl = th[t].hdl /\ ch'[th[t].slot].state = "ACTIVE"
      /\ \A r \in Slots \ {th[t].slot} : ch'[r] = ch[r]
      /\ ch' \in [Slots -> [hdl : 0..MaxHdl, state : {"NOTUSED", "STOPPED", "ACTIVE"}]]
  <2>1. ch' = [ch EXCEPT ![th[t].slot].state = "ACTIVE"]
    BY DEF Started
  <2> QED BY <1>2, <2>1, StateFacts
<1>7. /\ cb \in Cbs /\ cb # t /\ cb \notin Clients /\ cb = Cb(th[t].slot)
      /\ \A r \in Slots \ {th[t].slot} : Cb(r) # cb
  BY <1>2
<1> HIDE DEF cb
<1>8. TypeOK'
  <2>1. ch_lock' \in [Slots -> Owners]
    BY <1>2 DEF Start, ChUnlocked, TypeOK, Owners
  <2> QED BY <1>1, <1>4, <1>5, <1>6, <2>1 DEF TypeOK, ThOK, Owners
<1>9. OpInv'
  BY <1>2, <1>4, <1>7 DEF OpInv
<1>10. RefInv' /\ AddedInv'
  <2>1. Holders' = Holders
    BY <1>5 DEF Holders
  <2> QED BY <1>1, <1>2, <1>5, <2>1 DEF RefInv, AddedInv
<1>11. CallInv'
  <2> SUFFICES ASSUME NEW c \in Clients, th'[c].at # "idle"
               PROVE  CallInv!(c)'
    BY DEF CallInv
  <2>1. c # t /\ th'[c] = th[c] /\ has'[c] = has[c]
    BY <1>4, <1>5, <1>7
  <2> QED BY <2>1 DEF CallInv
<1>12. SlotInv'
  <2>1. \A r \in Slots \ {th[t].slot} : ch[r].hdl # th[t].hdl
    BY <1>2 DEF SlotInv
  <2>2. \A s, r \in Slots : ch'[s].hdl = ch'[r].hdl /\ ch'[s].hdl # 0 => s = r
    BY <1>2, <1>6 DEF SlotInv
  <2>3. ASSUME NEW s \in Slots
        PROVE  /\ ch'[s].hdl # 0 => ch'[s].hdl \in has'[Manager].added
               /\ ch'[s].state = "ACTIVE" <=> ch'[s].hdl \in has'[Manager].active
               /\ ch'[s].hdl = 0 => ch'[s].state = "NOTUSED"
               /\ ~(ch'[s].state = "NOTUSED" /\ ch'[s].hdl # 0)
    <3>1. CASE s = th[t].slot
      BY <1>2, <1>5, <1>6, <3>1
    <3>2. CASE s # th[t].slot
      BY <1>1, <1>2, <1>5, <1>6, <2>1, <3>2 DEF SlotInv
    <3> QED BY <3>1, <3>2
  <2>4. ASSUME NEW c \in Clients, th'[c].at \in {"ch", "fsm", "join", "clear"}
        PROVE  th'[c].slot \in Slots /\ ch'[th'[c].slot].hdl = th'[c].hdl
    BY <1>2, <1>4, <1>6, <1>7, <2>4 DEF SlotInv
  <2>5. ASSUME NEW s \in Slots, th'[Cb(s)].at # "none"
        PROVE  /\ ch'[s].hdl = th'[Cb(s)].hdl
               /\ ch'[s].hdl \in has'[Manager].active
               /\ th'[Cb(s)].cam = cam_obj'
               /\ th'[Cb(s)].at = "qbuf" => th'[Cb(s)].slot = s
    <3>1. CASE s = th[t].slot
      BY <1>1, <1>2, <1>4, <1>5, <1>6, <1>7, <3>1
    <3>2. CASE s # th[t].slot
      <4>1. th'[Cb(s)] = th[Cb(s)]
        BY <1>2, <1>4, <1>7, <3>2
      <4> QED BY <1>1, <1>2, <1>5, <1>6, <2>5, <3>2, <4>1 DEF SlotInv
    <3> QED BY <3>1, <3>2
  <2> QED BY <2>2, <2>3, <2>4, <2>5 DEF SlotInv
<1>13. LockInv' /\ CloseInv' /\ NoUseAfterFree'
  BY <1>1, <1>2, <1>4, <1>7 DEF LockInv, CloseInv, NoUseAfterFree, Guarded, Inside
<1> QED BY <1>8, <1>9, <1>10, <1>11, <1>12, <1>13

\* A Start that fails preserves the invariant.
LEMMA StartFailsStep ==
  ASSUME Inv, NEW t \in Threads, Start(t), th' = Returned(t), UNCHANGED <<ch, has>>
  PROVE  Inv'
<1> USE ThreadFacts DEF Inv
<1>1. Rests(t) /\ ThOK'
  BY RestFacts
<1>2. /\ th[t].at = "fsm"
      /\ UNCHANGED <<cam_obj, ref_count, made, live, ch, hdls, has>>
  BY DEF Start, At, ChUnlocked, camera
<1>3. TypeOK'
  BY <1>1, <1>2 DEF TypeOK, ThOK, Start, At, ChUnlocked, Owners, locks
<1>4. OpInv'
  BY <1>1, <1>2 DEF OpInv, Rests, GoesOn, OthersStay, Start, At, ChUnlocked
<1>5. RefInv' /\ AddedInv'
  BY <1>2, RefKept, AddedKept DEF RefInv
<1>6. CallInv'
  BY <1>1, <1>2, CallKept DEF Ats
<1>7. SlotInv'
  BY <1>1, <1>2, SlotKept DEF Rests, GoesOn, Ats, SlotInv, OpInv
<1>8. LockInv'
  BY <1>1, <1>2
     DEF LockInv, NoUseAfterFree, Guarded, Inside, TypeOK, Rests, GoesOn, OthersStay, Start, At, ChUnlocked, locks
<1>9. CloseInv'
  BY <1>1, <1>2 DEF CloseInv, LockInv, OpInv, Rests, GoesOn, OthersStay, Start, At, ChUnlocked
<1>10. NoUseAfterFree'
  BY <1>1, <1>2
     DEF NoUseAfterFree, Guarded, Inside, RefInv, OpInv, Rests, GoesOn, OthersStay, Start, At, ChUnlocked
<1> QED BY <1>3, <1>4, <1>5, <1>6, <1>7, <1>8, <1>9, <1>10

\* Start preserves the invariant.
LEMMA StartStep ==
  ASSUME Inv, NEW t \in Threads, Start(t)
  PROVE  Inv'
BY StartedStep, StartFailsStep DEF Start, Started

\* Stopped preserves the invariant.
LEMMA StoppedStep ==
  ASSUME Inv, NEW t \in Threads, Stopped(t)
  PROVE  Inv'
<1> USE ThreadFacts DEF Inv
<1>1. /\ th[t].at = "join" /\ hdls' = hdls /\ leaving' = leaving
      /\ UNCHANGED <<cam_obj, ref_count, made, live, intf_lock, cam_lock>>
  BY DEF Stopped, At, camera, Unknown, State
<1>2. /\ t = Manager /\ t \in Clients /\ t \notin Cbs
      /\ th[t].slot \in Slots /\ ch[th[t].slot].hdl = th[t].hdl /\ th[t].hdl \in 1..MaxHdl
      /\ th[t].hdl \in has[t].added /\ has[t].ref /\ th[t].cam = cam_obj
  BY <1>1, ManagerFacts
<1>3. Rests(t) /\ ThOK'
  BY RestFacts DEF Stopped
<1>4. /\ \A c \in Clients : has'[c].ref = has[c].ref /\ has'[c].cam = has[c].cam
                              /\ has'[c].added = has[c].added
      /\ \A c \in Clients \ {t} : has'[c] = has[c]
      /\ has'[t].active = has[t].active \ {th[t].hdl}
      /\ has' \in [Clients -> [ref : BOOLEAN, cam : 0..MaxOpens,
                               added : SUBSET (1..MaxHdl), active : SUBSET (1..MaxHdl)]]
  <2> DEFINE new == has[t].active \ {th[t].hdl}
  <2>1. has[t] \in [ref : BOOLEAN, cam : 0..MaxOpens,
                    added : SUBSET (1..MaxHdl), active : SUBSET (1..MaxHdl)]
    BY <1>2 DEF TypeOK
  <2>2. new \in SUBSET (1..MaxHdl)
    BY <1>2, <2>1
  <2>3. has' = [has EXCEPT ![t].active = new]
    BY DEF Stopped
  <2>4. new = has[t].active \ {th[t].hdl}
    OBVIOUS
  <2> HIDE DEF new
  <2>5. has' = [has EXCEPT ![t] = [has[t] EXCEPT !.active = new]]
    BY <2>3
  <2>6. [has[t] EXCEPT !.active = new] = [ref |-> has[t].ref, cam |-> has[t].cam,
            active |-> new, added |-> has[t].added]
    BY <2>1
  <2>7. /\ \A c \in Clients \ {t} : has'[c] = has[c]
        /\ has'[t] = [ref |-> has[t].ref, cam |-> has[t].cam,
                      active |-> new, added |-> has[t].added]
    BY <1>2, <2>5, <2>6 DEF TypeOK
  <2>8. has' \in [Clients -> [ref : BOOLEAN, cam : 0..MaxOpens,
                              added : SUBSET (1..MaxHdl), active : SUBSET (1..MaxHdl)]]
    BY <1>2, <2>1, <2>2, <2>5, <2>6 DEF TypeOK
  <2>9. /\ has'[t].ref = has[t].ref /\ has'[t].cam = has[t].cam
        /\ has'[t].added = has[t].added /\ has'[t].active = new
    BY <2>7
  <2> QED BY <1>2, <2>4, <2>7, <2>8, <2>9
<1>5. /\ ch'[th[t].slot].hdl = th[t].hdl /\ ch'[th[t].slot].state = "STOPPED"
      /\ \A r \in Slots \ {th[t].slot} : ch'[r] = ch[r]
      /\ ch' \in [Slots -> [hdl : 0..MaxHdl, state : {"NOTUSED", "STOPPED", "ACTIVE"}]]
  <2>1. ch' = [ch EXCEPT ![th[t].slot].state = "STOPPED"]
    BY DEF Stopped, NoChannel
  <2> QED BY <1>2, <2>1, StateFacts
<1>6. TypeOK'
  <2>1. ch_lock' \in [Slots -> Owners]
    BY <1>2 DEF Stopped, ChUnlocked, TypeOK, Owners
  <2> QED BY <1>1, <1>3, <1>4, <1>5, <2>1 DEF TypeOK, ThOK, Owners
<1>7. OpInv' /\ LockInv' /\ CloseInv' /\ NoUseAfterFree'
  BY <1>1, <1>2, <1>3
     DEF OpInv, LockInv, CloseInv, NoUseAfterFree, Guarded, Inside, Rests, OthersStay
<1>8. RefInv' /\ AddedInv'
  <2>1. Holders' = Holders
    BY <1>4 DEF Holders
  <2>2. th[t].hdl \notin has'[t].active /\ has'[t].active \subseteq has'[t].added
    BY <1>1, <1>2, <1>4 DEF AddedInv, CallInv
  <2> QED BY <1>1, <1>2, <1>4, <2>1, <2>2 DEF RefInv, AddedInv
<1>9. CallInv'
  <2> SUFFICES ASSUME NEW c \in Clients, th'[c].at # "idle"
               PROVE  CallInv!(c)'
    BY DEF CallInv
  <2>1. c # t /\ th'[c] = th[c] /\ has'[c] = has[c]
    BY <1>2, <1>3, <1>4 DEF Rests, OthersStay
  <2> QED BY <2>1 DEF CallInv
<1>10. SlotInv'
  <2>1. \A r \in Slots \ {th[t].slot} : ch[r].hdl # th[t].hdl
    BY <1>2 DEF SlotInv
  <2>2. \A s, r \in Slots : ch'[s].hdl = ch'[r].hdl /\ ch'[s].hdl # 0 => s = r
    BY <1>2, <1>5 DEF SlotInv
  <2>3. ASSUME NEW s \in Slots
        PROVE  /\ ch'[s].hdl # 0 => ch'[s].hdl \in has'[Manager].added
               /\ ch'[s].state = "ACTIVE" <=> ch'[s].hdl \in has'[Manager].active
               /\ ch'[s].hdl = 0 => ch'[s].state = "NOTUSED"
               /\ ~(ch'[s].state = "NOTUSED" /\ ch'[s].hdl # 0)
    <3>1. CASE s = th[t].slot
      BY <1>2, <1>4, <1>5, <3>1 DEF TypeOK
    <3>2. CASE s # th[t].slot
      BY <1>1, <1>2, <1>4, <1>5, <2>1, <3>2 DEF SlotInv
    <3> QED BY <3>1, <3>2
  <2>4. ASSUME NEW c \in Clients, th'[c].at \in {"ch", "fsm", "join", "clear"}
        PROVE  th'[c].slot \in Slots /\ ch'[th'[c].slot].hdl = th'[c].hdl
    <3>1. c # t /\ th'[c] = th[c]
      BY <1>2, <1>3, <2>4 DEF Rests, OthersStay
    <3>2. th[c].op \in ChannelOps
      BY <2>4, <3>1 DEF OpInv
    <3> QED BY <1>2, <2>4, <3>1, <3>2 DEF CallInv, AddedInv
  <2>5. ASSUME NEW s \in Slots, th'[Cb(s)].at # "none"
        PROVE  /\ ch'[s].hdl = th'[Cb(s)].hdl
               /\ ch'[s].hdl \in has'[Manager].active
               /\ th'[Cb(s)].cam = cam_obj'
               /\ th'[Cb(s)].at = "qbuf" => th'[Cb(s)].slot = s
    <3>1. th'[Cb(s)] = th[Cb(s)]
      BY <1>2, <1>3 DEF Rests, OthersStay
    <3>2. s # th[t].slot
      BY <1>1, <1>2, <2>5, <3>1 DEF Stopped, Joined
    <3> QED BY <1>1, <1>2, <1>4, <1>5, <2>1, <2>5, <3>1, <3>2 DEF SlotInv
  <2> QED BY <2>2, <2>3, <2>4, <2>5 DEF SlotInv
<1> QED BY <1>6, <1>7, <1>8, <1>9, <1>10

\* Clear preserves the invariant.
LEMMA ClearStep ==
  ASSUME Inv, NEW t \in Threads, Clear(t)
  PROVE  Inv'
<1> USE ThreadFacts DEF Inv
<1>1. /\ th[t].at = "clear" /\ hdls' = hdls /\ leaving' = leaving
      /\ UNCHANGED <<cam_obj, ref_count, made, live, intf_lock, cam_lock>>
  BY DEF Clear, At, camera, Unknown, State
<1>2. /\ t = Manager /\ t \in Clients /\ t \notin Cbs
      /\ th[t].slot \in Slots /\ ch[th[t].slot].hdl = th[t].hdl /\ th[t].hdl \in 1..MaxHdl
      /\ th[t].hdl \in has[t].added /\ has[t].ref /\ th[t].cam = cam_obj
  BY <1>1, ManagerFacts
<1>3. Rests(t) /\ ThOK'
  BY RestFacts DEF Clear
<1>4. th[t].hdl \notin has[t].active
  BY <1>1, <1>2 DEF OpInv, CallInv
<1>5. /\ \A c \in Clients : has'[c].ref = has[c].ref /\ has'[c].cam = has[c].cam
                              /\ has'[c].active = has[c].active
      /\ \A c \in Clients \ {t} : has'[c] = has[c]
      /\ has'[t].added = has[t].added \ {th[t].hdl}
      /\ has' \in [Clients -> [ref : BOOLEAN, cam : 0..MaxOpens,
                               added : SUBSET (1..MaxHdl), active : SUBSET (1..MaxHdl)]]
  <2> DEFINE new == has[t].added \ {th[t].hdl}
  <2>1. has[t] \in [ref : BOOLEAN, cam : 0..MaxOpens,
                    added : SUBSET (1..MaxHdl), active : SUBSET (1..MaxHdl)]
    BY <1>2 DEF TypeOK
  <2>2. new \in SUBSET (1..MaxHdl)
    BY <1>2, <2>1
  <2>3. has' = [has EXCEPT ![t].added = new]
    BY DEF Clear
  <2>4. new = has[t].added \ {th[t].hdl}
    OBVIOUS
  <2> HIDE DEF new
  <2>5. has' = [has EXCEPT ![t] = [has[t] EXCEPT !.added = new]]
    BY <2>3
  <2>6. [has[t] EXCEPT !.added = new] = [ref |-> has[t].ref, cam |-> has[t].cam,
            added |-> new, active |-> has[t].active]
    BY <2>1
  <2>7. /\ \A c \in Clients \ {t} : has'[c] = has[c]
        /\ has'[t] = [ref |-> has[t].ref, cam |-> has[t].cam,
                      added |-> new, active |-> has[t].active]
    BY <1>2, <2>5, <2>6 DEF TypeOK
  <2>8. has' \in [Clients -> [ref : BOOLEAN, cam : 0..MaxOpens,
                              added : SUBSET (1..MaxHdl), active : SUBSET (1..MaxHdl)]]
    BY <1>2, <2>1, <2>2, <2>5, <2>6 DEF TypeOK
  <2>9. /\ has'[t].ref = has[t].ref /\ has'[t].cam = has[t].cam
        /\ has'[t].active = has[t].active /\ has'[t].added = new
    BY <2>7
  <2> QED BY <1>2, <2>4, <2>7, <2>8, <2>9
<1>6. /\ ch'[th[t].slot].hdl = 0 /\ ch'[th[t].slot].state = "NOTUSED"
      /\ \A r \in Slots \ {th[t].slot} : ch'[r] = ch[r]
      /\ ch' \in [Slots -> [hdl : 0..MaxHdl, state : {"NOTUSED", "STOPPED", "ACTIVE"}]]
  <2>1. ch' = [ch EXCEPT ![th[t].slot] = [hdl |-> 0, state |-> "NOTUSED"]]
    BY DEF Clear, NoChannel
  <2> QED BY <1>2, <2>1, CameraAssumption DEF TypeOK
<1>7. TypeOK'
  <2>1. ch_lock' \in [Slots -> Owners]
    BY <1>2 DEF Clear, ChUnlocked, TypeOK, Owners
  <2> QED BY <1>1, <1>3, <1>5, <1>6, <2>1 DEF TypeOK, ThOK, Owners
<1>8. OpInv' /\ LockInv' /\ CloseInv' /\ NoUseAfterFree'
  BY <1>1, <1>2, <1>3
     DEF OpInv, LockInv, CloseInv, NoUseAfterFree, Guarded, Inside, Rests, OthersStay
<1>9. RefInv' /\ AddedInv'
  <2>1. Holders' = Holders
    BY <1>5 DEF Holders
  <2>2. th[t].hdl \notin has'[t].active /\ has'[t].active \subseteq has'[t].added
    BY <1>1, <1>2, <1>5, <1>4 DEF AddedInv
  <2> QED BY <1>1, <1>2, <1>5, <2>1, <2>2 DEF RefInv, AddedInv
<1>10. CallInv'
  <2> SUFFICES ASSUME NEW c \in Clients, th'[c].at # "idle"
               PROVE  CallInv!(c)'
    BY DEF CallInv
  <2>1. c # t /\ th'[c] = th[c] /\ has'[c] = has[c]
    BY <1>2, <1>3, <1>5 DEF Rests, OthersStay
  <2> QED BY <2>1 DEF CallInv
<1>11. SlotInv'
  <2>1. \A r \in Slots \ {th[t].slot} : ch[r].hdl # th[t].hdl
    BY <1>2 DEF SlotInv
  <2>2. \A s, r \in Slots : ch'[s].hdl = ch'[r].hdl /\ ch'[s].hdl # 0 => s = r
    BY <1>2, <1>6 DEF SlotInv
  <2>3. ASSUME NEW s \in Slots
        PROVE  /\ ch'[s].hdl # 0 => ch'[s].hdl \in has'[Manager].added
               /\ ch'[s].state = "ACTIVE" <=> ch'[s].hdl \in has'[Manager].active
               /\ ch'[s].hdl = 0 => ch'[s].state = "NOTUSED"
               /\ ~(ch'[s].state = "NOTUSED" /\ ch'[s].hdl # 0)
    <3>1. CASE s = th[t].slot
      BY <1>2, <1>5, <1>6, <3>1 DEF TypeOK
    <3>2. CASE s # th[t].slot
      BY <1>1, <1>2, <1>5, <1>6, <2>1, <3>2 DEF SlotInv
    <3> QED BY <3>1, <3>2
  <2>4. ASSUME NEW c \in Clients, th'[c].at \in {"ch", "fsm", "join", "clear"}
        PROVE  th'[c].slot \in Slots /\ ch'[th'[c].slot].hdl = th'[c].hdl
    <3>1. c # t /\ th'[c] = th[c]
      BY <1>2, <1>3, <2>4 DEF Rests, OthersStay
    <3>2. th[c].op \in ChannelOps
      BY <2>4, <3>1 DEF OpInv
    <3> QED BY <1>2, <2>4, <3>1, <3>2 DEF CallInv, AddedInv
  <2>5. ASSUME NEW s \in Slots, th'[Cb(s)].at # "none"
        PROVE  /\ ch'[s].hdl = th'[Cb(s)].hdl
               /\ ch'[s].hdl \in has'[Manager].active
               /\ th'[Cb(s)].cam = cam_obj'
               /\ th'[Cb(s)].at = "qbuf" => th'[Cb(s)].slot = s
    <3>1. th'[Cb(s)] = th[Cb(s)]
      BY <1>2, <1>3 DEF Rests, OthersStay
    <3>2. s # th[t].slot
      BY <1>1, <1>2, <1>4, <2>5, <3>1 DEF SlotInv
    <3> QED BY <1>1, <1>2, <1>5, <1>6, <2>1, <2>5, <3>1, <3>2 DEF SlotInv
  <2> QED BY <2>2, <2>3, <2>4, <2>5 DEF SlotInv
<1> QED BY <1>7, <1>8, <1>9, <1>10, <1>11

\* Release preserves the invariant.
LEMMA ReleaseStep ==
  ASSUME Inv, NEW t \in Threads, Release(t)
  PROVE  Inv'
<1> USE ThreadFacts DEF Inv
<1>1. /\ th[t].at = "fsm" /\ th[t].op = "delete" /\ UNCHANGED <<hdls, has, leaving>>
      /\ UNCHANGED <<cam_obj, ref_count, made, live, intf_lock, cam_lock>>
  BY DEF Release, At, camera, Unknown, State
<1>2. /\ t = Manager /\ t \in Clients /\ t \notin Cbs
      /\ th[t].slot \in Slots /\ ch[th[t].slot].hdl = th[t].hdl /\ th[t].hdl \in 1..MaxHdl
      /\ th[t].hdl \in has[t].added /\ has[t].ref /\ th[t].cam = cam_obj
  BY <1>1, ManagerFacts
<1>3. GoesOn(t, "clear") /\ th'[t].slot = th[t].slot /\ ThOK'
  BY MoveFacts DEF Release, Ats
<1>4. th[t].hdl \notin has[t].active
  BY <1>1, <1>2 DEF CallInv
<1>5. /\ ch'[th[t].slot].hdl = th[t].hdl /\ ch'[th[t].slot].state = "NOTUSED"
      /\ \A r \in Slots \ {th[t].slot} : ch'[r] = ch[r]
      /\ ch' \in [Slots -> [hdl : 0..MaxHdl, state : {"NOTUSED", "STOPPED", "ACTIVE"}]]
  <2>1. ch[th[t].slot].state = "STOPPED"
    <3>1. ch[th[t].slot].state \in {"NOTUSED", "STOPPED", "ACTIVE"}
      BY <1>2 DEF TypeOK
    <3> QED BY <1>1, <1>2, <1>4, <3>1 DEF SlotInv
  <2>2. ch' = [ch EXCEPT ![th[t].slot].state = "NOTUSED"]
    BY <1>1, <2>1 DEF Release, Unknown, State
  <2> QED BY <1>2, <2>2, StateFacts
<1>6. TypeOK'
  <2>1. ch_lock' \in [Slots -> Owners]
    BY <1>2 DEF Release, ChUnlocked, TypeOK, Owners
  <2> QED BY <1>1, <1>3, <1>5, <2>1 DEF TypeOK, ThOK, Owners
<1>7. OpInv' /\ LockInv' /\ CloseInv' /\ NoUseAfterFree'
  BY <1>1, <1>2, <1>3
     DEF OpInv, LockInv, CloseInv, NoUseAfterFree, Guarded, Inside, GoesOn, OthersStay
<1>8. RefInv' /\ AddedInv'
  BY <1>1, RefKept, AddedKept DEF RefInv
<1>9. CallInv'
  BY <1>1, <1>3, CallKept DEF Ats
<1>10. SlotInv'
  BY <1>1, <1>2, <1>3, <1>4, <1>5 DEF SlotInv, GoesOn, OthersStay
<1> QED BY <1>6, <1>7, <1>8, <1>9, <1>10

-----------------------------------------------------------------------------
(* Steps that change the references and the camera object.                 *)

\* The sets of clients are finite.
LEMMA HolderFacts ==
  /\ IsFiniteSet(Clients) /\ Cardinality(Clients) \in Nat
  /\ \A S \in SUBSET Clients : IsFiniteSet(S) /\ Cardinality(S) \in 0..Cardinality(Clients)
<1>1. IsFiniteSet(Clients)
  BY CameraAssumption, FS_AddElement DEF Clients
<1>2. Cardinality(Clients) \in Nat
  BY <1>1, FS_CardinalityType
<1>3. ASSUME NEW S \in SUBSET Clients
      PROVE  IsFiniteSet(S) /\ Cardinality(S) \in 0..Cardinality(Clients)
  <2>1. IsFiniteSet(S) /\ Cardinality(S) <= Cardinality(Clients)
    BY <1>1, FS_Subset
  <2>2. Cardinality(S) \in Nat
    BY <2>1, FS_CardinalityType
  <2> QED BY <1>2, <2>1, <2>2
<1> QED BY <1>1, <1>2, <1>3

\* Close preserves the invariant.
LEMMA CloseStep ==
  ASSUME Inv, NEW t \in Threads, Close(t)
  PROVE  Inv'
<1> USE ThreadFacts DEF Inv
<1>1. Rests(t) /\ ThOK'
  BY RestFacts DEF Close
<1>2. /\ th[t].at = "camera" /\ th[t].op = "close" /\ live' = live \ {th[t].cam}
      /\ cam_lock' = [cam_lock EXCEPT ![th[t].cam] = Nobody]
      /\ UNCHANGED <<cam_obj, ref_count, made, intf_lock, ch_lock, ch, hdls, has, leaving>>
  BY DEF Close, In, At, CamUnlocked
<1>3. t \in Clients /\ th[t].cam # cam_obj
  BY <1>2 DEF OpInv, CloseInv
<1>4. TypeOK'
  BY <1>1, <1>2 DEF TypeOK, ThOK, Owners
<1>5. RefInv' /\ AddedInv'
  BY <1>2, <1>3, RefKept, AddedKept DEF RefInv
<1>6. OpInv' /\ CallInv' /\ SlotInv' /\ CloseInv'
  BY <1>1, <1>2, <1>3, CallKept, SlotKept
     DEF OpInv, CloseInv, Rests, OthersStay, Ats, SlotInv
<1>7. LockInv'
  <2>1. \A u \in Threads \ {t} : th[u].at \in {"camera", "server", "ch"} => th[u].cam # th[t].cam
    BY <1>2 DEF LockInv
  <2>2. \A o \in (1..MaxOpens) \ {th[t].cam} : cam_lock'[o] = cam_lock[o]
    BY <1>2 DEF TypeOK
  <2>3. \A u \in Threads : th[u].at \in {"camera", "server", "ch"} => th[u].cam \in 1..MaxOpens
    BY DEF NoUseAfterFree, Guarded, Inside, TypeOK
  <2> QED BY <1>1, <1>2, <1>3, <2>1, <2>2, <2>3 DEF LockInv, Rests, OthersStay
<1>8. NoUseAfterFree'
  <2> SUFFICES ASSUME NEW u \in Threads, Guarded(u)', th'[u].at \in Inside
               PROVE  th'[u].cam \in live'
    BY DEF NoUseAfterFree, Guarded, Inside
  <2>1. u # t /\ th'[u] = th[u]
    BY <1>1, <1>3 DEF Rests, OthersStay, Inside
  <2>2. th[u].cam \in live
    BY <2>1 DEF NoUseAfterFree, Guarded
  <2>3. th[u].cam # th[t].cam
    <3>1. CASE th[u].at = "cam"
      BY <1>2, <1>3, <2>1, <3>1 DEF CloseInv
    <3>2. CASE th[u].at \in {"camera", "server"}
      BY <1>2, <2>1, <3>2 DEF LockInv
    <3>3. CASE th[u].at \in {"ch", "fsm", "join"}
      BY <1>3, <3>3, ManagerFacts
    <3>4. CASE th[u].at = "qbuf"
      <4>1. u \in Cbs
        BY <2>1, <3>4 DEF OpInv, Guarded
      <4> QED BY <1>3, <3>4, <4>1 DEF SlotInv
    <3> QED BY <2>1, <3>1, <3>2, <3>3, <3>4 DEF Inside
  <2> QED BY <1>2, <2>1, <2>2, <2>3
<1> QED BY <1>4, <1>5, <1>6, <1>7, <1>8

\* Open preserves the invariant.
LEMMA OpenStep ==
  ASSUME Inv, NEW t \in Threads, Open(t)
  PROVE  Inv'
<1> USE ThreadFacts DEF Inv
<1>1. Rests(t) /\ ThOK'
  BY RestFacts DEF Open
<1>2. /\ th[t].at = "intf" /\ th[t].op = "open"
      /\ UNCHANGED <<intf_lock, cam_lock, ch_lock, ch, hdls, leaving>>
  BY DEF Open, At, locks
<1>3. t \in Clients /\ ~has[t].ref
  BY <1>2 DEF OpInv, CallInv
<1>4. OpInv' /\ LockInv'
  BY <1>1, <1>2, <1>3 DEF OpInv, LockInv, Rests, OthersStay
<1>5. CASE UNCHANGED <<cam_obj, ref_count, made, live, has>>
  <2>1. TypeOK'
    BY <1>1, <1>2, <1>5 DEF TypeOK, ThOK, Owners
  <2>2. RefInv' /\ AddedInv' /\ CallInv' /\ SlotInv' /\ CloseInv' /\ NoUseAfterFree'
    BY <1>1, <1>2, <1>3, <1>5, RefKept, AddedKept, CallKept, SlotKept
       DEF RefInv, CloseInv, NoUseAfterFree, Guarded, Inside, Rests, OthersStay, Ats, SlotInv, OpInv
  <2> QED BY <1>4, <2>1, <2>2
<1>6. ASSUME NEW cam \in 1..MaxOpens, cam_obj' = cam, cam \in live', live \subseteq live',
             made' \in 0..MaxOpens, live' \subseteq 1..made', ref_count' = ref_count + 1,
             has' = [has EXCEPT ![t].ref = TRUE, ![t].cam = cam],
             cam_obj # 0 => cam = cam_obj,
             cam_obj = 0 => cam \notin live
      PROVE  Inv'
  <2>1. /\ has'[t].ref /\ has'[t].cam = cam
        /\ has'[t].added = has[t].added /\ has'[t].active = has[t].active
        /\ \A c \in Clients \ {t} : has'[c] = has[c]
        /\ has' \in [Clients -> [ref : BOOLEAN, cam : 0..MaxOpens,
                                 added : SUBSET (1..MaxHdl), active : SUBSET (1..MaxHdl)]]
    <3> DEFINE mid == [has EXCEPT ![t].ref = TRUE]
    <3>1. /\ mid \in [Clients -> [ref : BOOLEAN, cam : 0..MaxOpens,
                                 added : SUBSET (1..MaxHdl), active : SUBSET (1..MaxHdl)]]
          /\ mid[t].ref /\ mid[t].cam = has[t].cam
          /\ mid[t].added = has[t].added /\ mid[t].active = has[t].active
          /\ \A c \in Clients \ {t} : mid[c] = has[c]
      <4>1. has[t] \in [ref : BOOLEAN, cam : 0..MaxOpens,
                                 added : SUBSET (1..MaxHdl), active : SUBSET (1..MaxHdl)]
        BY <1>3 DEF TypeOK
      <4>2. mid = [has EXCEPT ![t] = [has[t] EXCEPT !.ref = TRUE]]
        OBVIOUS
      <4> DEFINE new == [has[t] EXCEPT !.ref = TRUE]
      <4>3. /\ new \in [ref : BOOLEAN, cam : 0..MaxOpens,
                       added : SUBSET (1..MaxHdl), active : SUBSET (1..MaxHdl)]
            /\ new.ref = TRUE /\ new.cam = has[t].cam
            /\ new.added = has[t].added /\ new.active = has[t].active
        BY <4>1
      <4>4. mid = [has EXCEPT ![t] = new]
        BY <4>2
      <4> HIDE DEF new
      <4>5. /\ \A c \in Clients \ {t} : mid[c] = has[c]
            /\ mid[t] = new
        BY <1>3, <4>4 DEF TypeOK
      <4>6. mid \in [Clients -> [ref : BOOLEAN, cam : 0..MaxOpens,
                           added : SUBSET (1..MaxHdl), active : SUBSET (1..MaxHdl)]]
        BY <1>3, <4>4, <4>3 DEF TypeOK
      <4>7. /\ mid[t].ref /\ mid[t].cam = has[t].cam
            /\ mid[t].added = has[t].added /\ mid[t].active = has[t].active
        BY <4>3, <4>5
      <4> QED BY <4>5, <4>6, <4>7
    <3>2. has' = [mid EXCEPT ![t].cam = cam]
      BY <1>6
    <3>3. cam \in 0..MaxOpens
      BY CameraAssumption
    <3> HIDE DEF mid
    <3> QED BY <1>3, <3>1, <3>2, <3>3
  <2>2. \A c \in Clients : has'[c].added = has[c].added /\ has'[c].active = has[c].active
    BY <2>1
  <2>3. Holders' = Holders \cup {t} /\ t \notin Holders
    BY <1>3, <2>1 DEF Holders
  <2>4. ref_count' = Cardinality(Holders') /\ ref_count' \in 0..Cardinality(Clients)
    <3>1. Holders \in SUBSET Clients /\ Holders' \in SUBSET Clients
      BY DEF Holders
    <3>2. IsFiniteSet(Holders)
      BY <3>1, HolderFacts
    <3>3. Cardinality(Holders \cup {t}) = Cardinality(Holders) + 1
      BY <2>3, <3>2, FS_AddElement
    <3>4. ref_count' = Cardinality(Holders')
      BY <1>6, <2>3, <3>3 DEF RefInv
    <3> QED BY <3>1, <3>4, HolderFacts
  <2>5. cam_obj' # 0 /\ cam_obj' \in 0..MaxOpens
    BY <1>6, CameraAssumption
  <2>6. TypeOK'
    BY <1>1, <1>2, <1>6, <2>1, <2>4, <2>5 DEF TypeOK, ThOK, Owners
  <2>7. RefInv'
    <3>1. \A c \in Clients : has'[c].ref => has'[c].cam = cam
      BY <1>6, <2>1 DEF RefInv
    <3> QED BY <1>6, <2>3, <2>4, <2>5, <3>1 DEF RefInv
  <2>8. AddedInv'
    BY <1>2, <2>1, <2>2 DEF AddedInv
  <2>9. CallInv'
    <3> SUFFICES ASSUME NEW c \in Clients, th'[c].at # "idle"
                 PROVE  CallInv!(c)'
      BY DEF CallInv
    <3>1. c # t /\ th'[c] = th[c] /\ has'[c] = has[c]
      BY <1>1, <1>3, <2>1 DEF Rests, OthersStay
    <3> QED BY <3>1 DEF CallInv
  <2>10. \A s \in Slots : th'[Cb(s)] = th[Cb(s)] /\ (th[Cb(s)].at # "none" => cam_obj' = cam_obj)
    <3>1. cam_obj = 0 => has[Manager].active = {}
      BY DEF RefInv, AddedInv
    <3>2. \A s \in Slots : th[Cb(s)].at # "none" => cam_obj # 0
      BY <3>1 DEF SlotInv
    <3> QED BY <1>1, <1>3, <1>6, <3>2 DEF Rests, OthersStay
  <2>11. SlotInv'
    BY <1>1, <1>2, <1>3, <2>2, <2>10 DEF SlotInv, Rests, OthersStay
  <2>12. CloseInv'
    <3>1. \A c \in Clients : th[c].op = "close" /\ th[c].at \in {"cam", "camera"} =>
                               th[c].cam \in live
      BY DEF NoUseAfterFree, Guarded, Inside
    <3>2. \A c \in Clients : th[c].op = "close" /\ th[c].at \in {"cam", "camera"} =>
                               th[c].cam # cam
      BY <1>6, <3>1 DEF CloseInv
    <3> QED BY <1>1, <1>3, <1>6, <3>2 DEF CloseInv, Rests, OthersStay
  <2>13. NoUseAfterFree'
    BY <1>1, <1>3, <1>6 DEF NoUseAfterFree, Guarded, Inside, Rests, OthersStay
  <2> QED BY <1>4, <2>6, <2>7, <2>8, <2>9, <2>11, <2>12, <2>13
<1>7. CASE /\ cam_obj # 0 /\ ref_count' = ref_count + 1
           /\ has' = [has EXCEPT ![t].ref = TRUE, ![t].cam = cam_obj]
           /\ UNCHANGED <<cam_obj, made, live>>
  <2>1. /\ cam_obj \in 1..MaxOpens /\ cam_obj \in live'
        /\ live \subseteq live' /\ live' \subseteq 1..made' /\ made' \in 0..MaxOpens
        /\ cam_obj' = cam_obj
    BY <1>7, CameraAssumption DEF TypeOK, RefInv
  <2> QED BY <1>6, <1>7, <2>1
<1>8. CASE /\ cam_obj = 0 /\ made < MaxOpens
           /\ made' = made + 1 /\ cam_obj' = made + 1 /\ ref_count' = 1
           /\ live' = live \cup {made + 1}
           /\ has' = [has EXCEPT ![t].ref = TRUE, ![t].cam = made + 1]
  <2>1. made \in 0..MaxOpens /\ live \subseteq 1..made /\ MaxOpens \in Nat
    BY CameraAssumption DEF TypeOK
  <2>2. /\ made + 1 \in 1..MaxOpens /\ made' \in 0..MaxOpens /\ live' \subseteq 1..made'
        /\ made + 1 \notin live /\ made + 1 \in live' /\ live \subseteq live'
    BY <1>8, <2>1
  <2>3. ref_count' = ref_count + 1
    <3>1. Holders = {}
      BY <1>8 DEF RefInv, Holders
    <3>2. ref_count = 0
      BY <3>1, FS_EmptySet DEF RefInv
    <3> QED BY <1>8, <3>2
  <2>4. cam_obj' = made + 1 /\ has' = [has EXCEPT ![t].ref = TRUE, ![t].cam = made + 1]
    BY <1>8
  <2> QED BY <1>6, <1>8, <2>2, <2>3, <2>4
<1> QED BY <1>5, <1>7, <1>8 DEF Open, camera

\* Unref preserves the invariant.
LEMMA UnrefStep ==
  ASSUME Inv, NEW t \in Threads, Unref(t)
  PROVE  Inv'
<1> USE ThreadFacts DEF Inv
<1>1. /\ th[t].at = "intf" /\ th[t].op = "close" /\ intf_lock = Nobody
      /\ th[t].cam = cam_obj /\ cam_obj # 0
      /\ ref_count' = ref_count - 1 /\ has' = [has EXCEPT ![t].ref = FALSE]
      /\ UNCHANGED <<made, live, cam_lock, ch_lock, ch, hdls, leaving>>
  BY DEF Unref, At, Found
<1>2. t \in Clients /\ has[t].ref /\ has[t].added = {}
  BY <1>1 DEF OpInv, CallInv
<1>3. /\ ~has'[t].ref /\ \A c \in Clients \ {t} : has'[c] = has[c]
      /\ \A c \in Clients : /\ has'[c].cam = has[c].cam /\ has'[c].added = has[c].added
                            /\ has'[c].active = has[c].active
      /\ has' \in [Clients -> [ref : BOOLEAN, cam : 0..MaxOpens,
                               added : SUBSET (1..MaxHdl), active : SUBSET (1..MaxHdl)]]
  <2>1. has[t] \in [ref : BOOLEAN, cam : 0..MaxOpens,
                                 added : SUBSET (1..MaxHdl), active : SUBSET (1..MaxHdl)]
    BY <1>2 DEF TypeOK
  <2>2. has' = [has EXCEPT ![t] = [has[t] EXCEPT !.ref = FALSE]]
    BY <1>1
  <2> DEFINE new == [has[t] EXCEPT !.ref = FALSE]
  <2>3. /\ new \in [ref : BOOLEAN, cam : 0..MaxOpens,
                   added : SUBSET (1..MaxHdl), active : SUBSET (1..MaxHdl)]
        /\ new.ref = FALSE /\ new.cam = has[t].cam
        /\ new.added = has[t].added /\ new.active = has[t].active
    BY <2>1
  <2>4. has' = [has EXCEPT ![t] = new]
    BY <2>2
  <2> HIDE DEF new
  <2>5. /\ \A c \in Clients \ {t} : has'[c] = has[c]
        /\ has'[t] = new
    BY <1>2, <2>4 DEF TypeOK
  <2>6. has' \in [Clients -> [ref : BOOLEAN, cam : 0..MaxOpens,
                       added : SUBSET (1..MaxHdl), active : SUBSET (1..MaxHdl)]]
    BY <1>2, <2>4, <2>3 DEF TypeOK
  <2>7. /\ ~has'[t].ref /\ has'[t].cam = has[t].cam
        /\ has'[t].added = has[t].added /\ has'[t].active = has[t].active
    BY <2>3, <2>5
  <2> QED BY <1>2, <2>5, <2>6, <2>7
<1>4. /\ Holders' = Holders \ {t} /\ t \in Holders
      /\ ref_count \in Nat \ {0} /\ ref_count' = Cardinality(Holders')
      /\ ref_count' \in 0..Cardinality(Clients)
      /\ ref_count <= 1 <=> Holders' = {}
  <2>1. Holders' = Holders \ {t} /\ t \in Holders
    BY <1>2, <1>3 DEF Holders
  <2>2. Holders \in SUBSET Clients /\ Holders' \in SUBSET Clients
    BY DEF Holders
  <2>3. IsFiniteSet(Holders) /\ IsFiniteSet(Holders') /\ Cardinality(Holders) \in Nat
        /\ Cardinality(Holders') \in 0..Cardinality(Clients)
    BY <2>2, HolderFacts
  <2>4. Cardinality(Holders \ {t}) = Cardinality(Holders) - 1
    BY <2>1, <2>3, FS_RemoveElement
  <2>5. Cardinality(Holders') = 0 <=> Holders' = {}
    BY <2>3, FS_EmptySet
  <2>6. Cardinality(Holders) # 0
    BY <2>1, <2>3, FS_EmptySet
  <2>7. ref_count = Cardinality(Holders)
    BY DEF RefInv
  <2>8. Cardinality(Holders') = Cardinality(Holders) - 1
    BY <2>1, <2>4
  <2> QED BY <1>1, <2>1, <2>3, <2>5, <2>6, <2>7, <2>8
<1>5. AddedInv'
  BY <1>1, <1>2, <1>3 DEF AddedInv
<1>6. \A c \in Clients : has'[c].ref => cam_obj # 0 /\ has'[c].cam = cam_obj
  BY <1>3 DEF RefInv
<1>7. CASE /\ ref_count > 1 /\ th' = Returned(t) /\ UNCHANGED <<cam_obj, intf_lock>>
  <2>1. Rests(t) /\ ThOK'
    BY <1>7, RestFacts
  <2>2. UNCHANGED <<cam_obj, intf_lock>>
    BY <1>7
  <2>3. TypeOK'
    <3>1. ref_count' \in 0..Cardinality(Clients)
      BY <1>4
    <3>2. has' \in [Clients -> [ref : BOOLEAN, cam : 0..MaxOpens,
                                added : SUBSET (1..MaxHdl), active : SUBSET (1..MaxHdl)]]
      BY <1>3
    <3> QED BY <1>1, <2>1, <2>2, <3>1, <3>2 DEF TypeOK, ThOK, Owners
  <2>4. RefInv'
    <3>1. Holders' # {}
      BY <1>4, <1>7
    <3> QED BY <1>1, <1>4, <1>6, <1>7, <3>1 DEF RefInv
  <2>5. OpInv' /\ LockInv' /\ CloseInv' /\ NoUseAfterFree'
    BY <1>1, <1>2, <1>7, <2>1
       DEF OpInv, LockInv, CloseInv, NoUseAfterFree, Guarded, Inside, Rests, OthersStay
  <2>6. CallInv'
    <3> SUFFICES ASSUME NEW c \in Clients, th'[c].at # "idle"
                 PROVE  CallInv!(c)'
      BY DEF CallInv
    <3>1. c # t /\ th'[c] = th[c] /\ has'[c] = has[c]
      BY <1>2, <1>3, <2>1 DEF Rests, OthersStay
    <3> QED BY <3>1 DEF CallInv
  <2>7. SlotInv'
    BY <1>1, <1>2, <1>3, <1>7, <2>1 DEF SlotInv, Rests, OthersStay
  <2> QED BY <1>5, <2>3, <2>4, <2>5, <2>6, <2>7
<1>8. CASE /\ ref_count <= 1 /\ cam_obj' = 0 /\ intf_lock' = t
           /\ th' = [th EXCEPT ![t].at = "cam"]
  <2>1. GoesOn(t, "cam") /\ ThOK'
    BY <1>8, MoveFacts DEF Ats
  <2>2. TypeOK'
    <3>1. /\ UNCHANGED <<made, live, cam_lock, ch_lock, ch, hdls, leaving>>
          /\ ref_count' \in 0..Cardinality(Clients)
      BY <1>1, <1>4
    <3>2. has' \in [Clients -> [ref : BOOLEAN, cam : 0..MaxOpens,
                                added : SUBSET (1..MaxHdl), active : SUBSET (1..MaxHdl)]]
      BY <1>3
    <3>3. cam_obj' \in 0..MaxOpens /\ intf_lock' \in Owners
      BY <1>8, CameraAssumption DEF Owners
    <3> QED BY <2>1, <3>1, <3>2, <3>3 DEF TypeOK, ThOK, Owners
  <2>3. RefInv'
    <3>1. Holders' = {}
      BY <1>4, <1>8
    <3>2. \A c \in Clients : ~has'[c].ref
      BY <3>1 DEF Holders
    <3> QED BY <1>4, <1>8, <3>2 DEF RefInv
  <2>4. OpInv'
    BY <1>1, <1>2, <2>1 DEF OpInv, GoesOn, OthersStay
  <2>5. \A u \in Threads : th[u].at # "cam"
    BY <1>1 DEF LockInv
  <2>6. LockInv'
    BY <1>1, <1>8, <2>1, <2>5 DEF LockInv, GoesOn, OthersStay
  <2>7. \A c \in Clients : th[c].op = "close" /\ th[c].at \in {"cam", "camera"} =>
                             th[c].cam # 0
    BY DEF NoUseAfterFree, Guarded, Inside, TypeOK
  <2>8. CloseInv'
    BY <1>1, <1>8, <2>1, <2>5, <2>7 DEF CloseInv, GoesOn, OthersStay
  <2>9. NoUseAfterFree'
    BY <1>1, <2>1 DEF NoUseAfterFree, Guarded, RefInv, Inside, GoesOn, OthersStay
  <2>10. CallInv'
    <3> SUFFICES ASSUME NEW c \in Clients, th'[c].at # "idle"
                 PROVE  CallInv!(c)'
      BY DEF CallInv
    <3>1. CASE c = t
      BY <1>1, <2>1, <3>1 DEF GoesOn, ChannelOps
    <3>2. CASE c # t
      BY <1>3, <2>1, <3>2 DEF CallInv, GoesOn, OthersStay
    <3> QED BY <3>1, <3>2
  <2>11. SlotInv'
    <3>1. has[Manager].active = {}
      <4>1. Holders' = {}
        BY <1>4, <1>8
      <4>2. ~has'[Manager].ref
        BY <4>1 DEF Holders
      <4> QED BY <1>2, <1>3, <4>2 DEF AddedInv
    <3>2. \A s \in Slots : th[Cb(s)].at = "none" /\ th'[Cb(s)].at = "none"
      BY <1>2, <2>1, <3>1 DEF SlotInv, GoesOn, OthersStay
    <3> QED BY <1>1, <1>2, <1>3, <2>1, <3>2 DEF SlotInv, GoesOn, OthersStay
  <2> QED BY <1>5, <2>2, <2>3, <2>4, <2>6, <2>8, <2>9, <2>10, <2>11
<1>9. ref_count > 1 \/ ref_count <= 1
  BY <1>4
<1> QED BY <1>7, <1>8, <1>9 DEF Unref

-----------------------------------------------------------------------------
(* The invariant.                                                          *)

\* The invariant holds at first.
LEMMA InitInv ==
  ASSUME Init
  PROVE  Inv
<1> USE ThreadFacts, CameraAssumption DEF Init
<1>1. TypeOK
  BY HolderFacts DEF TypeOK, Owners, Resting, Ats, NoChannel
<1>2. /\ \A t \in Cbs : th[t].at = "none"
      /\ \A c \in Clients : /\ th[c].at = "idle" /\ th[c].op = "none"
                            /\ has[c].ref = FALSE /\ has[c].added = {} /\ has[c].active = {}
      /\ \A s \in Slots : ch[s].hdl = 0 /\ ch[s].state = "NOTUSED"
  BY DEF Resting, NoChannel
<1>3. RefInv
  <2>1. Holders = {}
    BY <1>2 DEF Holders
  <2> QED BY <1>2, <2>1, FS_EmptySet DEF RefInv
<1>4. OpInv /\ AddedInv /\ CallInv
  BY <1>2 DEF OpInv, AddedInv, CallInv
<1>5. SlotInv
  BY <1>2 DEF SlotInv
<1>6. LockInv /\ CloseInv /\ NoUseAfterFree
  BY <1>2 DEF LockInv, CloseInv, NoUseAfterFree, Guarded, Inside
<1> QED BY <1>1, <1>3, <1>4, <1>5, <1>6 DEF Inv

\* Every step preserves the invariant.
LEMMA NextInv ==
  ASSUME Inv, [Next]_vars
  PROVE  Inv'
<1>1. CASE UNCHANGED vars
  BY <1>1 DEF vars, Inv, TypeOK, OpInv, RefInv, Holders, AddedInv, CallInv, SlotInv, LockInv,
              CloseInv, NoUseAfterFree, Guarded
<1>2. CASE \E c \in Clients, op \in CameraOps \cup ChannelOps, hdl \in 0..MaxHdl : Call(c, op, hdl)
  BY <1>2, CallStep
<1>3. CASE \E s \in Slots : Frame(s) \/ Exit(s)
  BY <1>3, FrameStep, ExitStep
<1>5. CASE \E r \in Returners, hdl \in 1..MaxHdl : GiveBack(r, hdl)
  BY <1>5, GiveBackStep
<1>4. ASSUME NEW t \in Threads, Step(t)
      PROVE  Inv'
  <2>1. CASE UnderIntf(t)
    BY <2>1, OpenStep, NotFoundStep, UnrefStep, EnterStep DEF UnderIntf
  <2>2. CASE LockCam(t)
    BY <2>2, LockCamStep
  <2>3. CASE UnderCam(t)
    BY <2>3, CloseStep, MapSentStep, MappedStep, AddChannelStep, FindChannelStep,
       QbufUnlockedStep, QbufStep DEF UnderCam
  <2>4. CASE LockCh(t)
    BY <2>4, LockChStep
  <2>5. CASE UnderCh(t)
    BY <2>5, NothingStep, StartStep, StopStep, StoppedStep, ReleaseStep, ClearStep DEF UnderCh
  <2> QED BY <1>4, <2>1, <2>2, <2>3, <2>4, <2>5 DEF Step
<1> QED BY <1>1, <1>2, <1>3, <1>4, <1>5 DEF Next

\* The strengthening holds in every reachable state of the camera and its callers.
THEOREM Invariance == Spec => []Inv
<1>1. Init => Inv
  BY InitInv
<1>2. Inv /\ [Next]_vars => Inv'
  BY NextInv
<1> QED BY <1>1, <1>2, PTL DEF Spec

\* Every variable keeps its type; the references are never fewer than none and never more
\* than the clients.
THEOREM TypeCorrect == Spec => []TypeOK
<1>1. Inv => TypeOK
  BY DEF Inv
<1> QED BY <1>1, Invariance, PTL

\* No thread waits for a lock of a camera object, or works in it under one, after
\* mm_camera_close freed it, for any number of threads, opens and channels, and with any
\* number of returners beside them, which come with stale handles too.
THEOREM NoUseAfterFreeAlways == Spec => []NoUseAfterFree
<1>1. Inv => NoUseAfterFree
  BY DEF Inv
<1> QED BY <1>1, Invariance, PTL

\* A thread that has found its channel and holds a lock works in that channel until it
\* lets it go, and so does the channel's own callback in its qbuf, with no lock, since
\* the stop joins it: whatever returners do beside them.  Of a returner past cam_lock
\* nothing is claimed (StreamPoll's NoStrayAccess says what it meets).
THEOREM NoUseAfterDeleteAlways == Spec => []NoUseAfterDelete
<1>1. ASSUME Inv
      PROVE  NoUseAfterDelete
  <2> USE ThreadFacts
  <2> SUFFICES ASSUME NEW t \in Threads, Guarded(t), th[t].at \in {"ch", "fsm", "join", "qbuf"}
               PROVE  ch[th[t].slot].hdl = th[t].hdl /\ ch[th[t].slot].state # "NOTUSED"
    BY DEF NoUseAfterDelete, State
  <2>1. CASE th[t].at # "qbuf"
    <3>1. /\ t = Manager /\ th[t].slot \in Slots /\ ch[th[t].slot].hdl = th[t].hdl
          /\ th[t].hdl # 0
      BY <1>1, <2>1, ManagerFacts
    <3> QED BY <1>1, <2>1, <3>1 DEF Inv, SlotInv
  <2>2. CASE th[t].at = "qbuf"
    <3>1. t \in Cbs
      BY <1>1, <2>2 DEF Inv, OpInv, Guarded
    <3> QED BY <1>1, <2>2, <3>1 DEF Inv, SlotInv
  <2> QED BY <2>1, <2>2
<1> QED BY <1>1, Invariance, PTL

\* The references of an open camera are those its clients have, so the last close frees it
\* and no earlier one.
THEOREM RefsCountedAlways == Spec => []RefsCounted
<1>1. ASSUME Inv
      PROVE  RefsCounted
  <2> SUFFICES ASSUME cam_obj # 0
               PROVE  ref_count = Cardinality({c \in Clients : has[c].ref /\ has[c].cam = cam_obj})
    BY DEF RefsCounted
  <2>1. {c \in Clients : has[c].ref /\ has[c].cam = cam_obj} = Holders
    BY <1>1 DEF Inv, RefInv, Holders
  <2> QED BY <1>1, <2>1 DEF Inv, RefInv
<1> QED BY <1>1, Invariance, PTL

-----------------------------------------------------------------------------
(* No circle of waits.                                                     *)

\* The locks a thread has, by where it is: the converse of LockInv.
OwnerOK(t) ==
  /\ intf_lock = t => th[t].at = "cam"
  /\ \A o \in 1..MaxOpens : cam_lock[o] = t =>
       th[t].at \in {"camera", "server", "ch"} /\ th[t].cam = o
  /\ \A s \in Slots : ch_lock[s] = t => th[t].at \in {"fsm", "join"} /\ th[t].slot = s
OwnerInv == \A t \in Threads : OwnerOK(t)

\* What a thread has after letting go its lock of a camera, or of a channel.
LEMMA UnlockFacts ==
  ASSUME TypeOK, OwnerInv, NEW t \in Threads
  PROVE  /\ \A o \in 1..MaxOpens : /\ CamUnlocked(t)[o] # t
                                   /\ CamUnlocked(t)[o] \in {Nobody, cam_lock[o]}
         /\ \A s \in Slots : /\ ChUnlocked(t)[s] # t
                             /\ ChUnlocked(t)[s] \in {Nobody, ch_lock[s]}
<1> USE ThreadFacts
<1>1. /\ \A o \in 1..MaxOpens : cam_lock[o] = t => th[t].cam = o
      /\ \A s \in Slots : ch_lock[s] = t => th[t].slot = s
  BY DEF OwnerInv, OwnerOK
<1>2. \A o \in 1..MaxOpens : CamUnlocked(t)[o] = IF o = th[t].cam THEN Nobody ELSE cam_lock[o]
  BY DEF CamUnlocked, TypeOK
<1>3. \A s \in Slots : ChUnlocked(t)[s] = IF s = th[t].slot THEN Nobody ELSE ch_lock[s]
  BY DEF ChUnlocked, TypeOK
<1> QED BY <1>1, <1>2, <1>3

\* A step in which no lock goes to another thread than t, and nobody else moves but
\* threads that have no lock.
LEMMA OwnerKept ==
  ASSUME OwnerInv, NEW t \in Threads,
         \A u \in Threads \ {t} : th'[u] = th[u] \/ th[u].at \in {"none", "loop"},
         intf_lock' \in {Nobody, t, intf_lock},
         \A o \in 1..MaxOpens : cam_lock'[o] \in {Nobody, t, cam_lock[o]},
         \A s \in Slots : ch_lock'[s] \in {Nobody, t, ch_lock[s]},
         OwnerOK(t)'
  PROVE  OwnerInv'
<1> SUFFICES ASSUME NEW u \in Threads \ {t} PROVE OwnerOK(u)'
  BY DEF OwnerInv
<1> USE ThreadFacts
<1>1. OwnerOK(u)
  BY DEF OwnerInv
<1>2. /\ intf_lock' = u => intf_lock = u
      /\ \A o \in 1..MaxOpens : cam_lock'[o] = u => cam_lock[o] = u
      /\ \A s \in Slots : ch_lock'[s] = u => ch_lock[s] = u
  OBVIOUS
<1> QED BY <1>1, <1>2 DEF OwnerOK

\* The steps under g_intf_lock, and the one that lets it go.
LEMMA IntfOwner ==
  ASSUME Inv, OwnerInv, NEW t \in Threads, UnderIntf(t) \/ LockCam(t)
  PROVE  OwnerInv'
<1> USE ThreadFacts
<1>1. TypeOK /\ OwnerOK(t)
  BY DEF Inv, OwnerInv
<1>2. CASE Open(t) \/ NotFound(t)
  <2>1. /\ th[t].at = "intf" /\ UNCHANGED <<intf_lock, cam_lock, ch_lock>> /\ th' = Returned(t)
    BY <1>2 DEF Open, NotFound, At, locks
  <2>2. Rests(t)
    BY <1>1, <2>1, RestFacts
  <2> QED BY <1>1, <2>1, <2>2, OwnerKept DEF OwnerOK, Rests, OthersStay
<1>3. CASE Unref(t) \/ Enter(t)
  <2>1. /\ th[t].at = "intf" /\ UNCHANGED <<cam_lock, ch_lock>>
        /\ \/ UNCHANGED intf_lock /\ th' = Returned(t)
           \/ intf_lock' = t /\ th' = [th EXCEPT ![t].at = "cam"]
    BY <1>3 DEF Unref, Enter, At
  <2>2. CASE UNCHANGED intf_lock /\ th' = Returned(t)
    <3>1. Rests(t)
      BY <1>1, <2>2, RestFacts
    <3> QED BY <1>1, <2>1, <2>2, <3>1, OwnerKept DEF OwnerOK, Rests, OthersStay
  <2>3. CASE intf_lock' = t /\ th' = [th EXCEPT ![t].at = "cam"]
    <3>1. GoesOn(t, "cam")
      BY <1>1, <2>3, MoveFacts DEF Ats
    <3> QED BY <1>1, <2>1, <2>3, <3>1, OwnerKept DEF OwnerOK, GoesOn, OthersStay
  <2> QED BY <2>1, <2>2, <2>3
<1>4. CASE LockCam(t)
  <2>1. /\ th[t].at = "cam" /\ intf_lock' = Nobody /\ UNCHANGED ch_lock
        /\ cam_lock' = [cam_lock EXCEPT ![th[t].cam] = t]
        /\ th' = [th EXCEPT ![t].at = "camera"]
    BY <1>4 DEF LockCam, At
  <2>2. GoesOn(t, "camera")
    BY <1>1, <2>1, MoveFacts DEF Ats
  <2>3. \A o \in 1..MaxOpens : cam_lock'[o] = IF o = th[t].cam THEN t ELSE cam_lock[o]
    BY <1>1, <2>1 DEF TypeOK
  <2>4. OwnerOK(t)'
    BY <1>1, <2>1, <2>2, <2>3 DEF OwnerOK, GoesOn
  <2> QED BY <2>1, <2>2, <2>3, <2>4, OwnerKept DEF GoesOn, OthersStay
<1> QED BY <1>2, <1>3, <1>4 DEF UnderIntf

\* The steps under cam_lock, qbuf included, which has let it go.
LEMMA CamOwner ==
  ASSUME Inv, OwnerInv, NEW t \in Threads, UnderCam(t)
  PROVE  OwnerInv'
<1> USE ThreadFacts
<1>1. TypeOK /\ OwnerOK(t)
  BY DEF Inv, OwnerInv
<1>2. CASE Close(t) \/ Mapped(t) \/ AddChannel(t)
  <2>1. /\ th[t].at \in {"camera", "server"} /\ UNCHANGED <<intf_lock, ch_lock>>
        /\ cam_lock' = CamUnlocked(t) /\ th' = Returned(t)
    BY <1>2 DEF Close, Mapped, AddChannel, In, At
  <2>2. Rests(t)
    BY <1>1, <2>1, RestFacts
  <2>3. \A o \in 1..MaxOpens : cam_lock'[o] # t /\ cam_lock'[o] \in {Nobody, cam_lock[o]}
    BY <1>1, <2>1, UnlockFacts
  <2>4. OwnerOK(t)'
    BY <1>1, <2>1, <2>3 DEF OwnerOK
  <2> QED BY <2>1, <2>2, <2>3, <2>4, OwnerKept DEF Rests, OthersStay
<1>3. CASE MapSent(t)
  <2>1. /\ th[t].at = "camera" /\ UNCHANGED <<intf_lock, cam_lock, ch_lock>>
        /\ th' = [th EXCEPT ![t].at = "server"]
    BY <1>3 DEF MapSent, In, At, locks
  <2>2. GoesOn(t, "server")
    BY <1>1, <2>1, MoveFacts DEF Ats
  <2> QED BY <1>1, <2>1, <2>2, OwnerKept DEF OwnerOK, GoesOn, OthersStay
<1>4. CASE FindChannel(t)
  <2>1. th[t].at = "camera" /\ UNCHANGED <<intf_lock, cam_lock, ch_lock>>
    BY <1>4 DEF FindChannel, In, At, locks
  <2>2. GoesOn(t, "ch")
    BY <1>1, <1>4, FindFacts DEF FindChannel, SlotsOf, Ats
  <2> QED BY <1>1, <2>1, <2>2, OwnerKept DEF OwnerOK, GoesOn, OthersStay
<1>5. CASE QbufUnlocked(t)
  <2>1. th[t].at = "camera" /\ UNCHANGED <<intf_lock, ch_lock>> /\ cam_lock' = CamUnlocked(t)
    BY <1>5 DEF QbufUnlocked, In, At
  <2>2. OthersStay(t)
    <3>1. CASE th' = Returned(t)
      BY <1>1, <3>1, RestFacts DEF Rests
    <3>2. ASSUME NEW s \in SlotsOf(t), th' = [th EXCEPT ![t].at = "qbuf", ![t].slot = s]
          PROVE  OthersStay(t)
      BY <1>1, <3>2, FindFacts DEF GoesOn, SlotsOf, Ats
    <3> QED BY <1>5, <3>1, <3>2 DEF QbufUnlocked
  <2>3. \A o \in 1..MaxOpens : cam_lock'[o] # t /\ cam_lock'[o] \in {Nobody, cam_lock[o]}
    BY <1>1, <2>1, UnlockFacts
  <2>4. OwnerOK(t)'
    BY <1>1, <2>1, <2>3 DEF OwnerOK
  <2> QED BY <2>1, <2>2, <2>3, <2>4, OwnerKept DEF OthersStay
<1>6. CASE Qbuf(t)
  <2>1. th[t].at = "qbuf" /\ UNCHANGED <<intf_lock, cam_lock, ch_lock>> /\ th' = Returned(t)
    BY <1>6 DEF Qbuf, At, locks
  <2>2. Rests(t)
    BY <1>1, <2>1, RestFacts
  <2> QED BY <1>1, <2>1, <2>2, OwnerKept DEF OwnerOK, Rests, OthersStay
<1> QED BY <1>2, <1>3, <1>4, <1>5, <1>6 DEF UnderCam

\* Taking ch_lock, and the steps under it, those that let it go included.
LEMMA ChOwner ==
  ASSUME Inv, OwnerInv, NEW t \in Threads, LockCh(t) \/ UnderCh(t)
  PROVE  OwnerInv'
<1> USE ThreadFacts
<1>1. TypeOK /\ OwnerOK(t)
  BY DEF Inv, OwnerInv
<1>2. CASE LockCh(t)
  <2>1. /\ th[t].at = "ch" /\ UNCHANGED intf_lock /\ cam_lock' = CamUnlocked(t)
        /\ ch_lock' = [ch_lock EXCEPT ![th[t].slot] = t]
        /\ th' = [th EXCEPT ![t].at = "fsm"]
    BY <1>2 DEF LockCh, At
  <2>2. GoesOn(t, "fsm") /\ th'[t].slot = th[t].slot
    BY <1>1, <2>1, MoveFacts DEF Ats
  <2>3. \A o \in 1..MaxOpens : cam_lock'[o] # t /\ cam_lock'[o] \in {Nobody, cam_lock[o]}
    BY <1>1, <2>1, UnlockFacts
  <2>4. \A s \in Slots : ch_lock'[s] = IF s = th[t].slot THEN t ELSE ch_lock[s]
    BY <1>1, <2>1 DEF TypeOK
  <2>5. OwnerOK(t)'
    BY <1>1, <2>1, <2>2, <2>3, <2>4 DEF OwnerOK, GoesOn
  <2> QED BY <2>1, <2>2, <2>3, <2>4, <2>5, OwnerKept DEF GoesOn, OthersStay
<1>3. CASE Stop(t)
  <2>1. /\ th[t].at = "fsm" /\ UNCHANGED <<intf_lock, cam_lock, ch_lock>>
        /\ th' = [th EXCEPT ![t].at = "join"]
    BY <1>3 DEF Stop, At, locks
  <2>2. GoesOn(t, "join") /\ th'[t].slot = th[t].slot
    BY <1>1, <2>1, MoveFacts DEF Ats
  <2> QED BY <1>1, <2>1, <2>2, OwnerKept DEF OwnerOK, GoesOn, OthersStay
<1>4. ASSUME th[t].at \in {"fsm", "join", "clear"}, UNCHANGED <<intf_lock, cam_lock>>,
             ch_lock' = ChUnlocked(t),
             \A u \in Threads \ {t} : th'[u] = th[u] \/ th[u].at \in {"none", "loop"}
      PROVE  OwnerInv'
  <2>1. \A s \in Slots : ch_lock'[s] # t /\ ch_lock'[s] \in {Nobody, ch_lock[s]}
    BY <1>1, <1>4, UnlockFacts
  <2>2. OwnerOK(t)'
    BY <1>1, <1>4, <2>1 DEF OwnerOK
  <2> QED BY <1>4, <2>1, <2>2, OwnerKept
<1>5. CASE Nothing(t) \/ Stopped(t) \/ Clear(t)
  <2>1. /\ th[t].at \in {"fsm", "join", "clear"} /\ UNCHANGED <<intf_lock, cam_lock>>
        /\ ch_lock' = ChUnlocked(t) /\ th' = Returned(t)
    BY <1>5 DEF Nothing, Stopped, Clear, At
  <2>2. Rests(t)
    BY <1>1, <2>1, RestFacts
  <2> QED BY <1>4, <2>1, <2>2 DEF Rests, OthersStay
<1>6. CASE Release(t)
  <2>1. /\ th[t].at = "fsm" /\ UNCHANGED <<intf_lock, cam_lock>>
        /\ ch_lock' = ChUnlocked(t) /\ th' = [th EXCEPT ![t].at = "clear"]
    BY <1>6 DEF Release, At
  <2>2. GoesOn(t, "clear")
    BY <1>1, <2>1, MoveFacts DEF Ats
  <2> QED BY <1>4, <2>1, <2>2 DEF GoesOn, OthersStay
<1>7. CASE Start(t) /\ Started(t)
  <2> DEFINE cb == Cb(th[t].slot)
             new == [Resting("loop") EXCEPT !.cam = th[t].cam, !.hdl = th[t].hdl]
             mid == Returned(t)
  <2>1. /\ th[t].at = "fsm" /\ th[t].op = "start" /\ UNCHANGED <<intf_lock, cam_lock>>
        /\ ch_lock' = ChUnlocked(t) /\ State(t) = "STOPPED"
        /\ th' = [mid EXCEPT ![cb] = new]
    BY <1>7 DEF Start, Started, At, Unknown
  <2>2. t \in Clients /\ t = Manager /\ th[t].slot \in Slots
    BY <2>1, ManagerFacts
  <2>3. mid = [th EXCEPT ![t] = Resting("idle")]
    BY <2>2 DEF Returned
  <2>4. th[cb].at = "none"
    BY <2>1, <2>2 DEF Inv, SlotInv, State
  <2> HIDE DEF cb, new
  <2>5. \A u \in Threads \ {t, cb} : th'[u] = th[u]
    BY <1>1, <2>1, <2>3 DEF TypeOK
  <2> QED BY <1>4, <2>1, <2>4, <2>5
<1>8. CASE Start(t) /\ th' = Returned(t)
  <2>1. th[t].at = "fsm" /\ UNCHANGED <<intf_lock, cam_lock>> /\ ch_lock' = ChUnlocked(t)
    BY <1>8 DEF Start, At
  <2>2. Rests(t)
    BY <1>1, <1>8, RestFacts
  <2> QED BY <1>4, <2>1, <2>2 DEF Rests, OthersStay
<1> QED BY <1>2, <1>3, <1>5, <1>6, <1>7, <1>8 DEF UnderCh, Start, Started

\* Every step keeps the owners of locks where they have to be.
LEMMA OwnerStep ==
  ASSUME Inv, OwnerInv, [Next]_vars
  PROVE  OwnerInv'
<1> USE ThreadFacts
<1>1. CASE UNCHANGED vars
  BY <1>1 DEF vars, OwnerInv, OwnerOK
<1>2. ASSUME NEW c \in Clients, NEW op \in CameraOps \cup ChannelOps, NEW hdl \in 0..MaxHdl,
             Call(c, op, hdl)
      PROVE  OwnerInv'
  <2>1. /\ th[c].at = "idle" /\ UNCHANGED <<intf_lock, cam_lock, ch_lock>>
        /\ \A u \in Threads \ {c} : th'[u] = th[u]
    BY <1>2 DEF Call, locks, Inv, TypeOK
  <2>2. OwnerOK(c)
    BY DEF OwnerInv
  <2>3. OwnerOK(c)'
    BY <2>1, <2>2 DEF OwnerOK
  <2> QED BY <2>1, <2>3, OwnerKept
<1>3. ASSUME NEW s \in Slots, Frame(s) \/ Exit(s) PROVE OwnerInv'
  <2> DEFINE t == Cb(s)
  <2>1. /\ th[t].at = "loop" /\ UNCHANGED <<intf_lock, cam_lock, ch_lock>>
        /\ \A u \in Threads \ {t} : th'[u] = th[u]
    BY <1>3 DEF Frame, Exit, locks, Inv, TypeOK
  <2>2. OwnerOK(t) /\ t \in Threads
    BY DEF OwnerInv
  <2> HIDE DEF t
  <2>3. OwnerOK(t)'
    BY <2>1, <2>2 DEF OwnerOK
  <2> QED BY <2>1, <2>2, <2>3, OwnerKept
<1>4. ASSUME NEW t \in Threads, Step(t) PROVE OwnerInv'
  BY <1>4, IntfOwner, CamOwner, ChOwner DEF Step
<1>5. ASSUME NEW r \in Returners, NEW hdl \in 1..MaxHdl, GiveBack(r, hdl) PROVE OwnerInv'
  <2>1. /\ th[r].at = "idle" /\ UNCHANGED <<intf_lock, cam_lock, ch_lock>>
        /\ \A u \in Threads \ {r} : th'[u] = th[u]
    BY <1>5 DEF GiveBack, locks, Inv, TypeOK
  <2>2. OwnerOK(r)
    BY DEF OwnerInv
  <2>3. OwnerOK(r)'
    BY <2>1, <2>2 DEF OwnerOK
  <2> QED BY <2>1, <2>3, OwnerKept
<1> QED BY <1>1, <1>2, <1>3, <1>4, <1>5 DEF Next

\* The order of the waits: stop for the callback, then g_intf_lock, cam_lock, ch_lock.
Rank(t) == CASE th[t].at = "join" -> 4
             [] th[t].at = "intf" -> 3
             [] th[t].at = "cam"  -> 2
             [] th[t].at = "ch"   -> 1
             [] OTHER -> 0

\* Who is waited for is further in that order.
LEMMA WaitsDown ==
  ASSUME Inv, OwnerInv, NEW t \in Threads, WaitsFor(t) \in Threads
  PROVE  Rank(WaitsFor(t)) < Rank(t)
<1> USE ThreadFacts
<1> DEFINE u == WaitsFor(t)
<1>1. CASE th[t].at = "intf"
  <2>1. u = intf_lock
    BY <1>1 DEF WaitsFor, At
  <2>2. th[u].at = "cam"
    BY <2>1 DEF OwnerInv, OwnerOK
  <2> QED BY <1>1, <2>2 DEF Rank
<1>2. CASE th[t].at = "cam"
  <2>1. u = cam_lock[th[t].cam]
    BY <1>2 DEF WaitsFor, At
  <2>2. th[t].cam \in 1..MaxOpens
    BY <1>2, CameraAssumption DEF Inv, TypeOK, NoUseAfterFree, Guarded, Inside
  <2>3. th[u].at \in {"camera", "server", "ch"}
    BY <2>1, <2>2 DEF OwnerInv, OwnerOK
  <2> QED BY <1>2, <2>3 DEF Rank
<1>3. CASE th[t].at = "ch"
  <2>1. u = ch_lock[th[t].slot]
    BY <1>3 DEF WaitsFor, At
  <2>2. t = Manager /\ th[t].slot \in Slots
    BY <1>3, ManagerFacts
  <2>3. th[u].at \in {"fsm", "join"}
    BY <2>1, <2>2 DEF OwnerInv, OwnerOK
  <2>4. u = Manager
    BY <2>3, ManagerFacts
  <2> QED BY <1>3, <2>2, <2>3, <2>4
<1>4. CASE th[t].at = "join"
  <2>1. u = Cb(th[t].slot)
    BY <1>4 DEF WaitsFor, At
  <2>2. u \in Cbs
    BY <1>4, <2>1, ManagerFacts
  <2>3. th[u].at # "join"
    BY <2>2 DEF Inv, OpInv
  <2> QED BY <1>4, <2>3 DEF Rank
<1>5. CASE th[t].at \notin {"intf", "cam", "ch", "join"}
  <2>1. u = Nobody
    BY <1>5 DEF WaitsFor, At
  <2> QED BY <2>1
<1> QED BY <1>1, <1>2, <1>3, <1>4, <1>5

\* No threads wait for each other: a stop that joins a callback with ch_lock held is
\* not waited for by the callback, whatever lock it needs.
THEOREM NoCircularWaitAlways == Spec => []NoCircularWait
<1>1. Init => Inv /\ OwnerInv
  <2> SUFFICES ASSUME Init PROVE Inv /\ OwnerInv
    OBVIOUS
  <2>1. OwnerInv
    BY ThreadFacts DEF Init, OwnerInv, OwnerOK
  <2> QED BY <2>1, InitInv
<1>2. Inv /\ OwnerInv /\ [Next]_vars => (Inv /\ OwnerInv)'
  BY NextInv, OwnerStep
<1>3. ASSUME Inv, OwnerInv
      PROVE  NoCircularWait
  <2> SUFFICES ASSUME NEW S \in SUBSET Threads, S # {}, \A t \in S : WaitsFor(t) \in S
               PROVE  FALSE
    BY DEF NoCircularWait
  <2>1. \A t \in S : WaitsFor(t) \in S /\ Rank(WaitsFor(t)) < Rank(t)
    BY <1>3, WaitsDown
  <2>2. \A t \in S : Rank(t) \in 0..4
    BY DEF Rank
  <2>3. \A t \in S : Rank(t) # 0
    BY <2>1, <2>2
  <2>4. \A t \in S : Rank(t) # 1
    BY <2>1, <2>2, <2>3
  <2>5. \A t \in S : Rank(t) # 2
    BY <2>1, <2>2, <2>3, <2>4
  <2>6. \A t \in S : Rank(t) # 3
    BY <2>1, <2>2, <2>3, <2>4, <2>5
  <2> QED BY <2>1, <2>2, <2>3, <2>4, <2>5, <2>6
<1> QED BY <1>1, <1>2, <1>3, PTL DEF Spec

=============================================================================
