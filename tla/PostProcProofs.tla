--------------------------- MODULE PostProcProofs ---------------------------
(***************************************************************************)
(* Proofs about PostProc, for any routes, shots, pictures and failures:    *)
(* every frame the post-processor has received is in one place until it is *)
(* given back or, as a raw frame, forgotten; and none is given back while  *)
(* the encoder reads it.  Both hold until an event takes another's job.    *)
(*                                                                         *)
(* Where frames are is first a matter of sets: what is held as a job, what *)
(* the notifier has of raw frames, what is out (Good).  Five lemmas say    *)
(* how frames come, are reprocessed, go to the notifier and are given      *)
(* back.  Then the queues, as sequences without repetition, and then one   *)
(* lemma for each action.                                                  *)
(***************************************************************************)
EXTENDS PostProc, SequenceTheorems, TLAPS

Numbers  == Nat \ {0}
Queues   == {"inputJpeg", "ongoingJpeg", "inputRaw", "inputPP", "ongoingPP"}
FrameSet == Nat \X Numbers \X {"cam", "pp"}
CamSet   == {f \in FrameSet : Source(f) = f}
Images   == Nat \X Numbers
Entry    == [image : Images, raw : Seq(CamSet)]
Cmds     == {"START", "STOP", "NEXT"}

PictureSet == [pic : Nat, route : Routes \cup {"none"}, due : SUBSET Numbers]
SmSet == [at : {"idle", "copying", "cancelling", "finishing", "cancelled", "finished"},
          job : Seq(FrameSet), ok : BOOLEAN]
DataSet == [at : {"idle", "encoding"}, job : Seq(FrameSet), active : BOOLEAN, cmds : Seq(Cmds)]
NotifierSet == [at : {"idle", "calling", "waiting"}, active : BOOLEAN, rcvd : Nat, expected : Nat,
                cmds : Seq(Cmds), mDataQ : Seq(Entry), cb : Seq(Entry)]
EventSet == [evt : {"JPEG", "DONE"}, job : FrameSet \cup {<<>>}, ok : BOOLEAN]

\* The type invariant of the post-processor.
TypeOK ==
  /\ picture \in PictureSet /\ pics \in Nat
  /\ evt_queue \in Seq(EventSet)
  /\ sm \in SmSet
  /\ queue \in [Queues -> Seq(FrameSet)]
  /\ data \in DataSet
  /\ notifier \in NotifierSet
  /\ encoder \subseteq FrameSet
  /\ out \subseteq FrameSet
  /\ shown \subseteq Images /\ marred \subseteq Nat
  /\ leaked \subseteq CamSet

-----------------------------------------------------------------------------
(* The inductive invariant.                                                *)

AllOf(H) == UNION {Frames(job) : job \in H}

\* The frames H of jobs, those with the notifier and those that are out: a reprocessed
\* frame stands for its source too, and none is in two places.
Good(H, W, O) ==
  /\ H \subseteq FrameSet /\ W \subseteq CamSet
  /\ \A job \in H : job # Source(job) => Source(job) \notin H
  /\ AllOf(H) \cap W = {}
  /\ O = AllOf(H) \cup W

\* The queues q and the job j in processJpegEvt.
HeldIn(q, j) == (UNION {Range(q[x]) : x \in Queues}) \cup Range(j)
Once(q, j) ==
  /\ \A x \in Queues : IsInjective(q[x]) /\ Range(q[x]) \cap Range(j) = {}
  /\ \A x, y \in Queues : x # y => Range(q[x]) \cap Range(q[y]) = {}
  /\ IsInjective(j)
FromCamera(q) == \A x \in {"inputRaw", "inputPP", "ongoingPP"} : Range(q[x]) \subseteq CamSet

RawApart(cbs) == \A i, j \in DOMAIN cbs : i # j => Range(cbs[i].raw) \cap Range(cbs[j].raw) = {}
RawOnce(n) == /\ RawApart(n.mDataQ) /\ RawApart(n.cb)
              /\ RawFrames(n.mDataQ) \cap RawFrames(n.cb) = {}
RawOf(n) == RawFrames(n.mDataQ) \cup RawFrames(n.cb)
Away(n, lost) == RawOf(n) \cup lost

\* What is still to come of the picture is not here yet, nor is anything of a later one.
NotYet(O, p, n) == \A f \in O : f[1] <= n /\ (f[1] = p.pic => f[2] \notin p.due)

FramesInv ==
  /\ Once(queue, sm.job) /\ FromCamera(queue) /\ RawOnce(notifier)
  /\ Good(HeldIn(queue, sm.job), Away(notifier, leaked), out)
  /\ RawOf(notifier) \cap leaked = {}
  /\ NotYet(out, picture, pics)

\* What the threads are about.  The state machine waits for the one STOP it has sent, so
\* that no job is in processJpegEvt when the data thread stops.
OneStop(cmds) == \A i, j \in DOMAIN cmds : cmds[i] = "STOP" /\ cmds[j] = "STOP" => i = j
ThreadInv ==
  /\ picture.pic <= pics
  /\ picture.due # {} => picture.route \in Routes
  /\ sm.at # "copying" => sm.job = <<>>
  /\ notifier.at = "idle" <=> notifier.cb = <<>>
  /\ OneStop(data.cmds)
  /\ "STOP" \in Range(data.cmds) => sm.at \in {"cancelling", "finishing"}

Inv == TypeOK /\ ThreadInv /\ FramesInv

\* What the encoder has had: the jobs it has and those it has answered.  They are of
\* shots that have come, and no frame that is still to be encoded is of one of them.  The
\* data thread's own job is the only one that is ongoing until the encoder has it.
Answered(q) == {q[i].job : i \in {k \in DOMAIN q : q[k].evt = "JPEG"}}
ToEncode(q, d) == Range(q.inputJpeg) \cup Range(q.inputPP) \cup Range(q.ongoingPP) \cup Range(d.job)
NoneOf(S, T) == \A f \in S, g \in T : Image(f) # Image(g)
Spent == encoder \cup Answered(evt_queue)

FreshInv ==
  /\ data.at = "idle" => data.job = <<>>
  /\ data.job # <<>> => queue.ongoingJpeg = data.job /\ Len(data.job) = 1
  /\ encoder \subseteq Range(queue.ongoingJpeg)
  /\ encoder \cap Answered(evt_queue) = {} /\ Answered(evt_queue) \subseteq FrameSet
  /\ NoneOf(ToEncode(queue, data), Spent)
  /\ NotYet(Spent, picture, pics)

-----------------------------------------------------------------------------
(* Frames, and sets of them.                                               *)

\* The source of a frame is a camera frame, of the same shot; only that frame's own
\* reprocessed one shares it.
LEMMA SourceFacts ==
  /\ CamSet \subseteq FrameSet
  /\ \A f \in FrameSet : /\ Source(f) \in CamSet
                         /\ f \in CamSet <=> Source(f) = f
                         /\ Source(f)[1] = f[1] /\ Source(f)[2] = f[2]
                         /\ f[1] \in Nat /\ f[2] \in Numbers
  /\ \A f, g \in FrameSet : f \notin CamSet /\ g \notin CamSet /\ Source(f) = Source(g) => f = g
<1>1. \A f \in FrameSet : f = <<f[1], f[2], f[3]>> /\ f[1] \in Nat /\ f[2] \in Numbers
                          /\ f[3] \in {"cam", "pp"}
  BY DEF FrameSet
<1>2. \A f \in FrameSet : Source(f) = <<f[1], f[2], "cam">>
  BY DEF Source, Frame
<1>3. \A f \in FrameSet : Source(f) \in FrameSet
  BY <1>1, <1>2 DEF FrameSet
<1>4. \A f \in FrameSet : Source(f)[1] = f[1] /\ Source(f)[2] = f[2] /\ Source(f)[3] = "cam"
  BY <1>2
<1>5. \A f \in FrameSet : Source(Source(f)) = Source(f)
  BY <1>2, <1>3, <1>4
<1>6. \A f \in FrameSet : f \in CamSet <=> Source(f) = f
  BY DEF CamSet
<1>7. \A f \in FrameSet : f[3] = "cam" => f \in CamSet
  BY <1>1, <1>2, <1>6
<1>8. \A f, g \in FrameSet : f \notin CamSet /\ g \notin CamSet /\ Source(f) = Source(g) => f = g
  BY <1>1, <1>4, <1>7
<1> QED BY <1>1, <1>3, <1>4, <1>5, <1>6, <1>8 DEF CamSet

\* A frame of a shot.
LEMMA FrameFacts ==
  ASSUME NEW p \in Nat, NEW s \in Numbers
  PROVE  /\ Frame(p, s, "cam") \in CamSet
         /\ Frame(p, s, "pp") \in FrameSet \ CamSet
         /\ Source(Frame(p, s, "pp")) = Frame(p, s, "cam")
         /\ \A from : Frame(p, s, from)[1] = p /\ Frame(p, s, from)[2] = s
BY DEF Frame, Source, CamSet, FrameSet

\* Jobs that do not stand for each other's source have no frame in common.
LEMMA FramesApart ==
  ASSUME NEW H \in SUBSET FrameSet, \A job \in H : job # Source(job) => Source(job) \notin H,
         NEW g \in H, NEW h \in H, g # h
  PROVE  Frames(g) \cap Frames(h) = {}
BY SourceFacts DEF Frames

\* The frames of a part of the jobs.
LEMMA AllOfFacts ==
  ASSUME NEW H, NEW X \in SUBSET H
  PROVE  AllOf(X) \subseteq AllOf(H) /\ X \subseteq AllOf(X) /\ AllOf({}) = {}
         /\ AllOf(H) = AllOf(X) \cup AllOf(H \ X)
BY DEF AllOf, Frames

\* Jobs X are given back.
LEMMA Release ==
  ASSUME NEW H, NEW W, NEW O, Good(H, W, O), NEW X \in SUBSET H
  PROVE  Good(H \ X, W, O \ AllOf(X))
<1>1. AllOf(H \ X) \cap AllOf(X) = {}
  <2> SUFFICES ASSUME NEW g \in H \ X, NEW h \in X
               PROVE  Frames(g) \cap Frames(h) = {}
    BY DEF AllOf
  <2> QED BY FramesApart DEF Good
<1>2. AllOf(H) = AllOf(X) \cup AllOf(H \ X) /\ AllOf(H \ X) \subseteq AllOf(H)
  BY AllOfFacts
<1> QED BY <1>1, <1>2, AllOfFacts DEF Good

\* Raw frames Y are given back by the notifier.
LEMMA ReleaseRaw ==
  ASSUME NEW H, NEW W, NEW O, Good(H, W, O), NEW Y \in SUBSET W
  PROVE  Good(H, W \ Y, O \ Y)
BY DEF Good

\* Camera frames go from a queue to the notifier.
LEMMA Give ==
  ASSUME NEW H, NEW W, NEW O, Good(H, W, O), NEW X \in SUBSET H, X \subseteq CamSet
  PROVE  Good(H \ X, W \cup X, O)
<1>1. AllOf(X) = X
  BY SourceFacts DEF AllOf, Frames
<1>2. Good(H \ X, W, O \ X)
  BY <1>1, Release
<1>3. X \subseteq AllOf(H)
  BY AllOfFacts
<1>4. AllOf(H \ X) \cap X = {}
  BY <1>2 DEF Good
<1> QED BY <1>2, <1>3, <1>4 DEF Good

\* A camera frame comes.
LEMMA Receive ==
  ASSUME NEW H, NEW W, NEW O, Good(H, W, O), NEW f \in CamSet, f \notin O
  PROVE  Good(H \cup {f}, W, O \cup {f})
<1>1. Frames(f) = {f}
  BY SourceFacts DEF Frames
<1>2. AllOf(H \cup {f}) = AllOf(H) \cup {f}
  BY <1>1 DEF AllOf
<1>3. \A job \in H : Source(job) # f
  BY DEF Good, AllOf, Frames
<1>4. \A job \in H \cup {f} : job # Source(job) => Source(job) \notin H \cup {f}
  BY <1>3, SourceFacts DEF Good
<1> QED BY <1>2, <1>4, SourceFacts DEF Good

\* The result f of reprocessing takes the place of the job c, which it keeps.
LEMMA Reprocess ==
  ASSUME NEW H, NEW W, NEW O, Good(H, W, O), NEW c \in H, c \in CamSet,
         NEW f \in FrameSet \ CamSet, Source(f) = c
  PROVE  /\ Good((H \ {c}) \cup {f}, W, O \cup {f})
         /\ f \notin H
<1>1. f \notin H /\ f # c
  BY SourceFacts DEF Good
<1>2. Frames(f) = {f, c} /\ Frames(c) = {c}
  BY SourceFacts DEF Frames
<1>3. AllOf((H \ {c}) \cup {f}) = AllOf(H) \cup {f}
  BY <1>2 DEF AllOf
<1>4. \A job \in H \ {c} : Source(job) # c /\ Source(job) # f
  BY SourceFacts DEF Good
<1>5. f \notin W
  BY DEF Good
<1> QED BY <1>1, <1>3, <1>4, <1>5, SourceFacts DEF Good

-----------------------------------------------------------------------------
(* Sequences without repetition.                                           *)

\* An element is appended.
LEMMA AppendFacts ==
  ASSUME NEW S, NEW s \in Seq(S), NEW e \in S
  PROVE  /\ Append(s, e) \in Seq(S)
         /\ Range(Append(s, e)) = Range(s) \cup {e}
         /\ IsInjective(s) /\ e \notin Range(s) => IsInjective(Append(s, e))
<1> DEFINE t == Append(s, e)
<1>1. /\ t \in Seq(S) /\ DOMAIN t = 1..(Len(s) + 1) /\ DOMAIN s = 1..Len(s) /\ Len(s) \in Nat
      /\ \A i \in 1..Len(s) : t[i] = s[i]
      /\ t[Len(s) + 1] = e
  OBVIOUS
<1> HIDE DEF t
<1>2. Range(t) = Range(s) \cup {e}
  <2>1. Range(t) \subseteq Range(s) \cup {e}
    <3> SUFFICES ASSUME NEW i \in 1..(Len(s) + 1) PROVE t[i] \in Range(s) \cup {e}
      BY <1>1 DEF Range
    <3>1. i \in 1..Len(s) \/ i = Len(s) + 1
      BY <1>1
    <3> QED BY <3>1, <1>1 DEF Range
  <2>2. Range(s) \cup {e} \subseteq Range(t)
    BY <1>1 DEF Range
  <2> QED BY <2>1, <2>2
<1>3. ASSUME IsInjective(s), e \notin Range(s) PROVE IsInjective(t)
  <2> SUFFICES ASSUME NEW i \in 1..(Len(s) + 1), NEW j \in 1..(Len(s) + 1), t[i] = t[j]
               PROVE  i = j
    BY <1>1 DEF IsInjective
  <2>1. \A k \in 1..Len(s) : s[k] # e
    BY <1>1, <1>3 DEF Range
  <2>2. (i \in 1..Len(s) \/ i = Len(s) + 1) /\ (j \in 1..Len(s) \/ j = Len(s) + 1)
    BY <1>1
  <2> QED BY <1>1, <1>3, <2>1, <2>2 DEF IsInjective
<1> QED BY <1>1, <1>2, <1>3 DEF t

\* The first element, if any, and the rest.
LEMMA RestFacts ==
  ASSUME NEW S, NEW s \in Seq(S)
  PROVE  /\ Rest(s) \in Seq(S) /\ First(s) \in Seq(S)
         /\ Range(First(s)) \subseteq Range(s) /\ Range(s) \subseteq S
         /\ Range(Rest(s)) \subseteq Range(s)
         /\ IsInjective(First(s))
         /\ IsInjective(s) => /\ IsInjective(Rest(s))
                              /\ Range(Rest(s)) = Range(s) \ Range(First(s))
         /\ s = <<>> => Rest(s) = <<>> /\ First(s) = <<>>
         /\ s # <<>> => /\ First(s) = <<Head(s)>> /\ Range(First(s)) = {Head(s)}
                        /\ Tail(s) = Rest(s) /\ Head(s) \in S /\ First(s) # <<>>
<1>1. CASE s = <<>>
  <2>1. First(s) = <<>> /\ Rest(s) = <<>> /\ Range(s) = {}
    BY <1>1 DEF First, Rest, Range
  <2>2. IsInjective(s) /\ Range(s) = {}
    BY <1>1 DEF IsInjective, Range
  <2> QED BY <1>1, <2>1, <2>2
<1>2. CASE s # <<>>
  <2>1. /\ Len(s) \in Nat \ {0} /\ DOMAIN s = 1..Len(s) /\ \A i \in 1..Len(s) : s[i] \in S
        /\ Head(s) = s[1]
    BY <1>2
  <2> DEFINE r == Rest(s)
             f == First(s)
  <2>2. /\ r \in Seq(S) /\ DOMAIN r = 1..(Len(s) - 1)
        /\ \A i \in 1..(Len(s) - 1) : r[i] = s[i + 1]
        /\ Tail(s) = r
    BY <1>2, <2>1 DEF Rest
  <2>3. f = <<s[1]>> /\ f \in Seq(S) /\ DOMAIN f = {1} /\ f[1] = s[1] /\ f # <<>>
    BY <1>2, <2>1 DEF First
  <2> HIDE DEF r, f
  <2>4. Range(f) = {s[1]} /\ IsInjective(f)
    BY <2>3 DEF Range, IsInjective
  <2>5. Range(s) \subseteq S /\ s[1] \in Range(s)
    BY <2>1 DEF Range
  <2>6. Range(r) \subseteq Range(s)
    BY <2>1, <2>2 DEF Range
  <2>7. ASSUME IsInjective(s) PROVE IsInjective(r) /\ Range(r) = Range(s) \ Range(f)
    <3>1. \A i, j \in 1..Len(s) : s[i] = s[j] => i = j
      BY <2>1, <2>7 DEF IsInjective
    <3>2. IsInjective(r)
      <4> SUFFICES ASSUME NEW i \in 1..(Len(s) - 1), NEW j \in 1..(Len(s) - 1), r[i] = r[j]
                   PROVE  i = j
        BY <2>2 DEF IsInjective
      <4>1. i + 1 \in 1..Len(s) /\ j + 1 \in 1..Len(s) /\ s[i + 1] = s[j + 1]
        BY <2>1, <2>2
      <4> QED BY <3>1, <4>1
    <3>3. s[1] \notin Range(r)
      <4> SUFFICES ASSUME NEW i \in 1..(Len(s) - 1), r[i] = s[1] PROVE FALSE
        BY <2>2 DEF Range
      <4>1. i + 1 \in 1..Len(s) /\ s[i + 1] = s[1] /\ 1 \in 1..Len(s) /\ i + 1 # 1
        BY <2>1, <2>2
      <4> QED BY <3>1, <4>1
    <3>4. Range(s) \subseteq Range(r) \cup {s[1]}
      <4> SUFFICES ASSUME NEW i \in 1..Len(s), i # 1 PROVE s[i] \in Range(r)
        BY <2>1 DEF Range
      <4>1. i - 1 \in 1..(Len(s) - 1) /\ r[i - 1] = s[(i - 1) + 1] /\ (i - 1) + 1 = i
        BY <2>1, <2>2
      <4> QED BY <2>2, <4>1 DEF Range
    <3> QED BY <2>4, <2>6, <3>2, <3>3, <3>4
  <2> QED BY <1>2, <2>1, <2>2, <2>3, <2>4, <2>5, <2>6, <2>7 DEF r, f
<1> QED BY <1>1, <1>2

\* Two sequences one after the other.
LEMMA ConcatFacts ==
  ASSUME NEW S, NEW s \in Seq(S), NEW t \in Seq(S)
  PROVE  /\ s \o t \in Seq(S)
         /\ Range(s \o t) = Range(s) \cup Range(t)
         /\ IsInjective(s) /\ IsInjective(t) /\ Range(s) \cap Range(t) = {}
              => IsInjective(s \o t)
<1> DEFINE u == s \o t
<1>1. /\ Len(s) \in Nat /\ Len(t) \in Nat /\ DOMAIN s = 1..Len(s) /\ DOMAIN t = 1..Len(t)
      /\ u \in Seq(S) /\ DOMAIN u = 1..(Len(s) + Len(t))
      /\ \A i \in 1..(Len(s) + Len(t)) : u[i] = IF i <= Len(s) THEN s[i] ELSE t[i - Len(s)]
  OBVIOUS
<1> HIDE DEF u
<1>2. \A i \in 1..Len(s) : i \in 1..(Len(s) + Len(t)) /\ u[i] = s[i]
  BY <1>1
<1>3. \A i \in 1..Len(t) : i + Len(s) \in 1..(Len(s) + Len(t)) /\ u[i + Len(s)] = t[i]
  <2> SUFFICES ASSUME NEW i \in 1..Len(t)
               PROVE  i + Len(s) \in 1..(Len(s) + Len(t)) /\ u[i + Len(s)] = t[i]
    OBVIOUS
  <2>1. i + Len(s) \in 1..(Len(s) + Len(t)) /\ ~(i + Len(s) <= Len(s)) /\ (i + Len(s)) - Len(s) = i
    BY <1>1
  <2> QED BY <1>1, <2>1
<1>4. \A i \in 1..(Len(s) + Len(t)) :
        \/ i \in 1..Len(s) /\ u[i] = s[i]
        \/ i - Len(s) \in 1..Len(t) /\ u[i] = t[i - Len(s)]
  BY <1>1
<1>5. Range(u) = Range(s) \cup Range(t)
  <2>1. Range(u) \subseteq Range(s) \cup Range(t)
    BY <1>1, <1>4 DEF Range
  <2>2. Range(s) \subseteq Range(u)
    BY <1>1, <1>2 DEF Range
  <2>3. Range(t) \subseteq Range(u)
    <3> SUFFICES ASSUME NEW i \in 1..Len(t) PROVE t[i] \in Range(u)
      BY <1>1 DEF Range
    <3>1. i + Len(s) \in DOMAIN u /\ u[i + Len(s)] = t[i]
      BY <1>1, <1>3
    <3> QED BY <3>1 DEF Range
  <2> QED BY <2>1, <2>2, <2>3
<1>6. ASSUME IsInjective(s), IsInjective(t), Range(s) \cap Range(t) = {} PROVE IsInjective(u)
  <2> SUFFICES ASSUME NEW i \in 1..(Len(s) + Len(t)), NEW j \in 1..(Len(s) + Len(t)), u[i] = u[j]
               PROVE  i = j
    BY <1>1 DEF IsInjective
  <2>1. \A k \in 1..Len(s), m \in 1..Len(t) : s[k] # t[m]
    BY <1>1, <1>6 DEF Range
  <2>2. \A k, m \in 1..Len(s) : s[k] = s[m] => k = m
    BY <1>1, <1>6 DEF IsInjective
  <2>3. \A k, m \in 1..Len(t) : t[k] = t[m] => k = m
    BY <1>1, <1>6 DEF IsInjective
  <2>4. CASE i \in 1..Len(s) /\ u[i] = s[i]
    BY <1>4, <2>1, <2>2, <2>4
  <2>5. CASE i - Len(s) \in 1..Len(t) /\ u[i] = t[i - Len(s)]
    <3>1. CASE j \in 1..Len(s) /\ u[j] = s[j]
      BY <2>1, <2>5, <3>1
    <3>2. CASE j - Len(s) \in 1..Len(t) /\ u[j] = t[j - Len(s)]
      <4>1. i - Len(s) = j - Len(s)
        BY <2>3, <2>5, <3>2
      <4> QED BY <1>1, <4>1
    <3> QED BY <1>4, <3>1, <3>2
  <2> QED BY <1>4, <2>4, <2>5
<1> QED BY <1>1, <1>5, <1>6 DEF u

-----------------------------------------------------------------------------
(* The queues: a first element is taken, or elements are put at an end.    *)

Line == Seq(FrameSet)
Take(q, x)   == [q EXCEPT ![x] = Rest(@)]
Put(q, x, s) == [q EXCEPT ![x] = @ \o s]

\* What RestFacts says of them.
LEMMA LineFacts ==
  \A s \in Line : /\ Rest(s) \in Line /\ First(s) \in Line /\ Range(s) \subseteq FrameSet
                  /\ s # <<>> => Tail(s) = Rest(s)
                  /\ First(s) # <<>> => s # <<>>
BY RestFacts DEF Line

\* Queues are their entries.
LEMMA SameQueues ==
  ASSUME NEW q \in [Queues -> Line], NEW r \in [Queues -> Line],
         q["inputJpeg"] = r["inputJpeg"], q["ongoingJpeg"] = r["ongoingJpeg"],
         q["inputRaw"] = r["inputRaw"], q["inputPP"] = r["inputPP"],
         q["ongoingPP"] = r["ongoingPP"]
  PROVE  q = r
<1>1. \A x \in Queues : q[x] = r[x]
  BY DEF Queues
<1> QED BY <1>1

\* What is held.
LEMMA HeldIs ==
  ASSUME NEW q, NEW j
  PROVE  \A f : f \in HeldIn(q, j) <=> (\E x \in Queues : f \in Range(q[x])) \/ f \in Range(j)
BY DEF HeldIn

\* The other queues stay as they are.
LEMMA TakeShape ==
  ASSUME NEW q \in [Queues -> Line], NEW x \in Queues
  PROVE  /\ Take(q, x) \in [Queues -> Line]
         /\ Take(q, x)[x] = Rest(q[x])
         /\ \A y \in Queues \ {x} : Take(q, x)[y] = q[y]
<1>1. Rest(q[x]) \in Line
  BY RestFacts DEF Line
<1> QED BY <1>1 DEF Take

\* What a queue gets is behind what it has; the others are the same.
LEMMA PutShape ==
  ASSUME NEW q \in [Queues -> Line], NEW x \in Queues, NEW s \in Line
  PROVE  /\ Put(q, x, s) \in [Queues -> Line]
         /\ Put(q, x, s)[x] = q[x] \o s
         /\ \A y \in Queues \ {x} : Put(q, x, s)[y] = q[y]
<1>1. q[x] \o s \in Line
  BY DEF Line
<1> QED BY <1>1 DEF Put

\* What the first of a queue leaves.
LEMMA TakeFacts ==
  ASSUME NEW q \in [Queues -> Line], NEW j \in Line, NEW x \in Queues
  PROVE  /\ Range(First(q[x])) \subseteq HeldIn(q, j) /\ First(q[x]) \in Line
         /\ FromCamera(q) => FromCamera(Take(q, x))
         /\ Once(q, j) => /\ Once(Take(q, x), j)
                          /\ HeldIn(Take(q, x), j) = HeldIn(q, j) \ Range(First(q[x]))
                          /\ IsInjective(First(q[x]))
<1> DEFINE k == Take(q, x)
           r == Rest(q[x])
           f == First(q[x])
<1>1. q[x] \in Seq(FrameSet)
  BY DEF Line
<1>2. /\ r \in Line /\ f \in Line /\ Range(f) \subseteq Range(q[x]) /\ Range(r) \subseteq Range(q[x])
      /\ IsInjective(f)
      /\ IsInjective(q[x]) => IsInjective(r) /\ Range(r) = Range(q[x]) \ Range(f)
  BY <1>1, RestFacts DEF Line
<1>3. k \in [Queues -> Line] /\ k[x] = r /\ \A y \in Queues \ {x} : k[y] = q[y]
  BY TakeShape
<1> HIDE DEF k, r, f
<1>4. Range(f) \subseteq HeldIn(q, j)
  BY <1>2 DEF HeldIn
<1>5. \A y \in Queues : Range(k[y]) \subseteq Range(q[y])
  BY <1>2, <1>3
<1>6. FromCamera(q) => FromCamera(k)
  BY <1>5 DEF FromCamera, Queues
<1>7. ASSUME Once(q, j) PROVE Once(k, j) /\ HeldIn(k, j) = HeldIn(q, j) \ Range(f)
  <2>1. \A y \in Queues : IsInjective(k[y])
    BY <1>2, <1>3, <1>7 DEF Once
  <2>2. Once(k, j)
    BY <1>5, <1>7, <2>1 DEF Once
  <2>3. /\ Range(k[x]) = Range(q[x]) \ Range(f)
        /\ \A y \in Queues \ {x} : Range(k[y]) = Range(q[y]) /\ Range(q[y]) \cap Range(f) = {}
        /\ Range(j) \cap Range(f) = {}
    BY <1>2, <1>3, <1>7 DEF Once
  <2>4. \A y \in Queues : Range(k[y]) = Range(q[y]) \ Range(f)
    BY <2>3
  <2>5. \A g : g \in HeldIn(k, j) <=> g \in HeldIn(q, j) /\ g \notin Range(f)
    BY <2>3, <2>4, HeldIs
  <2> QED BY <2>2, <2>5
<1> QED BY <1>2, <1>4, <1>6, <1>7 DEF k, r, f

\* What elements at the end of a queue add.
LEMMA PutFacts ==
  ASSUME NEW q \in [Queues -> Line], NEW j \in Line, NEW x \in Queues, NEW s \in Line
  PROVE  /\ HeldIn(Put(q, x, s), j) = HeldIn(q, j) \cup Range(s)
         /\ FromCamera(q) /\ (x \in {"inputJpeg", "ongoingJpeg"} \/ Range(s) \subseteq CamSet)
              => FromCamera(Put(q, x, s))
         /\ Once(q, j) /\ IsInjective(s) /\ Range(s) \cap HeldIn(q, j) = {}
              => Once(Put(q, x, s), j)
<1> DEFINE k == Put(q, x, s)
           u == q[x] \o s
<1>1. q[x] \in Seq(FrameSet) /\ s \in Seq(FrameSet)
  BY DEF Line
<1>2. /\ u \in Line /\ Range(u) = Range(q[x]) \cup Range(s)
      /\ IsInjective(q[x]) /\ IsInjective(s) /\ Range(q[x]) \cap Range(s) = {} => IsInjective(u)
  BY <1>1, ConcatFacts DEF Line
<1>3. k \in [Queues -> Line] /\ k[x] = u /\ \A y \in Queues \ {x} : k[y] = q[y]
  BY PutShape
<1> HIDE DEF k, u
<1>4. \A y \in Queues : Range(k[y]) = Range(q[y]) \cup (IF y = x THEN Range(s) ELSE {})
  BY <1>2, <1>3
<1>5. HeldIn(k, j) = HeldIn(q, j) \cup Range(s)
  <2>1. \A g : (\E y \in Queues : g \in Range(k[y]))
                 <=> (\E y \in Queues : g \in Range(q[y])) \/ g \in Range(s)
    BY <1>4
  <2>2. \A g : g \in HeldIn(k, j) <=> g \in HeldIn(q, j) \/ g \in Range(s)
    BY <2>1, HeldIs
  <2> QED BY <2>2
<1>6. FromCamera(q) /\ (x \in {"inputJpeg", "ongoingJpeg"} \/ Range(s) \subseteq CamSet)
        => FromCamera(k)
  BY <1>4 DEF FromCamera, Queues
<1>7. ASSUME Once(q, j), IsInjective(s), Range(s) \cap HeldIn(q, j) = {} PROVE Once(k, j)
  <2>1. \A y \in Queues : Range(q[y]) \cap Range(s) = {}
    BY <1>7, HeldIs
  <2>2. Range(j) \cap Range(s) = {}
    BY <1>7, HeldIs
  <2>3. \A y \in Queues : IsInjective(k[y])
    BY <1>2, <1>3, <1>7, <2>1 DEF Once
  <2>4. \A y, z \in Queues : y # z => Range(k[y]) \cap Range(k[z]) = {}
    <3>1. \A y, z \in Queues : y # z => Range(q[y]) \cap Range(q[z]) = {}
      BY <1>7 DEF Once
    <3> QED BY <1>4, <2>1, <3>1
  <2>5. \A y \in Queues : Range(k[y]) \cap Range(j) = {}
    BY <1>4, <1>7, <2>2 DEF Once
  <2> QED BY <1>7, <2>3, <2>4, <2>5 DEF Once
<1> QED BY <1>5, <1>6, <1>7 DEF k, u

\* Both, for queues that are in order.
Ready(q, j) == q \in [Queues -> Line] /\ Once(q, j) /\ FromCamera(q)
Taken(q, j, x, k) ==
  /\ Ready(k, j) /\ k[x] = Rest(q[x]) /\ \A y \in Queues \ {x} : k[y] = q[y]
  /\ HeldIn(k, j) = HeldIn(q, j) \ Range(First(q[x]))
  /\ Range(First(q[x])) \subseteq HeldIn(q, j)
Added(q, j, x, s, k) ==
  /\ Ready(k, j) /\ k[x] = q[x] \o s /\ \A y \in Queues \ {x} : k[y] = q[y]
  /\ HeldIn(k, j) = HeldIn(q, j) \cup Range(s)

\* The first of a queue is taken, and the queues are still in order.
LEMMA TakeStep ==
  ASSUME NEW q, NEW j \in Line, NEW x \in Queues, Ready(q, j)
  PROVE  Taken(q, j, x, Take(q, x))
BY TakeShape, TakeFacts DEF Taken, Ready

\* Frames that are nowhere yet are put in a queue, and the queues are still in order.
LEMMA PutStep ==
  ASSUME NEW q, NEW j \in Line, NEW x \in Queues, NEW s \in Line, Ready(q, j),
         IsInjective(s), Range(s) \cap HeldIn(q, j) = {},
         x \in {"inputJpeg", "ongoingJpeg"} \/ Range(s) \subseteq CamSet
  PROVE  Added(q, j, x, s, Put(q, x, s))
BY PutShape, PutFacts DEF Added, Ready

\* The job of processJpegEvt changes: it is taken from what is ongoing, or done with.
LEMMA JobFacts ==
  ASSUME NEW q \in [Queues -> Line], NEW j \in Line, Once(q, j)
  PROVE  /\ Once(q, <<>>) /\ HeldIn(q, <<>>) = HeldIn(q, j) \ Range(j)
         /\ Range(j) \subseteq HeldIn(q, j)
         /\ \A x \in Queues : j = <<>> =>
              /\ Once(Take(q, x), First(q[x]))
              /\ HeldIn(Take(q, x), First(q[x])) = HeldIn(q, j)
<1>1. Range(<<>>) = {} /\ IsInjective(<<>>)
  BY DEF Range, IsInjective
<1>2. Once(q, <<>>) /\ HeldIn(q, <<>>) = HeldIn(q, j) \ Range(j) /\ Range(j) \subseteq HeldIn(q, j)
  <2>1. Once(q, <<>>)
    BY <1>1 DEF Once
  <2>2. \A g : g \in HeldIn(q, <<>>) <=> g \in HeldIn(q, j) /\ g \notin Range(j)
    BY <1>1, HeldIs DEF Once
  <2>3. Range(j) \subseteq HeldIn(q, j)
    BY HeldIs
  <2> QED BY <2>1, <2>2, <2>3
<1>3. ASSUME NEW x \in Queues, j = <<>>
      PROVE  /\ Once(Take(q, x), First(q[x]))
             /\ HeldIn(Take(q, x), First(q[x])) = HeldIn(q, j)
  <2> DEFINE k == Take(q, x)
             f == First(q[x])
  <2>1. /\ Once(k, j) /\ HeldIn(k, j) = HeldIn(q, j) \ Range(f) /\ IsInjective(f)
        /\ Range(f) \subseteq HeldIn(q, j)
    BY TakeFacts
  <2> HIDE DEF k, f
  <2>2. \A y \in Queues : Range(k[y]) \cap Range(f) = {}
    BY <2>1 DEF HeldIn
  <2>3. Once(k, f)
    BY <2>1, <2>2 DEF Once
  <2>4. HeldIn(k, f) = HeldIn(k, j) \cup Range(f)
    <3>1. \A g : g \in HeldIn(k, f) <=> g \in HeldIn(k, j) \/ g \in Range(f)
      BY <1>1, <1>3, HeldIs
    <3> QED BY <3>1
  <2> QED BY <2>1, <2>3, <2>4 DEF k, f
<1> QED BY <1>2, <1>3

\* Putting nothing changes nothing, and one element is what Append puts.
LEMMA PutForms ==
  ASSUME NEW s \in Line, NEW f \in FrameSet
  PROVE  /\ s \o <<>> = s /\ <<>> \in Line /\ Range(<<>>) = {} /\ IsInjective(<<>>)
         /\ Append(s, f) = s \o <<f>> /\ <<f>> \in Line /\ Range(<<f>>) = {f}
         /\ IsInjective(<<f>>)
<1>1. /\ s \o <<>> = s /\ <<>> \in Line /\ Append(s, f) = s \o <<f>> /\ <<f>> \in Line
  BY DEF Line
<1>2. DOMAIN <<f>> = {1} /\ <<f>>[1] = f /\ DOMAIN <<>> = {}
  OBVIOUS
<1> QED BY <1>1, <1>2 DEF Range, IsInjective

-----------------------------------------------------------------------------
(* The notifier's entries and the threads' commands.                       *)

\* The raw frames of entries.
LEMMA RawIs ==
  ASSUME NEW cbs
  PROVE  \A f : f \in RawFrames(cbs) <=> \E i \in DOMAIN cbs : f \in Range(cbs[i].raw)
BY DEF RawFrames, Range

\* An entry is appended.
LEMMA RawAppend ==
  ASSUME NEW cbs \in Seq(Entry), NEW e \in Entry
  PROVE  /\ Append(cbs, e) \in Seq(Entry)
         /\ RawFrames(Append(cbs, e)) = RawFrames(cbs) \cup Range(e.raw)
         /\ RawApart(cbs) /\ Range(e.raw) \cap RawFrames(cbs) = {} => RawApart(Append(cbs, e))
<1> DEFINE t == Append(cbs, e)
           n == Len(cbs)
<1>1. /\ n \in Nat /\ DOMAIN cbs = 1..n /\ t \in Seq(Entry) /\ DOMAIN t = 1..(n + 1)
      /\ \A i \in 1..n : i \in 1..(n + 1) /\ t[i] = cbs[i]
      /\ n + 1 \in 1..(n + 1) /\ t[n + 1] = e
      /\ \A i \in 1..(n + 1) : i \in 1..n \/ i = n + 1
  OBVIOUS
<1> HIDE DEF t, n
<1>2. \A f : f \in RawFrames(t) <=> f \in RawFrames(cbs) \/ f \in Range(e.raw)
  <2> TAKE f
  <2>1. f \in RawFrames(t) <=> \E i \in 1..(n + 1) : f \in Range(t[i].raw)
    BY <1>1, RawIs
  <2>2. f \in RawFrames(cbs) <=> \E i \in 1..n : f \in Range(cbs[i].raw)
    BY <1>1, RawIs
  <2>3. (\E i \in 1..(n + 1) : f \in Range(t[i].raw))
          <=> (\E i \in 1..n : f \in Range(cbs[i].raw)) \/ f \in Range(e.raw)
    BY <1>1
  <2> QED BY <2>1, <2>2, <2>3
<1>3. ASSUME RawApart(cbs), Range(e.raw) \cap RawFrames(cbs) = {} PROVE RawApart(t)
  <2>1. \A i \in 1..n : Range(cbs[i].raw) \cap Range(e.raw) = {}
    BY <1>1, <1>3, RawIs
  <2>2. \A i, j \in 1..n : i # j => Range(cbs[i].raw) \cap Range(cbs[j].raw) = {}
    BY <1>1, <1>3 DEF RawApart
  <2> SUFFICES ASSUME NEW i \in 1..(n + 1), NEW j \in 1..(n + 1), i # j
               PROVE  Range(t[i].raw) \cap Range(t[j].raw) = {}
    BY <1>1 DEF RawApart
  <2>3. CASE i \in 1..n /\ j \in 1..n
    BY <1>1, <2>2, <2>3
  <2>4. CASE i = n + 1 /\ j \in 1..n
    BY <1>1, <2>1, <2>4
  <2>5. CASE j = n + 1 /\ i \in 1..n
    BY <1>1, <2>1, <2>5
  <2> QED BY <1>1, <2>3, <2>4, <2>5
<1> QED BY <1>1, <1>2, <1>3 DEF t

\* The first entry, if any, and the rest.
LEMMA RawRest ==
  ASSUME NEW cbs \in Seq(Entry)
  PROVE  /\ RawFrames(First(cbs)) \subseteq RawFrames(cbs) /\ RawApart(First(cbs))
         /\ RawApart(cbs) => /\ RawApart(Rest(cbs))
                             /\ RawFrames(Rest(cbs)) = RawFrames(cbs) \ RawFrames(First(cbs))
         /\ RawFrames(<<>>) = {} /\ RawApart(<<>>) /\ RawFrames(cbs) \subseteq CamSet
<1>1. RawFrames(<<>>) = {} /\ RawApart(<<>>)
  BY RawIs DEF RawApart
<1>2. RawFrames(cbs) \subseteq CamSet
  <2>1. \A i \in DOMAIN cbs : Range(cbs[i].raw) \subseteq CamSet
    <3> SUFFICES ASSUME NEW i \in DOMAIN cbs PROVE Range(cbs[i].raw) \subseteq CamSet
      OBVIOUS
    <3>1. cbs[i].raw \in Seq(CamSet)
      <4>1. cbs[i] \in Entry
        OBVIOUS
      <4> QED BY <4>1 DEF Entry
    <3> QED BY <3>1, RestFacts
  <2> QED BY <2>1, RawIs
<1>3. CASE cbs = <<>>
  <2>1. First(cbs) = <<>> /\ Rest(cbs) = <<>>
    BY <1>3, RestFacts
  <2> QED BY <1>1, <1>2, <1>3, <2>1
<1>4. CASE cbs # <<>>
  <2> DEFINE n == Len(cbs)
             r == Rest(cbs)
             f == First(cbs)
  <2>1. n \in Nat \ {0} /\ DOMAIN cbs = 1..n
    BY <1>4
  <2>2. /\ DOMAIN r = 1..(n - 1) /\ \A i \in 1..(n - 1) : r[i] = cbs[i + 1]
        /\ DOMAIN f = {1} /\ f[1] = cbs[1]
    BY <1>4, <2>1 DEF Rest, First
  <2> HIDE DEF n, r, f
  <2>3. \A i \in 1..(n - 1) : i + 1 \in 1..n /\ i + 1 # 1
    BY <2>1
  <2>4. \A i \in 1..n : i = 1 \/ (i - 1 \in 1..(n - 1) /\ (i - 1) + 1 = i)
    BY <2>1
  <2>5. \A g : g \in RawFrames(f) <=> g \in Range(cbs[1].raw)
    BY <2>2, RawIs
  <2>6. RawFrames(f) \subseteq RawFrames(cbs)
    BY <2>1, <2>5, RawIs
  <2>7. RawApart(f)
    BY <2>2 DEF RawApart
  <2>8. ASSUME RawApart(cbs) PROVE RawApart(r) /\ RawFrames(r) = RawFrames(cbs) \ RawFrames(f)
    <3>1. \A i, j \in 1..n : i # j => Range(cbs[i].raw) \cap Range(cbs[j].raw) = {}
      BY <2>1, <2>8 DEF RawApart
    <3>2. RawApart(r)
      <4> SUFFICES ASSUME NEW i \in 1..(n - 1), NEW j \in 1..(n - 1), i # j
                   PROVE  Range(r[i].raw) \cap Range(r[j].raw) = {}
        BY <2>2 DEF RawApart
      <4>1. i + 1 # j + 1 /\ i + 1 \in 1..n /\ j + 1 \in 1..n
        BY <2>3
      <4> QED BY <2>2, <3>1, <4>1
    <3>3. \A g : g \in RawFrames(r) <=> \E i \in 1..(n - 1) : g \in Range(cbs[i + 1].raw)
      <4>1. \A g : g \in RawFrames(r) <=> \E i \in 1..(n - 1) : g \in Range(r[i].raw)
        BY <2>2, RawIs
      <4>2. \A i \in 1..(n - 1) : Range(r[i].raw) = Range(cbs[i + 1].raw)
        BY <2>2
      <4> QED BY <4>1, <4>2
    <3>4. \A g : g \in RawFrames(cbs) <=> \E i \in 1..n : g \in Range(cbs[i].raw)
      BY <2>1, RawIs
    <3>5. \A g : g \in RawFrames(r) => g \in RawFrames(cbs) /\ g \notin RawFrames(f)
      <4> SUFFICES ASSUME NEW g, NEW i \in 1..(n - 1), g \in Range(cbs[i + 1].raw)
                   PROVE  g \in RawFrames(cbs) /\ g \notin RawFrames(f)
        BY <3>3
      <4>1. i + 1 \in 1..n /\ i + 1 # 1 /\ 1 \in 1..n
        BY <2>1, <2>3
      <4> QED BY <2>5, <3>1, <3>4, <4>1
    <3>6. \A g : g \in RawFrames(cbs) /\ g \notin RawFrames(f) => g \in RawFrames(r)
      <4> SUFFICES ASSUME NEW g, NEW i \in 1..n, g \in Range(cbs[i].raw), i # 1
                   PROVE  g \in RawFrames(r)
        BY <2>5, <3>4
      <4>1. i - 1 \in 1..(n - 1) /\ (i - 1) + 1 = i
        BY <2>4
      <4> QED BY <3>3, <4>1
    <3> QED BY <3>2, <3>5, <3>6
  <2> QED BY <1>1, <1>2, <2>6, <2>7, <2>8 DEF r, f
<1> QED BY <1>3, <1>4

\* STOP among the commands of a thread.
LEMMA CmdFacts ==
  ASSUME NEW c \in Seq(Cmds)
  PROVE  /\ \A e \in Cmds : Append(c, e) \in Seq(Cmds) /\ <<e>> \o c \in Seq(Cmds)
         /\ \A e \in Cmds \ {"STOP"} :
              /\ OneStop(c) => OneStop(Append(c, e))
              /\ "STOP" \in Range(Append(c, e)) => "STOP" \in Range(c)
         /\ "STOP" \notin Range(c) => OneStop(<<"STOP">> \o c)
         /\ c # <<>> => /\ Tail(c) \in Seq(Cmds)
                        /\ OneStop(c) => OneStop(Tail(c))
                        /\ "STOP" \in Range(Tail(c)) => "STOP" \in Range(c)
                        /\ OneStop(c) /\ Head(c) = "STOP" => "STOP" \notin Range(Tail(c))
         /\ c # <<>> /\ Head(c) = "STOP" => "STOP" \in Range(c)
<1> DEFINE n == Len(c)
<1>1. n \in Nat /\ DOMAIN c = 1..n
  OBVIOUS
<1>2. ASSUME NEW e \in Cmds \ {"STOP"}
      PROVE  /\ OneStop(c) => OneStop(Append(c, e))
             /\ "STOP" \in Range(Append(c, e)) => "STOP" \in Range(c)
  <2> DEFINE t == Append(c, e)
  <2>1. /\ DOMAIN t = 1..(n + 1)
        /\ \A i \in 1..(n + 1) : (i \in 1..n /\ t[i] = c[i]) \/ t[i] = e
    BY <1>1
  <2> HIDE DEF t, n
  <2>2. \A i \in DOMAIN t : t[i] = "STOP" => i \in 1..n /\ c[i] = "STOP"
    BY <2>1
  <2> QED BY <1>1, <2>2 DEF OneStop, Range, t
<1>3. ASSUME "STOP" \notin Range(c) PROVE OneStop(<<"STOP">> \o c)
  <2> DEFINE t == <<"STOP">> \o c
  <2>1. /\ DOMAIN t = 1..(n + 1) /\ \A i \in 1..(n + 1) : i = 1 \/ (i - 1 \in 1..n /\ t[i] = c[i - 1])
    BY <1>1
  <2> HIDE DEF t, n
  <2>2. \A i \in 1..n : c[i] # "STOP"
    BY <1>1, <1>3 DEF Range
  <2>3. \A i \in DOMAIN t : t[i] = "STOP" => i = 1
    BY <2>1, <2>2
  <2> QED BY <2>3 DEF OneStop, t
<1>4. ASSUME c # <<>>
      PROVE  /\ Tail(c) \in Seq(Cmds)
             /\ OneStop(c) => OneStop(Tail(c))
             /\ "STOP" \in Range(Tail(c)) => "STOP" \in Range(c)
             /\ OneStop(c) /\ Head(c) = "STOP" => "STOP" \notin Range(Tail(c))
             /\ Head(c) = "STOP" => "STOP" \in Range(c)
  <2> DEFINE t == Tail(c)
  <2>1. /\ n \in Nat \ {0} /\ DOMAIN t = 1..(n - 1) /\ \A i \in 1..(n - 1) : t[i] = c[i + 1]
        /\ Head(c) = c[1] /\ t \in Seq(Cmds)
    BY <1>1, <1>4
  <2> HIDE DEF t, n
  <2>2. \A i \in 1..(n - 1) : i + 1 \in 1..n /\ i + 1 # 1
    BY <2>1
  <2>3. ASSUME OneStop(c) PROVE OneStop(t)
    <3> SUFFICES ASSUME NEW i \in 1..(n - 1), NEW k \in 1..(n - 1), t[i] = "STOP", t[k] = "STOP"
                 PROVE  i = k
      BY <2>1 DEF OneStop
    <3>1. i + 1 = k + 1
      BY <1>1, <2>1, <2>2, <2>3 DEF OneStop
    <3> QED BY <3>1
  <2>4. ASSUME "STOP" \in Range(t) PROVE "STOP" \in Range(c)
    BY <1>1, <2>1, <2>2, <2>4 DEF Range
  <2>5. ASSUME OneStop(c), Head(c) = "STOP" PROVE "STOP" \notin Range(t)
    <3> SUFFICES ASSUME NEW i \in 1..(n - 1), t[i] = "STOP" PROVE FALSE
      BY <2>1 DEF Range
    <3>1. c[i + 1] = "STOP" /\ c[1] = "STOP" /\ 1 \in 1..n
      BY <2>1, <2>5
    <3> QED BY <1>1, <2>2, <2>5, <3>1 DEF OneStop
  <2>6. ASSUME Head(c) = "STOP" PROVE "STOP" \in Range(c)
    <3>1. c[1] = "STOP" /\ 1 \in 1..n
      BY <2>1, <2>6
    <3> QED BY <1>1, <3>1 DEF Range
  <2> QED BY <2>1, <2>3, <2>4, <2>5, <2>6 DEF t
<1> QED BY <1>2, <1>3, <1>4

\* A command is sent to the data thread or taken by it.
LEMMA DataFacts ==
  ASSUME NEW d \in DataSet
  PROVE  /\ \A e \in Cmds : /\ sendCmd(d, e) \in DataSet /\ sendCmd(d, e).cmds = Append(d.cmds, e)
                            /\ sendPriority(d, e) \in DataSet
                            /\ sendPriority(d, e).cmds = <<e>> \o d.cmds
                            /\ sendCmd(d, e).at = d.at /\ sendCmd(d, e).job = d.job
                            /\ sendPriority(d, e).at = d.at /\ sendPriority(d, e).job = d.job
         /\ d.cmds # <<>> => /\ getCmd(d) \in DataSet /\ getCmd(d).cmds = Tail(d.cmds)
                             /\ getCmd(d).at = d.at /\ getCmd(d).job = d.job
BY CmdFacts DEF DataSet, sendCmd, sendPriority, getCmd

\* A NEXT is no STOP.
LEMMA NextFacts ==
  ASSUME NEW d \in DataSet, OneStop(d.cmds)
  PROVE  /\ sendCmd(d, "NEXT") \in DataSet /\ OneStop(sendCmd(d, "NEXT").cmds)
         /\ "STOP" \in Range(sendCmd(d, "NEXT").cmds) => "STOP" \in Range(d.cmds)
<1> DEFINE c == d.cmds
           a == Append(c, "NEXT")
<1>1. c \in Seq(Cmds) /\ "NEXT" \in Cmds \ {"STOP"} /\ OneStop(c)
  BY DEF DataSet, Cmds
<1>2. sendCmd(d, "NEXT") \in DataSet /\ sendCmd(d, "NEXT").cmds = a
  BY <1>1, DataFacts
<1> HIDE DEF c
<1>3. OneStop(a) /\ ("STOP" \in Range(a) => "STOP" \in Range(c))
  BY <1>1, CmdFacts
<1> HIDE DEF a
<1>4. OneStop(a) /\ ("STOP" \in Range(a) => "STOP" \in Range(d.cmds))
  BY <1>3 DEF c
<1> QED BY <1>2, <1>4

SameCbs(n, m) == m.at = n.at /\ m.mDataQ = n.mDataQ /\ m.cb = n.cb

\* The notifier with other commands is otherwise the same.
LEMMA NotifierFacts ==
  ASSUME NEW n \in NotifierSet
  PROVE  /\ \A e \in Cmds : /\ sendCmd(n, e) \in NotifierSet /\ SameCbs(n, sendCmd(n, e))
                            /\ sendPriority(n, e) \in NotifierSet
                            /\ SameCbs(n, sendPriority(n, e))
         /\ n.cmds # <<>> => getCmd(n) \in NotifierSet /\ SameCbs(n, getCmd(n))
BY CmdFacts DEF NotifierSet, sendCmd, sendPriority, getCmd, SameCbs

-----------------------------------------------------------------------------
(* Each action keeps the invariant: first those that move no frame.        *)

\* Nothing moves.
LEMMA SameFrames ==
  ASSUME FramesInv, UNCHANGED <<queue, out, leaked>>, sm'.job = sm.job, SameCbs(notifier, notifier'),
         NotYet(out, picture', pics')
  PROVE  FramesInv'
BY DEF FramesInv, RawOnce, RawOf, Away, SameCbs

\* A picture is started: all its shots are to come, and none of them is here.
LEMMA StartKeeps ==
  ASSUME Inv, NEW r \in Routes, start(r)
  PROVE  Inv'
<1> USE DEF Inv
<1>1. /\ picture' = [pic |-> pics + 1, route |-> r, due |-> 1..Shots[pics + 1]]
      /\ pics' = pics + 1 /\ marred' \subseteq marred \cup {pics + 1} /\ pics < MaxPics
      /\ data' = sendCmd(data, "START") /\ notifier' = sendPriority(notifier, "START")
      /\ UNCHANGED <<evt_queue, sm, queue, encoder, out, shown, leaked>>
  BY DEF start, Mar, history
<1>2. data' \in DataSet /\ data'.cmds = Append(data.cmds, "START")
  BY <1>1, DataFacts DEF TypeOK, Cmds
<1>3. notifier' \in NotifierSet /\ SameCbs(notifier, notifier')
  BY <1>1, NotifierFacts DEF TypeOK, Cmds
<1>4. picture' \in PictureSet /\ pics' \in Nat /\ picture'.pic = pics' /\ picture'.route \in Routes
  <2>1. pics + 1 \in 1..MaxPics
    BY <1>1, PostProcAssumption DEF TypeOK
  <2>2. 1..Shots[pics + 1] \subseteq Numbers
    BY <2>1, PostProcAssumption DEF Numbers
  <2> QED BY <1>1, <2>1, <2>2 DEF TypeOK, PictureSet
<1>5. TypeOK'
  BY <1>1, <1>2, <1>3, <1>4 DEF TypeOK
<1>6. data.cmds \in Seq(Cmds)
  BY DEF TypeOK, DataSet
<1>7. OneStop(data'.cmds) /\ ("STOP" \in Range(data'.cmds) => "STOP" \in Range(data.cmds))
  BY <1>2, <1>6, CmdFacts DEF Cmds, ThreadInv
<1>8. ThreadInv'
  BY <1>1, <1>3, <1>4, <1>7 DEF ThreadInv, SameCbs, TypeOK
<1>9. NotYet(out, picture', pics')
  <2>1. \A f \in out : f[1] \in Nat /\ f[1] <= pics
    BY SourceFacts DEF FramesInv, NotYet, TypeOK
  <2> QED BY <1>1, <1>4, <2>1 DEF NotYet, TypeOK
<1> QED BY <1>1, <1>3, <1>5, <1>8, <1>9, SameFrames

\* The state machine stops the post-processor.
LEMMA StopFacts ==
  ASSUME Inv, sm.at = "idle", NEW at \in {"cancelling", "finishing"}, stop(at)
  PROVE  /\ sm' \in SmSet /\ sm'.at = at /\ sm'.job = <<>> /\ sm.job = <<>>
         /\ data' \in DataSet /\ OneStop(data'.cmds)
         /\ notifier' \in NotifierSet /\ SameCbs(notifier, notifier')
<1> USE DEF Inv
<1>1. /\ sm' = [sm EXCEPT !.at = at] /\ notifier' = sendPriority(notifier, "STOP")
      /\ data' = sendPriority(data, "STOP")
  BY DEF stop
<1>2. sm.job = <<>> /\ "STOP" \notin Range(data.cmds)
  BY DEF ThreadInv
<1>3. sm' \in SmSet /\ sm'.at = at /\ sm'.job = sm.job
  BY <1>1 DEF SmSet, TypeOK
<1>4. data' \in DataSet /\ data'.cmds = <<"STOP">> \o data.cmds
  BY <1>1, DataFacts DEF TypeOK, Cmds
<1>5. notifier' \in NotifierSet /\ SameCbs(notifier, notifier')
  BY <1>1, NotifierFacts DEF TypeOK, Cmds
<1>6. data.cmds \in Seq(Cmds)
  BY DEF TypeOK, DataSet
<1>7. OneStop(data'.cmds)
  BY <1>2, <1>4, <1>6, CmdFacts
<1> QED BY <1>2, <1>3, <1>4, <1>5, <1>7

\* The application cancels: the first STOP, since the state machine was idle.
LEMMA CancelKeeps ==
  ASSUME Inv, cancelPicture
  PROVE  Inv'
<1> USE DEF Inv
<1>1. /\ sm.at = "idle" /\ stop("cancelling") /\ marred' = marred \cup {picture.pic}
      /\ UNCHANGED <<picture, pics, evt_queue, queue, encoder, out, shown, leaked>>
  BY DEF cancelPicture, Mar, history
<1>2. /\ sm' \in SmSet /\ sm'.at = "cancelling" /\ sm'.job = <<>> /\ sm.job = <<>>
      /\ data' \in DataSet /\ OneStop(data'.cmds)
      /\ notifier' \in NotifierSet /\ SameCbs(notifier, notifier')
  BY <1>1, StopFacts
<1>3. picture.pic \in Nat
  BY DEF TypeOK, PictureSet
<1>4. TypeOK'
  BY <1>1, <1>2, <1>3 DEF TypeOK
<1>5. ThreadInv'
  BY <1>1, <1>2 DEF ThreadInv, SameCbs
<1>6. NotYet(out, picture', pics')
  BY <1>1 DEF FramesInv
<1> QED BY <1>1, <1>2, <1>4, <1>5, <1>6, SameFrames

\* The last image was counted: a STOP as well, from the idle state machine.
LEMMA SnapshotDoneKeeps ==
  ASSUME Inv, SnapshotDone
  PROVE  Inv'
<1> USE DEF Inv
<1>1. /\ sm.at = "idle" /\ stop("finishing") /\ evt_queue # <<>> /\ evt_queue' = Tail(evt_queue)
      /\ UNCHANGED <<picture, pics, queue, encoder, out, shown, marred, leaked>>
  BY DEF SnapshotDone, history
<1>2. /\ sm' \in SmSet /\ sm'.at = "finishing" /\ sm'.job = <<>> /\ sm.job = <<>>
      /\ data' \in DataSet /\ OneStop(data'.cmds)
      /\ notifier' \in NotifierSet /\ SameCbs(notifier, notifier')
  BY <1>1, StopFacts
<1>3. evt_queue' \in Seq(EventSet)
  BY <1>1 DEF TypeOK
<1>4. TypeOK'
  BY <1>1, <1>2, <1>3 DEF TypeOK
<1>5. ThreadInv'
  BY <1>1, <1>2 DEF ThreadInv, SameCbs
<1>6. NotYet(out, picture', pics')
  BY <1>1 DEF FramesInv
<1> QED BY <1>1, <1>2, <1>4, <1>5, <1>6, SameFrames

\* The channel is stopped: no more shots are to come.
LEMMA ChannelStoppedKeeps ==
  ASSUME Inv, ChannelStopped
  PROVE  Inv'
<1> USE DEF Inv
<1>1. /\ sm.at \in {"cancelled", "finished"} /\ sm' = Idle /\ picture' = NoPicture
      /\ notifier' = IF sm.at = "finished" /\ notifier.at = "waiting"
                     THEN [notifier EXCEPT !.at = "calling"] ELSE notifier
      /\ UNCHANGED <<pics, evt_queue, queue, data, encoder, out, shown, marred, leaked>>
  BY DEF ChannelStopped, history
<1>2. sm' \in SmSet /\ sm'.job = <<>> /\ sm.job = <<>> /\ sm'.at = "idle"
  BY <1>1 DEF Idle, SmSet, ThreadInv
<1>3. /\ picture' \in PictureSet /\ picture'.pic = 0 /\ picture'.due = {}
  BY <1>1 DEF NoPicture, PictureSet
<1>4. /\ notifier' \in NotifierSet /\ notifier'.mDataQ = notifier.mDataQ
      /\ notifier'.cb = notifier.cb /\ (notifier'.at = "idle" => notifier.at = "idle")
  <2>1. CASE sm.at = "finished" /\ notifier.at = "waiting"
    BY <1>1, <2>1 DEF TypeOK, NotifierSet
  <2>2. CASE ~(sm.at = "finished" /\ notifier.at = "waiting")
    BY <1>1, <2>2 DEF TypeOK
  <2> QED BY <2>1, <2>2
<1>5. TypeOK'
  BY <1>1, <1>2, <1>3, <1>4 DEF TypeOK
<1>6. ThreadInv'
  <2>1. 0 <= pics
    BY DEF TypeOK
  <2> QED BY <1>1, <1>2, <1>3, <1>4, <2>1 DEF ThreadInv
<1>7. NotYet(out, picture', pics')
  BY <1>1, <1>3 DEF FramesInv, NotYet
<1>8. FramesInv'
  BY <1>1, <1>2, <1>4, <1>7 DEF FramesInv, RawOnce, RawOf, Away
<1> QED BY <1>5, <1>6, <1>8

\* Events that are dropped, and answers of the encoder, move no frame.
LEMMA EventKeeps ==
  ASSUME Inv,
         NotHandled \/ \E job \in encoder, ok \in BOOLEAN : jpegEvtHandle(job, ok)
  PROVE  Inv'
<1> USE DEF Inv
<1>1. /\ UNCHANGED <<picture, pics, sm, queue, data, notifier, out, shown, leaked>>
      /\ evt_queue' \in Seq(EventSet) /\ encoder' \subseteq FrameSet /\ marred' \subseteq Nat
  <2>1. CASE NotHandled
    BY <2>1 DEF NotHandled, history, TypeOK
  <2>2. ASSUME NEW job \in encoder, NEW ok \in BOOLEAN, jpegEvtHandle(job, ok)
        PROVE  /\ UNCHANGED <<picture, pics, sm, queue, data, notifier, out, shown, leaked>>
               /\ evt_queue' \in Seq(EventSet) /\ encoder' \subseteq FrameSet /\ marred' \subseteq Nat
    <3>1. job \in FrameSet /\ job[1] \in Nat
      BY SourceFacts DEF TypeOK
    <3>2. [evt |-> "JPEG", job |-> job, ok |-> ok] \in EventSet
      BY <3>1 DEF EventSet
    <3>3. evt_queue' \in Seq(EventSet)
      BY <2>2, <3>2 DEF jpegEvtHandle, TypeOK
    <3> QED BY <2>2, <3>1, <3>3 DEF jpegEvtHandle, history, TypeOK, Mar
  <2> QED BY <2>1, <2>2
<1>2. TypeOK' /\ ThreadInv'
  BY <1>1 DEF TypeOK, ThreadInv
<1>3. FramesInv'
  BY <1>1 DEF FramesInv, RawOnce, RawOf
<1> QED BY <1>2, <1>3

\* The data thread takes its START.
LEMMA DataStartKeeps ==
  ASSUME Inv, DataStart
  PROVE  Inv'
<1> USE DEF Inv
<1>1. /\ data.cmds # <<>> /\ data' = [getCmd(data) EXCEPT !.active = TRUE]
      /\ UNCHANGED <<picture, pics, evt_queue, sm, queue, encoder, notifier, out, shown, marred, leaked>>
  BY DEF DataStart, Heeds, Got, history
<1>2. getCmd(data) \in DataSet /\ getCmd(data).cmds = Tail(data.cmds)
  BY <1>1, DataFacts DEF TypeOK
<1>3. data' \in DataSet /\ data'.cmds = Tail(data.cmds)
  BY <1>1, <1>2 DEF DataSet
<1>4. data.cmds \in Seq(Cmds)
  BY DEF TypeOK, DataSet
<1>5. OneStop(data'.cmds) /\ ("STOP" \in Range(data'.cmds) => "STOP" \in Range(data.cmds))
  BY <1>1, <1>3, <1>4, CmdFacts DEF ThreadInv
<1>6. TypeOK' /\ ThreadInv'
  BY <1>1, <1>3, <1>5 DEF TypeOK, ThreadInv
<1>7. FramesInv'
  BY <1>1 DEF FramesInv, RawOnce, RawOf
<1> QED BY <1>6, <1>7

\* The notifier takes its START.
LEMMA NotifierStartKeeps ==
  ASSUME Inv, NotifierStart
  PROVE  Inv'
<1> USE DEF Inv
<1>1. /\ notifier.at = "idle" /\ notifier.cmds # <<>>
      /\ notifier' = Counting(getCmd(notifier), TRUE, numOfSnapshotsExpected)
      /\ UNCHANGED <<picture, pics, evt_queue, sm, queue, data, encoder, out, shown, marred, leaked>>
  BY DEF NotifierStart, Listening, Got, history
<1> DEFINE g == getCmd(notifier)
<1>2. g \in NotifierSet /\ SameCbs(notifier, g)
  BY <1>1, NotifierFacts DEF TypeOK
<1> HIDE DEF g
<1>3. notifier' \in NotifierSet /\ SameCbs(notifier, notifier')
  <2>1. notifier' = [g EXCEPT !.active = TRUE, !.expected = numOfSnapshotsExpected, !.rcvd = 0]
    BY <1>1 DEF Counting, g
  <2>2. numOfSnapshotsExpected \in Nat
    BY PostProcAssumption DEF numOfSnapshotsExpected
  <2> QED BY <1>2, <2>1, <2>2 DEF NotifierSet, SameCbs
<1>4. TypeOK' /\ ThreadInv'
  BY <1>1, <1>3 DEF TypeOK, ThreadInv, SameCbs
<1>5. NotYet(out, picture', pics')
  BY <1>1 DEF FramesInv
<1> QED BY <1>1, <1>3, <1>4, <1>5, SameFrames

-----------------------------------------------------------------------------
(* The actions of the channel's threads and of the state machine that move *)
(* frames.                                                                 *)

\* What is held is out.
LEMMA HeldOut ==
  ASSUME FramesInv
  PROVE  HeldIn(queue, sm.job) \subseteq out /\ out \subseteq FrameSet
BY SourceFacts DEF FramesInv, Good, AllOf, Frames

\* With the frames of fewer jobs, and none that is not out, what is not yet here stays so.
LEMMA NotYetLess ==
  ASSUME NotYet(out, picture, pics), UNCHANGED <<picture, pics>>, out' \subseteq out
  PROVE  NotYet(out', picture', pics')
BY DEF NotYet

\* A shot comes, which was not here before.
LEMMA ProcessDataKeeps ==
  ASSUME Inv, NEW s \in picture.due, processData(s)
  PROVE  Inv'
<1> DEFINE f == Frame(picture.pic, s, "cam")
           to == CASE picture.route = "jpeg" -> "inputJpeg"
                   [] picture.route = "raw" -> "inputRaw"
                   [] picture.route = "reprocess" -> "inputPP"
           told == sendCmd(data, "NEXT")
           one == <<f>>
<1> USE DEF Inv
<1>1. /\ s \in Numbers /\ picture' = [picture EXCEPT !.due = @ \ {s}]
      /\ out' = out \cup {f}
      /\ queue' = [queue EXCEPT ![to] = Append(@, f)]
      /\ data' = IF to = "inputRaw" THEN sendCmd(told, "NEXT") ELSE told
      /\ UNCHANGED <<pics, evt_queue, sm, encoder, notifier, shown, marred, leaked>>
  BY DEF processData, history, TypeOK, PictureSet
<1>2. to \in {"inputJpeg", "inputRaw", "inputPP"}
  BY <1>1, PostProcAssumption DEF ThreadInv
<1>3. data' \in DataSet /\ OneStop(data'.cmds) /\ ("STOP" \in Range(data'.cmds) => "STOP" \in Range(data.cmds))
  <2>1. data \in DataSet /\ OneStop(data.cmds)
    BY DEF TypeOK, ThreadInv
  <2>2. /\ told \in DataSet /\ OneStop(told.cmds)
        /\ "STOP" \in Range(told.cmds) => "STOP" \in Range(data.cmds)
    BY <2>1, NextFacts
  <2> HIDE DEF told, to
  <2>3. /\ sendCmd(told, "NEXT") \in DataSet /\ OneStop(sendCmd(told, "NEXT").cmds)
        /\ "STOP" \in Range(sendCmd(told, "NEXT").cmds) => "STOP" \in Range(told.cmds)
    BY <2>2, NextFacts
  <2> QED BY <1>1, <2>2, <2>3
<1>4. picture.pic \in Nat /\ f \in CamSet /\ f \in FrameSet /\ f[1] = picture.pic /\ f[2] = s
  BY FrameFacts, SourceFacts DEF TypeOK, PictureSet
<1> HIDE DEF f, to, told
<1>5. picture' \in PictureSet /\ picture'.pic = picture.pic /\ picture'.route = picture.route
      /\ picture'.due = picture.due \ {s}
  BY <1>1 DEF TypeOK, PictureSet
<1>6. f \notin out
  BY <1>1, <1>4 DEF FramesInv, NotYet
<1>7. queue \in [Queues -> Line] /\ sm.job \in Line /\ one \in Line /\ to \in Queues
      /\ Range(one) = {f} /\ IsInjective(one)
  BY <1>2, <1>4, PutForms DEF TypeOK, SmSet, Line, Queues
<1>8. queue' = Put(queue, to, one)
  <2>1. Append(queue[to], f) = queue[to] \o one
    BY <1>4, <1>7, PutForms
  <2> QED BY <1>1, <1>7, <2>1 DEF Put
<1> HIDE DEF one
<1>9. /\ queue' \in [Queues -> Line] /\ Once(queue', sm.job) /\ FromCamera(queue')
      /\ HeldIn(queue', sm.job) = HeldIn(queue, sm.job) \cup {f}
  <2>1. Range(one) \cap HeldIn(queue, sm.job) = {} /\ Range(one) \subseteq CamSet
    BY <1>4, <1>6, <1>7, HeldOut
  <2>2. Ready(queue, sm.job)
    BY <1>7 DEF FramesInv, Ready
  <2>3. Added(queue, sm.job, to, one, queue')
    BY <1>7, <1>8, <2>1, <2>2, PutStep
  <2> QED BY <1>7, <2>3 DEF Added, Ready
<1>10. Good(HeldIn(queue', sm.job), Away(notifier, leaked), out')
  <2>1. Good(HeldIn(queue, sm.job), Away(notifier, leaked), out)
    BY DEF FramesInv
  <2>2. Good(HeldIn(queue, sm.job) \cup {f}, Away(notifier, leaked), out \cup {f})
    BY <1>4, <1>6, <2>1, Receive
  <2> QED BY <1>1, <1>9, <2>2
<1>11. NotYet(out', picture', pics')
  BY <1>1, <1>4, <1>5 DEF FramesInv, NotYet, ThreadInv
<1>12. FramesInv'
  BY <1>1, <1>9, <1>10, <1>11 DEF FramesInv, RawOnce, RawOf
<1>13. TypeOK' /\ ThreadInv'
  BY <1>1, <1>3, <1>4, <1>5, <1>9 DEF TypeOK, ThreadInv, Line
<1> QED BY <1>12, <1>13

\* A frame was reprocessed: the result has the place of its source, which it keeps.
LEMMA ProcessPPDataKeeps ==
  ASSUME Inv, processPPData
  PROVE  Inv'
<1> DEFINE src == Head(queue.ongoingPP)
           f == Frame(src[1], src[2], "pp")
           q == Take(queue, "ongoingPP")
           j == sm.job
           one == <<f>>
           k == Put(q, "inputJpeg", one)
<1> USE DEF Inv
<1>1. /\ queue.ongoingPP # <<>> /\ out' = out \cup {f}
      /\ queue' = [queue EXCEPT !.ongoingPP = Tail(@), !.inputJpeg = Append(@, f)]
      /\ data' = sendCmd(data, "NEXT")
      /\ UNCHANGED <<picture, pics, evt_queue, sm, encoder, notifier, shown, marred, leaked>>
  BY DEF processPPData, history
<1>2. data' \in DataSet /\ OneStop(data'.cmds) /\ ("STOP" \in Range(data'.cmds) => "STOP" \in Range(data.cmds))
  BY <1>1, NextFacts DEF TypeOK, ThreadInv
<1>3. queue \in [Queues -> Line] /\ j \in Line /\ "ongoingPP" \in Queues /\ "inputJpeg" \in Queues
      /\ queue["ongoingPP"] \in Seq(FrameSet)
  BY DEF TypeOK, SmSet, Line, Queues
<1>4. /\ Tail(queue["ongoingPP"]) = Rest(queue["ongoingPP"]) /\ src \in FrameSet
      /\ Range(First(queue["ongoingPP"])) = {src}
      /\ Range(First(queue["ongoingPP"])) \subseteq Range(queue["ongoingPP"])
  BY <1>1, <1>3, RestFacts
<1>5. src \in CamSet
  BY <1>4 DEF FramesInv, FromCamera
<1>6. /\ f \in FrameSet \ CamSet /\ Source(f) = src /\ f[1] = src[1] /\ f[2] = src[2]
  <2>1. src[1] \in Nat /\ src[2] \in Numbers /\ Source(src) = src
    BY <1>4, <1>5, SourceFacts
  <2> QED BY <2>1, FrameFacts DEF Source
<1> HIDE DEF src, f, q
<1>7. /\ Ready(q, j)
      /\ HeldIn(q, j) = HeldIn(queue, j) \ {src} /\ src \in HeldIn(queue, j)
      /\ q["ongoingPP"] = Rest(queue["ongoingPP"])
      /\ \A y \in Queues \ {"ongoingPP"} : q[y] = queue[y]
  <2>1. Ready(queue, j)
    BY <1>3 DEF FramesInv, Ready
  <2>2. Taken(queue, j, "ongoingPP", q)
    BY <1>3, <2>1, TakeStep DEF q
  <2> QED BY <1>4, <2>2 DEF Taken
<1>8. Good((HeldIn(queue, j) \ {src}) \cup {f}, Away(notifier, leaked), out') /\ f \notin HeldIn(queue, j)
  BY <1>1, <1>5, <1>6, <1>7, Reprocess DEF FramesInv
<1>9. /\ one \in Line /\ Range(one) = {f} /\ IsInjective(one)
      /\ Append(queue["inputJpeg"], f) = queue["inputJpeg"] \o one
  BY <1>3, <1>6, PutForms
<1> HIDE DEF one
<1>10. /\ k \in [Queues -> Line] /\ Once(k, j) /\ FromCamera(k)
       /\ HeldIn(k, j) = (HeldIn(queue, j) \ {src}) \cup {f}
       /\ k["inputJpeg"] = q["inputJpeg"] \o one
       /\ \A y \in Queues \ {"inputJpeg"} : k[y] = q[y]
  <2>1. Range(one) \cap HeldIn(q, j) = {}
    BY <1>7, <1>8, <1>9
  <2>2. Added(q, j, "inputJpeg", one, k)
    BY <1>3, <1>7, <1>9, <2>1, PutStep
  <2> HIDE DEF k
  <2> QED BY <1>7, <1>9, <2>2 DEF Added, Ready
<1> HIDE DEF k
<1>11. queue' = k
  <2>1. /\ queue'["ongoingPP"] = Tail(queue["ongoingPP"])
        /\ queue'["inputJpeg"] = Append(queue["inputJpeg"], f)
        /\ \A y \in Queues \ {"ongoingPP", "inputJpeg"} : queue'[y] = queue[y]
        /\ DOMAIN queue' = Queues /\ queue' = [y \in Queues |-> queue'[y]]
    BY <1>1, <1>3 DEF Queues
  <2>2. queue'["ongoingPP"] = k["ongoingPP"]
    BY <1>3, <1>4, <1>7, <1>10, <2>1
  <2>3. queue'["inputJpeg"] = k["inputJpeg"]
    BY <1>3, <1>7, <1>9, <1>10, <2>1
  <2>4. \A y \in Queues \ {"ongoingPP", "inputJpeg"} : queue'[y] = k[y]
    BY <1>7, <1>10, <2>1
  <2>5. \A y \in Queues : queue'[y] = k[y]
    BY <2>2, <2>3, <2>4
  <2>6. k = [y \in Queues |-> k[y]]
    BY <1>10
  <2> QED BY <2>1, <2>5, <2>6
<1>12. NotYet(out', picture', pics')
  <2>1. src \in out
    BY <1>7, HeldOut
  <2> QED BY <1>1, <1>6, <2>1 DEF FramesInv, NotYet
<1>13. FramesInv'
  BY <1>1, <1>8, <1>10, <1>11, <1>12 DEF FramesInv, RawOnce, RawOf
<1>14. TypeOK' /\ ThreadInv'
  BY <1>1, <1>2, <1>6, <1>10, <1>11 DEF TypeOK, ThreadInv, Line
<1> QED BY <1>13, <1>14

\* The job is taken from the ongoing ones to be answered.
LEMMA JpegEventKeeps ==
  ASSUME Inv, JpegEvent
  PROVE  Inv'
<1> DEFINE f == First(queue["ongoingJpeg"])
           q == Take(queue, "ongoingJpeg")
<1> USE DEF Inv
<1>1. /\ sm.at = "idle" /\ evt_queue # <<>> /\ evt_queue' = Tail(evt_queue)
      /\ sm' = [at |-> "copying", job |-> f, ok |-> Head(evt_queue).ok]
      /\ queue' = q
      /\ UNCHANGED <<picture, pics, data, encoder, notifier, out, shown, marred, leaked>>
  BY DEF JpegEvent, findJpegJobByJobId, Take
<1>2. queue \in [Queues -> Line] /\ sm.job = <<>> /\ sm.job \in Line /\ "ongoingJpeg" \in Queues
  BY <1>1 DEF TypeOK, SmSet, Line, Queues, ThreadInv
<1>3. /\ q \in [Queues -> Line] /\ f \in Line /\ Once(q, f) /\ FromCamera(q)
      /\ HeldIn(q, f) = HeldIn(queue, sm.job)
  BY <1>2, TakeShape, TakeFacts, JobFacts DEF FramesInv
<1> HIDE DEF f, q
<1>4. evt_queue' \in Seq(EventSet) /\ Head(evt_queue).ok \in BOOLEAN
  <2>1. Head(evt_queue) \in EventSet
    BY <1>1 DEF TypeOK
  <2> QED BY <1>1, <2>1 DEF TypeOK, EventSet
<1>5. sm' \in SmSet /\ sm'.job = f /\ sm'.at = "copying"
  BY <1>1, <1>3, <1>4 DEF SmSet, Line
<1>6. TypeOK' /\ ThreadInv'
  BY <1>1, <1>3, <1>4, <1>5 DEF TypeOK, ThreadInv, Line
<1>7. FramesInv'
  BY <1>1, <1>3, <1>5 DEF FramesInv, RawOnce, RawOf
<1> QED BY <1>6, <1>7

\* An entry is queued to the notifier.
LEMMA NotifyFacts ==
  ASSUME notifier \in NotifierSet, RawOnce(notifier), NEW e \in Entry,
         Range(e.raw) \cap RawOf(notifier) = {}
  PROVE  /\ sendDataNotify(e) \in NotifierSet /\ RawOnce(sendDataNotify(e))
         /\ RawOf(sendDataNotify(e)) = RawOf(notifier) \cup Range(e.raw)
         /\ sendDataNotify(e).at = notifier.at /\ sendDataNotify(e).cb = notifier.cb
<1> DEFINE n == [notifier EXCEPT !.mDataQ = Append(@, e)]
           m == sendDataNotify(e)
<1>1. notifier.mDataQ \in Seq(Entry)
  BY DEF NotifierSet
<1>2. n \in NotifierSet /\ n.mDataQ = Append(notifier.mDataQ, e) /\ n.at = notifier.at
      /\ n.cb = notifier.cb
  BY <1>1, RawAppend DEF NotifierSet
<1>3. m = sendCmd(n, "NEXT")
  BY DEF sendDataNotify
<1> HIDE DEF n, m
<1>4. m \in NotifierSet /\ SameCbs(n, m)
  BY <1>2, <1>3, NotifierFacts DEF Cmds
<1>5. /\ RawFrames(n.mDataQ) = RawFrames(notifier.mDataQ) \cup Range(e.raw)
      /\ RawApart(n.mDataQ)
  BY <1>1, <1>2, RawAppend DEF RawOnce, RawOf
<1>6. RawOnce(m) /\ RawOf(m) = RawOf(notifier) \cup Range(e.raw)
  BY <1>2, <1>4, <1>5 DEF RawOnce, RawOf, SameCbs
<1> QED BY <1>2, <1>4, <1>6 DEF SameCbs, m

\* The job is answered and its frames are given back.
LEMMA ProcessJpegEvtKeeps ==
  ASSUME Inv, NEW sent \in BOOLEAN, processJpegEvt(sent)
  PROVE  Inv'
<1> DEFINE e == Snapshot(Head(sm.job), <<>>)
           j == sm.job
<1> USE DEF Inv
<1>1. /\ sm.at = "copying" /\ sm' = Idle /\ out' = out \ AllOf(Range(j))
      /\ notifier' = (IF sm.ok /\ sent /\ j # <<>> THEN sendDataNotify(e) ELSE notifier)
      /\ data' = sendCmd(data, "NEXT")
      /\ marred' \subseteq marred \cup {job[1] : job \in Range(j)}
      /\ UNCHANGED <<picture, pics, evt_queue, queue, encoder, shown, leaked>>
  BY DEF processJpegEvt, Woken, AllFrames, AllOf, history
<1>2. data' \in DataSet /\ OneStop(data'.cmds) /\ "STOP" \notin Range(data'.cmds)
  BY <1>1, NextFacts DEF TypeOK, ThreadInv
<1>3. queue \in [Queues -> Line] /\ j \in Line /\ notifier \in NotifierSet /\ RawOnce(notifier)
  BY DEF TypeOK, SmSet, Line, FramesInv
<1>4. /\ notifier' \in NotifierSet /\ RawOnce(notifier') /\ RawOf(notifier') = RawOf(notifier)
      /\ notifier'.at = notifier.at /\ notifier'.cb = notifier.cb
  <2>1. CASE sm.ok /\ sent /\ j # <<>>
    <3>1. Head(j) \in FrameSet
      BY <1>3, <2>1 DEF Line
    <3>2. Image(Head(j)) \in Images
      BY <3>1, SourceFacts DEF Image, Images
    <3>3. e \in Entry /\ e.raw = <<>>
      BY <3>2 DEF Snapshot, Entry
    <3>4. Range(<<>>) = {}
      BY DEF Range
    <3> HIDE DEF e
    <3>5. Range(e.raw) = {}
      BY <3>3, <3>4
    <3> QED BY <1>1, <1>3, <2>1, <3>3, <3>5, NotifyFacts
  <2>2. CASE ~(sm.ok /\ sent /\ j # <<>>)
    BY <1>1, <1>3, <2>2
  <2> QED BY <2>1, <2>2
<1> HIDE DEF e
<1>5. sm' \in SmSet /\ sm'.job = <<>> /\ sm'.at = "idle"
  BY <1>1 DEF Idle, SmSet
<1>6. /\ Once(queue, <<>>) /\ HeldIn(queue, <<>>) = HeldIn(queue, j) \ Range(j)
      /\ Range(j) \subseteq HeldIn(queue, j)
  BY <1>3, JobFacts DEF FramesInv
<1>7. Good(HeldIn(queue, <<>>), Away(notifier, leaked), out')
  <2> HIDE DEF j
  <2> QED BY <1>1, <1>6, Release DEF FramesInv, j
<1>8. NotYet(out', picture', pics')
  BY <1>1, NotYetLess DEF FramesInv
<1>9. FramesInv'
  BY <1>1, <1>4, <1>5, <1>6, <1>7, <1>8 DEF FramesInv, Away
<1>10. marred' \subseteq Nat
  <2>1. \A job \in Range(j) : job[1] \in Nat
    BY <1>3, RestFacts, SourceFacts DEF Line
  <2> QED BY <1>1, <2>1 DEF TypeOK
<1>11. TypeOK' /\ ThreadInv'
  BY <1>1, <1>2, <1>4, <1>5, <1>10 DEF TypeOK, ThreadInv
<1> QED BY <1>9, <1>11

-----------------------------------------------------------------------------
(* The data thread.                                                        *)

\* It takes a command.
LEMMA GetFacts ==
  ASSUME TypeOK, ThreadInv, NEW e \in Cmds, Got(data, e)
  PROVE  /\ getCmd(data) \in DataSet /\ OneStop(getCmd(data).cmds)
         /\ "STOP" \in Range(getCmd(data).cmds) => "STOP" \in Range(data.cmds)
         /\ e = "STOP" => "STOP" \in Range(data.cmds) /\ "STOP" \notin Range(getCmd(data).cmds)
<1>1. data \in DataSet /\ data.cmds # <<>> /\ Head(data.cmds) = e /\ data.cmds \in Seq(Cmds)
  BY DEF TypeOK, Got, DataSet
<1>2. getCmd(data) \in DataSet /\ getCmd(data).cmds = Tail(data.cmds)
  BY <1>1, DataFacts
<1>3. OneStop(data.cmds)
  BY DEF ThreadInv
<1> QED BY <1>1, <1>2, <1>3, CmdFacts

\* The data thread stops: nothing is left in a queue, and no job was being answered.
LEMMA DataStopKeeps ==
  ASSUME Inv, DataStop
  PROVE  Inv'
<1> DEFINE H == HeldIn(queue, <<>>)
<1> USE DEF Inv
<1>1. /\ data' = [getCmd(data) EXCEPT !.active = FALSE] /\ encoder' = Aborted
      /\ out' = out \ Flushed /\ queue' = [q \in DOMAIN queue |-> <<>>]
      /\ sm' = [sm EXCEPT !.at = IF @ = "cancelling" THEN "cancelled" ELSE "finished"]
      /\ UNCHANGED <<picture, pics, evt_queue, notifier, shown, marred, leaked>>
      /\ Got(data, "STOP")
  BY DEF DataStop, Heeds, history
<1>2. /\ getCmd(data) \in DataSet /\ OneStop(getCmd(data).cmds)
      /\ "STOP" \in Range(data.cmds) /\ "STOP" \notin Range(getCmd(data).cmds)
  BY <1>1, GetFacts DEF Cmds
<1>3. data' \in DataSet /\ data'.cmds = getCmd(data).cmds
  BY <1>1, <1>2 DEF DataSet
<1>4. sm.at \in {"cancelling", "finishing"} /\ sm.job = <<>>
  BY <1>2 DEF ThreadInv
<1>5. sm' \in SmSet /\ sm'.job = <<>> /\ sm'.at \in {"cancelled", "finished"}
  BY <1>1, <1>4 DEF SmSet, TypeOK
<1>6. queue \in [Queues -> Line] /\ DOMAIN queue = Queues
  BY DEF TypeOK, Line
<1>7. Range(<<>>) = {} /\ IsInjective(<<>>) /\ <<>> \in Line
  BY DEF Range, IsInjective, Line
<1>8. \A x \in Queues : queue'[x] = <<>>
  BY <1>1, <1>6
<1>9. queue' \in [Queues -> Line]
  BY <1>1, <1>6, <1>7
<1>10. Once(queue', <<>>) /\ FromCamera(queue')
  BY <1>7, <1>8 DEF Once, FromCamera, Queues
<1>11. HeldIn(queue', <<>>) = {}
  BY <1>7, <1>8, HeldIs
<1>12. Flushed = AllOf(H)
  <2>1. H = UNION {Range(queue[x]) : x \in Queues}
    BY <1>7 DEF HeldIn
  <2>2. Flushed = UNION {AllOf(Range(queue[x])) : x \in Queues}
    BY <1>6 DEF Flushed, AllFrames, AllOf
  <2> QED BY <2>1, <2>2 DEF AllOf
<1>13. Good({}, Away(notifier, leaked), out')
  <2>1. Good(H, Away(notifier, leaked), out)
    BY <1>4 DEF FramesInv
  <2> HIDE DEF H
  <2>2. Good(H \ H, Away(notifier, leaked), out \ AllOf(H))
    BY <2>1, Release
  <2> QED BY <1>1, <1>12, <2>2
<1>14. NotYet(out', picture', pics')
  BY <1>1, NotYetLess DEF FramesInv
<1>15. FramesInv'
  BY <1>1, <1>5, <1>10, <1>11, <1>13, <1>14 DEF FramesInv, RawOnce, RawOf
<1>16. encoder' \subseteq FrameSet /\ out' \subseteq FrameSet
  BY <1>1 DEF TypeOK, Aborted
<1>17. TypeOK' /\ ThreadInv'
  BY <1>1, <1>2, <1>3, <1>5, <1>9, <1>16 DEF TypeOK, ThreadInv, Line
<1> QED BY <1>15, <1>17

\* A NEXT of the stopped data thread gives the first of three queues back.
LEMMA DataReturnKeeps ==
  ASSUME Inv, DataReturn
  PROVE  Inv'
<1> DEFINE j  == sm.job
           q1 == Take(queue, "inputJpeg")
           q2 == Take(q1, "inputRaw")
           q3 == Take(q2, "inputPP")
           J  == Range(First(queue["inputJpeg"]))
           R  == Range(First(queue["inputRaw"]))
           P  == Range(First(queue["inputPP"]))
<1> USE DEF Inv
<1>1. /\ data' = getCmd(data) /\ Got(data, "NEXT")
      /\ out' = out \ UNION {AllFrames(First(queue[q])) : q \in {"inputJpeg", "inputRaw", "inputPP"}}
      /\ queue' = [queue EXCEPT !.inputJpeg = Rest(@), !.inputRaw = Rest(@), !.inputPP = Rest(@)]
      /\ UNCHANGED <<picture, pics, evt_queue, sm, encoder, notifier, shown, marred, leaked>>
  BY DEF DataReturn, Heeds, history
<1>2. /\ data' \in DataSet /\ OneStop(data'.cmds)
      /\ "STOP" \in Range(data'.cmds) => "STOP" \in Range(data.cmds)
  BY <1>1, GetFacts DEF Cmds
<1>3. /\ queue \in [Queues -> Line] /\ j \in Line /\ Once(queue, j) /\ FromCamera(queue)
      /\ Good(HeldIn(queue, j), Away(notifier, leaked), out)
      /\ {"inputJpeg", "inputRaw", "inputPP"} \subseteq Queues
  BY DEF TypeOK, SmSet, Line, FramesInv, Queues
<1>4. out' = out \ AllOf(J \cup R \cup P)
  <2>1. AllOf(J \cup R \cup P) = AllOf(J) \cup AllOf(R) \cup AllOf(P)
    BY DEF AllOf
  <2>2. UNION {AllFrames(First(queue[q])) : q \in {"inputJpeg", "inputRaw", "inputPP"}}
          = AllOf(J) \cup AllOf(R) \cup AllOf(P)
    BY DEF AllFrames, AllOf
  <2> QED BY <1>1, <2>1, <2>2
<1>5. queue' = q3
  BY <1>1, <1>3 DEF Take
<1> HIDE DEF j
<1>6. Taken(queue, j, "inputJpeg", q1)
  <2>1. Ready(queue, j)
    BY <1>3 DEF Ready
  <2> QED BY <1>3, <2>1, TakeStep
<1> HIDE DEF q1
<1>7. Taken(q1, j, "inputRaw", q2)
  <2>1. Ready(q1, j)
    BY <1>6 DEF Taken
  <2> QED BY <1>3, <2>1, TakeStep
<1> HIDE DEF q2
<1>8. Taken(q2, j, "inputPP", q3)
  <2>1. Ready(q2, j)
    BY <1>7 DEF Taken
  <2> QED BY <1>3, <2>1, TakeStep
<1> HIDE DEF q3
<1>9. /\ q3 \in [Queues -> Line] /\ Once(q3, j) /\ FromCamera(q3)
      /\ HeldIn(q3, j) = HeldIn(queue, j) \ (J \cup R \cup P)
      /\ J \cup R \cup P \subseteq HeldIn(queue, j)
  <2>1. q1["inputRaw"] = queue["inputRaw"] /\ q2["inputPP"] = queue["inputPP"]
    BY <1>3, <1>6, <1>7 DEF Taken
  <2>2. R = Range(First(q1["inputRaw"])) /\ P = Range(First(q2["inputPP"]))
    BY <2>1
  <2> HIDE DEF R, P, J
  <2>3. HeldIn(q1, j) = HeldIn(queue, j) \ J /\ J \subseteq HeldIn(queue, j)
    BY <1>6 DEF Taken, J
  <2>4. HeldIn(q2, j) = HeldIn(q1, j) \ R /\ R \subseteq HeldIn(q1, j)
    BY <1>7, <2>2 DEF Taken
  <2>5. HeldIn(q3, j) = HeldIn(q2, j) \ P /\ P \subseteq HeldIn(q2, j)
    BY <1>8, <2>2 DEF Taken
  <2>6. Ready(q3, j)
    BY <1>8 DEF Taken
  <2> QED BY <2>3, <2>4, <2>5, <2>6 DEF Ready
<1> HIDE DEF J, R, P
<1>10. Good(HeldIn(q3, j), Away(notifier, leaked), out')
  BY <1>3, <1>4, <1>9, Release
<1>11. NotYet(out', picture', pics')
  BY <1>1, <1>4, NotYetLess DEF FramesInv
<1>12. FramesInv'
  BY <1>1, <1>5, <1>9, <1>10, <1>11 DEF FramesInv, RawOnce, RawOf, j
<1>13. out' \subseteq FrameSet
  BY <1>4 DEF TypeOK
<1>14. TypeOK' /\ ThreadInv'
  BY <1>1, <1>2, <1>5, <1>9, <1>13 DEF TypeOK, ThreadInv, Line
<1> QED BY <1>12, <1>14

\* A NEXT of the running data thread: a job is made the ongoing one.
LEMMA DataNextKeeps ==
  ASSUME Inv, DataNext
  PROVE  Inv'
<1> DEFINE j == sm.job
           q == Take(queue, "inputJpeg")
           k == Put(q, "ongoingJpeg", NextJob)
<1> USE DEF Inv
<1>1. /\ Got(data, "NEXT") /\ data' = [getCmd(data) EXCEPT !.at = "encoding", !.job = NextJob]
      /\ queue' = [queue EXCEPT
                     !.inputJpeg = IF NextJob = <<>> THEN @ ELSE Tail(@),
                     !.ongoingJpeg = @ \o NextJob]
      /\ UNCHANGED <<picture, pics, evt_queue, sm, encoder, notifier, out, shown, marred, leaked>>
  BY DEF DataNext, Heeds, history
<1>2. /\ getCmd(data) \in DataSet /\ OneStop(getCmd(data).cmds)
      /\ "STOP" \in Range(getCmd(data).cmds) => "STOP" \in Range(data.cmds)
  BY <1>1, GetFacts DEF Cmds
<1>3. /\ queue \in [Queues -> Line] /\ j \in Line /\ Ready(queue, j)
      /\ "inputJpeg" \in Queues /\ "ongoingJpeg" \in Queues
      /\ queue["inputJpeg"] \in Line /\ queue["ongoingJpeg"] \in Line
  BY DEF TypeOK, SmSet, Line, FramesInv, Ready, Queues
<1>4. NextJob = <<>> \/ (NextJob = First(queue["inputJpeg"]) /\ NextJob # <<>>)
  BY DEF NextJob
<1>5. NextJob \in Line
  <2>1. <<>> \in Line
    BY DEF Line
  <2> QED BY <1>3, <1>4, <2>1, LineFacts
<1>6. data' \in DataSet /\ data'.cmds = getCmd(data).cmds
  BY <1>1, <1>2, <1>5 DEF DataSet, Line
<1>7. queue' \in [Queues -> Line] /\ Once(queue', j) /\ FromCamera(queue')
      /\ HeldIn(queue', j) = HeldIn(queue, j)
  <2>1. CASE NextJob = <<>>
    <3>1. queue["ongoingJpeg"] \o NextJob = queue["ongoingJpeg"]
      BY <1>3, <2>1 DEF Line
    <3>2. queue' = queue
      BY <1>1, <1>3, <2>1, <3>1
    <3> QED BY <1>3, <3>2 DEF Ready
  <2>2. CASE NextJob # <<>>
    <3> HIDE DEF j
    <3>1. Tail(queue["inputJpeg"]) = Rest(queue["inputJpeg"])
      BY <1>3, <1>4, <2>2, LineFacts
    <3>2. Taken(queue, j, "inputJpeg", q)
      BY <1>3, TakeStep
    <3> HIDE DEF q
    <3>3. /\ Ready(q, j) /\ HeldIn(q, j) = HeldIn(queue, j) \ Range(NextJob)
          /\ Range(NextJob) \subseteq HeldIn(queue, j)
          /\ q["inputJpeg"] = Tail(queue["inputJpeg"])
          /\ \A y \in Queues \ {"inputJpeg"} : q[y] = queue[y]
      BY <1>4, <2>2, <3>1, <3>2 DEF Taken
    <3>4. IsInjective(NextJob)
      BY <1>3, <1>4, <2>2, RestFacts DEF Line
    <3>5. Added(q, j, "ongoingJpeg", NextJob, k)
      BY <1>3, <1>5, <3>3, <3>4, PutStep
    <3> HIDE DEF k
    <3>6. /\ k \in [Queues -> Line] /\ Once(k, j) /\ FromCamera(k)
          /\ HeldIn(k, j) = HeldIn(queue, j)
          /\ k["ongoingJpeg"] = queue["ongoingJpeg"] \o NextJob
          /\ \A y \in Queues \ {"ongoingJpeg"} : k[y] = q[y]
      BY <1>3, <3>3, <3>5 DEF Added, Ready
    <3>7. /\ queue'["inputJpeg"] = Tail(queue["inputJpeg"])
          /\ queue'["ongoingJpeg"] = queue["ongoingJpeg"] \o NextJob
          /\ \A y \in Queues \ {"inputJpeg", "ongoingJpeg"} : queue'[y] = queue[y]
          /\ DOMAIN queue' = Queues /\ queue' = [y \in Queues |-> queue'[y]]
      BY <1>1, <1>3, <2>2
    <3>8. \A y \in Queues : queue'[y] = k[y]
      BY <1>3, <3>3, <3>6, <3>7
    <3>9. queue' = k
      <4>1. k = [y \in Queues |-> k[y]]
        BY <3>6
      <4> QED BY <3>7, <3>8, <4>1
    <3> QED BY <3>6, <3>9
  <2> QED BY <2>1, <2>2
<1>8. FramesInv'
  BY <1>1, <1>7 DEF FramesInv
<1>9. TypeOK' /\ ThreadInv'
  BY <1>1, <1>2, <1>6, <1>7 DEF TypeOK, ThreadInv, Line
<1> QED BY <1>8, <1>9

\* The queues after the rest of a NEXT: the ongoing job may be off, a raw frame is, and
\* one frame may be being reprocessed.
Encoded(q, j, job, pp, k) ==
  /\ Once(k, j) /\ FromCamera(k)
  /\ Range(job) \cup Range(First(q["inputRaw"])) \cup Range(First(q["inputPP"]))
       \subseteq HeldIn(q, j)
  /\ Range(job) \cap Range(First(q["inputRaw"])) = {}
  /\ Range(job) \cap Range(First(q["inputPP"])) = {}
  /\ Range(First(q["inputRaw"])) \cap Range(First(q["inputPP"])) = {}
  /\ Range(First(q["inputRaw"])) \subseteq CamSet
  /\ HeldIn(k, j) = (HeldIn(q, j) \ (Range(job) \cup Range(First(q["inputRaw"]))
                                       \cup Range(First(q["inputPP"]))))
                      \cup Range(pp)

\* The queues after it are in order, and hold what it did not release.
LEMMA EncodeQueues ==
  ASSUME NEW q, NEW j \in Line, Ready(q, j), NEW k \in [Queues -> Line],
         NEW job, job = <<>> \/ job = First(q["ongoingJpeg"]),
         NEW pp \in Line, pp = <<>> \/ pp = First(q["inputPP"]),
         job = <<>> => k["ongoingJpeg"] = q["ongoingJpeg"],
         job # <<>> => k["ongoingJpeg"] = Rest(q["ongoingJpeg"]),
         k["inputJpeg"] = q["inputJpeg"],
         k["inputRaw"] = Rest(q["inputRaw"]), k["inputPP"] = Rest(q["inputPP"]),
         k["ongoingPP"] = q["ongoingPP"] \o pp
  PROVE  Encoded(q, j, job, pp, k)
<1> DEFINE R == Range(First(q["inputRaw"]))
           P == Range(First(q["inputPP"]))
           J == Range(job)
           H == HeldIn(q, j)
           q2 == Take(q, "inputRaw")
           q3 == Take(q2, "inputPP")
           q4 == IF job = <<>> THEN q3 ELSE Take(q3, "ongoingJpeg")
           q5 == Put(q4, "ongoingPP", pp)
<1>0. /\ {"inputJpeg", "ongoingJpeg", "inputRaw", "inputPP", "ongoingPP"} = Queues
      /\ Range(<<>>) = {} /\ IsInjective(<<>>)
  BY DEF Queues, Range, IsInjective
<1>1. Taken(q, j, "inputRaw", q2)
  BY <1>0, TakeStep
<1> HIDE DEF q2
<1>2. Taken(q2, j, "inputPP", q3)
  <2>1. Ready(q2, j)
    BY <1>1 DEF Taken
  <2> QED BY <1>0, <2>1, TakeStep
<1> HIDE DEF q3
<1>3. /\ Ready(q3, j) /\ HeldIn(q3, j) = H \ (R \cup P) /\ R \subseteq H /\ P \subseteq H \ R
      /\ q3["inputRaw"] = Rest(q["inputRaw"]) /\ q3["inputPP"] = Rest(q["inputPP"])
      /\ q3["inputJpeg"] = q["inputJpeg"] /\ q3["ongoingJpeg"] = q["ongoingJpeg"]
      /\ q3["ongoingPP"] = q["ongoingPP"]
  <2>1. /\ q2["inputPP"] = q["inputPP"] /\ q2["inputJpeg"] = q["inputJpeg"]
        /\ q2["ongoingJpeg"] = q["ongoingJpeg"] /\ q2["ongoingPP"] = q["ongoingPP"]
        /\ q2["inputRaw"] = Rest(q["inputRaw"])
    BY <1>0, <1>1 DEF Taken
  <2>2. /\ q3["inputJpeg"] = q2["inputJpeg"] /\ q3["inputRaw"] = q2["inputRaw"]
        /\ q3["ongoingJpeg"] = q2["ongoingJpeg"] /\ q3["ongoingPP"] = q2["ongoingPP"]
        /\ q3["inputPP"] = Rest(q2["inputPP"])
    BY <1>0, <1>2 DEF Taken
  <2>3. P = Range(First(q2["inputPP"]))
    BY <2>1
  <2> HIDE DEF P, R, H
  <2>4. HeldIn(q2, j) = H \ R /\ R \subseteq H
    BY <1>1 DEF Taken, R, H
  <2>5. HeldIn(q3, j) = HeldIn(q2, j) \ P /\ P \subseteq HeldIn(q2, j)
    BY <1>2, <2>3 DEF Taken
  <2>6. Ready(q3, j)
    BY <1>2 DEF Taken
  <2> QED BY <2>1, <2>2, <2>4, <2>5, <2>6
<1>4. /\ Ready(q4, j) /\ HeldIn(q4, j) = HeldIn(q3, j) \ J /\ J \subseteq HeldIn(q3, j)
      /\ q4["ongoingJpeg"] = k["ongoingJpeg"]
      /\ \A y \in Queues \ {"ongoingJpeg"} : q4[y] = q3[y]
  <2>1. CASE job = <<>>
    BY <1>0, <1>3, <2>1
  <2>2. CASE job # <<>>
    <3>1. q4 = Take(q3, "ongoingJpeg") /\ job = First(q3["ongoingJpeg"])
      BY <1>3, <2>2
    <3> HIDE DEF q4, H, R, P
    <3>2. Taken(q3, j, "ongoingJpeg", q4)
      BY <1>0, <1>3, <3>1, TakeStep
    <3>3. q4["ongoingJpeg"] = k["ongoingJpeg"]
      BY <1>3, <2>2, <3>2 DEF Taken
    <3>4. Ready(q4, j) /\ HeldIn(q4, j) = HeldIn(q3, j) \ J /\ J \subseteq HeldIn(q3, j)
      BY <3>1, <3>2 DEF Taken
    <3> QED BY <3>2, <3>3, <3>4 DEF Taken
  <2> QED BY <2>1, <2>2
<1> HIDE DEF q4, J, H
<1>5. R \subseteq CamSet
  <2>1. q["inputRaw"] \in Seq(FrameSet) /\ Range(q["inputRaw"]) \subseteq CamSet
    BY <1>0 DEF Ready, FromCamera, Line
  <2> QED BY <2>1, RestFacts
<1>6. Range(pp) \subseteq P /\ Range(pp) \subseteq CamSet /\ IsInjective(pp)
  <2>1. q["inputPP"] \in Seq(FrameSet) /\ Range(q["inputPP"]) \subseteq CamSet
    BY <1>0 DEF Ready, FromCamera, Line
  <2>2. P \subseteq CamSet /\ IsInjective(First(q["inputPP"]))
    BY <2>1, RestFacts
  <2> QED BY <1>0, <2>2
<1> HIDE DEF R, P
<1>7. Added(q4, j, "ongoingPP", pp, q5)
  <2>1. Range(pp) \cap HeldIn(q4, j) = {}
    BY <1>3, <1>4, <1>6
  <2> QED BY <1>0, <1>4, <1>6, <2>1, PutStep
<1> HIDE DEF q5
<1>8. /\ Ready(q5, j) /\ HeldIn(q5, j) = HeldIn(q4, j) \cup Range(pp)
      /\ q5["ongoingPP"] = q4["ongoingPP"] \o pp
      /\ q5["inputJpeg"] = q4["inputJpeg"] /\ q5["inputRaw"] = q4["inputRaw"]
      /\ q5["inputPP"] = q4["inputPP"] /\ q5["ongoingJpeg"] = q4["ongoingJpeg"]
  BY <1>0, <1>7 DEF Added
<1>9. k = q5
  <2>1. /\ q4["inputJpeg"] = q3["inputJpeg"] /\ q4["ongoingPP"] = q3["ongoingPP"]
        /\ q4["inputRaw"] = q3["inputRaw"] /\ q4["inputPP"] = q3["inputPP"]
    BY <1>0, <1>4
  <2>2. /\ q5["inputJpeg"] = k["inputJpeg"] /\ q5["ongoingJpeg"] = k["ongoingJpeg"]
        /\ q5["inputRaw"] = k["inputRaw"] /\ q5["inputPP"] = k["inputPP"]
        /\ q5["ongoingPP"] = k["ongoingPP"]
    BY <1>3, <1>4, <1>8, <2>1
  <2>3. q5 \in [Queues -> Line]
    BY <1>8 DEF Ready
  <2> QED BY <2>2, <2>3, SameQueues
<1>10. HeldIn(k, j) = (H \ (J \cup R \cup P)) \cup Range(pp)
  BY <1>3, <1>4, <1>8, <1>9
<1>11. /\ J \cup R \cup P \subseteq H /\ J \cap R = {} /\ J \cap P = {} /\ R \cap P = {}
       /\ Once(k, j) /\ FromCamera(k)
  BY <1>3, <1>4, <1>8, <1>9 DEF Ready
<1> QED BY <1>5, <1>10, <1>11 DEF Encoded, H, R, P, J

\* A raw frame is sent: it goes from its queue to the notifier, and nothing does if there
\* is none.
LEMMA RawSent ==
  ASSUME Inv, NEW sent \in BOOLEAN, NEW n,
         n = IF sent /\ NextRaw # <<>>
             THEN sendDataNotify(Snapshot(Head(NextRaw), NextRaw)) ELSE notifier
  PROVE  /\ n \in NotifierSet /\ RawOnce(n) /\ n.at = notifier.at /\ n.cb = notifier.cb
         /\ RawOf(n) = RawOf(notifier) \cup (IF sent THEN Range(NextRaw) ELSE {})
<1> DEFINE e == Snapshot(Head(NextRaw), NextRaw)
<1> USE DEF Inv
<1>1. notifier \in NotifierSet /\ RawOnce(notifier)
  BY DEF TypeOK, FramesInv
<1>2. CASE sent /\ NextRaw # <<>>
  <2>1. /\ queue["inputRaw"] \in Seq(FrameSet) /\ "inputRaw" \in Queues
        /\ Range(queue["inputRaw"]) \subseteq CamSet /\ NextRaw = First(queue["inputRaw"])
    BY DEF TypeOK, Queues, FramesInv, FromCamera, NextRaw
  <2> DEFINE f == Head(queue["inputRaw"])
  <2>2. NextRaw = <<f>> /\ Range(NextRaw) = {f} /\ Range(NextRaw) \subseteq Range(queue["inputRaw"])
    BY <1>2, <2>1, RestFacts
  <2>3. f \in CamSet /\ f \in FrameSet /\ Head(NextRaw) = f
    BY <2>1, <2>2, SourceFacts
  <2>4. Image(f) \in Images
    BY <2>3, SourceFacts DEF Image, Images
  <2> HIDE DEF f
  <2>5. e \in Entry /\ e.raw = NextRaw
    BY <2>2, <2>3, <2>4 DEF Snapshot, Entry
  <2>6. Range(NextRaw) \cap RawOf(notifier) = {}
    <3>1. f \in HeldIn(queue, sm.job)
      BY <2>1, <2>2, HeldIs
    <3>2. f \in AllOf(HeldIn(queue, sm.job))
      BY <3>1 DEF AllOf, Frames
    <3>3. f \notin Away(notifier, leaked)
      BY <3>2 DEF FramesInv, Good
    <3> QED BY <2>2, <3>3 DEF Away
  <2> HIDE DEF e
  <2>7. /\ sendDataNotify(e) \in NotifierSet /\ RawOnce(sendDataNotify(e))
        /\ RawOf(sendDataNotify(e)) = RawOf(notifier) \cup Range(NextRaw)
        /\ sendDataNotify(e).at = notifier.at /\ sendDataNotify(e).cb = notifier.cb
    BY <1>1, <2>5, <2>6, NotifyFacts
  <2>8. n = sendDataNotify(e)
    BY <1>2 DEF e
  <2> QED BY <1>2, <2>7, <2>8
<1>3. CASE ~(sent /\ NextRaw # <<>>)
  <2>1. n = notifier
    BY <1>3
  <2>2. sent => Range(NextRaw) = {}
    BY <1>3 DEF Range
  <2>3. (IF sent THEN Range(NextRaw) ELSE {}) = {}
    BY <2>2
  <2> QED BY <1>1, <2>1, <2>3
<1> QED BY <1>2, <1>3

\* The jobs that fail, as a set.
LEMMA FailedFacts ==
  ASSUME NEW a \in Line, NEW b \in Line, NEW c \in Line
  PROVE  /\ a \o b \o c \in Line
         /\ Range(a \o b \o c) = Range(a) \cup Range(b) \cup Range(c)
<1> DEFINE d == a \o b
<1>1. d \in Line /\ Range(d) = Range(a) \cup Range(b)
  BY ConcatFacts DEF Line
<1> HIDE DEF d
<1>2. d \o c \in Line /\ Range(d \o c) = Range(d) \cup Range(c)
  BY <1>1, ConcatFacts DEF Line
<1> QED BY <1>1, <1>2 DEF d


\* A sequence of one but its last.
LEMMA ButLastFacts ==
  ASSUME NEW s \in Line, Len(s) = 1
  PROVE  ButLast(s) = Rest(s) /\ First(s) = s /\ ButLast(s) = <<>>
<1>1. s # <<>> /\ s = <<s[1]>> /\ Head(s) = s[1]
  BY DEF Line
<1>2. First(s) = s
  BY <1>1 DEF First
<1>3. ButLast(s) = <<>> /\ Rest(s) = <<>>
  BY <1>1 DEF ButLast, Rest, Line
<1> QED BY <1>2, <1>3

\* The rest of a NEXT: each of the three may go on or be released, and a raw frame may be
\* forgotten.
LEMMA EncodeKeeps ==
  ASSUME Inv, FreshInv, NEW encoded \in BOOLEAN, NEW raw \in RawOutcomes,
         NEW reprocessed \in BOOLEAN, Encode(encoded, raw, reprocessed)
  PROVE  Inv'
<1> DEFINE j   == sm.job
           pp  == IF reprocessed THEN NextPP ELSE <<>>
           a   == IF encoded THEN <<>> ELSE data.job
           b   == IF raw = "failed" THEN NextRaw ELSE <<>>
           c   == IF reprocessed THEN <<>> ELSE NextPP
           u   == IF raw = "unsent" THEN NextRaw ELSE <<>>
           X   == Range(a) \cup Range(b) \cup Range(c)
           Y   == IF raw = "sent" THEN Range(NextRaw) ELSE {}
           Z   == Range(u)
           H   == HeldIn(queue, j)
           sent == raw = "sent"
<1> USE DEF Inv
<1>1. /\ data.at = "encoding" /\ data' = [data EXCEPT !.at = "idle", !.job = <<>>]
      /\ out' = out \ AllFrames(a \o b \o c)
      /\ leaked' = leaked \cup Range(u)
      /\ marred' = marred \cup {f[1] : f \in Range((a \o b \o c) \o u)}
      /\ encoder' = (IF encoded THEN encoder \cup Range(data.job) ELSE encoder)
      /\ notifier' = (IF sent /\ NextRaw # <<>>
                      THEN sendDataNotify(Snapshot(Head(NextRaw), NextRaw)) ELSE notifier)
      /\ queue' = [queue EXCEPT
                     !.ongoingJpeg = IF encoded \/ data.job = <<>> THEN @ ELSE ButLast(@),
                     !.inputRaw = Rest(@), !.inputPP = Rest(@),
                     !.ongoingPP = IF reprocessed THEN @ \o NextPP ELSE @]
      /\ UNCHANGED <<picture, pics, evt_queue, sm, shown>>
  BY DEF Encode
<1>2. /\ data' \in DataSet /\ data'.cmds = data.cmds
  <2>1. data \in DataSet /\ <<>> \in Seq(FrameSet)
    BY DEF TypeOK
  <2> QED BY <1>1, <2>1 DEF DataSet
<1>3. /\ queue \in [Queues -> Line] /\ j \in Line /\ Ready(queue, j)
      /\ Good(H, Away(notifier, leaked), out)
  BY DEF TypeOK, SmSet, Line, FramesInv, Ready
<1>4. /\ queue["inputJpeg"] \in Line /\ queue["ongoingJpeg"] \in Line
      /\ queue["inputRaw"] \in Line /\ queue["inputPP"] \in Line /\ queue["ongoingPP"] \in Line
  BY <1>3 DEF Queues
<1>5. NextRaw = First(queue["inputRaw"]) /\ NextPP = First(queue["inputPP"])
  BY DEF NextRaw, NextPP
<1>6. <<>> \in Line /\ Range(<<>>) = {}
  BY DEF Line, Range
<1>7. data.job \in Line /\ NextRaw \in Line /\ NextPP \in Line
  BY <1>4, <1>5, LineFacts DEF TypeOK, DataSet, Line
<1>8. pp \in Line /\ a \in Line /\ b \in Line /\ c \in Line /\ u \in Line
  BY <1>6, <1>7
<1>9. data.job # <<>> => queue["ongoingJpeg"] = data.job /\ Len(data.job) = 1
  BY DEF FreshInv
<1>10. a = <<>> \/ (a = First(queue["ongoingJpeg"]) /\ ButLast(queue["ongoingJpeg"]) = Rest(queue["ongoingJpeg"]))
  BY <1>4, <1>9, ButLastFacts
<1>11. /\ a = <<>> => queue'["ongoingJpeg"] = queue["ongoingJpeg"]
       /\ a # <<>> => queue'["ongoingJpeg"] = Rest(queue["ongoingJpeg"])
       /\ queue'["inputJpeg"] = queue["inputJpeg"]
       /\ queue'["inputRaw"] = Rest(queue["inputRaw"])
       /\ queue'["inputPP"] = Rest(queue["inputPP"])
       /\ queue'["ongoingPP"] = queue["ongoingPP"] \o pp
       /\ DOMAIN queue' = Queues /\ queue' = [x \in Queues |-> queue'[x]]
  <2>1. queue["ongoingPP"] \o <<>> = queue["ongoingPP"]
    BY <1>4 DEF Line
  <2>2. /\ queue'["ongoingJpeg"] = IF encoded \/ data.job = <<>> THEN queue["ongoingJpeg"]
                                   ELSE ButLast(queue["ongoingJpeg"])
        /\ queue'["inputJpeg"] = queue["inputJpeg"]
        /\ queue'["inputRaw"] = Rest(queue["inputRaw"])
        /\ queue'["inputPP"] = Rest(queue["inputPP"])
        /\ queue'["ongoingPP"] = IF reprocessed THEN queue["ongoingPP"] \o NextPP
                                 ELSE queue["ongoingPP"]
        /\ DOMAIN queue' = Queues /\ queue' = [x \in Queues |-> queue'[x]]
    BY <1>1, <1>3 DEF Queues
  <2>3. a = <<>> <=> encoded \/ data.job = <<>>
    OBVIOUS
  <2> HIDE DEF a
  <2> QED BY <1>10, <2>1, <2>2, <2>3
<1>12. queue' \in [Queues -> Line]
  <2>1. queue'["inputJpeg"] \in Line /\ queue'["inputRaw"] \in Line /\ queue'["inputPP"] \in Line
        /\ queue'["ongoingJpeg"] \in Line
    <3> HIDE DEF a
    <3> QED BY <1>4, <1>11, LineFacts
  <2>2. queue'["ongoingPP"] \in Line
    BY <1>4, <1>8, <1>11 DEF Line
  <2>3. \A x \in Queues : queue'[x] \in Line
    BY <2>1, <2>2 DEF Queues
  <2> QED BY <1>11, <2>3
<1>13. notifier' \in NotifierSet /\ RawOnce(notifier') /\ notifier'.at = notifier.at
       /\ notifier'.cb = notifier.cb /\ RawOf(notifier') = RawOf(notifier) \cup Y
  <2>1. sent \in BOOLEAN /\ (sent <=> raw = "sent")
    OBVIOUS
  <2> HIDE DEF sent
  <2> QED BY <1>1, <2>1, RawSent
<1>14. /\ AllFrames(a \o b \o c) = AllOf(X) /\ X \subseteq FrameSet /\ Z \subseteq FrameSet
       /\ Range((a \o b \o c) \o u) = X \cup Z
  <2> HIDE DEF a, b, c, u
  <2>1. Range(a \o b \o c) = X /\ a \o b \o c \in Line
    BY <1>8, FailedFacts
  <2>2. Range(a \o b \o c) \subseteq FrameSet /\ Z \subseteq FrameSet
    BY <1>8, <2>1, RestFacts DEF Line
  <2>3. Range((a \o b \o c) \o u) = X \cup Z
    <3> DEFINE d == a \o b \o c
    <3>1. d \in Line /\ Range(d) = X
      BY <2>1
    <3> HIDE DEF d
    <3>2. Range(d \o u) = Range(d) \cup Range(u)
      BY <1>8, <3>1, ConcatFacts DEF Line
    <3> QED BY <3>1, <3>2 DEF d
  <2> QED BY <2>1, <2>2, <2>3 DEF AllFrames, AllOf
<1>15. Encoded(queue, j, a, pp, queue')
  <2>1. pp = <<>> \/ pp = First(queue["inputPP"])
    BY <1>5
  <2>2. a = <<>> \/ a = First(queue["ongoingJpeg"])
    BY <1>10
  <2> HIDE DEF a, pp, j
  <2> QED BY <1>3, <1>8, <1>11, <1>12, <2>1, <2>2, EncodeQueues
<1>16. /\ X = Range(a) \cup (IF raw = "failed" THEN Range(NextRaw) ELSE {})
              \cup (IF reprocessed THEN {} ELSE Range(NextPP))
       /\ Z = (IF raw = "unsent" THEN Range(NextRaw) ELSE {})
       /\ Range(pp) = (IF reprocessed THEN Range(NextPP) ELSE {})
  BY <1>6
<1> HIDE DEF j, pp, a, b, c, u, X, Z, H
<1>17. /\ HeldIn(queue', j) = (H \ X) \ (Y \cup Z) /\ X \subseteq H /\ Y \cup Z \subseteq H \ X
       /\ Y \cup Z \subseteq CamSet /\ Y \cap Z = {}
       /\ Once(queue', j) /\ FromCamera(queue')
  <2> DEFINE J == Range(a)
             R == Range(NextRaw)
             P == Range(NextPP)
  <2>1. /\ J \cup R \cup P \subseteq H /\ J \cap R = {} /\ J \cap P = {} /\ R \cap P = {}
        /\ R \subseteq CamSet
        /\ HeldIn(queue', j) = (H \ (J \cup R \cup P)) \cup Range(pp)
        /\ Once(queue', j) /\ FromCamera(queue')
    BY <1>5, <1>15 DEF Encoded, H
  <2> HIDE DEF J, R, P
  <2>2. /\ X = J \cup (IF raw = "failed" THEN R ELSE {}) \cup (IF reprocessed THEN {} ELSE P)
        /\ Range(pp) = (IF reprocessed THEN P ELSE {})
        /\ Y = (IF raw = "sent" THEN R ELSE {}) /\ Z = (IF raw = "unsent" THEN R ELSE {})
    BY <1>16 DEF J, R, P
  <2> HIDE DEF Y
  <2>3. raw \in {"sent", "failed", "unsent"}
    BY DEF RawOutcomes
  <2>4. X \subseteq H /\ Y \cup Z \subseteq H \ X /\ Y \cup Z \subseteq CamSet /\ Y \cap Z = {}
    BY <2>1, <2>2
  <2>5. (H \ (J \cup R \cup P)) \cup Range(pp) = (H \ X) \ (Y \cup Z)
    BY <2>1, <2>2, <2>3
  <2> QED BY <2>1, <2>4, <2>5
<1> HIDE DEF Y
<1>18. Good((H \ X) \ (Y \cup Z), Away(notifier, leaked) \cup (Y \cup Z), out \ AllOf(X))
  <2>1. Good(H \ X, Away(notifier, leaked), out \ AllOf(X))
    BY <1>3, <1>17, Release
  <2> QED BY <1>17, <2>1, Give
<1>19. leaked' = leaked \cup Z /\ Away(notifier', leaked') = Away(notifier, leaked) \cup (Y \cup Z)
  BY <1>1, <1>13 DEF Away, Z
<1>20. Good(HeldIn(queue', j), Away(notifier', leaked'), out')
  BY <1>1, <1>14, <1>17, <1>18, <1>19
<1>21. RawOf(notifier') \cap leaked' = {}
  <2>1. H \cap Away(notifier, leaked) = {}
    BY <1>3, AllOfFacts DEF Good
  <2> QED BY <1>13, <1>17, <1>19, <2>1 DEF FramesInv, Away
<1>22. NotYet(out', picture', pics')
  BY <1>1, NotYetLess DEF FramesInv
<1>23. FramesInv'
  BY <1>1, <1>13, <1>17, <1>20, <1>21, <1>22 DEF FramesInv, j
<1>24. /\ encoder' \subseteq FrameSet /\ out' \subseteq FrameSet /\ marred' \subseteq Nat
       /\ leaked' \subseteq CamSet
  <2>1. Range(data.job) \subseteq FrameSet
    BY <1>7, RestFacts DEF Line
  <2>2. \A f \in X \cup Z : f[1] \in Nat
    BY <1>14, SourceFacts
  <2> QED BY <1>1, <1>14, <1>17, <1>19, <2>1, <2>2 DEF TypeOK
<1>25. TypeOK' /\ ThreadInv'
  BY <1>1, <1>2, <1>12, <1>13, <1>24 DEF TypeOK, ThreadInv, Line
<1> QED BY <1>23, <1>25

-----------------------------------------------------------------------------
(* The notifier.                                                           *)

\* Raw frames are given back: what is left with the notifier is still there once.
LEMMA RawBack ==
  ASSUME Inv, NEW Y \in SUBSET RawOf(notifier), out' = out \ Y,
         UNCHANGED <<picture, pics, sm, queue, leaked>>,
         RawOnce(notifier'), RawOf(notifier') = RawOf(notifier) \ Y
  PROVE  FramesInv'
<1>1. Good(HeldIn(queue, sm.job), Away(notifier', leaked), out \ Y)
  <2>1. Good(HeldIn(queue, sm.job), Away(notifier, leaked) \ Y, out \ Y)
    BY ReleaseRaw DEF Inv, FramesInv, Away
  <2>2. Away(notifier, leaked) \ Y = Away(notifier', leaked)
    BY DEF Inv, FramesInv, Away
  <2> QED BY <2>1, <2>2
<1>2. NotYet(out', picture', pics')
  BY NotYetLess DEF Inv, FramesInv
<1> QED BY <1>1, <1>2 DEF Inv, FramesInv

\* What the notifier's first command leaves.
LEMMA ListeningFacts ==
  ASSUME Inv, NEW e, Listening(e)
  PROVE  /\ notifier \in NotifierSet /\ notifier.at = "idle" /\ notifier.cb = <<>>
         /\ getCmd(notifier) \in NotifierSet /\ SameCbs(notifier, getCmd(notifier))
         /\ RawOnce(notifier) /\ RawFrames(<<>>) = {} /\ RawApart(<<>>) /\ <<>> \in Seq(Entry)
         /\ RawOf(notifier) = RawFrames(notifier.mDataQ) /\ notifier.mDataQ \in Seq(Entry)
<1>1. notifier \in NotifierSet /\ notifier.at = "idle" /\ notifier.cb = <<>> /\ notifier.cmds # <<>>
      /\ RawOnce(notifier)
  BY DEF Inv, TypeOK, Listening, Got, ThreadInv, FramesInv
<1>2. getCmd(notifier) \in NotifierSet /\ SameCbs(notifier, getCmd(notifier))
  BY <1>1, NotifierFacts
<1>3. RawFrames(<<>>) = {} /\ RawApart(<<>>)
  BY RawIs DEF RawApart
<1> QED BY <1>1, <1>2, <1>3 DEF RawOf, NotifierSet

\* The notifier stops: the raw frames of what it had queued are given back.
LEMMA NotifierStopKeeps ==
  ASSUME Inv, NotifierStop
  PROVE  Inv'
<1> DEFINE g == getCmd(notifier)
           Y == RawFrames(notifier.mDataQ)
<1>1. /\ Listening("STOP") /\ notifier' = [Counting(g, FALSE, 0) EXCEPT !.mDataQ = <<>>]
      /\ out' = out \ Y
      /\ UNCHANGED <<picture, pics, evt_queue, sm, queue, data, encoder, shown, marred, leaked>>
  BY DEF NotifierStop, history
<1>2. /\ notifier.at = "idle" /\ notifier.cb = <<>> /\ g \in NotifierSet /\ SameCbs(notifier, g)
      /\ RawFrames(<<>>) = {} /\ RawApart(<<>>) /\ <<>> \in Seq(Entry)
      /\ RawOf(notifier) = Y
  BY <1>1, ListeningFacts
<1> HIDE DEF g
<1>3. /\ notifier' \in NotifierSet /\ notifier'.at = "idle" /\ notifier'.cb = <<>>
      /\ notifier'.mDataQ = <<>>
  <2> DEFINE h == [g EXCEPT !.active = FALSE, !.expected = 0, !.rcvd = 0]
  <2>1. h \in NotifierSet /\ h.at = "idle" /\ h.cb = <<>>
    BY <1>2 DEF NotifierSet, SameCbs
  <2>2. notifier' = [h EXCEPT !.mDataQ = <<>>]
    BY <1>1 DEF Counting
  <2> HIDE DEF h
  <2> QED BY <1>2, <2>1, <2>2 DEF NotifierSet
<1>4. RawOnce(notifier') /\ RawOf(notifier') = {}
  BY <1>2, <1>3 DEF RawOnce, RawOf
<1> HIDE DEF Y
<1>5. FramesInv'
  BY <1>1, <1>2, <1>4, RawBack
<1>6. out' \subseteq FrameSet
  BY <1>1 DEF Inv, TypeOK
<1>7. TypeOK' /\ ThreadInv'
  BY <1>1, <1>3, <1>6 DEF Inv, TypeOK, ThreadInv
<1> QED BY <1>5, <1>7 DEF Inv

\* An image that is not wanted: its raw frame is given back.
LEMMA NotifierDropKeeps ==
  ASSUME Inv, NotifierDrop
  PROVE  Inv'
<1> DEFINE g == getCmd(notifier)
           m == notifier.mDataQ
           Y == RawFrames(First(m))
<1>1. /\ Listening("NEXT") /\ notifier' = [g EXCEPT !.mDataQ = Rest(@)]
      /\ out' = out \ Y
      /\ marred' \subseteq marred \cup {cb.image[1] : cb \in Range(First(m))}
      /\ UNCHANGED <<picture, pics, evt_queue, sm, queue, data, encoder, shown, leaked>>
  BY DEF NotifierDrop, history
<1>2. /\ notifier.at = "idle" /\ notifier.cb = <<>> /\ g \in NotifierSet /\ SameCbs(notifier, g)
      /\ RawOf(notifier) = RawFrames(m) /\ m \in Seq(Entry) /\ RawOnce(notifier)
      /\ RawFrames(<<>>) = {} /\ RawApart(<<>>)
  BY <1>1, ListeningFacts
<1>3. /\ Y \subseteq RawFrames(m) /\ RawApart(Rest(m)) /\ RawFrames(Rest(m)) = RawFrames(m) \ Y
      /\ Rest(m) \in Seq(Entry)
  BY <1>2, RawRest, RestFacts DEF RawOnce
<1> HIDE DEF g, Y
<1>4. /\ notifier' \in NotifierSet /\ notifier'.at = "idle" /\ notifier'.cb = <<>>
      /\ notifier'.mDataQ = Rest(m)
  BY <1>1, <1>2, <1>3 DEF NotifierSet, SameCbs
<1>5. RawOnce(notifier') /\ RawOf(notifier') = RawOf(notifier) \ Y
  BY <1>2, <1>3, <1>4 DEF RawOnce, RawOf
<1>6. FramesInv'
  BY <1>1, <1>2, <1>3, <1>5, RawBack
<1>7. out' \subseteq FrameSet /\ marred' \subseteq Nat
  <2>1. \A cb \in Range(First(m)) : cb.image[1] \in Nat
    <3>1. Range(First(m)) \subseteq Entry
      BY <1>2, RestFacts
    <3> QED BY <3>1 DEF Entry, Images
  <2> QED BY <1>1, <2>1 DEF Inv, TypeOK
<1>8. TypeOK' /\ ThreadInv'
  BY <1>1, <1>4, <1>7 DEF Inv, TypeOK, ThreadInv
<1> QED BY <1>6, <1>8 DEF Inv

\* An image is about to be shown: its raw frame is still the notifier's.
LEMMA NotifierNextKeeps ==
  ASSUME Inv, NotifierNext
  PROVE  Inv'
<1> DEFINE g == getCmd(notifier)
           m == notifier.mDataQ
           rcvd == notifier.rcvd + 1
           at == IF rcvd = notifier.expected THEN "waiting" ELSE "calling"
<1>1. /\ Listening("NEXT")
      /\ notifier' = [g EXCEPT !.mDataQ = Tail(@), !.cb = First(m), !.rcvd = rcvd, !.at = at]
      /\ evt_queue' = IF rcvd = notifier.expected
                      THEN Append(evt_queue, [evt |-> "DONE", job |-> <<>>, ok |-> TRUE])
                      ELSE evt_queue
      /\ m # <<>>
      /\ UNCHANGED <<picture, pics, sm, queue, data, encoder, out, shown, marred, leaked>>
  BY DEF NotifierNext, history
<1>2. /\ notifier \in NotifierSet /\ g \in NotifierSet /\ SameCbs(notifier, g)
      /\ RawOf(notifier) = RawFrames(m) /\ m \in Seq(Entry) /\ RawOnce(notifier)
  BY <1>1, ListeningFacts
<1>3. /\ RawFrames(First(m)) \subseteq RawFrames(m) /\ RawApart(First(m)) /\ RawApart(Rest(m))
      /\ RawFrames(Rest(m)) = RawFrames(m) \ RawFrames(First(m))
      /\ Rest(m) \in Seq(Entry) /\ First(m) \in Seq(Entry) /\ Tail(m) = Rest(m)
      /\ First(m) # <<>>
  <2> HIDE DEF m
  <2>1. m \in Seq(Entry) /\ m # <<>>
    BY <1>1, <1>2
  <2>2. RawApart(m)
    BY <1>2 DEF RawOnce, m
  <2>3. /\ RawFrames(First(m)) \subseteq RawFrames(m) /\ RawApart(First(m)) /\ RawApart(Rest(m))
        /\ RawFrames(Rest(m)) = RawFrames(m) \ RawFrames(First(m))
    BY <2>1, <2>2, RawRest
  <2>4. /\ Rest(m) \in Seq(Entry) /\ First(m) \in Seq(Entry) /\ Tail(m) = Rest(m)
        /\ First(m) # <<>>
    BY <2>1, RestFacts
  <2> QED BY <2>3, <2>4
<1>4. rcvd \in Nat /\ at \in {"waiting", "calling"}
  BY <1>2 DEF NotifierSet
<1> HIDE DEF at
<1>5. evt_queue' \in Seq(EventSet)
  <2>1. [evt |-> "DONE", job |-> <<>>, ok |-> TRUE] \in EventSet /\ evt_queue \in Seq(EventSet)
    BY DEF EventSet, Inv, TypeOK
  <2> QED BY <1>1, <2>1
<1> HIDE DEF g, rcvd
<1>6. /\ notifier' \in NotifierSet /\ notifier'.at = at /\ notifier'.cb = First(m)
      /\ notifier'.mDataQ = Rest(m)
  BY <1>1, <1>2, <1>3, <1>4 DEF NotifierSet, SameCbs
<1>7. RawOnce(notifier') /\ RawOf(notifier') = RawOf(notifier)
  BY <1>2, <1>3, <1>6 DEF RawOnce, RawOf
<1>8. FramesInv'
  BY <1>1, <1>7 DEF Inv, FramesInv, Away
<1>9. TypeOK' /\ ThreadInv'
  BY <1>1, <1>3, <1>4, <1>5, <1>6 DEF Inv, TypeOK, ThreadInv
<1> QED BY <1>8, <1>9 DEF Inv

\* The application has got the image: the raw frame is given back.
LEMMA DataCbKeeps ==
  ASSUME Inv, mDataCb
  PROVE  Inv'
<1> DEFINE Y == RawFrames(notifier.cb)
<1>1. /\ notifier' = [notifier EXCEPT !.at = "idle", !.cb = <<>>]
      /\ shown' = shown \cup {Head(notifier.cb).image}
      /\ out' = out \ Y /\ notifier.at = "calling"
      /\ UNCHANGED <<picture, pics, evt_queue, sm, queue, data, encoder, marred, leaked>>
  BY DEF mDataCb, history
<1>2. notifier \in NotifierSet /\ RawOnce(notifier) /\ Y \subseteq RawOf(notifier)
      /\ notifier.cb \in Seq(Entry)
  BY DEF Inv, TypeOK, FramesInv, NotifierSet, RawOf
<1>3. RawFrames(<<>>) = {} /\ RawApart(<<>>) /\ <<>> \in Seq(Entry)
  BY RawIs DEF RawApart
<1>4. /\ notifier' \in NotifierSet /\ notifier'.at = "idle" /\ notifier'.cb = <<>>
      /\ notifier'.mDataQ = notifier.mDataQ
  BY <1>1, <1>2, <1>3 DEF NotifierSet
<1>5. RawOnce(notifier') /\ RawOf(notifier') = RawOf(notifier) \ Y
  BY <1>2, <1>3, <1>4 DEF RawOnce, RawOf
<1> HIDE DEF Y
<1>6. FramesInv'
  BY <1>1, <1>2, <1>5, RawBack
<1>7. Head(notifier.cb).image \in Images
  <2>1. notifier.cb # <<>>
    BY <1>1 DEF Inv, ThreadInv
  <2>2. Head(notifier.cb) \in Entry
    BY <1>2, <2>1
  <2> QED BY <2>2 DEF Entry
<1>8. out' \subseteq FrameSet /\ shown' \subseteq Images
  BY <1>1, <1>7 DEF Inv, TypeOK
<1>9. TypeOK' /\ ThreadInv'
  BY <1>1, <1>4, <1>8 DEF Inv, TypeOK, ThreadInv
<1> QED BY <1>6, <1>9 DEF Inv

-----------------------------------------------------------------------------
(* The specification.                                                      *)

\* Before the first picture there is nothing.
LEMMA InvInit == Init => Inv
<1> SUFFICES ASSUME Init PROVE Inv
  OBVIOUS
<1>1. Range(<<>>) = {} /\ IsInjective(<<>>) /\ RawFrames(<<>>) = {} /\ RawApart(<<>>)
      /\ OneStop(<<>>)
  BY RawIs DEF Range, IsInjective, RawApart, OneStop
<1>2. queue \in [Queues -> Seq(FrameSet)] /\ \A x \in Queues : queue[x] = <<>>
  <2> DEFINE q == [inputJpeg |-> <<>>, ongoingJpeg |-> <<>>, inputRaw |-> <<>>,
                   inputPP |-> <<>>, ongoingPP |-> <<>>]
  <2>1. q = [x \in Queues |-> q[x]]
    BY DEF Queues
  <2>2. \A x \in Queues : q[x] = <<>>
    BY DEF Queues
  <2>3. queue = q /\ <<>> \in Seq(FrameSet)
    BY DEF Init
  <2> HIDE DEF q
  <2>4. q = [x \in Queues |-> <<>>]
    BY <2>1, <2>2
  <2> QED BY <2>2, <2>3, <2>4
<1>3. sm.job = <<>> /\ sm \in SmSet
  BY DEF Init, Idle, SmSet
<1>4. HeldIn(queue, sm.job) = {} /\ RawOf(notifier) = {}
  <2>1. HeldIn(queue, sm.job) = {}
    BY <1>1, <1>2, <1>3, HeldIs
  <2> QED BY <1>1, <2>1 DEF Init, RawOf
<1>5. Good({}, {}, out) /\ NotYet(out, picture, pics)
  BY DEF Init, Good, AllOf, NotYet
<1>6. Once(queue, sm.job) /\ FromCamera(queue) /\ RawOnce(notifier)
  BY <1>1, <1>2, <1>3 DEF Once, FromCamera, Queues, RawOnce, Init
<1>7. picture \in PictureSet /\ data \in DataSet /\ notifier \in NotifierSet
  BY DEF Init, NoPicture, PictureSet, DataSet, NotifierSet
<1>8. TypeOK
  BY <1>2, <1>3, <1>7 DEF Init, TypeOK
<1>9. ThreadInv
  BY <1>1, <1>3 DEF Init, ThreadInv, NoPicture, Idle
<1>10. Away(notifier, leaked) = {} /\ RawOf(notifier) \cap leaked = {}
  BY <1>4 DEF Init, Away
<1> QED BY <1>4, <1>5, <1>6, <1>8, <1>9, <1>10 DEF Inv, FramesInv

\* Every step keeps the invariant: one lemma for each action.
LEMMA InvStep == Inv /\ FreshInv /\ [Next]_vars => Inv'
<1> SUFFICES ASSUME Inv, FreshInv, [Next]_vars PROVE Inv'
  OBVIOUS
<1>1. ASSUME NEW r \in Routes, start(r) PROVE Inv'
  BY <1>1, StartKeeps
<1>2. CASE cancelPicture
  BY <1>2, CancelKeeps
<1>3. ASSUME NEW s \in picture.due, processData(s) PROVE Inv'
  BY <1>3, ProcessDataKeeps
<1>4. CASE processPPData
  BY <1>4, ProcessPPDataKeeps
<1>5. CASE StateMachine
  BY <1>5, SnapshotDoneKeeps, ChannelStoppedKeeps, EventKeeps, JpegEventKeeps,
     ProcessJpegEvtKeeps DEF StateMachine
<1>6. CASE DataThread
  BY <1>6, DataStartKeeps, DataStopKeeps, DataReturnKeeps, DataNextKeeps,
     EncodeKeeps DEF DataThread
<1>7. CASE Notifier
  BY <1>7, NotifierStartKeeps, NotifierStopKeeps, NotifierDropKeeps, NotifierNextKeeps,
     DataCbKeeps DEF Notifier
<1>8. CASE Encoder
  BY <1>8, EventKeeps DEF Encoder
<1>9. CASE UNCHANGED vars
  <2>1. TypeOK' /\ ThreadInv'
    BY <1>9 DEF vars, history, Inv, TypeOK, ThreadInv
  <2>2. FramesInv'
    BY <1>9 DEF vars, history, Inv, FramesInv, RawOnce, RawOf
  <2> QED BY <2>1, <2>2 DEF Inv
<1> QED BY <1>1, <1>2, <1>3, <1>4, <1>5, <1>6, <1>7, <1>8, <1>9 DEF Next

-----------------------------------------------------------------------------
(* What the encoder has had.  No event can be for the job that is about to *)
(* be encoded, so that one which finds that job has been mistaken.         *)

\* Events come and go.
LEMMA AnsweredFacts ==
  ASSUME NEW q \in Seq(EventSet)
  PROVE  /\ \A e \in EventSet : /\ Answered(Append(q, e)) \subseteq Answered(q) \cup {e.job}
                                /\ e.evt # "JPEG" => Answered(Append(q, e)) \subseteq Answered(q)
         /\ q # <<>> => /\ Answered(Tail(q)) \subseteq Answered(q)
                        /\ Head(q).evt = "JPEG" => Head(q).job \in Answered(q)
<1> DEFINE n == Len(q)
<1>1. n \in Nat /\ DOMAIN q = 1..n
  OBVIOUS
<1>2. ASSUME NEW e \in EventSet
      PROVE  /\ Answered(Append(q, e)) \subseteq Answered(q) \cup {e.job}
             /\ e.evt # "JPEG" => Answered(Append(q, e)) \subseteq Answered(q)
  <2> DEFINE t == Append(q, e)
  <2>1. DOMAIN t = 1..(n + 1) /\ \A i \in 1..(n + 1) : (i \in 1..n /\ t[i] = q[i]) \/ t[i] = e
    BY <1>1
  <2> HIDE DEF t, n
  <2> QED BY <1>1, <2>1 DEF Answered, t
<1>3. ASSUME q # <<>>
      PROVE  /\ Answered(Tail(q)) \subseteq Answered(q)
             /\ Head(q).evt = "JPEG" => Head(q).job \in Answered(q)
  <2> DEFINE t == Tail(q)
  <2>1. /\ n \in Nat \ {0} /\ DOMAIN t = 1..(n - 1) /\ Head(q) = q[1] /\ 1 \in 1..n
        /\ \A i \in 1..(n - 1) : t[i] = q[i + 1] /\ i + 1 \in 1..n
    BY <1>1, <1>3
  <2> HIDE DEF t, n
  <2> QED BY <1>1, <2>1 DEF Answered, t
<1> QED BY <1>2, <1>3

\* No two jobs that are held are of one image.
LEMMA ImagesApart ==
  ASSUME NEW H \in SUBSET FrameSet, \A job \in H : job # Source(job) => Source(job) \notin H,
         NEW g \in H, NEW h \in H, g # h
  PROVE  Image(g) # Image(h)
<1>1. SUFFICES ASSUME Image(g) = Image(h) PROVE FALSE
  OBVIOUS
<1>2. g[1] = h[1] /\ g[2] = h[2]
  BY <1>1 DEF Image
<1>3. Source(g) = Source(h)
  BY <1>2 DEF Source
<1>4. g # Source(g) \/ h # Source(h)
  BY <1>3
<1>5. g # Source(g) /\ h # Source(h)
  BY <1>3, <1>4
<1> QED BY <1>3, <1>5, SourceFacts

\* A step that neither gives the encoder anything nor takes anything from the ongoing jobs.
LEMMA Carry ==
  ASSUME FreshInv, encoder' = encoder, Answered(evt_queue') \subseteq Answered(evt_queue),
         data'.at = data.at, data'.job = data.job,
         queue'["ongoingJpeg"] = queue["ongoingJpeg"],
         NoneOf(ToEncode(queue', data'), Spent), NotYet(Spent, picture', pics')
  PROVE  FreshInv'
<1>1. Spent' \subseteq Spent
  BY DEF Spent
<1>2. NoneOf(ToEncode(queue', data'), Spent')
  BY <1>1 DEF NoneOf
<1>3. NotYet(Spent', picture', pics')
  BY <1>1 DEF NotYet
<1> QED BY <1>2, <1>3 DEF FreshInv

\* The same, with the queues as they are.
LEMMA SameJobs ==
  ASSUME FreshInv, UNCHANGED <<encoder, queue>>, Answered(evt_queue') \subseteq Answered(evt_queue),
         data'.at = data.at, data'.job = data.job, NotYet(Spent, picture', pics')
  PROVE  FreshInv'
<1>1. NoneOf(ToEncode(queue', data'), Spent)
  BY DEF FreshInv, ToEncode
<1> QED BY <1>1, Carry

\* The pictures begin, are stopped, and end.
LEMMA PictureFresh ==
  ASSUME Inv, FreshInv,
         \/ \E r \in Routes : start(r)
         \/ cancelPicture \/ SnapshotDone \/ ChannelStopped \/ NotHandled
  PROVE  FreshInv'
<1> USE DEF Inv
<1>1. data \in DataSet /\ pics \in Nat /\ evt_queue \in Seq(EventSet)
  BY DEF TypeOK
<1>2. UNCHANGED <<encoder, queue>>
  BY DEF start, cancelPicture, SnapshotDone, ChannelStopped, NotHandled
<1>3. data'.at = data.at /\ data'.job = data.job
  <2>1. \/ data' = data
        \/ data' = sendCmd(data, "START") \/ data' = sendPriority(data, "STOP")
    BY DEF start, cancelPicture, SnapshotDone, ChannelStopped, NotHandled, stop
  <2> QED BY <1>1, <2>1, DataFacts DEF Cmds
<1>4. Answered(evt_queue') \subseteq Answered(evt_queue)
  <2>1. evt_queue' = evt_queue \/ (evt_queue # <<>> /\ evt_queue' = Tail(evt_queue))
    BY DEF start, cancelPicture, SnapshotDone, ChannelStopped, NotHandled
  <2> QED BY <1>1, <2>1, AnsweredFacts
<1>5. NotYet(Spent, picture', pics')
  <2>1. \A f \in Spent : f[1] \in Nat /\ f[1] <= pics
    BY SourceFacts DEF FreshInv, NotYet, Spent, TypeOK
  <2>2. \/ picture' = picture /\ pics' = pics
        \/ picture' = NoPicture /\ pics' = pics
        \/ pics' = pics + 1 /\ picture'.pic = pics + 1
    <3>1. ASSUME NEW r \in Routes, start(r)
          PROVE  pics' = pics + 1 /\ picture'.pic = pics + 1
      <4>1. pics' = pics + 1
        BY <3>1 DEF start
      <4>2. picture' = [pic |-> pics + 1, route |-> r, due |-> 1..Shots[pics + 1]]
        BY <3>1, <4>1 DEF start
      <4> QED BY <4>1, <4>2
    <3>2. CASE cancelPicture
      BY <3>2 DEF cancelPicture
    <3>3. CASE SnapshotDone
      BY <3>3 DEF SnapshotDone
    <3>4. CASE ChannelStopped
      BY <3>4 DEF ChannelStopped
    <3>5. CASE NotHandled
      BY <3>5 DEF NotHandled
    <3> QED BY <3>1, <3>2, <3>3, <3>4, <3>5
  <2>3. CASE picture' = picture /\ pics' = pics
    BY <2>3 DEF FreshInv
  <2>4. CASE picture' = NoPicture /\ pics' = pics
    BY <2>1, <2>4 DEF NotYet, NoPicture
  <2>5. CASE pics' = pics + 1 /\ picture'.pic = pics + 1
    BY <1>1, <2>1, <2>5 DEF NotYet
  <2> QED BY <2>2, <2>3, <2>4, <2>5
<1> QED BY <1>2, <1>3, <1>4, <1>5, SameJobs

\* A shot comes: the encoder has had nothing of it.
LEMMA ProcessDataFresh ==
  ASSUME Inv, FreshInv, NEW s \in picture.due, processData(s)
  PROVE  FreshInv'
<1> DEFINE to == CASE picture.route = "jpeg" -> "inputJpeg"
                   [] picture.route = "raw" -> "inputRaw"
                   [] picture.route = "reprocess" -> "inputPP"
           f == Frame(picture.pic, s, "cam")
           told == sendCmd(data, "NEXT")
<1> USE DEF Inv
<1>1. /\ s \in Numbers /\ picture' = [picture EXCEPT !.due = @ \ {s}]
      /\ queue' = [queue EXCEPT ![to] = Append(@, f)]
      /\ data' = IF to = "inputRaw" THEN sendCmd(told, "NEXT") ELSE told
      /\ UNCHANGED <<pics, evt_queue, encoder>>
  BY DEF processData, TypeOK, PictureSet
<1>2. to \in {"inputJpeg", "inputRaw", "inputPP"}
  BY PostProcAssumption DEF ThreadInv
<1>3. data'.at = data.at /\ data'.job = data.job
  <2>1. data \in DataSet
    BY DEF TypeOK
  <2>2. told \in DataSet /\ told.at = data.at /\ told.job = data.job
    BY <2>1, DataFacts DEF Cmds
  <2> HIDE DEF told, to
  <2>3. sendCmd(told, "NEXT").at = told.at /\ sendCmd(told, "NEXT").job = told.job
    BY <2>2, DataFacts DEF Cmds
  <2> QED BY <1>1, <2>2, <2>3
<1>4. Image(f) = <<picture.pic, s>> /\ f \in FrameSet /\ picture.pic \in Nat
  <2>1. picture.pic \in Nat
    BY DEF TypeOK, PictureSet
  <2> QED BY <1>1, <2>1, FrameFacts, SourceFacts DEF Image
<1> HIDE DEF f, to, told
<1>5. \A x \in Queues : queue'[x] = queue[x] \/ (x = to /\ Range(queue'[x]) = Range(queue[x]) \cup {f})
  <2>1. queue \in [Queues -> Seq(FrameSet)] /\ to \in Queues
    BY <1>2 DEF TypeOK, Queues
  <2>2. Range(Append(queue[to], f)) = Range(queue[to]) \cup {f}
    BY <1>4, <2>1, AppendFacts
  <2> QED BY <1>1, <2>1, <2>2
<1>6. queue'["ongoingJpeg"] = queue["ongoingJpeg"]
  BY <1>2, <1>5 DEF Queues
<1>7. NoneOf(ToEncode(queue', data'), Spent)
  <2>1. ToEncode(queue', data') \subseteq ToEncode(queue, data) \cup {f}
    BY <1>3, <1>5 DEF ToEncode, Queues
  <2>2. \A g \in Spent : Image(f) # Image(g)
    BY <1>4 DEF FreshInv, NotYet, Image
  <2> QED BY <2>1, <2>2 DEF FreshInv, NoneOf
<1>8. NotYet(Spent, picture', pics')
  <2>1. picture'.pic = picture.pic /\ picture'.due \subseteq picture.due
    BY <1>1 DEF TypeOK, PictureSet
  <2> QED BY <1>1, <2>1 DEF FreshInv, NotYet
<1> QED BY <1>1, <1>3, <1>6, <1>7, <1>8, Carry

\* The result of reprocessing is of the image its source is of.
LEMMA ProcessPPDataFresh ==
  ASSUME Inv, FreshInv, processPPData
  PROVE  FreshInv'
<1> DEFINE src == Head(queue.ongoingPP)
           f == Frame(src[1], src[2], "pp")
<1> USE DEF Inv
<1>1. /\ queue.ongoingPP # <<>>
      /\ queue' = [queue EXCEPT !.ongoingPP = Tail(@), !.inputJpeg = Append(@, f)]
      /\ data' = sendCmd(data, "NEXT")
      /\ UNCHANGED <<picture, pics, evt_queue, encoder>>
  BY DEF processPPData
<1>2. /\ queue \in [Queues -> Seq(FrameSet)] /\ data \in DataSet
      /\ queue["ongoingPP"] \in Seq(FrameSet) /\ queue["inputJpeg"] \in Seq(FrameSet)
  BY DEF TypeOK, Queues
<1>3. data'.at = data.at /\ data'.job = data.job
  BY <1>1, <1>2, DataFacts DEF Cmds
<1>4. /\ src \in FrameSet /\ src \in Range(queue["ongoingPP"])
      /\ Range(Tail(queue["ongoingPP"])) \subseteq Range(queue["ongoingPP"])
  BY <1>1, <1>2, RestFacts
<1>5. f \in FrameSet /\ Image(f) = Image(src)
  <2>1. src[1] \in Nat /\ src[2] \in Numbers
    BY <1>4, SourceFacts
  <2> QED BY <2>1, FrameFacts DEF Image
<1> HIDE DEF src, f
<1>6. Range(Append(queue["inputJpeg"], f)) = Range(queue["inputJpeg"]) \cup {f}
  BY <1>2, <1>5, AppendFacts
<1>7. /\ queue'["ongoingPP"] = Tail(queue["ongoingPP"])
      /\ queue'["inputJpeg"] = Append(queue["inputJpeg"], f)
      /\ queue'["ongoingJpeg"] = queue["ongoingJpeg"] /\ queue'["inputPP"] = queue["inputPP"]
  BY <1>1, <1>2 DEF Queues
<1>8. NoneOf(ToEncode(queue', data'), Spent)
  <2>1. ToEncode(queue', data') \subseteq ToEncode(queue, data) \cup {f} /\ src \in ToEncode(queue, data)
    BY <1>3, <1>4, <1>6, <1>7 DEF ToEncode
  <2> QED BY <1>5, <2>1 DEF FreshInv, NoneOf
<1> QED BY <1>1, <1>3, <1>7, <1>8, Carry DEF FreshInv

\* An answer: the job goes from the encoder to the events.
LEMMA AnswerFresh ==
  ASSUME Inv, FreshInv, NEW job \in encoder, NEW ok \in BOOLEAN, jpegEvtHandle(job, ok)
  PROVE  FreshInv'
<1> DEFINE e == [evt |-> "JPEG", job |-> job, ok |-> ok]
<1>1. /\ encoder' = encoder \ {job} /\ evt_queue' = Append(evt_queue, e)
      /\ UNCHANGED <<picture, pics, queue, data>>
  BY DEF jpegEvtHandle
<1>2. e \in EventSet /\ e.job = job /\ evt_queue \in Seq(EventSet) /\ job \in FrameSet
  BY DEF Inv, TypeOK, EventSet
<1> HIDE DEF e
<1>3. Answered(evt_queue') \subseteq Answered(evt_queue) \cup {job}
  BY <1>1, <1>2, AnsweredFacts
<1>4. Spent' \subseteq Spent
  BY <1>1, <1>3 DEF Spent
<1>5. NoneOf(ToEncode(queue', data'), Spent') /\ NotYet(Spent', picture', pics')
  BY <1>1, <1>4 DEF FreshInv, NoneOf, NotYet
<1>6. encoder' \cap Answered(evt_queue') = {} /\ Answered(evt_queue') \subseteq FrameSet
  BY <1>1, <1>2, <1>3 DEF FreshInv
<1> QED BY <1>1, <1>5, <1>6 DEF FreshInv

\* An event that is not mistaken finds its own job, which the encoder has not and the data
\* thread is not about to encode.
LEMMA JpegEventFresh ==
  ASSUME Inv, FreshInv, JpegEvent, ~confused'
  PROVE  FreshInv'
<1> DEFINE ev == Head(evt_queue)
           g == queue["ongoingJpeg"]
<1>1. /\ evt_queue # <<>> /\ ev.evt = "JPEG" /\ evt_queue' = Tail(evt_queue)
      /\ queue' = [queue EXCEPT !.ongoingJpeg = Rest(@)]
      /\ First(g) \in {<<>>, <<ev.job>>}
      /\ UNCHANGED <<picture, pics, data, encoder>>
  BY DEF JpegEvent, Mistaken, findJpegJobByJobId
<1>2. /\ queue \in [Queues -> Seq(FrameSet)] /\ g \in Seq(FrameSet) /\ evt_queue \in Seq(EventSet)
      /\ IsInjective(g)
  BY DEF Inv, TypeOK, FramesInv, Once, Queues
<1>3. Answered(evt_queue') \subseteq Answered(evt_queue) /\ ev.job \in Answered(evt_queue)
  BY <1>1, <1>2, AnsweredFacts
<1> HIDE DEF ev
<1>4. /\ queue'["ongoingJpeg"] = Rest(g) /\ queue'["inputJpeg"] = queue["inputJpeg"]
      /\ queue'["inputPP"] = queue["inputPP"] /\ queue'["ongoingPP"] = queue["ongoingPP"]
  BY <1>1, <1>2 DEF Queues
<1> HIDE DEF g
<1>5. g = <<>> \/ (Head(g) = ev.job /\ g # <<>>)
  BY <1>1, <1>2, RestFacts
<1>6. encoder \subseteq Range(Rest(g))
  <2>1. encoder \subseteq Range(g) /\ ev.job \notin encoder
    BY <1>3 DEF FreshInv, g
  <2>2. Range(Rest(g)) = Range(g) \ Range(First(g)) /\ (g # <<>> => Range(First(g)) = {Head(g)})
        /\ (g = <<>> => Rest(g) = g)
    BY <1>2, RestFacts
  <2> QED BY <1>5, <2>1, <2>2
<1>7. data.job = <<>>
  <2> SUFFICES ASSUME data.job # <<>> PROVE FALSE
    OBVIOUS
  <2>1. g = data.job
    BY DEF FreshInv, g
  <2>2. Head(g) = ev.job /\ ev.job \in Range(g)
    BY <1>2, <1>5, <2>1, RestFacts
  <2>3. ev.job \in ToEncode(queue, data) /\ ev.job \in Spent
    BY <1>3, <2>1, <2>2 DEF ToEncode, Spent
  <2> QED BY <2>3 DEF FreshInv, NoneOf
<1>8. Spent' \subseteq Spent
  BY <1>1, <1>3 DEF Spent
<1>9. NoneOf(ToEncode(queue', data'), Spent') /\ NotYet(Spent', picture', pics')
  <2>1. ToEncode(queue', data') = ToEncode(queue, data)
    BY <1>1, <1>4 DEF ToEncode
  <2> QED BY <1>1, <1>8, <2>1 DEF FreshInv, NoneOf, NotYet
<1>10. encoder' \cap Answered(evt_queue') = {} /\ Answered(evt_queue') \subseteq FrameSet
  BY <1>1, <1>3 DEF FreshInv
<1> QED BY <1>1, <1>4, <1>6, <1>7, <1>9, <1>10 DEF FreshInv

\* The rest of processJpegEvt, and the notifier, leave the jobs alone.
LEMMA OthersFresh ==
  ASSUME Inv, FreshInv, (\E sent \in BOOLEAN : processJpegEvt(sent)) \/ Notifier
  PROVE  FreshInv'
<1> USE DEF Inv
<1>1. data \in DataSet /\ evt_queue \in Seq(EventSet)
  BY DEF TypeOK
<1>2. /\ UNCHANGED <<encoder, queue, picture, pics>>
      /\ data' = data \/ data' = sendCmd(data, "NEXT")
  BY DEF processJpegEvt, Woken, Notifier, NotifierStart, NotifierStop, NotifierDrop,
         NotifierNext, mDataCb
<1>3. data'.at = data.at /\ data'.job = data.job
  BY <1>1, <1>2, DataFacts DEF Cmds
<1>4. Answered(evt_queue') \subseteq Answered(evt_queue)
  <2> DEFINE e == [evt |-> "DONE", job |-> <<>>, ok |-> TRUE]
  <2>1. e \in EventSet /\ e.evt # "JPEG"
    BY DEF EventSet
  <2>2. evt_queue' = evt_queue \/ evt_queue' = Append(evt_queue, e)
    BY DEF processJpegEvt, Notifier, NotifierStart, NotifierStop, NotifierDrop,
           NotifierNext, mDataCb
  <2> HIDE DEF e
  <2> QED BY <1>1, <2>1, <2>2, AnsweredFacts
<1> QED BY <1>2, <1>3, <1>4, SameJobs DEF FreshInv

\* The data thread starts, stops, and gives back: what is to be encoded gets less.
LEMMA DataFresh ==
  ASSUME Inv, FreshInv, DataStart \/ DataStop \/ DataReturn
  PROVE  FreshInv'
<1> USE DEF Inv
<1>1. /\ data.at = "idle" /\ data.cmds # <<>> /\ UNCHANGED <<picture, pics, evt_queue>>
  BY DEF DataStart, DataStop, DataReturn, Heeds, Got
<1>2. data.job = <<>>
  BY <1>1 DEF FreshInv
<1>3. getCmd(data) \in DataSet /\ getCmd(data).at = data.at /\ getCmd(data).job = data.job
  BY <1>1, DataFacts DEF TypeOK
<1>4. data'.at = data.at /\ data'.job = data.job
  <2>1. \/ data' = getCmd(data)
        \/ data' = [getCmd(data) EXCEPT !.active = TRUE]
        \/ data' = [getCmd(data) EXCEPT !.active = FALSE]
    BY DEF DataStart, DataStop, DataReturn
  <2> QED BY <1>3, <2>1 DEF DataSet
<1>5. queue \in [Queues -> Seq(FrameSet)] /\ Range(<<>>) = {}
  BY DEF TypeOK, Range
<1>6. CASE DataStart
  <2>1. UNCHANGED <<encoder, queue>>
    BY <1>6 DEF DataStart
  <2> QED BY <1>1, <1>4, <2>1, SameJobs DEF FreshInv
<1>7. CASE DataStop
  <2>1. encoder' = {} /\ \A x \in Queues : queue'[x] = <<>>
    BY <1>5, <1>7 DEF DataStop, Aborted
  <2>2. ToEncode(queue', data') = {}
    BY <1>2, <1>4, <1>5, <2>1 DEF ToEncode, Queues
  <2>3. Spent' \subseteq Spent
    BY <1>1, <2>1 DEF Spent
  <2>4. NoneOf(ToEncode(queue', data'), Spent') /\ NotYet(Spent', picture', pics')
    BY <1>1, <2>2, <2>3 DEF FreshInv, NoneOf, NotYet
  <2> QED BY <1>1, <1>2, <1>4, <2>1, <2>4 DEF FreshInv
<1>8. CASE DataReturn
  <2>1. /\ encoder' = encoder
        /\ queue' = [queue EXCEPT !.inputJpeg = Rest(@), !.inputRaw = Rest(@), !.inputPP = Rest(@)]
    BY <1>8 DEF DataReturn
  <2>2. /\ queue'["inputJpeg"] = Rest(queue["inputJpeg"]) /\ queue'["inputPP"] = Rest(queue["inputPP"])
        /\ queue'["ongoingJpeg"] = queue["ongoingJpeg"] /\ queue'["ongoingPP"] = queue["ongoingPP"]
        /\ queue["inputJpeg"] \in Seq(FrameSet) /\ queue["inputPP"] \in Seq(FrameSet)
    BY <1>5, <2>1 DEF Queues
  <2>3. /\ Range(queue'["inputJpeg"]) \subseteq Range(queue["inputJpeg"])
        /\ Range(queue'["inputPP"]) \subseteq Range(queue["inputPP"])
    BY <2>2, RestFacts
  <2>4. ToEncode(queue', data') \subseteq ToEncode(queue, data)
    BY <1>4, <2>2, <2>3 DEF ToEncode
  <2>5. NoneOf(ToEncode(queue', data'), Spent)
    BY <2>4 DEF FreshInv, NoneOf
  <2> QED BY <1>1, <1>4, <2>1, <2>2, <2>5, Carry DEF FreshInv
<1> QED BY <1>6, <1>7, <1>8

\* A job is taken to be encoded, as the one that is ongoing.
LEMMA DataNextFresh ==
  ASSUME Inv, FreshInv, DataNext
  PROVE  FreshInv'
<1> DEFINE i == queue["inputJpeg"]
           g == queue["ongoingJpeg"]
<1> USE DEF Inv
<1>1. /\ data.at = "idle" /\ data.cmds # <<>>
      /\ data' = [getCmd(data) EXCEPT !.at = "encoding", !.job = NextJob]
      /\ queue' = [queue EXCEPT
                     !.inputJpeg = IF NextJob = <<>> THEN @ ELSE Tail(@),
                     !.ongoingJpeg = @ \o NextJob]
      /\ UNCHANGED <<picture, pics, evt_queue, encoder>>
  BY DEF DataNext, Heeds, Got
<1>2. queue \in [Queues -> Seq(FrameSet)] /\ i \in Seq(FrameSet) /\ g \in Seq(FrameSet)
  BY DEF TypeOK, Queues
<1>3. getCmd(data) \in DataSet
  BY <1>1, DataFacts DEF TypeOK
<1>4. data'.at = "encoding" /\ data'.job = NextJob
  BY <1>1, <1>3 DEF DataSet
<1>5. /\ queue'["inputJpeg"] = (IF NextJob = <<>> THEN i ELSE Tail(i))
      /\ queue'["ongoingJpeg"] = g \o NextJob
      /\ queue'["inputPP"] = queue["inputPP"] /\ queue'["ongoingPP"] = queue["ongoingPP"]
  BY <1>1, <1>2 DEF Queues
<1>6. NextJob = IF g = <<>> THEN First(i) ELSE <<>>
  BY DEF NextJob
<1> HIDE DEF i, g
<1>7. NextJob = <<>> \/ (g = <<>> /\ i # <<>> /\ NextJob = <<Head(i)>> /\ Head(i) \in Range(i))
  BY <1>2, <1>6, RestFacts
<1>8. /\ NextJob # <<>> => queue'["ongoingJpeg"] = NextJob /\ Len(NextJob) = 1
      /\ Range(g) \subseteq Range(queue'["ongoingJpeg"])
  <2>1. CASE NextJob = <<>>
    BY <1>2, <1>5, <2>1
  <2>2. CASE NextJob # <<>>
    <3>1. Range(g) = {} /\ <<>> \o <<Head(i)>> = <<Head(i)>>
      BY <1>7, <2>2 DEF Range
    <3> QED BY <1>5, <1>7, <2>2, <3>1
  <2> QED BY <2>1, <2>2
<1>9. Range(NextJob) \cup Range(queue'["inputJpeg"]) \subseteq Range(i)
  <2>1. CASE NextJob = <<>>
    BY <1>5, <2>1 DEF Range
  <2>2. CASE NextJob # <<>>
    <3>1. Range(NextJob) = {Head(i)} /\ Tail(i) = Rest(i) /\ Range(Rest(i)) \subseteq Range(i)
      <4>1. First(i) = <<Head(i)>> /\ Range(First(i)) = {Head(i)}
        BY <1>2, <1>7, <2>2, RestFacts
      <4> QED BY <1>2, <1>7, <2>2, <4>1, RestFacts
    <3> QED BY <1>5, <1>7, <2>2, <3>1
  <2> QED BY <2>1, <2>2
<1>10. ToEncode(queue', data') \subseteq ToEncode(queue, data)
  BY <1>4, <1>5, <1>9 DEF ToEncode, i
<1>11. NoneOf(ToEncode(queue', data'), Spent') /\ NotYet(Spent', picture', pics')
  BY <1>1, <1>10 DEF FreshInv, NoneOf, NotYet, Spent
<1>12. encoder' \subseteq Range(queue'["ongoingJpeg"])
  BY <1>1, <1>8 DEF FreshInv, g
<1> QED BY <1>1, <1>4, <1>8, <1>11, <1>12 DEF FreshInv

\* The encoder gets the job, or it is off.
LEMMA EncodeFresh ==
  ASSUME Inv, FreshInv, NEW encoded \in BOOLEAN, NEW raw \in RawOutcomes,
         NEW reprocessed \in BOOLEAN, Encode(encoded, raw, reprocessed)
  PROVE  FreshInv'
<1> DEFINE g == queue["ongoingJpeg"]
           J == Range(data.job)
           p == queue["inputPP"]
           T == Range(queue["inputJpeg"]) \cup Range(p) \cup Range(queue["ongoingPP"])
<1> USE DEF Inv
<1>1. /\ data' = [data EXCEPT !.at = "idle", !.job = <<>>]
      /\ encoder' = (IF encoded THEN encoder \cup J ELSE encoder)
      /\ queue' = [queue EXCEPT
                     !.ongoingJpeg = IF encoded \/ data.job = <<>> THEN @ ELSE ButLast(@),
                     !.inputRaw = Rest(@), !.inputPP = Rest(@),
                     !.ongoingPP = IF reprocessed THEN @ \o NextPP ELSE @]
      /\ UNCHANGED <<picture, pics, evt_queue>>
  BY DEF Encode
<1>2. /\ queue \in [Queues -> Seq(FrameSet)] /\ g \in Seq(FrameSet) /\ p \in Seq(FrameSet)
      /\ queue["ongoingPP"] \in Seq(FrameSet) /\ data \in DataSet /\ data.job \in Line
  BY DEF TypeOK, Queues, DataSet, Line
<1>3. data'.at = "idle" /\ data'.job = <<>>
  BY <1>1, <1>2 DEF DataSet
<1>4. /\ queue'["ongoingJpeg"] = (IF encoded \/ data.job = <<>> THEN g ELSE ButLast(g))
      /\ queue'["inputJpeg"] = queue["inputJpeg"] /\ queue'["inputPP"] = Rest(p)
      /\ queue'["ongoingPP"] = (IF reprocessed THEN queue["ongoingPP"] \o NextPP ELSE queue["ongoingPP"])
  BY <1>1, <1>2 DEF Queues
<1>5. data.job # <<>> => g = data.job /\ Len(data.job) = 1
  BY DEF FreshInv
<1>6. Range(<<>>) = {}
  BY DEF Range
<1>7. ToEncode(queue', data') \subseteq T
  <2>1. NextPP = First(p)
    BY DEF NextPP
  <2> HIDE DEF p
  <2>2. Range(Rest(p)) \subseteq Range(p) /\ Range(First(p)) \subseteq Range(p) /\ First(p) \in Seq(FrameSet)
    BY <1>2, RestFacts
  <2>3. Range(queue["ongoingPP"] \o NextPP) = Range(queue["ongoingPP"]) \cup Range(NextPP)
    BY <1>2, <2>1, <2>2, ConcatFacts
  <2>4. Range(queue'["ongoingPP"]) \subseteq Range(queue["ongoingPP"]) \cup Range(p)
    BY <1>4, <2>1, <2>2, <2>3
  <2> QED BY <1>3, <1>4, <1>6, <2>2, <2>4 DEF ToEncode
<1>8. T \cup J = ToEncode(queue, data)
  BY DEF ToEncode
<1>9. \A f \in T, h \in J : Image(f) # Image(h)
  <2> DEFINE H == HeldIn(queue, sm.job)
  <2>1. H \in SUBSET FrameSet /\ (\A job \in H : job # Source(job) => Source(job) \notin H)
    BY DEF FramesInv, Good
  <2>2. T \subseteq H
    BY HeldIs DEF Queues
  <2>3. J \subseteq Range(g) /\ Range(g) \subseteq H /\ T \cap Range(g) = {}
    <3>1. J \subseteq Range(g)
      BY <1>5, <1>6
    <3>2. Range(g) \subseteq H
      BY HeldIs DEF Queues
    <3>3. T \cap Range(g) = {}
      BY DEF FramesInv, Once, Queues
    <3> QED BY <3>1, <3>2, <3>3
  <2> HIDE DEF H, T, J, g
  <2> SUFFICES ASSUME NEW f \in T, NEW h \in J PROVE Image(f) # Image(h)
    OBVIOUS
  <2> QED BY <2>1, <2>2, <2>3, ImagesApart
<1> HIDE DEF T, J, g, p
<1>10. encoder' \subseteq encoder \cup J /\ Spent' \subseteq Spent \cup J
  BY <1>1 DEF Spent
<1>11. NoneOf(ToEncode(queue', data'), Spent')
  BY <1>7, <1>8, <1>9, <1>10 DEF FreshInv, NoneOf
<1>12. NoneOf(J, Spent)
  BY <1>8 DEF FreshInv, NoneOf
<1>13. J \cap Spent = {}
  BY <1>12 DEF NoneOf
<1>14. encoder' \cap Answered(evt_queue') = {}
  BY <1>1, <1>10, <1>13 DEF FreshInv, Spent
<1>15. NotYet(Spent', picture', pics')
  <2>1. J \subseteq out
    <3>1. J \subseteq Range(g)
      BY <1>5, <1>6 DEF J
    <3>2. Range(g) \subseteq out
      BY HeldOut, HeldIs DEF Queues, g
    <3> QED BY <3>1, <3>2
  <2>2. NotYet(J, picture, pics)
    BY <2>1 DEF FramesInv, NotYet
  <2> QED BY <1>1, <1>10, <2>2 DEF FreshInv, NotYet
<1>16. encoder' \subseteq Range(queue'["ongoingJpeg"])
  <2>1. encoder \subseteq Range(g)
    BY DEF FreshInv, g
  <2>2. CASE encoded \/ data.job = <<>>
    <3>1. J \subseteq Range(g)
      BY <1>5, <1>6 DEF J
    <3> QED BY <1>4, <1>10, <2>1, <2>2, <3>1
  <2>3. CASE ~(encoded \/ data.job = <<>>)
    <3>1. encoder \subseteq J
      BY <1>5, <2>1, <2>3 DEF J
    <3>2. encoder = {}
      BY <1>13, <3>1 DEF Spent
    <3> QED BY <1>1, <2>3, <3>2
  <2> QED BY <2>2, <2>3
<1> QED BY <1>1, <1>3, <1>11, <1>14, <1>15, <1>16 DEF FreshInv

\* Before the first picture.
LEMMA FreshInit == Init => FreshInv
<1> SUFFICES ASSUME Init PROVE FreshInv
  OBVIOUS
<1>1. encoder = {} /\ Answered(evt_queue) = {}
  BY DEF Init, Answered
<1> QED BY <1>1 DEF Init, FreshInv, NoneOf, NotYet, Spent

\* Every step keeps it, unless it is one of an event that is mistaken.
LEMMA FreshStep == Inv /\ FreshInv /\ [Next]_vars => FreshInv' \/ confused'
<1> SUFFICES ASSUME Inv, FreshInv, [Next]_vars, ~confused' PROVE FreshInv'
  OBVIOUS
<1>1. CASE (\E r \in Routes : start(r)) \/ cancelPicture
  BY <1>1, PictureFresh
<1>2. ASSUME NEW s \in picture.due, processData(s) PROVE FreshInv'
  BY <1>2, ProcessDataFresh
<1>3. CASE processPPData
  BY <1>3, ProcessPPDataFresh
<1>4. CASE StateMachine
  BY <1>4, PictureFresh, JpegEventFresh, OthersFresh DEF StateMachine
<1>5. CASE DataThread
  BY <1>5, DataFresh, DataNextFresh, EncodeFresh DEF DataThread
<1>6. CASE Notifier
  BY <1>6, OthersFresh
<1>7. CASE Encoder
  BY <1>7, AnswerFresh DEF Encoder
<1>8. CASE UNCHANGED vars
  BY <1>8 DEF vars, FreshInv, Spent
<1> QED BY <1>1, <1>2, <1>3, <1>4, <1>5, <1>6, <1>7, <1>8 DEF Next

\* An event that was mistaken is never forgotten.
LEMMA ConfusedStays == confused /\ [Next]_vars => confused'
BY DEF Next, StateMachine, DataThread, Notifier, Encoder, vars, history, start, cancelPicture,
       processData, processPPData, SnapshotDone, ChannelStopped, NotHandled, JpegEvent,
       processJpegEvt, DataStart, DataStop, DataReturn, DataNext, Encode, NotifierStart,
       NotifierStop, NotifierDrop, NotifierNext, mDataCb, jpegEvtHandle

\* The inductive invariant, for as long as no event has taken another's job.
THEOREM Invariance == Spec => [](confused \/ (Inv /\ FreshInv))
<1>1. Init => Inv /\ FreshInv
  BY InvInit, FreshInit
<1>2. (confused \/ (Inv /\ FreshInv)) /\ [Next]_vars => confused' \/ (Inv' /\ FreshInv')
  BY InvStep, FreshStep, ConfusedStays
<1> QED BY <1>1, <1>2, PTL DEF Spec

\* The queues one after the other hold nothing twice.
LEMMA KeptFacts ==
  ASSUME Inv
  PROVE  IsInjective(Kept) /\ Range(Kept) = HeldIn(queue, sm.job)
<1> DEFINE a == queue["inputJpeg"]
           b == queue["ongoingJpeg"]
           c == queue["inputRaw"]
           d == queue["inputPP"]
           e == queue["ongoingPP"]
           j == sm.job
           ab == a \o b
           abc == ab \o c
           abcd == abc \o d
           abcde == abcd \o e
<1>1. {"inputJpeg", "ongoingJpeg", "inputRaw", "inputPP", "ongoingPP"} = Queues
  BY DEF Queues
<1>2. /\ a \in Line /\ b \in Line /\ c \in Line /\ d \in Line /\ e \in Line /\ j \in Line
      /\ IsInjective(a) /\ IsInjective(b) /\ IsInjective(c) /\ IsInjective(d)
      /\ IsInjective(e) /\ IsInjective(j)
  BY <1>1 DEF Inv, TypeOK, SmSet, FramesInv, Once, Line
<1>3. /\ Range(a) \cap Range(b) = {} /\ Range(a) \cap Range(c) = {} /\ Range(a) \cap Range(d) = {}
      /\ Range(a) \cap Range(e) = {} /\ Range(a) \cap Range(j) = {}
      /\ Range(b) \cap Range(c) = {} /\ Range(b) \cap Range(d) = {} /\ Range(b) \cap Range(e) = {}
      /\ Range(b) \cap Range(j) = {}
      /\ Range(c) \cap Range(d) = {} /\ Range(c) \cap Range(e) = {} /\ Range(c) \cap Range(j) = {}
      /\ Range(d) \cap Range(e) = {} /\ Range(d) \cap Range(j) = {}
      /\ Range(e) \cap Range(j) = {}
  BY <1>1 DEF Inv, FramesInv, Once
<1>4. Kept = abcde \o j
  BY DEF Kept
<1>5. \A f : f \in HeldIn(queue, j) <=>
        f \in Range(a) \cup Range(b) \cup Range(c) \cup Range(d) \cup Range(e) \cup Range(j)
  BY <1>1, HeldIs
<1>6. \A s, t \in Line :
        /\ s \o t \in Line /\ Range(s \o t) = Range(s) \cup Range(t)
        /\ IsInjective(s) /\ IsInjective(t) /\ Range(s) \cap Range(t) = {} => IsInjective(s \o t)
  BY ConcatFacts DEF Line
<1> HIDE DEF a, b, c, d, e
<1>7. ab \in Line /\ IsInjective(ab) /\ Range(ab) = Range(a) \cup Range(b)
  BY <1>2, <1>3, <1>6
<1> HIDE DEF ab
<1>8. abc \in Line /\ IsInjective(abc) /\ Range(abc) = Range(ab) \cup Range(c)
  BY <1>2, <1>3, <1>6, <1>7
<1> HIDE DEF abc
<1>9. abcd \in Line /\ IsInjective(abcd) /\ Range(abcd) = Range(abc) \cup Range(d)
  BY <1>2, <1>3, <1>6, <1>7, <1>8
<1> HIDE DEF abcd
<1>10. abcde \in Line /\ IsInjective(abcde) /\ Range(abcde) = Range(abcd) \cup Range(e)
  BY <1>2, <1>3, <1>6, <1>7, <1>8, <1>9
<1> HIDE DEF abcde
<1>11. IsInjective(Kept) /\ Range(Kept) = Range(abcde) \cup Range(j)
  BY <1>2, <1>3, <1>4, <1>6, <1>7, <1>8, <1>9, <1>10
<1> QED BY <1>5, <1>7, <1>8, <1>9, <1>10, <1>11
\* Every frame the post-processor has received and not given back is in exactly one
\* place, whatever fails and however cancelling, flushing and the threads' steps meet, until
\* an event takes another's job; the raw frames it forgets are in no other place either.
THEOREM FramesKeptOnceAlways == Spec => []FramesKeptOnce
<1>1. Inv => FramesKeptOnce
  <2> SUFFICES ASSUME Inv PROVE FramesKeptOnce
    OBVIOUS
  <2>1. IsInjective(Kept) /\ Range(Kept) = HeldIn(queue, sm.job)
    BY KeptFacts
  <2>2. RawKept = RawOf(notifier)
    <3>1. notifier.mDataQ \in Seq(Entry) /\ notifier.cb \in Seq(Entry)
      BY DEF Inv, TypeOK, NotifierSet
    <3>2. Range(notifier.mDataQ \o notifier.cb) = Range(notifier.mDataQ) \cup Range(notifier.cb)
      BY <3>1, ConcatFacts
    <3> QED BY <3>2 DEF RawKept, RawOf, RawFrames
  <2>3. Good(Range(Kept), RawKept \cup leaked, out) /\ RawKept \cap leaked = {}
    BY <2>1, <2>2 DEF Inv, FramesInv, Away
  <2>4. AllFrames(Kept) = AllOf(Range(Kept))
    BY DEF AllFrames, AllOf
  <2> HIDE DEF RawKept, Kept
  <2> QED BY <2>1, <2>3, <2>4 DEF Good, FramesKeptOnce
<1>2. confused => FramesKeptOnce
  BY DEF FramesKeptOnce
<1> QED BY <1>1, <1>2, Invariance, PTL

\* No frame goes back to the camera while the encoder reads it, however answers, aborts,
\* failures and pictures overlap, until an event takes another's job.
THEOREM NotReadWhileReturnedAlways == Spec => []NotReadWhileReturned
<1>1. Inv /\ FreshInv => NotReadWhileReturned
  <2> SUFFICES ASSUME Inv, FreshInv, NEW job \in encoder PROVE Frames(job) \subseteq out
    BY DEF NotReadWhileReturned
  <2>1. job \in HeldIn(queue, sm.job)
    <3>1. job \in Range(queue["ongoingJpeg"]) /\ "ongoingJpeg" \in Queues
      BY DEF FreshInv, Queues
    <3> QED BY <3>1 DEF HeldIn
  <2> QED BY <2>1 DEF Inv, FramesInv, Good, AllOf
<1>2. confused => NotReadWhileReturned
  BY DEF NotReadWhileReturned
<1> QED BY <1>1, <1>2, Invariance, PTL
=============================================================================
