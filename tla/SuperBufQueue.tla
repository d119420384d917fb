--------------------------- MODULE SuperBufQueue ---------------------------
(***************************************************************************)
(* The super-buffer queue of a started channel of the Hammerhead camera    *)
(* stack (stack/mm-camera-interface/src/mm_camera_channel.c).              *)
(*                                                                         *)
(* A channel bundles several streams of one sensor.  Its poll thread takes *)
(* each frame out of the driver and enqueues it to the channel's command   *)
(* thread (cmdq); the command thread files the frame in a queue of super   *)
(* buffers, one node per sensor frame, until every bundled stream has      *)
(* contributed; matched nodes go to the callback thread (cbq), which hands *)
(* them to the HAL (client).  Every frame occupies one driver buffer until *)
(* it is given back with mm_channel_qbuf.                                  *)
(*                                                                         *)
(* A frame is <<stream, frame_idx>>: a stream never reuses a frame number, *)
(* so the pair stands for the buffer the frame was delivered in.           *)
(***************************************************************************)
EXTENDS Integers, Sequences, FiniteSets

CONSTANTS
  Streams,             \* bundled_streams: handles of the bundled streams
  MetaStream,          \* the stream of type CAM_STREAM_TYPE_METADATA, if bundled
  NumBufs,             \* NumBufs[s]: buffers registered with the driver for s
  WaterMark,           \* attr.water_mark
  LookBack,            \* attr.look_back
  PostFrameSkip,       \* attr.post_frame_skip
  MaxUnmatchedFrames,  \* attr.max_unmatched_frames
  MaxFutureFrameOffset,\* max_future_frame_offset (100 in the code)
  FrameIdxLimit,       \* frame numbers are uint32_t: 2^32 in the code
  MaxFrame,            \* bound: the last frame the sensor produces
  MaxRequest,          \* bound: the largest num_buf_requested
  MaxCmds,             \* bound: commands waiting in cmdq
  MaxLeaked,           \* bound: frames forgotten after which messages are queued
  InitModes,           \* notify modes a channel may be configured with
  NotifyModes,         \* notify modes ConfigNotifyMode may switch to
  FlushTargets,        \* frame numbers FlushSuperBufQueue is called with
  Metadata,            \* contents the daemon may write in a metadata frame
  MallocOutcomes       \* may malloc fail?  {TRUE} or {TRUE, FALSE}

BURST      == "MM_CAMERA_SUPER_BUF_NOTIFY_BURST"
CONTINUOUS == "MM_CAMERA_SUPER_BUF_NOTIFY_CONTINUOUS"

FrameIdx == 1..MaxFrame
Frame    == Streams \X FrameIdx
Counter  == 0..(FrameIdxLimit - 1)

\* prep_snapshot_done_state when valid, and good_frame_idx_range.min_frame_idx
\* when valid.
NoRange   == -1
PrepState == {"INVALID", "DO_NOT_NEED_FUTURE_FRAME", "NEED_FUTURE_FRAME"}
MetaInfo  == [prep : PrepState, range : {NoRange} \cup 0..MaxFrame]
NoMeta    == [prep |-> "INVALID", range |-> NoRange]

ASSUME ParameterAssumption ==
  /\ Streams # {} /\ IsFiniteSet(Streams)
  /\ NumBufs \in [Streams -> Nat \ {0}]
  /\ WaterMark \in Nat /\ LookBack \in Nat /\ PostFrameSkip \in Nat
  /\ MaxUnmatchedFrames \in Nat /\ MaxFutureFrameOffset \in Nat
  /\ MaxFrame \in Nat \ {0} /\ FrameIdxLimit \in Nat
  /\ MaxFrame + PostFrameSkip < FrameIdxLimit
  /\ MaxRequest \in Nat /\ MaxCmds \in Nat /\ MaxLeaked \in Nat
  /\ InitModes \subseteq {BURST, CONTINUOUS}
  /\ NotifyModes \subseteq {BURST, CONTINUOUS}
  /\ FlushTargets \subseteq 0..MaxFrame
  /\ Metadata \subseteq MetaInfo
  /\ MallocOutcomes \subseteq BOOLEAN

VARIABLES
  last,     \* last[s]: number of the last frame the driver delivered on s
  user,     \* frames whose buffer is in user space (not in_kernel)
  cmdq,     \* cmd_thread.cmd_queue
  chan,     \* the matching state of mm_channel_t and its superbuf_queue
  spinning, \* the command thread is in a trimming loop that cannot end
  cbq,      \* cb_thread.cmd_queue: super buffers on their way to the HAL
  sent,     \* history: frame number of the last super buffer put in cbq
  client,   \* frames the HAL holds
  leaked    \* history: frames that were forgotten, neither filed nor given back

vars == <<last, user, cmdq, chan, spinning, cbq, sent, client, leaked>>

-----------------------------------------------------------------------------
(* Nodes of the queue. *)

\* super_buf: the streams whose slot is filled.
Node == [frame_idx : FrameIdx, super_buf : SUBSET Streams, matched : BOOLEAN]

Chan == [queue : Seq(Node), match_cnt : Int, expected_frame_id : Counter,
         pending_cnt : 0..MaxRequest, notify_mode : {BURST, CONTINUOUS}]

Frames(node) == {<<s, node.frame_idx>> : s \in node.super_buf}
FramesIn(q)  == UNION {Frames(q[i]) : i \in DOMAIN q}

\* The smallest element of a set of positions, or a default.
First(S, default) ==
  IF S = {} THEN default ELSE CHOOSE i \in S : \A j \in S : i <= j

\* q without the nodes a .. b-1.
CutKeepsFirst(q, a, b) == SubSeq(q, 1, a) \o SubSeq(q, b, Len(q))   \* mutant
Cut(q, a, b) == SubSeq(q, 1, a - 1) \o SubSeq(q, b, Len(q))

\* q with node in front of position p.
InsertBefore(q, p, node) ==
  SubSeq(q, 1, p - 1) \o <<node>> \o SubSeq(q, p, Len(q))

\* How many nodes mm_channel_superbuf_dequeue can take in a row: it looks at
\* the head only and gives up when the head is unmatched.
Leading(q) ==
  First({k \in 0..Len(q) : k = Len(q) \/ ~q[k + 1].matched}, 0)

\* A step of the command thread: the channel it leaves, the frames it passed
\* to mm_channel_qbuf, and whether it is caught in a loop.
Result(c, done) == [chan |-> c, done |-> done, hang |-> FALSE]

-----------------------------------------------------------------------------
(* Matching: mm_channel_superbuf_comp_and_enqueue.                         *)

\* mm_channel_superbuf_flush: every node, matched or not, is dequeued.
Flush(c) ==
  Result([c EXCEPT !.queue = <<>>,
                   !.match_cnt = @ - Cardinality({i \in DOMAIN c.queue :
                                                    c.queue[i].matched})],
         FramesIn(c.queue))

\* Both notices at once: the frame is refused.
Contradictory(md) == md.prep # "INVALID" /\ md.range # NoRange

\* What a metadata frame changes before it is matched itself.
HandleMetadata(c, md) ==
  CASE md.prep = "NEED_FUTURE_FRAME" ->
         Flush([c EXCEPT !.expected_frame_id =
                           (@ + MaxFutureFrameOffset) % FrameIdxLimit])
    [] md.prep # "NEED_FUTURE_FRAME" /\ md.range # NoRange ->
         Result([c EXCEPT !.expected_frame_id = md.range], {})
    [] OTHER -> Result(c, {})

\* The scan of the queue for frame n: matched nodes are passed over, and the
\* scan ends at the unmatched node of the same frame.
Unmatched(q)  == {i \in DOMAIN q : ~q[i].matched}
Same(q, n)    == {i \in Unmatched(q) : q[i].frame_idx = n}
Scanned(q, n) == {i \in Unmatched(q) : \A j \in Same(q, n) : i < j}
OlderNone(q, n) == {}   \* mutant: older nodes stay when a later one matches
Older(q, n)   == {i \in Scanned(q, n) : q[i].frame_idx < n}
Newer(q, n)   == {i \in Scanned(q, n) : q[i].frame_idx > n}

\* The frame to expect after the node of frame n is matched.
Expect(n) == (n + PostFrameSkip) % FrameIdxLimit

\* Every slot of the node is filled.
Full(slots) == slots = Streams

\* The frame completes or extends the node at p; a node that becomes matched
\* drives out the older nodes between last_buf and itself.
Join(c, s, n) ==
  LET p       == First(Same(c.queue, n), 0)
      slots   == c.queue[p].super_buf \cup {s}
      full    == Full(slots)
      oldest  == First(Older(c.queue, n), p)
      filled  == [c.queue EXCEPT ![p].super_buf = slots, ![p].matched = full]
  IN  IF full
      THEN Result([c EXCEPT !.queue = Cut(filled, oldest, p),
                            !.expected_frame_id = Expect(n),
                            !.match_cnt = @ + 1],
                  FramesIn(SubSeq(c.queue, oldest, p - 1)))
      ELSE Result([c EXCEPT !.queue = filled], {})

\* More unmatched nodes than allowed, tested before the new one goes in.
Crowded(q, n) == MaxUnmatchedFrames < Cardinality(Scanned(q, n))

\* The first frame of its number: a node of its own, unless the queue is
\* crowded with newer ones or memory is short.  In a crowded queue the oldest
\* unmatched node goes first, whether or not the new one can be allocated.
Insert(c, s, n, mallocOk) ==
  LET q        == c.queue
      crowded  == Crowded(q, n)
      oldest   == First(Older(q, n), 0)
      before   == First(Newer(q, n), Len(q) + 1)
      single   == Streams = {s}
      new      == [frame_idx |-> n, super_buf |-> {s}, matched |-> single]
      evict(r) == IF crowded THEN Cut(r, oldest, oldest + 1) ELSE r
      evicted  == IF crowded THEN Frames(q[oldest]) ELSE {}
  IN  IF crowded /\ oldest = 0 THEN Result(c, {<<s, n>>})
      ELSE IF ~mallocOk
      THEN Result([c EXCEPT !.queue = evict(q)], evicted \cup {<<s, n>>})
      ELSE Result([c EXCEPT
                     !.queue = IF oldest < before
                               THEN evict(InsertBefore(q, before, new))
                               ELSE InsertBefore(evict(q), before, new),
                     !.expected_frame_id = IF single THEN Expect(n) ELSE @,
                     !.match_cnt = IF single THEN @ + 1 ELSE @],
                  evicted)

\* Older than expected: given back at once.
TooOldDropped(c, s, n) == Result(c, {})   \* mutant
TooOld(c, s, n) == Result(c, {<<s, n>>})

\* A refused metadata frame is neither queued nor given back.
CompAndEnqueue(c, s, n, md, mallocOk) ==
  IF Contradictory(md) THEN Result(c, {})
  ELSE LET m == HandleMetadata(c, md)
           r == IF n < m.chan.expected_frame_id
                  THEN TooOld(m.chan, s, n)
                ELSE IF Same(m.chan.queue, n) # {}
                  THEN Join(m.chan, s, n)
                  ELSE Insert(m.chan, s, n, mallocOk)
       IN  [r EXCEPT !.done = @ \cup m.done]

-----------------------------------------------------------------------------
(* Trimming and dispatching the matched nodes.                             *)

\* k matched nodes dequeued from the head.
Drop(c, k) == [c EXCEPT !.queue = SubSeq(@, k + 1, Len(@)), !.match_cnt = @ - k]

\* while (match_cnt > limit) dequeue: it ends only if there are enough
\* matched nodes at the head of the queue.  In continuous mode nothing is
\* trimmed.
Excess(c, limit) ==
  IF c.notify_mode = BURST /\ c.match_cnt > limit THEN c.match_cnt - limit ELSE 0
TrimTo(c, limit) ==
  LET k == First({Excess(c, limit), Leading(c.queue)}, 0)
  IN  [chan |-> Drop(c, k),
       done |-> FramesIn(SubSeq(c.queue, 1, k)),
       hang |-> k < Excess(c, limit)]

OverflowLate(c) == TrimTo(c, WaterMark + 1)   \* mutant
Overflow(c) == TrimTo(c, WaterMark)   \* mm_channel_superbuf_bufdone_overflow
Skip(c)     == TrimTo(c, LookBack)    \* mm_channel_superbuf_skip

\* How many super buffers the dispatch loop dequeues, and what is left.
Ready(c) ==
  IF c.notify_mode = CONTINUOUS \/ Leading(c.queue) <= c.pending_cnt
  THEN Leading(c.queue) ELSE c.pending_cnt
DispatchedAnyMode(c) ==   \* mutant: pending_cnt is counted down in either mode
  [Drop(c, Ready(c)) EXCEPT !.pending_cnt = @ - Ready(c)]
Dispatched(c) ==
  [Drop(c, Ready(c)) EXCEPT !.pending_cnt = IF c.notify_mode = BURST
                                            THEN @ - Ready(c) ELSE @]

\* The super buffers of out at the positions at, in order.
Picks(n)      == UNION {{at \in [1..k -> 1..n] : \A i, j \in 1..k : i < j => at[i] < at[j]} :
                          k \in 0..n}
Pick(out, at) == [i \in DOMAIN at |-> out[at[i]]]
Others(out, at)  == {i \in DOMAIN out : \A j \in DOMAIN at : at[j] # i}
FramesAt(out, I) == UNION {Frames(out[i]) : i \in I}

\* Each super buffer dequeued needs a callback message, and the message a list
\* node (cam_queue_enq).  Those picked get both; without a message the frames
\* are given back, and without a node they are lost, for nobody looks whether
\* the message was queued.
Send(out, done, refused) ==
  \E at \in Picks(Len(out)) : \E lost \in SUBSET Others(out, at) :
    /\ FALSE \notin MallocOutcomes => Others(out, at) = {}
    /\ lost # {} => Cardinality(leaked) < MaxLeaked
    /\ cbq' = cbq \o Pick(out, at)
    /\ sent' = IF at # <<>> THEN out[at[Len(at)]].frame_idx ELSE sent
    /\ user' = user \ (done \cup FramesAt(out, Others(out, at) \ lost))
    /\ leaked' = leaked \cup refused \cup FramesAt(out, lost)

\* The tail of mm_channel_process_stream_buf after the command r: trim to the
\* water mark, then dispatch.  A hung loop keeps the thread for good.
Finish(r, refused) ==
  LET o    == IF r.hang THEN Result(r.chan, {}) ELSE Overflow(r.chan)
      hung == r.hang \/ o.hang
      out  == IF hung THEN <<>> ELSE SubSeq(o.chan.queue, 1, Ready(o.chan))
  IN  /\ chan' = IF hung THEN o.chan ELSE Dispatched(o.chan)
      /\ spinning' = hung
      /\ Send(out, r.done \cup o.done, refused)

-----------------------------------------------------------------------------
(* Actions. *)

Init ==
  /\ last = [s \in Streams |-> 0]
  /\ user = {} /\ cmdq = <<>> /\ cbq = <<>> /\ client = {} /\ leaked = {}
  /\ spinning = FALSE /\ sent = 0
  /\ \E mode \in InitModes :
       chan = [queue |-> <<>>, match_cnt |-> 0, expected_frame_id |-> 0,
               pending_cnt |-> 0, notify_mode |-> mode]

\* The message, or its list node, may be short of memory: it is not queued then.
Enqueue(cmd, ok) == /\ Len(cmdq) < MaxCmds
                    /\ cmdq' = IF ok THEN Append(cmdq, cmd) ELSE cmdq

\* Poll thread: a frame of s is dequeued from the driver and handed to the
\* command thread.  The driver needs a buffer of s, and may have dropped frames.
\* A frame whose message is not queued is forgotten: nobody gives it back.
DataNotify(s, n, md) ==
  /\ n > last[s]
  /\ Cardinality({f \in user : f[1] = s}) < NumBufs[s]
  /\ md = NoMeta \/ s = MetaStream
  /\ last' = [last EXCEPT ![s] = n]
  /\ user' = user \cup {<<s, n>>}
  /\ \E ok \in MallocOutcomes :
       /\ Enqueue([cmd_type |-> "DATA_CB", stream |-> s, frame_idx |-> n, meta |-> md], ok)
       /\ ok \/ Cardinality(leaked) < MaxLeaked
       /\ leaked' = IF ok THEN leaked ELSE leaked \cup {<<s, n>>}
  /\ UNCHANGED <<chan, spinning, cbq, sent, client>>

\* HAL threads.  Cancelling a request is requesting 0.
ClientCall(cmd) == /\ \E ok \in MallocOutcomes : Enqueue(cmd, ok)
                   /\ UNCHANGED <<last, user, chan, spinning, cbq, sent, client, leaked>>

RequestSuperBuf(n) ==
  ClientCall([cmd_type |-> "REQ_DATA_CB", num_buf_requested |-> n])
CancelSuperBufRequest == RequestSuperBuf(0)
FlushSuperBufQueue(n) ==
  ClientCall([cmd_type |-> "FLUSH_QUEUE", frame_idx |-> n])
ConfigNotifyMode(mode) ==
  ClientCall([cmd_type |-> "CONFIG_NOTIFY", notify_mode |-> mode])

\* Command thread: the four branches of mm_channel_process_stream_buf.
NextCmd(type) == /\ ~spinning
                 /\ cmdq # <<>>
                 /\ Head(cmdq).cmd_type = type
                 /\ cmdq' = Tail(cmdq)
                 /\ UNCHANGED <<last, client>>

\* A metadata frame that is refused is neither queued nor given back.
Refused(cmd) ==
  IF Contradictory(cmd.meta) THEN {<<cmd.stream, cmd.frame_idx>>} ELSE {}

ProcessData ==
  /\ NextCmd("DATA_CB")
  /\ \E ok \in MallocOutcomes :
       LET cmd == Head(cmdq)
       IN  Finish(CompAndEnqueue(chan, cmd.stream, cmd.frame_idx, cmd.meta, ok),
                  Refused(cmd))

ProcessRequest ==
  /\ NextCmd("REQ_DATA_CB")
  /\ Finish(Skip([chan EXCEPT !.pending_cnt = Head(cmdq).num_buf_requested]), {})

ProcessConfigNotifyOnly ==   \* mutant: returns early, as the flush branch does
  /\ NextCmd("CONFIG_NOTIFY")
  /\ chan' = [chan EXCEPT !.notify_mode = Head(cmdq).notify_mode]
  /\ UNCHANGED <<user, spinning, cbq, sent, leaked>>
ProcessConfigNotify ==
  /\ NextCmd("CONFIG_NOTIFY")
  /\ Finish(Result([chan EXCEPT !.notify_mode = Head(cmdq).notify_mode], {}), {})

\* The flush branch returns at once: nothing is trimmed or dispatched.
ProcessFlush ==
  /\ NextCmd("FLUSH_QUEUE")
  /\ LET r == Flush([chan EXCEPT !.expected_frame_id = Head(cmdq).frame_idx])
     IN  chan' = r.chan /\ user' = user \ r.done
  /\ UNCHANGED <<spinning, cbq, sent, leaked>>

ProcessStreamBuf ==
  ProcessData \/ ProcessRequest \/ ProcessConfigNotify \/ ProcessFlush

\* Callback thread: the HAL gets the frames of one super buffer.
DispatchSuperBuf ==
  /\ cbq # <<>>
  /\ cbq' = Tail(cbq)
  /\ client' = client \cup Frames(Head(cbq))
  /\ UNCHANGED <<last, user, cmdq, chan, spinning, sent, leaked>>

\* The HAL gives one buffer back, in any order (mm_channel_qbuf).
QBuf(f) ==
  /\ f \in client
  /\ client' = client \ {f}
  /\ user' = user \ {f}
  /\ UNCHANGED <<last, cmdq, chan, spinning, cbq, sent, leaked>>

HalReturns == \E f \in client : QBuf(f)

Next ==
  \/ \E s \in Streams, n \in FrameIdx, md \in Metadata : DataNotify(s, n, md)
  \/ \E n \in 1..MaxRequest : RequestSuperBuf(n)
  \/ CancelSuperBufRequest
  \/ \E n \in FlushTargets : FlushSuperBufQueue(n)
  \/ \E mode \in NotifyModes : ConfigNotifyMode(mode)
  \/ ProcessStreamBuf
  \/ DispatchSuperBuf
  \/ HalReturns

Spec == Init /\ [][Next]_vars

\* The command thread and the callback thread run while they have work, and
\* the HAL keeps giving buffers back.  Taking the head off a queue is what only
\* that queue's thread does, so fairness is stated on it: it is enabled exactly
\* when the thread's action is, and cheaper to evaluate.
TakesCmd == ~spinning /\ cmdq # <<>> /\ cmdq' = Tail(cmdq)
TakesCb  == cbq # <<>> /\ cbq' = Tail(cbq)

Fairness == /\ WF_cmdq(TakesCmd)
            /\ WF_cbq(TakesCb)
            /\ WF_vars(HalReturns)

FairSpec == Spec /\ Fairness

-----------------------------------------------------------------------------
(* Properties. *)

Cmd == [cmd_type : {"DATA_CB"}, stream : Streams, frame_idx : FrameIdx,
        meta : MetaInfo]
         \cup [cmd_type : {"REQ_DATA_CB"}, num_buf_requested : 0..MaxRequest]
         \cup [cmd_type : {"FLUSH_QUEUE"}, frame_idx : 0..MaxFrame]
         \cup [cmd_type : {"CONFIG_NOTIFY"}, notify_mode : {BURST, CONTINUOUS}]

\* The types of the variables.
TypeOK ==
  /\ last \in [Streams -> 0..MaxFrame]
  /\ user \subseteq Frame
  /\ cmdq \in Seq(Cmd)
  /\ chan \in Chan
  /\ spinning \in BOOLEAN
  /\ cbq \in Seq(Node)
  /\ sent \in 0..MaxFrame
  /\ client \subseteq Frame
  /\ leaked \subseteq Frame

\* The order the trimming loops rely on without checking it: exactly the first
\* match_cnt nodes of the queue are matched, and the unmatched nodes behind
\* them are in strictly increasing frame order.  comp_and_enqueue searches from
\* the front, inserts before the first newer node and drives out older ones.
MatchedFirst ==
  /\ chan.match_cnt \in 0..Len(chan.queue)
  /\ \A i \in DOMAIN chan.queue : chan.queue[i].matched <=> i <= chan.match_cnt
  /\ \A i, j \in Unmatched(chan.queue) :
       i < j => chan.queue[i].frame_idx < chan.queue[j].frame_idx

\* The command thread never spins, with the queue locked, in
\* mm_channel_superbuf_skip or mm_channel_superbuf_bufdone_overflow: while
\* match_cnt exceeds the limit there is a matched node to dequeue.
NeverSpins == ~spinning

\* The places a frame in user space can be.
Holders ==
  [i \in DOMAIN cmdq |-> IF cmdq[i].cmd_type = "DATA_CB"
                         THEN {<<cmdq[i].stream, cmdq[i].frame_idx>>} ELSE {}]
    \o [i \in DOMAIN chan.queue |-> Frames(chan.queue[i])]
    \o [i \in DOMAIN cbq |-> Frames(cbq[i])]
    \o <<client>>

\* No buffer is used after mm_channel_qbuf gave it to the driver, and none is
\* given back twice: every queued or delivered frame is still in user space and
\* sits in one place only.
OwnedOnce ==
  \A i \in DOMAIN Holders :
    /\ Holders[i] \subseteq user
    /\ \A j \in DOMAIN Holders : i # j => Holders[i] \cap Holders[j] = {}

\* No buffer is lost but by a failure nobody handles: a frame in user space is in
\* a command, in a node, in a callback message or with the HAL, whichever path
\* filed or discarded it, unless a message for it could not be queued or its
\* metadata was refused; and then nobody has it or will give it back.
NoBufferLost ==
  LET held == UNION {Holders[i] : i \in DOMAIN Holders}
  IN  user = held \cup leaked /\ held \cap leaked = {}

\* The queue keeps at most max_unmatched_frames + 1 unmatched nodes, for the limit
\* is tested before the new node goes in: one more than the "max number of
\* unmatched frames in queue" of mm_camera_interface.h:247-248.
UnmatchedBounded ==
  Cardinality(Unmatched(chan.queue)) <= MaxUnmatchedFrames + 1

\* Between two commands no more than water_mark matched super buffers wait in
\* burst mode, so the buffers they pin are bounded whatever the HAL requests.
WaterMarkKept == chan.notify_mode = BURST => chan.match_cnt <= WaterMark

\* A super buffer does not wait while the HAL waits for it: with a request
\* pending, or in continuous mode, no matched node stays in the queue.
NoMatchWaits ==
  chan.pending_cnt > 0 \/ chan.notify_mode = CONTINUOUS
    => \A i \in DOMAIN chan.queue : ~chan.queue[i].matched

\* What goes to the HAL has a buffer of every bundled stream.
WholeSuperBufs == \A i \in DOMAIN cbq : cbq[i].super_buf = Streams

\* Where nobody flushes or moves expected_frame_id, deliveries are at least
\* post_frame_skip frame numbers apart, also when frames of the skipped numbers
\* were queued before the match: post_frame_skip - 1 frames are skipped, where
\* mm_camera_interface.h:244-246 announces post_frame_skip.
BurstInterval ==
  LET line         == cbq \o chan.queue
      Delivered(i) == i <= Len(cbq) \/ line[i].matched
  IN  \A i, j \in DOMAIN line :
        i < j /\ Delivered(i) /\ Delivered(j)
          => line[i].frame_idx + PostFrameSkip <= line[j].frame_idx

\* The bundle cannot stall for want of buffers: if every buffer of every stream
\* is in user space, some of them are not in the queue, and come back unless a
\* failure has lost them.
NoStall ==
  (\A s \in Streams : Cardinality({f \in user : f[1] = s}) = NumBufs[s])
    => user # FramesIn(chan.queue)

\* Once the sensor stops, every buffer settles in the driver or in the queue, but
\* for those forgotten: no command, callback message or HAL call keeps one for
\* ever.
BuffersSettle == <>[](user = FramesIn(chan.queue) \cup leaked)

-----------------------------------------------------------------------------
(* The queue implements the channel's promise to the HAL: whole super buffers *)
(* of one frame number in increasing order, each buffer given back once and   *)
(* never while the HAL has it.                                                *)
Contract == INSTANCE BundleContract
              WITH taken  <- user,
                   owed   <- [i \in DOMAIN cbq |-> cbq[i].frame_idx],
                   latest <- sent
KeepsContract == Contract!Spec

=============================================================================
