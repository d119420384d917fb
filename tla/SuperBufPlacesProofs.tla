------------------------ MODULE SuperBufPlacesProofs ------------------------
(***************************************************************************)
(* Where the buffers of a bundle are, for every value of the constants of  *)
(* SuperBufQueue: a frame in user space is in one place only, none is      *)
(* forgotten but by a failure nobody handles, and what the queue does is   *)
(* what BundleContract promises.                                           *)
(*                                                                         *)
(* Everything rests on the frame numbers.  A stream numbers its frames     *)
(* upwards and its commands are taken in order, so what arrives is newer   *)
(* than all its stream has contributed; a super buffer is sent when every  *)
(* stream has contributed, so everything still to be sent is newer than    *)
(* it.  The nodes of the queue are therefore in frame order throughout,    *)
(* and what was sent is older than what is queued or on its way.           *)
(***************************************************************************)
EXTENDS SuperBufQueueProofs

\* Nodes in strict frame order.
Rising(q) == \A i, j \in 1..Len(q) : i < j => q[i].frame_idx < q[j].frame_idx

\* The frame a command brings, and the frames a queue of commands brings.
Brought(cmd)   == <<cmd.stream, cmd.frame_idx>>
CmdFrames(q) == {Brought(q[i]) : i \in {k \in 1..Len(q) : q[k].cmd_type = "DATA_CB"}}

\* The queue: in order, newer than what was sent, not with the driver.
QueueOK == /\ Rising(chan.queue)
           /\ FramesIn(chan.queue) \subseteq user
           /\ \A g \in FramesIn(chan.queue) : sent < g[2]

\* The commands: newer than what was sent and what the stream has contributed.
CmdOK(cmd) ==
  cmd.cmd_type = "DATA_CB" =>
    /\ Brought(cmd) \in user /\ sent < cmd.frame_idx /\ cmd.meta \in Metadata
    /\ \A g \in FramesIn(chan.queue) : g[1] = cmd.stream => g[2] < cmd.frame_idx
CmdsOK ==
  /\ \A i \in 1..Len(cmdq) : CmdOK(cmdq[i])
  /\ \A i, j \in 1..Len(cmdq) :
       i < j /\ cmdq[i].cmd_type = "DATA_CB" /\ cmdq[j].cmd_type = "DATA_CB"
         /\ cmdq[i].stream = cmdq[j].stream => cmdq[i].frame_idx < cmdq[j].frame_idx

\* The driver's numbers are the newest.
LastOK == /\ \A f \in user : f[2] <= last[f[1]]
          /\ \A s \in Streams : sent <= last[s]

\* What is on its way to the HAL, or there: in order, and no newer than sent.
OutOK ==
  /\ Rising(cbq)
  /\ \A i \in 1..Len(cbq) : cbq[i].frame_idx <= sent /\ Frames(cbq[i]) \subseteq user
  /\ client \subseteq user
  /\ \A g \in client : g[2] <= sent /\ \A i \in 1..Len(cbq) : g[2] < cbq[i].frame_idx

\* Where a frame can be that somebody will give back; what is nowhere was
\* forgotten, and nobody has what was.
Places == CmdFrames(cmdq) \cup FramesIn(chan.queue) \cup FramesIn(cbq) \cup client
KeptOK == user = Places \cup leaked /\ Places \cap leaked = {}

Placed == Inv /\ QueueOK /\ CmdsOK /\ LastOK /\ OutOK /\ KeptOK

\* Without flushes and notices, deliveries are post_frame_skip frames apart and
\* expected_frame_id is that far ahead of them.
Plain == /\ FlushTargets = {}
         /\ \A md \in Metadata : md.prep # "NEED_FUTURE_FRAME" /\ md.range = NoRange
Apart(q, k) == \A i, j \in 1..k : i < j => q[i].frame_idx + PostFrameSkip <= q[j].frame_idx
Spread(b, q, m, x) ==
  /\ Apart(q, m) /\ Apart(b, Len(b))
  /\ \A i \in 1..m : q[i].frame_idx + PostFrameSkip <= x
  /\ \A i \in 1..Len(b) : b[i].frame_idx + PostFrameSkip <= x
  /\ \A i \in 1..Len(b), j \in 1..m : b[i].frame_idx + PostFrameSkip <= q[j].frame_idx
NoFlush  == \A i \in 1..Len(cmdq) : cmdq[i].cmd_type # "FLUSH_QUEUE"
SpacedOK == NoFlush /\ Spread(cbq, chan.queue, chan.match_cnt, chan.expected_frame_id)

-----------------------------------------------------------------------------
(* The frames of parts of a queue.                                          *)

\* The frames of the nodes a .. b.
Part(q, a, b) == UNION {Frames(q[i]) : i \in a..b}

\* The interval of one number.
LEMMA OneInterval == \A a \in Int : a..((a + 1) - 1) = {a}
OBVIOUS

\* A queue's frames are frames.
LEMMA FrameFacts ==
  ASSUME NEW q \in Seq(Node)
  PROVE  /\ Len(q) \in Nat /\ \A i \in 1..Len(q) : q[i] \in Node
         /\ \A i \in 1..Len(q) : q[i].frame_idx \in FrameIdx /\ q[i].frame_idx \in Nat
         /\ \A i \in 1..Len(q) : Frames(q[i]) \subseteq Frame
         /\ FramesIn(q) = Part(q, 1, Len(q)) /\ FramesIn(q) \subseteq Frame
<1>1. Len(q) \in Nat /\ DOMAIN q = 1..Len(q) /\ \A i \in 1..Len(q) : q[i] \in Node
  BY LenProperties, ElementOfSeq
<1>2. \A i \in 1..Len(q) : q[i].frame_idx \in FrameIdx /\ q[i].super_buf \in SUBSET Streams
  BY <1>1, NodeFields
<1>3. \A i \in 1..Len(q) : Frames(q[i]) \subseteq Frame
  BY <1>2 DEF Frames, Frame
<1> QED BY <1>1, <1>2, <1>3 DEF FramesIn, Part, FrameIdx

\* The frames of a node.
LEMMA NodeFrames ==
  ASSUME NEW e, NEW g
  PROVE  g \in Frames(e) <=> \E s \in e.super_buf : g = <<s, e.frame_idx>>
BY DEF Frames

\* All frames of a node have its number.
LEMMA NodeNumber ==
  ASSUME NEW e, NEW g \in Frames(e)
  PROVE  g[1] \in e.super_buf /\ g[2] = e.frame_idx /\ g = <<g[1], g[2]>>
BY DEF Frames

\* A part is made of parts.
LEMMA PartSplit ==
  ASSUME NEW q, NEW a \in Int, NEW b \in Int, NEW c \in Int, a <= b + 1, b <= c
  PROVE  Part(q, a, c) = Part(q, a, b) \cup Part(q, b + 1, c)
<1>1. \A i : i \in a..c <=> i \in a..b \/ i \in (b + 1)..c
  OBVIOUS
<1> QED BY <1>1 DEF Part

\* Different nodes have different frames.
LEMMA PartsDisjoint ==
  ASSUME NEW q \in Seq(Node), Rising(q), NEW a \in Nat, NEW b \in Nat, NEW c \in Nat, NEW d \in Nat,
         1 <= a, b < c, d <= Len(q)
  PROVE  Part(q, a, b) \cap Part(q, c, d) = {}
<1> SUFFICES ASSUME NEW g \in Part(q, a, b), g \in Part(q, c, d) PROVE FALSE
  OBVIOUS
<1>1. PICK i \in a..b : g \in Frames(q[i])
  BY DEF Part
<1>2. PICK j \in c..d : g \in Frames(q[j])
  BY DEF Part
<1>3. i \in 1..Len(q) /\ j \in 1..Len(q) /\ i < j
  BY FrameFacts
<1>4. q[i].frame_idx < q[j].frame_idx /\ q[i].frame_idx \in Nat /\ q[j].frame_idx \in Nat
  BY <1>3, FrameFacts DEF Rising
<1>5. g[2] = q[i].frame_idx /\ g[2] = q[j].frame_idx
  BY <1>1, <1>2, NodeNumber
<1> QED BY <1>4, <1>5

\* The frames of a stretch of a queue, which is in order if the queue is.
LEMMA SubFrames ==
  ASSUME NEW q \in Seq(Node), NEW a \in 1..(Len(q) + 1), NEW b \in (a - 1)..Len(q)
  PROVE  /\ SubSeq(q, a, b) \in Seq(Node)
         /\ Len(SubSeq(q, a, b)) = b - a + 1
         /\ \A i \in 1..(b - a + 1) : SubSeq(q, a, b)[i] = q[a + i - 1]
         /\ FramesIn(SubSeq(q, a, b)) = Part(q, a, b)
         /\ Rising(q) => Rising(SubSeq(q, a, b))
<1> DEFINE r == SubSeq(q, a, b)
<1>1. Len(q) \in Nat /\ \A i \in 1..Len(q) : q[i] \in Node
  BY FrameFacts
<1>2. a \in Int /\ b \in Int /\ \A i \in a..b : q[i] \in Node
  BY <1>1
<1>3. r \in Seq(Node) /\ Len(r) = (IF a <= b THEN b - a + 1 ELSE 0)
      /\ \A i \in 1..(b - a + 1) : r[i] = q[a + i - 1]
  BY <1>2, SubSeqProperties
<1>4. Len(r) = b - a + 1
  BY <1>1, <1>3
<1> HIDE DEF r
<1>5. ASSUME NEW i \in a..b PROVE i - a + 1 \in 1..Len(r) /\ r[i - a + 1] = q[i]
  <2>1. i - a + 1 \in 1..(b - a + 1) /\ a + (i - a + 1) - 1 = i
    BY <1>1
  <2> QED BY <1>3, <1>4, <2>1
<1>6. ASSUME NEW i \in 1..Len(r) PROVE a + i - 1 \in a..b /\ r[i] = q[a + i - 1]
  BY <1>1, <1>3, <1>4
<1>7. FramesIn(r) = Part(q, a, b)
  <2>1. FramesIn(r) = Part(r, 1, Len(r))
    BY <1>3, FrameFacts
  <2>2. ASSUME NEW g \in Part(r, 1, Len(r)) PROVE g \in Part(q, a, b)
    <3>1. PICK i \in 1..Len(r) : g \in Frames(r[i])
      BY <2>2 DEF Part
    <3> QED BY <1>6, <3>1 DEF Part
  <2>3. ASSUME NEW g \in Part(q, a, b) PROVE g \in Part(r, 1, Len(r))
    <3>1. PICK i \in a..b : g \in Frames(q[i])
      BY <2>3 DEF Part
    <3>2. i - a + 1 \in 1..Len(r) /\ g \in Frames(r[i - a + 1])
      BY <1>5, <3>1
    <3> QED BY <3>2 DEF Part
  <2> QED BY <2>1, <2>2, <2>3
<1>8. ASSUME Rising(q), NEW i \in 1..Len(r), NEW j \in 1..Len(r), i < j
      PROVE  r[i].frame_idx < r[j].frame_idx
  <2>1. a + i - 1 \in 1..Len(q) /\ a + j - 1 \in 1..Len(q) /\ a + i - 1 < a + j - 1
    BY <1>1, <1>4, <1>8
  <2> QED BY <1>6, <1>8, <2>1 DEF Rising
<1> QED BY <1>3, <1>4, <1>7, <1>8 DEF Rising, r

\* The frames of two queues in a row, which are in order if the second is behind the first.
LEMMA ConcatFrames ==
  ASSUME NEW p \in Seq(Node), NEW q \in Seq(Node)
  PROVE  /\ p \o q \in Seq(Node) /\ Len(p \o q) = Len(p) + Len(q)
         /\ \A i \in 1..Len(p) : (p \o q)[i] = p[i]
         /\ \A i \in 1..Len(q) : (p \o q)[i + Len(p)] = q[i]
         /\ FramesIn(p \o q) = FramesIn(p) \cup FramesIn(q)
         /\ Rising(p) /\ Rising(q)
              /\ (\A i \in 1..Len(p), j \in 1..Len(q) : p[i].frame_idx < q[j].frame_idx)
              => Rising(p \o q)
<1> DEFINE r == p \o q
<1>1. Len(p) \in Nat /\ Len(q) \in Nat
  BY LenProperties
<1>2. /\ r \in Seq(Node) /\ Len(r) = Len(p) + Len(q)
      /\ \A i \in 1..(Len(p) + Len(q)) :
           r[i] = IF i <= Len(p) THEN p[i] ELSE q[i - Len(p)]
  BY ConcatProperties
<1> HIDE DEF r
<1>3. \A i \in 1..Len(p) : i \in 1..Len(r) /\ r[i] = p[i]
  BY <1>1, <1>2
<1>4. \A i \in 1..Len(q) : i + Len(p) \in 1..Len(r) /\ r[i + Len(p)] = q[i]
  <2> TAKE i \in 1..Len(q)
  <2>1. i + Len(p) \in 1..(Len(p) + Len(q)) /\ ~(i + Len(p) <= Len(p)) /\ (i + Len(p)) - Len(p) = i
    BY <1>1
  <2> QED BY <1>2, <2>1
<1>5. \A i \in 1..Len(r) : i \in 1..Len(p) \/ (i - Len(p) \in 1..Len(q) /\ ~(i <= Len(p)))
  BY <1>1, <1>2
<1>6. \A i \in 1..Len(r) : ~(i <= Len(p)) => r[i] = q[i - Len(p)]
  BY <1>1, <1>2
<1>7. FramesIn(r) = FramesIn(p) \cup FramesIn(q)
  <2>1. /\ FramesIn(r) = Part(r, 1, Len(r)) /\ FramesIn(p) = Part(p, 1, Len(p))
        /\ FramesIn(q) = Part(q, 1, Len(q))
    BY <1>2, FrameFacts
  <2>2. ASSUME NEW g \in FramesIn(r) PROVE g \in FramesIn(p) \cup FramesIn(q)
    <3>1. PICK i \in 1..Len(r) : g \in Frames(r[i])
      BY <2>1, <2>2 DEF Part
    <3>2. CASE i \in 1..Len(p)
      BY <1>3, <2>1, <3>1, <3>2 DEF Part
    <3>3. CASE i - Len(p) \in 1..Len(q) /\ ~(i <= Len(p))
      BY <1>6, <2>1, <3>1, <3>3 DEF Part
    <3> QED BY <1>5, <3>2, <3>3
  <2>3. ASSUME NEW g \in FramesIn(p) PROVE g \in FramesIn(r)
    BY <1>3, <2>1, <2>3 DEF Part
  <2>4. ASSUME NEW g \in FramesIn(q) PROVE g \in FramesIn(r)
    <3>1. PICK i \in 1..Len(q) : g \in Frames(q[i])
      BY <2>1, <2>4 DEF Part
    <3>2. i + Len(p) \in 1..Len(r) /\ g \in Frames(r[i + Len(p)])
      BY <1>4, <3>1
    <3> QED BY <2>1, <3>2 DEF Part
  <2> QED BY <2>2, <2>3, <2>4
<1>8. ASSUME Rising(p), Rising(q),
             \A i \in 1..Len(p), j \in 1..Len(q) : p[i].frame_idx < q[j].frame_idx,
             NEW i \in 1..Len(r), NEW j \in 1..Len(r), i < j
      PROVE  r[i].frame_idx < r[j].frame_idx
  <2>1. CASE i \in 1..Len(p) /\ j \in 1..Len(p)
    BY <1>3, <1>8, <2>1 DEF Rising
  <2>2. CASE i \in 1..Len(p) /\ j - Len(p) \in 1..Len(q) /\ ~(j <= Len(p))
    BY <1>3, <1>6, <1>8, <2>2
  <2>3. CASE i - Len(p) \in 1..Len(q) /\ j - Len(p) \in 1..Len(q) /\ ~(i <= Len(p)) /\ ~(j <= Len(p))
    <3>1. i - Len(p) < j - Len(p)
      BY <1>1, <1>8
    <3> QED BY <1>6, <1>8, <2>3, <3>1 DEF Rising
  <2>4. i <= Len(p) \/ ~(j <= Len(p))
    BY <1>1, <1>8
  <2>5. i \in 1..Len(p) => i <= Len(p)
    OBVIOUS
  <2>6. j \in 1..Len(p) => j <= Len(p)
    OBVIOUS
  <2> QED BY <1>5, <2>1, <2>2, <2>3, <2>4, <2>5, <2>6
<1> QED BY <1>2, <1>3, <1>4, <1>7, <1>8 DEF Rising, r

\* Cutting nodes out takes their frames out and leaves the order.
LEMMA CutFrames ==
  ASSUME NEW q \in Seq(Node), NEW a \in 1..(Len(q) + 1), NEW b \in a..(Len(q) + 1)
  PROVE  /\ Cut(q, a, b) \in Seq(Node)
         /\ FramesIn(Cut(q, a, b)) = Part(q, 1, a - 1) \cup Part(q, b, Len(q))
         /\ FramesIn(q) = FramesIn(Cut(q, a, b)) \cup Part(q, a, b - 1)
         /\ Rising(q) => /\ Rising(Cut(q, a, b))
                         /\ FramesIn(Cut(q, a, b)) \cap Part(q, a, b - 1) = {}
<1> DEFINE x == SubSeq(q, 1, a - 1)
           y == SubSeq(q, b, Len(q))
<1>1. Len(q) \in Nat /\ a \in Int /\ b \in Int
  BY FrameFacts
<1>2. 1 \in 1..(Len(q) + 1) /\ a - 1 \in (1 - 1)..Len(q)
  BY <1>1
<1>3. b \in 1..(Len(q) + 1) /\ Len(q) \in (b - 1)..Len(q)
  BY <1>1
<1>4. /\ x \in Seq(Node) /\ Len(x) = a - 1 /\ FramesIn(x) = Part(q, 1, a - 1)
      /\ \A i \in 1..(a - 1) : x[i] = q[i]
      /\ Rising(q) => Rising(x)
  <2>1. (a - 1) - 1 + 1 = a - 1 /\ \A i \in 1..(a - 1) : 1 + i - 1 = i
    BY <1>1
  <2>2. /\ x \in Seq(Node) /\ Len(x) = (a - 1) - 1 + 1 /\ FramesIn(x) = Part(q, 1, a - 1)
        /\ \A i \in 1..((a - 1) - 1 + 1) : x[i] = q[1 + i - 1]
        /\ Rising(q) => Rising(x)
    BY <1>2, SubFrames
  <2> QED BY <2>1, <2>2
<1>5. /\ y \in Seq(Node) /\ Len(y) = Len(q) - b + 1 /\ FramesIn(y) = Part(q, b, Len(q))
      /\ \A i \in 1..(Len(q) - b + 1) : y[i] = q[b + i - 1]
      /\ Rising(q) => Rising(y)
  BY <1>3, SubFrames
<1> HIDE DEF x, y
<1>6. Cut(q, a, b) = x \o y
  BY DEF Cut, x, y
<1>7. /\ x \o y \in Seq(Node) /\ FramesIn(x \o y) = Part(q, 1, a - 1) \cup Part(q, b, Len(q))
  BY <1>4, <1>5, ConcatFrames
<1>8. FramesIn(q) = FramesIn(x \o y) \cup Part(q, a, b - 1)
  <2>1. Part(q, 1, Len(q)) = Part(q, 1, a - 1) \cup Part(q, (a - 1) + 1, Len(q))
    BY <1>1, PartSplit
  <2>2. Part(q, a, Len(q)) = Part(q, a, b - 1) \cup Part(q, (b - 1) + 1, Len(q))
    BY <1>1, PartSplit
  <2>3. (a - 1) + 1 = a /\ (b - 1) + 1 = b
    BY <1>1
  <2>4. FramesIn(q) = Part(q, 1, Len(q))
    BY FrameFacts
  <2> QED BY <1>7, <2>1, <2>2, <2>3, <2>4
<1>9. ASSUME Rising(q) PROVE Rising(x \o y)
  <2>1. ASSUME NEW i \in 1..Len(x), NEW j \in 1..Len(y) PROVE x[i].frame_idx < y[j].frame_idx
    <3>1. /\ i \in 1..(a - 1) /\ j \in 1..(Len(q) - b + 1)
          /\ i \in 1..Len(q) /\ b + j - 1 \in 1..Len(q) /\ i < b + j - 1
      BY <1>1, <1>4, <1>5
    <3> QED BY <1>4, <1>5, <1>9, <3>1 DEF Rising
  <2> QED BY <1>4, <1>5, <1>9, <2>1, ConcatFrames
<1>10. ASSUME Rising(q) PROVE FramesIn(x \o y) \cap Part(q, a, b - 1) = {}
  <2>1. CASE b = a
    <3>1. a..(b - 1) = {}
      BY <1>1, <2>1
    <3> QED BY <3>1 DEF Part
  <2>2. CASE b # a
    <3>1. /\ a - 1 \in Nat /\ a \in Nat /\ b - 1 \in Nat /\ b \in Nat /\ 1 <= a /\ a - 1 < a
          /\ b - 1 <= Len(q) /\ b - 1 < b /\ Len(q) <= Len(q) /\ 1 <= 1 /\ 1 \in Nat
      BY <1>1
    <3>2. Part(q, 1, a - 1) \cap Part(q, a, b - 1) = {}
      BY <1>10, <3>1, PartsDisjoint
    <3>3. Part(q, a, b - 1) \cap Part(q, b, Len(q)) = {}
      BY <1>1, <1>10, <3>1, PartsDisjoint
    <3> QED BY <1>7, <3>2, <3>3
  <2> QED BY <2>1, <2>2
<1> QED BY <1>6, <1>7, <1>8, <1>9, <1>10

\* What the list is after a node was inserted: the nodes before it, it, the rest.
Inserted(q, p, e) ==
  /\ InsertBefore(q, p, e) \in Seq(Node)
  /\ Len(InsertBefore(q, p, e)) = Len(q) + 1
  /\ \A i \in 1..(Len(q) + 1) :
       InsertBefore(q, p, e)[i] = IF i < p THEN q[i] ELSE IF i = p THEN e ELSE q[i - 1]

\* Inserting a node into the list gives a list of nodes with the node in its place.
LEMMA InsertedNode ==
  ASSUME NEW q \in Seq(Node), NEW p \in 1..(Len(q) + 1), NEW e \in Node
  PROVE  Inserted(q, p, e)
<1>1. \A a \in 1..(Len(q) + 1) : \A b \in Node : Inserted(q, a, b)
  BY InsertNodes DEF Inserted
<1> QED BY <1>1

\* Inserting a node in its place adds its frames and keeps the order.
LEMMA InsertFrames ==
  ASSUME NEW q \in Seq(Node), NEW p \in 1..(Len(q) + 1), NEW e \in Node
  PROVE  /\ FramesIn(InsertBefore(q, p, e)) = FramesIn(q) \cup Frames(e)
         /\ Rising(q) /\ (\A i \in 1..(p - 1) : q[i].frame_idx < e.frame_idx)
                      /\ (\A i \in p..Len(q) : e.frame_idx < q[i].frame_idx)
              => Rising(InsertBefore(q, p, e))
<1> DEFINE r == InsertBefore(q, p, e)
<1>1. Len(q) \in Nat /\ p \in Int
  BY FrameFacts
<1>2. /\ r \in Seq(Node) /\ Len(r) = Len(q) + 1
      /\ \A i \in 1..(Len(q) + 1) : r[i] = IF i < p THEN q[i] ELSE IF i = p THEN e ELSE q[i - 1]
  <2>1. Inserted(q, p, e)
    BY InsertedNode
  <2> QED BY <2>1 DEF Inserted
<1> HIDE DEF r
<1>3. \A i \in 1..(p - 1) : i \in 1..Len(q) /\ i \in 1..Len(r) /\ r[i] = q[i]
  BY <1>1, <1>2
<1>4. p \in 1..Len(r) /\ r[p] = e
  BY <1>1, <1>2
<1>5. \A i \in p..Len(q) : i \in 1..Len(q) /\ i + 1 \in 1..Len(r) /\ r[i + 1] = q[i]
  <2> TAKE i \in p..Len(q)
  <2>1. i + 1 \in 1..(Len(q) + 1) /\ ~(i + 1 < p) /\ i + 1 # p /\ (i + 1) - 1 = i /\ i \in 1..Len(q)
    BY <1>1
  <2> QED BY <1>2, <2>1
<1>6. \A i \in 1..Len(r) : \/ i \in 1..(p - 1)
                           \/ i = p
                           \/ i - 1 \in p..Len(q) /\ (i - 1) + 1 = i
  BY <1>1, <1>2
<1>7. FramesIn(r) = FramesIn(q) \cup Frames(e)
  <2>1. FramesIn(r) = Part(r, 1, Len(r)) /\ FramesIn(q) = Part(q, 1, Len(q))
    BY <1>2, FrameFacts
  <2>2. ASSUME NEW g \in FramesIn(r) PROVE g \in FramesIn(q) \cup Frames(e)
    <3>1. PICK i \in 1..Len(r) : g \in Frames(r[i])
      BY <2>1, <2>2 DEF Part
    <3>2. CASE i \in 1..(p - 1)
      BY <1>3, <2>1, <3>1, <3>2 DEF Part
    <3>3. CASE i = p
      BY <1>4, <3>1, <3>3
    <3>4. CASE i - 1 \in p..Len(q) /\ (i - 1) + 1 = i
      <4>1. i - 1 \in 1..Len(q) /\ r[(i - 1) + 1] = q[i - 1]
        BY <1>5, <3>4
      <4> QED BY <2>1, <3>1, <3>4, <4>1 DEF Part
    <3> QED BY <1>6, <3>2, <3>3, <3>4
  <2>3. ASSUME NEW g \in FramesIn(q) PROVE g \in FramesIn(r)
    <3>1. PICK i \in 1..Len(q) : g \in Frames(q[i])
      BY <2>1, <2>3 DEF Part
    <3>2. i \in 1..(p - 1) \/ i \in p..Len(q)
      BY <1>1
    <3> QED BY <1>3, <1>5, <2>1, <3>1, <3>2 DEF Part
  <2>4. Frames(e) \subseteq FramesIn(r)
    BY <1>4, <2>1 DEF Part
  <2> QED BY <2>2, <2>3, <2>4
<1>8. ASSUME Rising(q), \A i \in 1..(p - 1) : q[i].frame_idx < e.frame_idx,
             \A i \in p..Len(q) : e.frame_idx < q[i].frame_idx,
             NEW i \in 1..Len(r), NEW j \in 1..Len(r), i < j
      PROVE  r[i].frame_idx < r[j].frame_idx
  <2>1. CASE i \in 1..(p - 1) /\ j \in 1..(p - 1)
    BY <1>3, <1>8, <2>1 DEF Rising
  <2>2. CASE i \in 1..(p - 1) /\ j = p
    BY <1>3, <1>4, <1>8, <2>2
  <2>3. CASE i \in 1..(p - 1) /\ j - 1 \in p..Len(q) /\ (j - 1) + 1 = j
    <3>1. i \in 1..Len(q) /\ j - 1 \in 1..Len(q) /\ r[i] = q[i] /\ r[(j - 1) + 1] = q[j - 1]
      BY <1>3, <1>5, <2>3
    <3>2. i < j - 1
      BY <1>1, <2>3
    <3> QED BY <1>8, <2>3, <3>1, <3>2 DEF Rising
  <2>4. CASE i = p /\ j - 1 \in p..Len(q) /\ (j - 1) + 1 = j
    <3>1. r[i] = e /\ r[(j - 1) + 1] = q[j - 1] /\ e.frame_idx < q[j - 1].frame_idx
      BY <1>4, <1>5, <1>8, <2>4
    <3> QED BY <2>4, <3>1
  <2>5. CASE /\ i - 1 \in p..Len(q) /\ (i - 1) + 1 = i
             /\ j - 1 \in p..Len(q) /\ (j - 1) + 1 = j
    <3>1. /\ i - 1 \in 1..Len(q) /\ j - 1 \in 1..Len(q)
          /\ r[(i - 1) + 1] = q[i - 1] /\ r[(j - 1) + 1] = q[j - 1]
      BY <1>5, <2>5
    <3>2. i - 1 < j - 1
      BY <1>1, <1>8, <2>5
    <3> QED BY <1>8, <2>5, <3>1, <3>2 DEF Rising
  <2>6. i \in 1..(p - 1) \/ (i >= p /\ j > p)
    BY <1>1, <1>2, <1>8
  <2>7. ~(j > p /\ j \in 1..(p - 1)) /\ ~(j > p /\ j = p) /\ ~(i >= p /\ i \in 1..(p - 1))
    BY <1>1
  <2> QED BY <1>6, <2>1, <2>2, <2>3, <2>4, <2>5, <2>6, <2>7
<1> QED BY <1>7, <1>8 DEF Rising, r

\* f is q with a slot of the node at p filled.
Fills(f, q, p, s) ==
  /\ Len(f) = Len(q)
  /\ \A j \in 1..Len(q) : j # p => f[j] = q[j]
  /\ f[p].frame_idx = q[p].frame_idx /\ f[p].super_buf = q[p].super_buf \cup {s}

\* Filling a slot of a node adds one frame and leaves the order.
LEMMA FillFrames ==
  ASSUME NEW q \in Seq(Node), NEW p \in 1..Len(q), NEW f \in Seq(Node), NEW s,
         Fills(f, q, p, s)
  PROVE  /\ FramesIn(f) = FramesIn(q) \cup {<<s, q[p].frame_idx>>}
         /\ Rising(q) => Rising(f)
<1>1. /\ Len(f) = Len(q) /\ f[p].frame_idx = q[p].frame_idx
      /\ \A j \in 1..Len(q) : j # p => f[j] = q[j]
  BY DEF Fills
<1>2. Frames(f[p]) = Frames(q[p]) \cup {<<s, q[p].frame_idx>>}
  BY DEF Frames, Fills
<1>3. FramesIn(f) = Part(f, 1, Len(f)) /\ FramesIn(q) = Part(q, 1, Len(q))
  BY <1>1, FrameFacts
<1>4. FramesIn(f) = FramesIn(q) \cup {<<s, q[p].frame_idx>>}
  <2>1. ASSUME NEW g \in FramesIn(f) PROVE g \in FramesIn(q) \cup {<<s, q[p].frame_idx>>}
    <3>1. PICK i \in 1..Len(q) : g \in Frames(f[i])
      BY <1>1, <1>3, <2>1 DEF Part
    <3>2. CASE i = p
      BY <1>2, <1>3, <3>1, <3>2 DEF Part
    <3>3. CASE i # p
      BY <1>1, <1>3, <3>1, <3>3 DEF Part
    <3> QED BY <3>2, <3>3
  <2>2. ASSUME NEW g \in FramesIn(q) PROVE g \in FramesIn(f)
    <3>1. PICK i \in 1..Len(q) : g \in Frames(q[i])
      BY <1>3, <2>2 DEF Part
    <3>2. g \in Frames(f[i])
      BY <1>1, <1>2, <3>1
    <3> QED BY <1>1, <1>3, <3>1, <3>2 DEF Part
  <2>3. <<s, q[p].frame_idx>> \in FramesIn(f)
    <3>1. <<s, q[p].frame_idx>> \in Frames(f[p])
      BY <1>1, <1>2
    <3> QED BY <1>1, <1>3, <3>1 DEF Part
  <2> QED BY <2>1, <2>2, <2>3
<1>5. ASSUME Rising(q) PROVE Rising(f)
  <2>1. \A i \in 1..Len(q) : f[i].frame_idx = q[i].frame_idx
    BY <1>1
  <2> QED BY <1>1, <1>5, <2>1 DEF Rising
<1> QED BY <1>4, <1>5

-----------------------------------------------------------------------------
(* Where the operators of the command thread put the frames.               *)

\* r is what is made of the channel c and the frames F: each is in the queue
\* or given back, and not both, and the queue is in order.
Sorted(r, c, F) == /\ Rising(r.chan.queue)
                   /\ FramesIn(r.chan.queue) \cup r.done = FramesIn(c.queue) \cup F
                   /\ FramesIn(r.chan.queue) \cap r.done = {}

\* Frames newer than all their stream has in the queue are not in it.
LEMMA NewerAbsent ==
  ASSUME NEW F, NEW s, NEW n \in Nat, \A g \in F : g[1] = s => g[2] < n
  PROVE  <<s, n>> \notin F
<1> SUFFICES ASSUME <<s, n>> \in F PROVE FALSE
  OBVIOUS
<1>1. <<s, n>>[1] = s /\ <<s, n>>[2] = n
  OBVIOUS
<1>2. n < n
  BY <1>1
<1> QED BY <1>2

\* Taking the first k nodes from the queue.
LEMMA DropSorted ==
  ASSUME NEW c \in Chan, Rising(c.queue), NEW k \in 0..Len(c.queue)
  PROVE  LET q == c.queue IN
         /\ Drop(c, k).queue = SubSeq(q, k + 1, Len(q))
         /\ SubSeq(q, 1, k) \in Seq(Node) /\ Len(SubSeq(q, 1, k)) = k
         /\ \A i \in 1..k : SubSeq(q, 1, k)[i] = q[i]
         /\ Rising(SubSeq(q, 1, k)) /\ Rising(Drop(c, k).queue)
         /\ FramesIn(SubSeq(q, 1, k)) = Part(q, 1, k)
         /\ FramesIn(Drop(c, k).queue) = Part(q, k + 1, Len(q))
         /\ FramesIn(q) = FramesIn(Drop(c, k).queue) \cup FramesIn(SubSeq(q, 1, k))
         /\ FramesIn(Drop(c, k).queue) \cap FramesIn(SubSeq(q, 1, k)) = {}
<1> DEFINE q == c.queue
<1>1. q \in Seq(Node) /\ Len(q) \in Nat
  BY ChanFields
<1>2. Drop(c, k).queue = SubSeq(q, k + 1, Len(q))
  BY DEF Drop, Chan
<1>3. Rising(q) /\ k \in 0..Len(q) /\ k \in Nat
  BY <1>1
<1> HIDE DEF q
<1>4. /\ SubSeq(q, 1, k) \in Seq(Node) /\ Len(SubSeq(q, 1, k)) = k
      /\ \A i \in 1..k : SubSeq(q, 1, k)[i] = q[i]
  BY <1>1, <1>3, TakeFacts
<1>5. Rising(SubSeq(q, 1, k)) /\ FramesIn(SubSeq(q, 1, k)) = Part(q, 1, k)
  <2>1. 1 \in 1..(Len(q) + 1) /\ k \in (1 - 1)..Len(q)
    BY <1>1, <1>3
  <2> QED BY <1>1, <1>3, <2>1, SubFrames
<1>6. /\ Rising(SubSeq(q, k + 1, Len(q)))
      /\ FramesIn(SubSeq(q, k + 1, Len(q))) = Part(q, k + 1, Len(q))
  <2>1. k + 1 \in 1..(Len(q) + 1) /\ Len(q) \in ((k + 1) - 1)..Len(q)
    BY <1>1, <1>3
  <2> QED BY <1>1, <1>3, <2>1, SubFrames
<1>7. FramesIn(q) = Part(q, 1, k) \cup Part(q, k + 1, Len(q))
  <2>1. Part(q, 1, Len(q)) = Part(q, 1, k) \cup Part(q, k + 1, Len(q))
    BY <1>1, <1>3, PartSplit
  <2> QED BY <1>1, <2>1, FrameFacts
<1>8. Part(q, 1, k) \cap Part(q, k + 1, Len(q)) = {}
  <2>1. 1 \in Nat /\ k + 1 \in Nat /\ 1 <= 1 /\ k < k + 1 /\ Len(q) <= Len(q)
    BY <1>1, <1>3
  <2> QED BY <1>1, <1>3, <2>1, PartsDisjoint
<1> QED BY <1>2, <1>4, <1>5, <1>6, <1>7, <1>8 DEF q

\* Trimming gives back what it takes from the queue.
LEMMA TrimSorted ==
  ASSUME NEW c, ChanInv(c), Rising(c.queue), NEW limit \in Nat
  PROVE  Sorted(TrimTo(c, limit), c, {})
<1>1. c \in Chan /\ Ordered(c.queue, c.match_cnt)
  BY DEF ChanInv
<1>2. c.match_cnt \in 0..Len(c.queue) /\ Len(c.queue) \in Nat
  BY <1>1, ChanFields DEF Ordered
<1>3. Leading(c.queue) = c.match_cnt
  BY <1>1, LeadingIsCount, ChanFields
<1>4. Excess(c, limit) \in 0..c.match_cnt
  BY <1>2 DEF Excess
<1> DEFINE k == First({Excess(c, limit), Leading(c.queue)}, 0)
<1>5. k \in 0..Len(c.queue)
  <2>1. {Excess(c, limit), c.match_cnt} \in SUBSET Nat
    BY <1>2, <1>4
  <2>2. {Excess(c, limit), c.match_cnt} # {}
    OBVIOUS
  <2>3. First({Excess(c, limit), c.match_cnt}, 0) \in {Excess(c, limit), c.match_cnt}
    BY <2>1, <2>2, FirstIsLeast
  <2> QED BY <1>2, <1>3, <1>4, <2>3
<1>6. /\ TrimTo(c, limit).chan = Drop(c, k)
      /\ TrimTo(c, limit).done = FramesIn(SubSeq(c.queue, 1, k))
  BY DEF TrimTo
<1> HIDE DEF k
<1>7. /\ Rising(Drop(c, k).queue)
      /\ FramesIn(c.queue) = FramesIn(Drop(c, k).queue) \cup FramesIn(SubSeq(c.queue, 1, k))
      /\ FramesIn(Drop(c, k).queue) \cap FramesIn(SubSeq(c.queue, 1, k)) = {}
  BY <1>1, <1>5, DropSorted
<1> QED BY <1>6, <1>7 DEF Sorted

\* The empty queue has no frames.
LEMMA NoFrames == FramesIn(<<>>) = {} /\ Rising(<<>>)
BY DEF FramesIn, Rising

\* Flushing gives back everything.
LEMMA FlushSorted ==
  ASSUME NEW c, ChanInv(c)
  PROVE  Sorted(Flush(c), c, {})
<1>1. Flush(c).chan.queue = <<>>
  BY FlushInv
<1>2. Flush(c).done = FramesIn(c.queue)
  BY DEF Flush, Result
<1> QED BY <1>1, <1>2, NoFrames DEF Sorted

\* A metadata frame may flush the queue before it is filed itself.
LEMMA MetadataSorted ==
  ASSUME NEW c, ChanInv(c), Rising(c.queue), NEW md \in MetaInfo
  PROVE  Sorted(HandleMetadata(c, md), c, {})
<1>1. c \in Chan /\ Ordered(c.queue, c.match_cnt)
  BY DEF ChanInv
<1>2. CASE md.prep = "NEED_FUTURE_FRAME"
  <2> DEFINE x == (c.expected_frame_id + MaxFutureFrameOffset) % FrameIdxLimit
             d == [c EXCEPT !.expected_frame_id = x]
  <2>1. x \in Counter
    BY <1>1, ChanFields, CounterFacts
  <2>2. HandleMetadata(c, md) = Flush(d)
    BY <1>2 DEF HandleMetadata
  <2> HIDE DEF x
  <2>3. d \in Chan /\ d.queue = c.queue /\ d.match_cnt = c.match_cnt
    BY <1>1, <2>1 DEF Chan
  <2> HIDE DEF d
  <2>4. ChanInv(d)
    BY <2>3 DEF ChanInv
  <2> QED BY <2>2, <2>3, <2>4, FlushSorted DEF Sorted
<1>3. CASE md.prep # "NEED_FUTURE_FRAME" /\ md.range # NoRange
  <2> DEFINE x == md.range
             d == [c EXCEPT !.expected_frame_id = x]
  <2>1. HandleMetadata(c, md) = Result(d, {})
    BY <1>3 DEF HandleMetadata
  <2> HIDE DEF x
  <2>2. d.queue = c.queue
    BY <1>1 DEF Chan
  <2> HIDE DEF d
  <2> QED BY <2>1, <2>2 DEF Sorted, Result
<1>4. CASE md.prep # "NEED_FUTURE_FRAME" /\ ~(md.range # NoRange)
  <2>1. HandleMetadata(c, md) = Result(c, {})
    BY <1>4 DEF HandleMetadata
  <2> QED BY <2>1 DEF Sorted, Result
<1> QED BY <1>2, <1>3, <1>4

\* A frame that joins its node: it is in the queue, and what it drives out is
\* given back.
LEMMA JoinSorted ==
  ASSUME NEW c, ChanInv(c), Rising(c.queue), NEW s \in Streams, NEW n \in FrameIdx,
         Same(c.queue, n) # {}
  PROVE  Sorted(Join(c, s, n), c, {<<s, n>>})
<1> DEFINE q      == c.queue
           m      == c.match_cnt
           p      == First(Same(q, n), 0)
           slots  == q[p].super_buf \cup {s}
           full   == Full(slots)
           oldest == First(Older(q, n), p)
           filled == [q EXCEPT ![p].super_buf = slots, ![p].matched = full]
           e      == [q[p] EXCEPT !.super_buf = slots, !.matched = full]
           f      == [q EXCEPT ![p] = e]
<1>1. /\ c \in Chan /\ Ordered(q, m) /\ q \in Seq(Node) /\ Len(q) \in Nat
      /\ m \in 0..Len(q) /\ m \in Nat /\ Rising(q)
  BY ChanFields DEF ChanInv, Ordered
<1>2. /\ p \in (m + 1)..Len(q) /\ q[p].frame_idx = n /\ oldest = m + 1
  BY <1>1, JoinPositions
<1>3. Join(c, s, n) =
        IF full THEN Result([c EXCEPT !.queue = Cut(filled, oldest, p),
                                      !.expected_frame_id = Expect(n),
                                      !.match_cnt = @ + 1],
                            FramesIn(SubSeq(q, oldest, p - 1)))
        ELSE Result([c EXCEPT !.queue = filled], {})
  BY DEF Join
<1> HIDE DEF p, oldest
<1>4. p \in 1..Len(q) /\ q[p] \in Node
  BY <1>1, <1>2, ChanFields
<1>5. e \in Node /\ e.frame_idx = q[p].frame_idx /\ e.super_buf = q[p].super_buf \cup {s}
  BY <1>4 DEF Node, Full
<1>6. filled = f
  BY <1>1, <1>4, ChanFields
<1> HIDE DEF e, full, filled
<1>7. /\ f \in Seq(Node) /\ Len(f) = Len(q)
      /\ \A j \in 1..Len(q) : f[j] = IF j = p THEN e ELSE q[j]
  BY <1>1, <1>4, <1>5, ReplaceFacts
<1> HIDE DEF f, q, m
<1>8. FramesIn(f) = FramesIn(q) \cup {<<s, n>>} /\ Rising(f)
  <2>1. Fills(f, q, p, s)
    BY <1>4, <1>5, <1>7 DEF Fills
  <2> QED BY <1>1, <1>2, <1>4, <1>7, <2>1, FillFrames
<1>9. CASE full
  <2> DEFINE r == Cut(f, oldest, p)
             D == FramesIn(SubSeq(q, oldest, p - 1))
             x == Expect(n)
             w == m + 1
             d == [c EXCEPT !.queue = r, !.expected_frame_id = x, !.match_cnt = w]
  <2>1. oldest \in 1..(Len(f) + 1) /\ p \in oldest..(Len(f) + 1)
    BY <1>1, <1>2, <1>7
  <2>2. /\ FramesIn(f) = FramesIn(r) \cup Part(f, oldest, p - 1) /\ Rising(r)
        /\ FramesIn(r) \cap Part(f, oldest, p - 1) = {}
    BY <1>7, <1>8, <2>1, CutFrames
  <2>3. Part(f, oldest, p - 1) = Part(q, oldest, p - 1)
    <3>1. \A i \in oldest..(p - 1) : i \in 1..Len(q) /\ i # p
      BY <1>1, <1>2
    <3>2. \A i \in oldest..(p - 1) : f[i] = q[i]
      BY <1>7, <3>1
    <3> QED BY <3>2 DEF Part
  <2>4. D = Part(q, oldest, p - 1)
    <3>1. oldest \in 1..(Len(q) + 1) /\ p - 1 \in (oldest - 1)..Len(q)
      BY <1>1, <1>2
    <3> QED BY <1>1, <3>1, SubFrames
  <2>5. Join(c, s, n) = Result(d, D)
    BY <1>3, <1>6, <1>9 DEF m, q
  <2> HIDE DEF r, D, x, w
  <2>6. d.queue = r
    BY <1>1 DEF Chan
  <2> HIDE DEF d
  <2> QED BY <1>8, <2>2, <2>3, <2>4, <2>5, <2>6 DEF Sorted, Result, q
<1>10. CASE ~full
  <2> DEFINE d == [c EXCEPT !.queue = f]
  <2>1. Join(c, s, n) = Result(d, {})
    BY <1>3, <1>6, <1>10
  <2>2. d.queue = f
    BY <1>1 DEF Chan
  <2> HIDE DEF d
  <2> QED BY <1>8, <2>1, <2>2 DEF Sorted, Result, q
<1> QED BY <1>9, <1>10

\* The first frame of its number: newer than every matched node, it is in the
\* queue in its place, or given back, and so is the node it drives out.
LEMMA InsertSorted ==
  ASSUME NEW c, ChanInv(c), Rising(c.queue), NEW s \in Streams, NEW n \in FrameIdx,
         Same(c.queue, n) = {}, NEW ok \in BOOLEAN,
         \A g \in FramesIn(c.queue) : g[1] = s => g[2] < n
  PROVE  Sorted(Insert(c, s, n, ok), c, {<<s, n>>})
<1> DEFINE q        == c.queue
           m        == c.match_cnt
           crowded  == Crowded(q, n)
           oldest   == First(Older(q, n), 0)
           before   == First(Newer(q, n), Len(q) + 1)
           single   == Streams = {s}
           new      == [frame_idx |-> n, super_buf |-> {s}, matched |-> single]
           evict(r) == IF crowded THEN Cut(r, oldest, oldest + 1) ELSE r
           evicted  == IF crowded THEN Frames(q[oldest]) ELSE {}
           f        == InsertBefore(q, before, new)
           g        == evict(f)
           x        == IF single THEN Expect(n) ELSE c.expected_frame_id
           w        == IF single THEN m + 1 ELSE m
           d        == [c EXCEPT !.queue = g, !.expected_frame_id = x,
                                 !.match_cnt = w]
<1>1. /\ c \in Chan /\ Ordered(q, m) /\ q \in Seq(Node) /\ Len(q) \in Nat
      /\ m \in 0..Len(q) /\ m \in Nat /\ Rising(q)
  BY ChanFields DEF ChanInv, Ordered
<1>2. /\ before \in (m + 1)..(Len(q) + 1)
      /\ \A i \in (m + 1)..(before - 1) : q[i].frame_idx < n
      /\ \A i \in before..Len(q) : n < q[i].frame_idx
      /\ oldest = 0 \/ (oldest = m + 1 /\ m < Len(q) /\ m + 1 < before)
  BY <1>1, InsertPositions
<1>3. Insert(c, s, n, ok) =
        IF crowded /\ oldest = 0 THEN Result(c, {<<s, n>>})
        ELSE IF ~ok THEN Result([c EXCEPT !.queue = evict(q)], evicted \cup {<<s, n>>})
        ELSE Result([c EXCEPT
                       !.queue = IF oldest < before THEN evict(f)
                                 ELSE InsertBefore(evict(q), before, new),
                       !.expected_frame_id = IF single THEN Expect(n) ELSE @,
                       !.match_cnt = IF single THEN @ + 1 ELSE @],
                    evicted)
  BY DEF Insert
<1> HIDE DEF oldest, before, crowded
<1>4. new \in Node /\ new.frame_idx = n /\ Frames(new) = {<<s, n>>}
  BY DEF Node, Frames
<1> HIDE DEF new
<1>5. <<s, n>> \notin FramesIn(q)
  BY NewerAbsent DEF FrameIdx
<1>6. ASSUME NEW i \in 1..(before - 1) PROVE q[i].frame_idx < n
  <2>1. i \in 1..Len(q) /\ (i <= m \/ i \in (m + 1)..(before - 1))
    BY <1>1, <1>2
  <2>2. CASE i <= m
    <3>1. q[i].super_buf = Streams
      BY <1>1, <2>1, <2>2 DEF Ordered
    <3>2. <<s, q[i].frame_idx>> \in Frames(q[i])
      BY <3>1, NodeFrames
    <3>3. <<s, q[i].frame_idx>> \in FramesIn(q)
      BY <1>1, <2>1, <3>2, FrameFacts DEF Part
    <3> QED BY <3>3
  <2> QED BY <1>2, <2>1, <2>2
<1>7. before \in 1..(Len(q) + 1)
  BY <1>1, <1>2
<1>8. /\ f \in Seq(Node) /\ Len(f) = Len(q) + 1 /\ Rising(f)
      /\ FramesIn(f) = FramesIn(q) \cup {<<s, n>>}
      /\ \A i \in 1..(Len(q) + 1) :
           f[i] = IF i < before THEN q[i] ELSE IF i = before THEN new ELSE q[i - 1]
  <2>1. f = InsertBefore(q, before, new)
    OBVIOUS
  <2> HIDE DEF f, q
  <2>2. /\ InsertBefore(q, before, new) \in Seq(Node)
        /\ Len(InsertBefore(q, before, new)) = Len(q) + 1
        /\ \A i \in 1..(Len(q) + 1) :
             InsertBefore(q, before, new)[i] =
               IF i < before THEN q[i]
               ELSE IF i = before THEN new ELSE q[i - 1]
    <3>1. q \in Seq(Node) /\ new \in Node
      BY <1>1, <1>4
    <3>2. Inserted(q, before, new)
      BY <1>7, <3>1, InsertedNode
    <3> QED BY <3>2 DEF Inserted
  <2>3. /\ FramesIn(InsertBefore(q, before, new)) = FramesIn(q) \cup {<<s, n>>}
        /\ Rising(InsertBefore(q, before, new))
    BY <1>1, <1>2, <1>4, <1>6, <1>7, InsertFrames
  <2> QED BY <2>1, <2>2, <2>3, Zenon
<1> HIDE DEF f
<1>9. crowded /\ oldest # 0 =>
        /\ Rising(Cut(q, oldest, oldest + 1))
        /\ FramesIn(q) = FramesIn(Cut(q, oldest, oldest + 1)) \cup Frames(q[oldest])
        /\ FramesIn(Cut(q, oldest, oldest + 1)) \cap Frames(q[oldest]) = {}
  <2> HAVE crowded /\ oldest # 0
  <2>1. /\ oldest \in 1..(Len(q) + 1) /\ oldest + 1 \in oldest..(Len(q) + 1)
        /\ oldest \in Int
    BY <1>1, <1>2
  <2>2. Part(q, oldest, (oldest + 1) - 1) = Frames(q[oldest])
    BY <2>1, OneInterval DEF Part
  <2> QED BY <1>1, <2>1, <2>2, CutFrames
<1>10. crowded /\ oldest # 0 =>
        /\ Rising(Cut(f, oldest, oldest + 1))
        /\ FramesIn(f) = FramesIn(Cut(f, oldest, oldest + 1)) \cup Frames(q[oldest])
        /\ FramesIn(Cut(f, oldest, oldest + 1)) \cap Frames(q[oldest]) = {}
  <2> HAVE crowded /\ oldest # 0
  <2>1. /\ oldest \in 1..(Len(f) + 1) /\ oldest + 1 \in oldest..(Len(f) + 1)
        /\ oldest \in 1..(Len(q) + 1) /\ oldest < before /\ oldest \in Int
    BY <1>1, <1>2, <1>8
  <2>2. Part(f, oldest, (oldest + 1) - 1) = Frames(q[oldest])
    <3>1. f[oldest] = q[oldest]
      BY <1>8, <2>1
    <3> QED BY <2>1, <3>1, OneInterval DEF Part
  <2> QED BY <1>8, <2>1, <2>2, CutFrames
<1>11. CASE crowded /\ oldest = 0
  <2>1. Insert(c, s, n, ok) = Result(c, {<<s, n>>})
    BY <1>3, <1>11
  <2> QED BY <1>1, <1>5, <2>1 DEF Sorted, Result
<1>12. CASE ~ (crowded /\ oldest = 0) /\ ~ok
  <2> DEFINE r == evict(q)
             k == [c EXCEPT !.queue = r]
             E == evicted
  <2>1. Rising(r) /\ FramesIn(q) = FramesIn(r) \cup E /\ FramesIn(r) \cap E = {}
    BY <1>1, <1>9, <1>12
  <2>2. Insert(c, s, n, ok) = Result(k, E \cup {<<s, n>>})
    BY <1>3, <1>12
  <2> HIDE DEF r, E
  <2>3. k.queue = r
    BY <1>1 DEF Chan
  <2> HIDE DEF k
  <2> QED BY <1>5, <2>1, <2>2, <2>3 DEF Sorted, Result
<1>13. CASE ~ (crowded /\ oldest = 0) /\ ok
  <2> DEFINE E == evicted
  <2>1. oldest < before
    BY <1>1, <1>2
  <2>2. Insert(c, s, n, ok) = Result(d, E)
    BY <1>3, <1>13, <2>1
  <2>3. Rising(g) /\ FramesIn(f) = FramesIn(g) \cup E /\ FramesIn(g) \cap E = {}
    BY <1>8, <1>10, <1>13
  <2> HIDE DEF g, x, w, E
  <2>4. d.queue = g
    BY <1>1 DEF Chan
  <2> HIDE DEF d
  <2> QED BY <1>8, <2>2, <2>3, <2>4 DEF Sorted, Result
<1> QED BY <1>11, <1>12, <1>13

\* The whole of comp_and_enqueue: each frame is queued or given back; only a
\* metadata frame that is refused is neither.
LEMMA CompSorted ==
  ASSUME NEW c, ChanInv(c), Rising(c.queue), NEW s \in Streams, NEW n \in FrameIdx,
         NEW md \in MetaInfo, NEW ok \in BOOLEAN,
         \A g \in FramesIn(c.queue) : g[1] = s => g[2] < n
  PROVE  Sorted(CompAndEnqueue(c, s, n, md, ok), c,
                IF Contradictory(md) THEN {} ELSE {<<s, n>>})
<1>1. CASE Contradictory(md)
  <2>1. CompAndEnqueue(c, s, n, md, ok) = Result(c, {})
    BY <1>1 DEF CompAndEnqueue
  <2> QED BY <1>1, <2>1 DEF Sorted, Result
<1>2. CASE ~Contradictory(md)
  <2> DEFINE h == HandleMetadata(c, md)
             r == IF n < h.chan.expected_frame_id THEN TooOld(h.chan, s, n)
                  ELSE IF Same(h.chan.queue, n) # {} THEN Join(h.chan, s, n)
                  ELSE Insert(h.chan, s, n, ok)
  <2>1. CompAndEnqueue(c, s, n, md, ok) = [r EXCEPT !.done = r.done \cup h.done]
    BY <1>2 DEF CompAndEnqueue
  <2>2. ChanInv(h.chan)
    BY MetadataInv DEF Steady
  <2>3. Sorted(h, c, {})
    BY MetadataSorted
  <2>4. \A g \in FramesIn(h.chan.queue) : g[1] = s => g[2] < n
    BY <2>3 DEF Sorted
  <2>5. <<s, n>> \notin FramesIn(c.queue) /\ <<s, n>> \notin FramesIn(h.chan.queue)
    BY <2>4, NewerAbsent DEF FrameIdx
  <2>6. Sorted(r, h.chan, {<<s, n>>})
    <3>1. CASE n < h.chan.expected_frame_id
      <4>1. r = Result(h.chan, {<<s, n>>})
        BY <3>1 DEF TooOld
      <4> QED BY <2>3, <2>5, <4>1 DEF Sorted, Result
    <3>2. CASE ~(n < h.chan.expected_frame_id) /\ Same(h.chan.queue, n) # {}
      BY <2>2, <2>3, <3>2, JoinSorted DEF Sorted
    <3>3. CASE ~(n < h.chan.expected_frame_id) /\ Same(h.chan.queue, n) = {}
      <4>1. Rising(h.chan.queue)
        BY <2>3 DEF Sorted
      <4> QED BY <2>2, <2>4, <3>3, <4>1, InsertSorted
    <3> QED BY <3>1, <3>2, <3>3
  <2>7. r = [chan |-> r.chan, done |-> r.done, hang |-> r.hang]
    BY DEF TooOld, Join, Insert, Result
  <2> HIDE DEF r, h
  <2>8. /\ CompAndEnqueue(c, s, n, md, ok).chan = r.chan
        /\ CompAndEnqueue(c, s, n, md, ok).done = r.done \cup h.done
    BY <2>1, <2>7
  <2> QED BY <1>2, <2>3, <2>5, <2>6, <2>8 DEF Sorted
<1> QED BY <1>1, <1>2

-----------------------------------------------------------------------------
(* A command is finished.                                                  *)

\* What the command thread makes of the queue and the frames F: it sends out,
\* gives gone back, loses lost, and keeps the rest, which is newer than what it
\* sends.
Sends(out, gone, lost, F) ==
  /\ out \in Seq(Node) /\ Rising(out) /\ WholeOnes(out)
  /\ Rising(chan'.queue)
  /\ FramesIn(out) \cup FramesIn(chan'.queue) \cup gone \cup lost = FramesIn(chan.queue) \cup F
  /\ gone \cap (FramesIn(out) \cup FramesIn(chan'.queue)) = {}
  /\ lost \cap (FramesIn(out) \cup FramesIn(chan'.queue) \cup gone) = {}
  /\ \A i \in 1..Len(out), g \in FramesIn(chan'.queue) : out[i].frame_idx < g[2]
  /\ cbq' = cbq \o out
  /\ sent' = IF out # <<>> THEN out[Len(out)].frame_idx ELSE sent
  /\ user' = user \ gone
  /\ leaked' = leaked \cup lost

\* The positions picked.
Chosen(at) == {at[i] : i \in 1..Len(at)}

\* Different positions of a queue in order have different frames.
LEMMA FramesApart ==
  ASSUME NEW q \in Seq(Node), Rising(q), NEW I \in SUBSET (1..Len(q)),
         NEW J \in SUBSET (1..Len(q)), I \cap J = {}
  PROVE  FramesAt(q, I) \cap FramesAt(q, J) = {}
<1> SUFFICES ASSUME NEW g \in FramesAt(q, I), g \in FramesAt(q, J) PROVE FALSE
  OBVIOUS
<1>1. PICK i \in I : g \in Frames(q[i])
  BY DEF FramesAt
<1>2. PICK j \in J : g \in Frames(q[j])
  BY DEF FramesAt
<1>3. g[2] = q[i].frame_idx /\ g[2] = q[j].frame_idx
  BY <1>1, <1>2, NodeNumber
<1>4. i \in 1..Len(q) /\ j \in 1..Len(q) /\ (i < j \/ j < i)
  BY FrameFacts
<1>5. q[i].frame_idx \in Nat
  BY <1>4, FrameFacts
<1>6. q[i].frame_idx < q[j].frame_idx \/ q[j].frame_idx < q[i].frame_idx
  BY <1>4 DEF Rising
<1> QED BY <1>3, <1>5, <1>6

\* The super buffers picked, and the others.
LEMMA PickFrames ==
  ASSUME NEW out \in Seq(Node), NEW at \in Picks(Len(out))
  PROVE  /\ Chosen(at) \subseteq 1..Len(out) /\ Others(out, at) = (1..Len(out)) \ Chosen(at)
         /\ FramesIn(Pick(out, at)) = FramesAt(out, Chosen(at))
         /\ FramesIn(out) = FramesAt(out, Chosen(at)) \cup FramesAt(out, Others(out, at))
         /\ Rising(out) => Rising(Pick(out, at))
         /\ WholeOnes(out) => WholeOnes(Pick(out, at))
<1> DEFINE p == Pick(out, at)
<1>1. /\ p \in Seq(Node) /\ Len(p) = Len(at) /\ Len(at) \in Nat /\ DOMAIN at = 1..Len(at)
      /\ \A i \in 1..Len(at) : at[i] \in 1..Len(out) /\ p[i] = out[at[i]]
      /\ \A i, j \in 1..Len(at) : i < j => at[i] < at[j]
  BY PickFacts
<1> HIDE DEF p
<1>2. Chosen(at) \subseteq 1..Len(out)
  BY <1>1 DEF Chosen
<1>3. Others(out, at) = (1..Len(out)) \ Chosen(at)
  <2>1. DOMAIN out = 1..Len(out)
    BY LenProperties
  <2> QED BY <1>1, <2>1 DEF Others, Chosen
<1>4. FramesIn(p) = FramesAt(out, Chosen(at))
  <2>1. FramesIn(p) = Part(p, 1, Len(p))
    BY <1>1, FrameFacts
  <2>2. ASSUME NEW g \in FramesIn(p) PROVE g \in FramesAt(out, Chosen(at))
    <3>1. PICK i \in 1..Len(p) : g \in Frames(p[i])
      BY <2>1, <2>2 DEF Part
    <3>2. at[i] \in Chosen(at) /\ p[i] = out[at[i]]
      BY <1>1 DEF Chosen
    <3> QED BY <3>1, <3>2 DEF FramesAt
  <2>3. ASSUME NEW g \in FramesAt(out, Chosen(at)) PROVE g \in FramesIn(p)
    <3>1. PICK i \in 1..Len(at) : g \in Frames(out[at[i]])
      BY <2>3 DEF FramesAt, Chosen
    <3>2. i \in 1..Len(p) /\ p[i] = out[at[i]]
      BY <1>1
    <3> QED BY <2>1, <3>1, <3>2 DEF Part
  <2> QED BY <2>2, <2>3
<1>5. FramesIn(out) = FramesAt(out, Chosen(at)) \cup FramesAt(out, Others(out, at))
  <2>1. FramesIn(out) = UNION {Frames(out[i]) : i \in 1..Len(out)}
    BY FrameFacts DEF Part
  <2> QED BY <1>2, <1>3, <2>1 DEF FramesAt
<1>6. ASSUME Rising(out) PROVE Rising(p)
  BY <1>1, <1>6 DEF Rising
<1>7. ASSUME WholeOnes(out) PROVE WholeOnes(p)
  BY <1>1, <1>7 DEF WholeOnes
<1> QED BY <1>2, <1>3, <1>4, <1>5, <1>6, <1>7 DEF p

\* What the messages of Send come to: of out, the frames all being given back
\* already and refused being lost already, some are sent, some given back and the
\* others lost.
Messages(out, all, refused, p, gone, lost) ==
  /\ p \in Seq(Node) /\ (Rising(out) => Rising(p)) /\ (WholeOnes(out) => WholeOnes(p))
  /\ \A i \in 1..Len(p) : \E j \in 1..Len(out) : p[i] = out[j]
  /\ gone \cup lost \cup FramesIn(p) = FramesIn(out) \cup all \cup refused
  /\ all \subseteq gone /\ gone \subseteq all \cup FramesIn(out)
  /\ refused \subseteq lost /\ lost \subseteq refused \cup FramesIn(out)
  /\ Rising(out) => /\ gone \cap FramesIn(p) \subseteq all
                    /\ lost \cap FramesIn(p) \subseteq refused
                    /\ gone \cap lost \subseteq all \cup refused
  /\ cbq' = cbq \o p
  /\ sent' = IF p # <<>> THEN p[Len(p)].frame_idx ELSE sent
  /\ user' = user \ gone
  /\ leaked' = leaked \cup lost

LEMMA SendMessages ==
  ASSUME NEW out \in Seq(Node), NEW all, NEW refused, Send(out, all, refused)
  PROVE  \E p, gone, lost : Messages(out, all, refused, p, gone, lost)
<1>1. PICK at \in Picks(Len(out)) : \E left \in SUBSET Others(out, at) :
        /\ cbq' = cbq \o Pick(out, at)
        /\ sent' = IF at # <<>> THEN out[at[Len(at)]].frame_idx ELSE sent
        /\ user' = user \ (all \cup FramesAt(out, Others(out, at) \ left))
        /\ leaked' = leaked \cup refused \cup FramesAt(out, left)
  BY DEF Send
<1>2. PICK left \in SUBSET Others(out, at) :
        /\ cbq' = cbq \o Pick(out, at)
        /\ sent' = IF at # <<>> THEN out[at[Len(at)]].frame_idx ELSE sent
        /\ user' = user \ (all \cup FramesAt(out, Others(out, at) \ left))
        /\ leaked' = leaked \cup refused \cup FramesAt(out, left)
  BY <1>1
<1> DEFINE p    == Pick(out, at)
           back == Others(out, at) \ left
           gone == all \cup FramesAt(out, back)
           lost == refused \cup FramesAt(out, left)
<1>3. /\ p \in Seq(Node) /\ Len(p) = Len(at) /\ Len(at) \in Nat
      /\ \A i \in 1..Len(at) : at[i] \in 1..Len(out) /\ p[i] = out[at[i]]
      /\ at # <<>> => Len(at) \in 1..Len(at)
      /\ at = <<>> => p = <<>>
  BY PickFacts
<1>4. /\ Chosen(at) \subseteq 1..Len(out) /\ Others(out, at) = (1..Len(out)) \ Chosen(at)
      /\ FramesIn(p) = FramesAt(out, Chosen(at))
      /\ FramesIn(out) = FramesAt(out, Chosen(at)) \cup FramesAt(out, Others(out, at))
      /\ Rising(out) => Rising(p)
      /\ WholeOnes(out) => WholeOnes(p)
  BY PickFrames
<1> HIDE DEF p
<1>5. sent' = IF p # <<>> THEN p[Len(p)].frame_idx ELSE sent
  <2>1. CASE at = <<>>
    BY <1>2, <1>3, <2>1
  <2>2. CASE at # <<>>
    <3>1. p # <<>>
      <4>1. Len(p) # 0
        BY <1>3, <2>2
      <4> QED BY <1>3, <4>1, EmptySeq
    <3>2. p[Len(p)] = out[at[Len(at)]]
      BY <1>3, <2>2
    <3> QED BY <1>2, <2>2, <3>1, <3>2
  <2> QED BY <2>1, <2>2
<1>6. FramesAt(out, Others(out, at)) = FramesAt(out, back) \cup FramesAt(out, left)
  BY DEF FramesAt
<1>7. /\ back \in SUBSET (1..Len(out)) /\ left \in SUBSET (1..Len(out))
      /\ Chosen(at) \in SUBSET (1..Len(out))
      /\ back \cap Chosen(at) = {} /\ left \cap Chosen(at) = {} /\ back \cap left = {}
  BY <1>4
<1> HIDE DEF back
<1>8. ASSUME Rising(out)
      PROVE  /\ FramesAt(out, back) \cap FramesIn(p) = {}
             /\ FramesAt(out, left) \cap FramesIn(p) = {}
             /\ FramesAt(out, back) \cap FramesAt(out, left) = {}
  BY <1>4, <1>7, <1>8, FramesApart
<1>9. /\ gone \cup lost \cup FramesIn(p) = FramesIn(out) \cup all \cup refused
      /\ all \subseteq gone /\ gone \subseteq all \cup FramesIn(out)
      /\ refused \subseteq lost /\ lost \subseteq refused \cup FramesIn(out)
  BY <1>4, <1>6
<1>10. ASSUME Rising(out)
       PROVE  /\ gone \cap FramesIn(p) \subseteq all
              /\ lost \cap FramesIn(p) \subseteq refused
              /\ gone \cap lost \subseteq all \cup refused
  BY <1>8, <1>10
<1>11. \A i \in 1..Len(p) : \E j \in 1..Len(out) : p[i] = out[j]
  BY <1>3
<1>12. cbq' = cbq \o p /\ user' = user \ gone /\ leaked' = leaked \cup lost
  BY <1>2 DEF p, back
<1> HIDE DEF gone, lost
<1>13. Messages(out, all, refused, p, gone, lost)
  BY <1>3, <1>4, <1>5, <1>9, <1>10, <1>11, <1>12 DEF Messages
<1> QED BY <1>13

\* The tail of mm_channel_process_stream_buf sends, gives back, loses and keeps.
LEMMA FinishSends ==
  ASSUME Inv, NEW X, NEW refused, NEW r, ChanInv(r.chan), r.hang = FALSE, Sorted(r, chan, X),
         Finish(r, refused), refused \cap (FramesIn(chan.queue) \cup X) = {}
  PROVE  \E out, gone, lost : Sends(out, gone, lost, X \cup refused)
<1> DEFINE o   == Overflow(r.chan)
           c   == o.chan
           out == SubSeq(c.queue, 1, Ready(c))
           all == r.done \cup o.done
<1>1. ChanInv(c) /\ o.hang = FALSE /\ Sorted(o, r.chan, {})
  <2>1. WaterMark \in Nat
    BY ParameterAssumption
  <2>2. ChanInv(TrimTo(r.chan, WaterMark).chan) /\ TrimTo(r.chan, WaterMark).hang = FALSE
    BY <2>1, TrimInv
  <2>3. Sorted(TrimTo(r.chan, WaterMark), r.chan, {})
    BY <2>1, TrimSorted DEF Sorted
  <2> QED BY <2>2, <2>3 DEF Overflow
<1>2. chan' = Dispatched(c) /\ Send(out, all, refused)
  BY <1>1 DEF Finish
<1>3. /\ FramesIn(c.queue) \cup all = FramesIn(chan.queue) \cup X
      /\ FramesIn(c.queue) \cap all = {} /\ Rising(c.queue)
  BY <1>1 DEF Sorted
<1> HIDE DEF o, all
<1>4. /\ c \in Chan /\ Ordered(c.queue, c.match_cnt) /\ c.queue \in Seq(Node)
      /\ Len(c.queue) \in Nat /\ c.match_cnt \in 0..Len(c.queue)
  BY <1>1, ChanFields DEF ChanInv, Ordered
<1>5. Ready(c) \in 0..c.match_cnt
  BY <1>1, DispatchInv
<1> HIDE DEF c
<1>6. Ready(c) \in 0..Len(c.queue)
  BY <1>4, <1>5
<1>7. Dispatched(c).queue = Drop(c, Ready(c)).queue
  <2> DEFINE d == Drop(c, Ready(c))
             x == IF c.notify_mode = BURST THEN d.pending_cnt - Ready(c) ELSE d.pending_cnt
  <2>1. Dispatched(c) = [d EXCEPT !.pending_cnt = x]
    BY DEF Dispatched
  <2>2. d = [c EXCEPT !.queue = d.queue, !.match_cnt = d.match_cnt]
    BY <1>4 DEF Drop, Chan
  <2> HIDE DEF d, x
  <2>3. [d EXCEPT !.pending_cnt = x].queue = d.queue
    BY <1>4, <2>2 DEF Chan
  <2> QED BY <2>1, <2>3 DEF d
<1>8. /\ out \in Seq(Node) /\ Len(out) = Ready(c) /\ Rising(out)
      /\ \A i \in 1..Ready(c) : out[i] = c.queue[i]
      /\ Rising(chan'.queue)
      /\ FramesIn(chan'.queue) = Part(c.queue, Ready(c) + 1, Len(c.queue))
      /\ FramesIn(c.queue) = FramesIn(chan'.queue) \cup FramesIn(out)
      /\ FramesIn(chan'.queue) \cap FramesIn(out) = {}
  BY <1>2, <1>3, <1>4, <1>6, <1>7, DropSorted
<1>9. WholeOnes(out)
  <2> SUFFICES ASSUME NEW i \in 1..Len(out) PROVE out[i].super_buf = Streams
    BY DEF WholeOnes
  <2>1. i \in 1..Len(c.queue) /\ i <= c.match_cnt /\ out[i] = c.queue[i]
    BY <1>4, <1>5, <1>8
  <2> QED BY <1>4, <2>1 DEF Ordered
<1>10. \A i \in 1..Len(out), g \in FramesIn(chan'.queue) : out[i].frame_idx < g[2]
  <2> TAKE i \in 1..Len(out), g \in FramesIn(chan'.queue)
  <2>1. PICK j \in (Ready(c) + 1)..Len(c.queue) : g \in Frames(c.queue[j])
    BY <1>8 DEF Part
  <2>2. i \in 1..Len(c.queue) /\ j \in 1..Len(c.queue) /\ i < j /\ i \in 1..Ready(c)
    BY <1>4, <1>6, <1>8
  <2>3. g[2] = c.queue[j].frame_idx
    BY <2>1, NodeNumber
  <2> QED BY <1>3, <1>8, <2>2, <2>3 DEF Rising
<1> HIDE DEF out
<1>11. \E p, gone, lost : Messages(out, all, refused, p, gone, lost)
  BY <1>2, <1>8, SendMessages
<1>12. PICK p, gone, lost : Messages(out, all, refused, p, gone, lost)
  BY <1>11
<1>13. /\ p \in Seq(Node) /\ Rising(p) /\ WholeOnes(p)
       /\ \A i \in 1..Len(p) : \E j \in 1..Len(out) : p[i] = out[j]
       /\ gone \cup lost \cup FramesIn(p) = FramesIn(out) \cup all \cup refused
       /\ gone \subseteq all \cup FramesIn(out) /\ lost \subseteq refused \cup FramesIn(out)
       /\ gone \cap FramesIn(p) \subseteq all /\ lost \cap FramesIn(p) \subseteq refused
       /\ gone \cap lost \subseteq all \cup refused
       /\ FramesIn(p) \subseteq FramesIn(out) \cup all \cup refused
  BY <1>8, <1>9, <1>12 DEF Messages
<1>14. FramesIn(p) \subseteq FramesIn(out)
  <2> SUFFICES ASSUME NEW g \in FramesIn(p) PROVE g \in FramesIn(out)
    OBVIOUS
  <2>1. PICK i \in 1..Len(p) : g \in Frames(p[i])
    BY <1>13, FrameFacts DEF Part
  <2>2. PICK j \in 1..Len(out) : p[i] = out[j]
    BY <1>13
  <2>3. g \in Part(out, 1, Len(out))
    BY <2>1, <2>2 DEF Part
  <2> QED BY <1>8, <2>3, FrameFacts
<1>15. refused \cap all = {} /\ refused \cap FramesIn(c.queue) = {}
  BY <1>3
<1>16. /\ FramesIn(p) \cup FramesIn(chan'.queue) \cup gone \cup lost
            = FramesIn(chan.queue) \cup (X \cup refused)
       /\ gone \cap (FramesIn(p) \cup FramesIn(chan'.queue)) = {}
  BY <1>3, <1>8, <1>13, <1>14, <1>15
<1>17. lost \cap (FramesIn(p) \cup FramesIn(chan'.queue) \cup gone) = {}
  <2>1. lost \cap FramesIn(p) = {} /\ lost \cap FramesIn(chan'.queue) = {}
    BY <1>8, <1>13, <1>14, <1>15
  <2>2. lost \cap all = {} /\ refused \cap gone = {}
    BY <1>3, <1>8, <1>13, <1>15
  <2> QED BY <1>13, <2>1, <2>2
<1>18. \A i \in 1..Len(p), g \in FramesIn(chan'.queue) : p[i].frame_idx < g[2]
  BY <1>10, <1>13
<1>19. Sends(p, gone, lost, X \cup refused)
  BY <1>8, <1>12, <1>13, <1>16, <1>17, <1>18 DEF Sends, Messages
<1> QED BY <1>19

\* Nodes of whole super buffers: their frames are queued.
LEMMA WholeFrames ==
  ASSUME NEW q \in Seq(Node), WholeOnes(q), NEW i \in 1..Len(q)
  PROVE  /\ Frames(q[i]) = Streams \X {q[i].frame_idx}
         /\ Frames(q[i]) \subseteq FramesIn(q)
         /\ \A s \in Streams : <<s, q[i].frame_idx>> \in FramesIn(q)
<1>1. Frames(q[i]) = {<<s, q[i].frame_idx>> : s \in Streams}
  BY DEF WholeOnes, Frames
<1>2. Frames(q[i]) \subseteq FramesIn(q)
  BY FrameFacts DEF Part
<1>3. {<<s, q[i].frame_idx>> : s \in Streams} = Streams \X {q[i].frame_idx}
  OBVIOUS
<1> QED BY <1>1, <1>2, <1>3

\* What the command thread has to work on: what is queued and what it has just
\* been given is newer than what was sent, and the other commands bring newer
\* frames still.
Given(F) ==
  /\ \A g \in F : g \in user /\ g \notin leaked /\ sent < g[2]
  /\ \A i \in 2..Len(cmdq) : cmdq[i].cmd_type = "DATA_CB" =>
       \A g \in F : g[1] = cmdq[i].stream => g[2] < cmdq[i].frame_idx

\* The numbers of the frames it works on, and of what was sent.
LEMMA SendsNumbers ==
  ASSUME Inv, QueueOK, OutOK, NEW F, Given(F), NEW out, NEW gone, NEW lost,
         Sends(out, gone, lost, F)
  PROVE  /\ \A g \in FramesIn(chan.queue) \cup F :
              g \in user /\ g \in Frame /\ sent < g[2] /\ g[2] \in Nat
         /\ \A i \in 1..Len(out) : sent < out[i].frame_idx /\ out[i].frame_idx <= sent'
         /\ sent \in Nat /\ sent' \in Nat /\ sent <= sent'
         /\ \A g \in FramesIn(chan'.queue) : sent' < g[2]
         /\ sent' = sent \/ \A s \in Streams : <<s, sent'>> \in FramesIn(out)
         /\ \A i \in 1..Len(cbq) : Frames(cbq[i]) \cap (gone \cup lost) = {}
         /\ client \cap (gone \cup lost) = {}
<1>1. /\ out \in Seq(Node) /\ Rising(out) /\ WholeOnes(out) /\ Len(out) \in Nat
      /\ \A i \in 1..Len(out) : out[i].frame_idx \in Nat
      /\ user \subseteq Frame /\ sent \in Nat /\ cbq \in Seq(Node)
      /\ FramesIn(out) \cup FramesIn(chan'.queue) \cup gone \cup lost
           = FramesIn(chan.queue) \cup F
  BY FrameFacts, ParameterAssumption DEF Sends, Inv, TypeOK
<1>2. \A g \in FramesIn(chan.queue) \cup F :
        g \in user /\ g \in Frame /\ sent < g[2] /\ g[2] \in Nat
  BY <1>1 DEF QueueOK, Given, Frame, FrameIdx
<1>3. Streams # {}
  BY ParameterAssumption
<1>4. ASSUME NEW i \in 1..Len(out) PROVE sent < out[i].frame_idx
  <2>1. PICK s \in Streams : TRUE
    BY <1>3
  <2>2. <<s, out[i].frame_idx>> \in FramesIn(chan.queue) \cup F
    BY <1>1, WholeFrames
  <2> QED BY <1>2, <2>2
<1>5. CASE out = <<>>
  <2>1. sent' = sent /\ 1..Len(out) = {}
    BY <1>1, <1>5 DEF Sends
  <2>2. \A g \in FramesIn(chan'.queue) : sent' < g[2]
    BY <1>1, <1>2, <2>1
  <2>3. \A i \in 1..Len(cbq) : Frames(cbq[i]) \cap (gone \cup lost) = {}
    <3> SUFFICES ASSUME NEW i \in 1..Len(cbq), NEW g \in Frames(cbq[i]), g \in gone \cup lost PROVE FALSE
      OBVIOUS
    <3>1. g[2] = cbq[i].frame_idx /\ cbq[i].frame_idx <= sent
      BY NodeNumber DEF OutOK
    <3> QED BY <1>1, <1>2, <3>1
  <2>4. client \cap (gone \cup lost) = {}
    <3> SUFFICES ASSUME NEW g \in client, g \in gone \cup lost PROVE FALSE
      OBVIOUS
    <3>1. g[2] <= sent
      BY DEF OutOK
    <3> QED BY <1>1, <1>2, <3>1
  <2> QED BY <1>1, <1>2, <2>1, <2>2, <2>3, <2>4
<1>6. CASE out # <<>>
  <2> DEFINE k == Len(out)
  <2>1. k \in 1..Len(out) /\ sent' = out[k].frame_idx
    BY <1>1, <1>6, EmptySeq DEF Sends
  <2>2. sent' \in Nat /\ sent < sent' /\ \A s \in Streams : <<s, sent'>> \in FramesIn(out)
    BY <1>1, <1>4, <2>1, WholeFrames
  <2>3. ASSUME NEW i \in 1..Len(out) PROVE out[i].frame_idx <= sent'
    <3>1. i = k \/ i < k
      BY <1>1
    <3> QED BY <1>1, <2>1, <3>1 DEF Rising
  <2>4. \A g \in FramesIn(chan'.queue) : sent' < g[2]
    BY <2>1 DEF Sends
  <2>5. \A i \in 1..Len(cbq) : Frames(cbq[i]) \cap (gone \cup lost) = {}
    <3> SUFFICES ASSUME NEW i \in 1..Len(cbq), NEW g \in Frames(cbq[i]), g \in gone \cup lost PROVE FALSE
      OBVIOUS
    <3>1. g[2] = cbq[i].frame_idx /\ cbq[i].frame_idx <= sent
      BY NodeNumber DEF OutOK
    <3> QED BY <1>1, <1>2, <3>1
  <2>6. client \cap (gone \cup lost) = {}
    <3> SUFFICES ASSUME NEW g \in client, g \in gone \cup lost PROVE FALSE
      OBVIOUS
    <3>1. g[2] <= sent
      BY DEF OutOK
    <3> QED BY <1>1, <1>2, <3>1
  <2> QED BY <1>1, <1>2, <1>4, <2>2, <2>3, <2>4, <2>5, <2>6
<1> QED BY <1>5, <1>6

\* A step of the command thread keeps every frame in its place.
LEMMA SendsPlaced ==
  ASSUME Placed, Inv', NEW F, Given(F), NEW out, NEW gone, NEW lost, Sends(out, gone, lost, F),
         cmdq # <<>>, cmdq' = Tail(cmdq), last' = last, client' = client,
         CmdFrames(cmdq) = F \cup CmdFrames(cmdq')
  PROVE  Placed'
<1>1. /\ Inv /\ QueueOK /\ OutOK /\ user \subseteq Frame /\ cbq \in Seq(Node)
      /\ cmdq \in Seq(Cmd) /\ last \in [Streams -> 0..MaxFrame]
      /\ Len(cmdq) \in Nat /\ Len(cbq) \in Nat
      /\ \A i \in 1..Len(cbq) : cbq[i].frame_idx \in Nat
  <2>1. cbq \in Seq(Node) /\ cmdq \in Seq(Cmd)
    BY DEF Placed, Inv, TypeOK
  <2> QED BY <2>1, FrameFacts, LenProperties DEF Placed, Inv, TypeOK
<1>2. /\ \A g \in FramesIn(chan.queue) \cup F :
           g \in user /\ g \in Frame /\ sent < g[2] /\ g[2] \in Nat
      /\ \A i \in 1..Len(out) : sent < out[i].frame_idx /\ out[i].frame_idx <= sent'
      /\ sent \in Nat /\ sent' \in Nat /\ sent <= sent'
      /\ \A g \in FramesIn(chan'.queue) : sent' < g[2]
      /\ sent' = sent \/ \A s \in Streams : <<s, sent'>> \in FramesIn(out)
      /\ \A i \in 1..Len(cbq) : Frames(cbq[i]) \cap (gone \cup lost) = {}
      /\ client \cap (gone \cup lost) = {}
  BY <1>1, SendsNumbers
<1>3. /\ out \in Seq(Node) /\ Rising(out) /\ WholeOnes(out) /\ Rising(chan'.queue)
      /\ FramesIn(out) \cup FramesIn(chan'.queue) \cup gone \cup lost
           = FramesIn(chan.queue) \cup F
      /\ gone \cap (FramesIn(out) \cup FramesIn(chan'.queue)) = {}
      /\ lost \cap (FramesIn(out) \cup FramesIn(chan'.queue) \cup gone) = {}
      /\ cbq' = cbq \o out /\ user' = user \ gone /\ leaked' = leaked \cup lost
      /\ Len(out) \in Nat /\ \A i \in 1..Len(out) : out[i].frame_idx \in Nat
  BY FrameFacts DEF Sends
<1>4. QueueOK'
  BY <1>2, <1>3 DEF QueueOK
<1>5. /\ Len(cmdq') = Len(cmdq) - 1 /\ cmdq' \in Seq(Cmd)
      /\ \A i \in 1..Len(cmdq') : i + 1 \in 2..Len(cmdq) /\ i + 1 \in 1..Len(cmdq)
                                  /\ cmdq'[i] = cmdq[i + 1]
  <2>1. /\ Len(cmdq') = Len(cmdq) - 1 /\ cmdq' \in Seq(Cmd)
        /\ \A i \in 1..Len(cmdq') : cmdq'[i] = cmdq[i + 1]
    BY <1>1, HeadTailProperties
  <2> QED BY <1>1, <2>1
<1>6. ASSUME NEW i \in 1..Len(cmdq'), cmdq'[i].cmd_type = "DATA_CB"
      PROVE  /\ cmdq'[i].stream \in Streams /\ cmdq'[i].frame_idx \in Nat
             /\ Brought(cmdq'[i]) \in user /\ sent < cmdq'[i].frame_idx
             /\ cmdq'[i].meta \in Metadata
             /\ \A g \in FramesIn(chan.queue) \cup F :
                  g[1] = cmdq'[i].stream => g[2] < cmdq'[i].frame_idx
  <2> DEFINE j == i + 1
  <2>1. j \in 2..Len(cmdq) /\ j \in 1..Len(cmdq) /\ cmdq'[i] = cmdq[j] /\ cmdq'[i] \in Cmd
    BY <1>5, ElementOfSeq
  <2> HIDE DEF j
  <2>2. CmdOK(cmdq[j]) /\ cmdq[j].cmd_type = "DATA_CB"
    BY <1>6, <2>1 DEF Placed, CmdsOK
  <2>3. \A g \in F : g[1] = cmdq[j].stream => g[2] < cmdq[j].frame_idx
    BY <2>1, <2>2 DEF Given
  <2>4. cmdq'[i].stream \in Streams /\ cmdq'[i].frame_idx \in Nat
    BY <1>6, <2>1, CmdFields DEF FrameIdx
  <2> QED BY <2>1, <2>2, <2>3, <2>4 DEF CmdOK
<1>7. CmdsOK'
  <2>1. ASSUME NEW i \in 1..Len(cmdq'), cmdq'[i].cmd_type = "DATA_CB"
        PROVE  /\ Brought(cmdq'[i]) \in user' /\ sent' < cmdq'[i].frame_idx
               /\ cmdq'[i].meta \in Metadata
               /\ \A g \in FramesIn(chan'.queue) :
                    g[1] = cmdq'[i].stream => g[2] < cmdq'[i].frame_idx
    <3> DEFINE cmd == cmdq'[i]
    <3>1. /\ cmd.stream \in Streams /\ cmd.frame_idx \in Nat
          /\ Brought(cmd) \in user /\ sent < cmd.frame_idx /\ cmd.meta \in Metadata
          /\ \A g \in FramesIn(chan.queue) \cup F : g[1] = cmd.stream => g[2] < cmd.frame_idx
      BY <1>6, <2>1
    <3> HIDE DEF cmd
    <3>2. Brought(cmd) \notin FramesIn(chan.queue) \cup F
      BY <3>1, NewerAbsent DEF Brought
    <3>3. Brought(cmd) \in user'
      BY <1>3, <3>1, <3>2
    <3>4. sent' < cmd.frame_idx
      <4>1. CASE sent' = sent
        BY <3>1, <4>1
      <4>2. CASE \A s \in Streams : <<s, sent'>> \in FramesIn(out)
        <5>1. <<cmd.stream, sent'>> \in FramesIn(chan.queue) \cup F
          BY <1>3, <3>1, <4>2
        <5> QED BY <3>1, <5>1
      <4> QED BY <1>2, <4>1, <4>2
    <3> QED BY <1>3, <3>1, <3>3, <3>4 DEF cmd
  <2>2. ASSUME NEW i \in 1..Len(cmdq'), NEW j \in 1..Len(cmdq'), i < j,
               cmdq'[i].cmd_type = "DATA_CB", cmdq'[j].cmd_type = "DATA_CB",
               cmdq'[i].stream = cmdq'[j].stream
        PROVE  cmdq'[i].frame_idx < cmdq'[j].frame_idx
    <3>1. i + 1 \in 1..Len(cmdq) /\ j + 1 \in 1..Len(cmdq) /\ i + 1 < j + 1
          /\ cmdq'[i] = cmdq[i + 1] /\ cmdq'[j] = cmdq[j + 1]
      BY <1>5, <2>2
    <3> QED BY <2>2, <3>1 DEF Placed, CmdsOK
  <2> QED BY <2>1, <2>2 DEF CmdsOK, CmdOK
<1>8. LastOK'
  <2>1. \A f \in user' : f[2] <= last'[f[1]]
    BY <1>3 DEF Placed, LastOK
  <2>2. ASSUME NEW s \in Streams PROVE sent' <= last'[s]
    <3>1. CASE sent' = sent
      BY <3>1 DEF Placed, LastOK
    <3>2. CASE \A t \in Streams : <<t, sent'>> \in FramesIn(out)
      <4>1. <<s, sent'>> \in user
        BY <1>2, <1>3, <3>2
      <4>2. <<s, sent'>>[1] = s /\ <<s, sent'>>[2] = sent'
        OBVIOUS
      <4>3. <<s, sent'>>[2] <= last[<<s, sent'>>[1]]
        BY <4>1 DEF Placed, LastOK
      <4> QED BY <4>2, <4>3
    <3> QED BY <1>2, <3>1, <3>2
  <2> QED BY <2>1, <2>2 DEF LastOK
<1>9. /\ Len(cbq') = Len(cbq) + Len(out) /\ cbq' \in Seq(Node)
      /\ \A i \in 1..Len(cbq) : cbq'[i] = cbq[i]
      /\ \A i \in 1..Len(out) : cbq'[i + Len(cbq)] = out[i]
      /\ FramesIn(cbq') = FramesIn(cbq) \cup FramesIn(out)
      /\ Rising(cbq')
  <2>1. \A i \in 1..Len(cbq), j \in 1..Len(out) : cbq[i].frame_idx < out[j].frame_idx
    <3> TAKE i \in 1..Len(cbq), j \in 1..Len(out)
    <3>1. cbq[i].frame_idx <= sent /\ cbq[i].frame_idx \in Nat
      BY <1>1 DEF OutOK
    <3>2. sent < out[j].frame_idx /\ out[j].frame_idx \in Nat /\ sent \in Nat
      BY <1>2, <1>3
    <3> QED BY <3>1, <3>2
  <2>2. Rising(cbq)
    BY <1>1 DEF OutOK
  <2> QED BY <1>1, <1>3, <2>1, <2>2, ConcatFrames
<1>10. OutOK'
  <2>1. ASSUME NEW i \in 1..Len(cbq')
        PROVE  /\ cbq'[i].frame_idx <= sent' /\ Frames(cbq'[i]) \subseteq user'
               /\ \A g \in client : g[2] < cbq'[i].frame_idx
    <3>1. CASE i \in 1..Len(cbq)
      <4>1. cbq[i].frame_idx <= sent /\ Frames(cbq[i]) \subseteq user
            /\ \A g \in client : g[2] < cbq[i].frame_idx
        BY <1>1, <3>1 DEF OutOK
      <4>2. cbq[i].frame_idx <= sent'
        BY <1>1, <1>2, <3>1, <4>1
      <4> QED BY <1>2, <1>3, <1>9, <3>1, <4>1, <4>2
    <3>2. CASE i - Len(cbq) \in 1..Len(out)
      <4> DEFINE j == i - Len(cbq)
      <4>1. j \in 1..Len(out) /\ i = j + Len(cbq)
        BY <1>1, <1>9, <3>2
      <4> HIDE DEF j
      <4>2. cbq'[i] = out[j] /\ out[j].frame_idx <= sent' /\ sent < out[j].frame_idx
        BY <1>2, <1>9, <4>1
      <4>3. Frames(out[j]) \subseteq FramesIn(out)
        BY <1>3, <4>1, WholeFrames
      <4>4. Frames(out[j]) \subseteq user'
        BY <1>2, <1>3, <4>3
      <4>5. \A g \in client : g[2] < out[j].frame_idx
        <5> TAKE g \in client
        <5>1. g[2] <= sent /\ g \in Frame
          BY <1>1 DEF OutOK
        <5>2. g[2] \in Nat
          BY <5>1 DEF Frame, FrameIdx
        <5> QED BY <1>2, <1>3, <4>1, <4>2, <5>1, <5>2
      <4> QED BY <4>2, <4>4, <4>5
    <3>3. i \in 1..Len(cbq) \/ i - Len(cbq) \in 1..Len(out)
      BY <1>1, <1>3, <1>9
    <3> QED BY <3>1, <3>2, <3>3
  <2>2. client' \subseteq user'
    BY <1>1, <1>2, <1>3 DEF OutOK
  <2>3. \A g \in client' : g[2] <= sent'
    <3> TAKE g \in client'
    <3>1. g[2] <= sent /\ g \in Frame
      BY <1>1 DEF OutOK
    <3>2. g[2] \in Nat
      BY <3>1 DEF Frame, FrameIdx
    <3> QED BY <1>2, <3>1, <3>2
  <2> QED BY <1>9, <2>1, <2>2, <2>3 DEF OutOK
<1>11. KeptOK'
  <2>1. /\ user = CmdFrames(cmdq) \cup FramesIn(chan.queue) \cup FramesIn(cbq) \cup client \cup leaked
        /\ (CmdFrames(cmdq) \cup FramesIn(chan.queue) \cup FramesIn(cbq) \cup client) \cap leaked = {}
    BY DEF Placed, KeptOK, Places
  <2>2. CmdFrames(cmdq') \cap (FramesIn(chan.queue) \cup F) = {}
    <3> SUFFICES ASSUME NEW i \in 1..Len(cmdq'), cmdq'[i].cmd_type = "DATA_CB",
                        Brought(cmdq'[i]) \in FramesIn(chan.queue) \cup F
                 PROVE  FALSE
      BY DEF CmdFrames
    <3> DEFINE cmd == cmdq'[i]
    <3>1. /\ cmd.frame_idx \in Nat
          /\ \A g \in FramesIn(chan.queue) \cup F : g[1] = cmd.stream => g[2] < cmd.frame_idx
      BY <1>6
    <3> HIDE DEF cmd
    <3>2. Brought(cmd) \notin FramesIn(chan.queue) \cup F
      BY <3>1, NewerAbsent DEF Brought
    <3> QED BY <3>2 DEF cmd
  <2>3. /\ FramesIn(cbq) \cap (gone \cup lost) = {}
    <3>1. FramesIn(cbq) = Part(cbq, 1, Len(cbq))
      BY <1>1, FrameFacts
    <3> QED BY <1>2, <3>1 DEF Part
  <2>4. client \cap (gone \cup lost) = {}
    BY <1>2
  <2>5. user' = CmdFrames(cmdq') \cup FramesIn(chan'.queue) \cup FramesIn(cbq') \cup client'
                  \cup leaked'
    <3>1. FramesIn(cbq') = FramesIn(cbq) \cup FramesIn(out)
      BY <1>9
    <3>2. /\ gone \cap CmdFrames(cmdq') = {} /\ gone \cap FramesIn(cbq) = {} /\ gone \cap client = {}
          /\ gone \cap leaked = {}
      BY <1>3, <2>1, <2>2, <2>3, <2>4
    <3> QED BY <1>3, <2>1, <3>1, <3>2
  <2>6. (CmdFrames(cmdq') \cup FramesIn(chan'.queue) \cup FramesIn(cbq') \cup client')
           \cap leaked' = {}
    <3>1. FramesIn(cbq') = FramesIn(cbq) \cup FramesIn(out)
      BY <1>9
    <3>2. /\ lost \cap CmdFrames(cmdq') = {} /\ lost \cap FramesIn(cbq) = {} /\ lost \cap client = {}
      BY <1>3, <2>2, <2>3, <2>4
    <3>3. /\ FramesIn(chan'.queue) \cap leaked = {} /\ FramesIn(out) \cap leaked = {}
      BY <1>3, <2>1
    <3>4. lost \cap FramesIn(chan'.queue) = {} /\ lost \cap FramesIn(out) = {}
      BY <1>3
    <3> QED BY <1>3, <2>1, <3>1, <3>2, <3>3, <3>4
  <2> QED BY <2>5, <2>6 DEF KeptOK, Places
<1> QED BY <1>4, <1>7, <1>8, <1>10, <1>11 DEF Placed

-----------------------------------------------------------------------------
(* The steps.                                                              *)

\* Taking the first command takes its frame, if it brings one.
LEMMA TailFrames ==
  ASSUME NEW q \in Seq(Cmd), q # <<>>
  PROVE  /\ Head(q) = q[1] /\ 1 \in 1..Len(q) /\ Len(q) \in Nat
         /\ CmdFrames(q) =
              (IF Head(q).cmd_type = "DATA_CB" THEN {Brought(Head(q))} ELSE {})
                \cup CmdFrames(Tail(q))
<1>1. /\ Tail(q) \in Seq(Cmd) /\ Len(Tail(q)) = Len(q) - 1 /\ Head(q) = q[1]
      /\ \A i \in 1..Len(Tail(q)) : Tail(q)[i] = q[i + 1]
  BY HeadTailProperties
<1>2. Len(q) \in Nat /\ Len(q) # 0
  BY LenProperties, EmptySeq
<1>3. ASSUME NEW g \in CmdFrames(q)
      PROVE  \/ Head(q).cmd_type = "DATA_CB" /\ g = Brought(Head(q))
             \/ g \in CmdFrames(Tail(q))
  <2>1. PICK i \in 1..Len(q) : q[i].cmd_type = "DATA_CB" /\ g = Brought(q[i])
    BY <1>3 DEF CmdFrames
  <2>2. CASE i = 1
    BY <1>1, <2>1, <2>2
  <2>3. CASE i # 1
    <3>1. i - 1 \in 1..Len(Tail(q)) /\ (i - 1) + 1 = i
      BY <1>1, <1>2, <2>3
    <3>2. Tail(q)[i - 1] = q[i]
      BY <1>1, <3>1
    <3> QED BY <2>1, <3>1, <3>2 DEF CmdFrames
  <2> QED BY <2>2, <2>3
<1>4. 1 \in 1..Len(q)
  BY <1>2
<1>5. CmdFrames(Tail(q)) \subseteq CmdFrames(q)
  <2> SUFFICES ASSUME NEW i \in 1..Len(Tail(q)), Tail(q)[i].cmd_type = "DATA_CB"
               PROVE  Brought(Tail(q)[i]) \in CmdFrames(q)
    BY DEF CmdFrames
  <2>1. i + 1 \in 1..Len(q) /\ Tail(q)[i] = q[i + 1]
    BY <1>1, <1>2
  <2> QED BY <2>1 DEF CmdFrames
<1>6. Head(q).cmd_type = "DATA_CB" => Brought(Head(q)) \in CmdFrames(q)
  BY <1>1, <1>4 DEF CmdFrames
<1> QED BY <1>1, <1>2, <1>3, <1>4, <1>5, <1>6

\* What a flush does.
LEMMA FlushSends ==
  ASSUME Inv, ProcessFlush
  PROVE  \E out, gone, lost : Sends(out, gone, lost, {})
<1> DEFINE n    == Head(cmdq).frame_idx
           c    == [chan EXCEPT !.expected_frame_id = n]
           none == <<>>
           gone == FramesIn(chan.queue)
<1>0. /\ chan \in Chan /\ ChanInv(chan) /\ cmdq \in Seq(Cmd) /\ cbq \in Seq(Node)
  BY DEF Inv, TypeOK
<1>1. /\ chan' = Flush(c).chan /\ user' = user \ Flush(c).done
      /\ UNCHANGED <<spinning, cbq, sent, leaked>>
  BY DEF ProcessFlush
<1>2. NextCmd("FLUSH_QUEUE")
  BY DEF ProcessFlush
<1>3. n \in Counter
  BY <1>0, <1>2, NextCmdType, CmdFields, CounterFacts
<1> HIDE DEF n
<1>4. c \in Chan /\ c.queue = chan.queue /\ c.match_cnt = chan.match_cnt
  BY <1>0, <1>3 DEF Chan
<1>5. Flush(c).done = FramesIn(c.queue)
  BY DEF Flush, Result
<1> HIDE DEF c
<1>6. ChanInv(c)
  BY <1>0, <1>4 DEF ChanInv
<1>7. chan'.queue = <<>> /\ user' = user \ gone
  BY <1>1, <1>4, <1>5, <1>6, FlushInv
<1>8. /\ none \in Seq(Node) /\ Rising(none) /\ WholeOnes(none) /\ FramesIn(none) = {}
      /\ Len(none) = 0 /\ none = <<>>
  BY NoFrames DEF WholeOnes
<1>9. cbq \o none = cbq
  BY <1>0, ConcatEmptySeq
<1> HIDE DEF none, gone
<1>10. /\ chan'.queue = none /\ cbq' = cbq \o none /\ sent' = sent /\ leaked' = leaked \cup {}
  BY <1>1, <1>7, <1>8, <1>9
<1>11. \A i \in 1..Len(none), g \in FramesIn(chan'.queue) : none[i].frame_idx < g[2]
  BY <1>8, <1>10
<1>12. /\ FramesIn(none) \cup FramesIn(chan'.queue) \cup gone \cup {} = FramesIn(chan.queue) \cup {}
       /\ gone \cap (FramesIn(none) \cup FramesIn(chan'.queue)) = {}
  BY <1>8, <1>10 DEF gone
<1>13. Sends(none, gone, {}, {})
  BY <1>7, <1>8, <1>10, <1>11, <1>12 DEF Sends
<1> QED BY <1>13

\* A step of the command thread sends, gives back, loses or keeps what it was given.
LEMMA CommandSends ==
  ASSUME Placed, ProcessStreamBuf
  PROVE  /\ cmdq # <<>> /\ cmdq' = Tail(cmdq) /\ last' = last /\ client' = client
         /\ \E F, out, gone, lost :
              /\ Given(F) /\ Sends(out, gone, lost, F)
              /\ CmdFrames(cmdq) = F \cup CmdFrames(cmdq')
<1>0. /\ Inv /\ QueueOK /\ CmdsOK /\ ChanInv(chan) /\ chan \in Chan /\ cmdq \in Seq(Cmd)
      /\ Rising(chan.queue)
  BY DEF Placed, Inv, TypeOK, QueueOK
<1>1. /\ cmdq # <<>> /\ cmdq' = Tail(cmdq) /\ last' = last /\ client' = client
  BY DEF ProcessStreamBuf, ProcessData, ProcessRequest, ProcessConfigNotify,
         ProcessFlush, NextCmd
<1>2. /\ Head(cmdq) = cmdq[1] /\ 1 \in 1..Len(cmdq) /\ Len(cmdq) \in Nat
      /\ CmdFrames(cmdq) =
           (IF Head(cmdq).cmd_type = "DATA_CB" THEN {Brought(Head(cmdq))} ELSE {})
             \cup CmdFrames(cmdq')
  BY <1>0, <1>1, TailFrames
<1>3. Given({})
  BY DEF Given
<1>4. ASSUME NEW type, type # "DATA_CB", NextCmd(type), NEW out, NEW gone, NEW lost,
             Sends(out, gone, lost, {})
      PROVE  \E F, o, g, l : /\ Given(F) /\ Sends(o, g, l, F)
                             /\ CmdFrames(cmdq) = F \cup CmdFrames(cmdq')
  <2>1. Head(cmdq).cmd_type # "DATA_CB"
    BY <1>4 DEF NextCmd
  <2> QED BY <1>2, <1>3, <1>4, <2>1
<1>5. CASE ProcessData
  <2> DEFINE cmd == Head(cmdq)
             X   == IF Contradictory(cmd.meta) THEN {} ELSE {Brought(cmd)}
  <2>1. PICK ok \in MallocOutcomes :
          Finish(CompAndEnqueue(chan, cmd.stream, cmd.frame_idx, cmd.meta, ok), Refused(cmd))
    BY <1>5 DEF ProcessData
  <2>2. NextCmd("DATA_CB")
    BY <1>5 DEF ProcessData
  <2>3. /\ cmd.stream \in Streams /\ cmd.frame_idx \in FrameIdx
        /\ cmd.meta \in MetaInfo /\ cmd.cmd_type = "DATA_CB" /\ cmd = cmdq[1]
    BY <1>0, <1>2, <2>2, NextCmdType, CmdFields
  <2>4. CmdOK(cmd)
    BY <1>0, <1>2 DEF CmdsOK
  <2>5. ok \in BOOLEAN
    BY ParameterAssumption
  <2>13. CmdFrames(cmdq) = {Brought(cmd)} \cup CmdFrames(cmdq')
    BY <1>2, <2>3
  <2> HIDE DEF cmd
  <2>6. Steady(CompAndEnqueue(chan, cmd.stream, cmd.frame_idx, cmd.meta, ok), chan)
    BY <1>0, <2>3, <2>5, CompInv
  <2>7. \A g \in FramesIn(chan.queue) : g[1] = cmd.stream => g[2] < cmd.frame_idx
    BY <2>3, <2>4 DEF CmdOK
  <2>8. Sorted(CompAndEnqueue(chan, cmd.stream, cmd.frame_idx, cmd.meta, ok), chan, X)
    BY <1>0, <2>3, <2>5, <2>7, CompSorted DEF Brought
  <2>11. X \cup Refused(cmd) = {Brought(cmd)}
    BY DEF Refused, Brought
  <2>12. Refused(cmd) \cap (FramesIn(chan.queue) \cup X) = {}
    <3>1. Brought(cmd) \notin FramesIn(chan.queue)
      BY <2>3, <2>7, NewerAbsent DEF Brought, FrameIdx
    <3> QED BY <3>1 DEF Refused, Brought
  <2> HIDE DEF X
  <2>9. \E out, gone, lost : Sends(out, gone, lost, {Brought(cmd)})
    <3>1. \E out, gone, lost : Sends(out, gone, lost, X \cup Refused(cmd))
      BY <1>0, <2>1, <2>6, <2>8, <2>12, FinishSends DEF Steady
    <3> QED BY <2>11, <3>1
  <2>10. Given({Brought(cmd)})
    <3>1. Brought(cmd) \in user /\ sent < cmd.frame_idx
      BY <2>3, <2>4 DEF CmdOK
    <3>2. Brought(cmd)[1] = cmd.stream /\ Brought(cmd)[2] = cmd.frame_idx
      BY DEF Brought
    <3>3. ASSUME NEW i \in 2..Len(cmdq), cmdq[i].cmd_type = "DATA_CB",
                 cmd.stream = cmdq[i].stream
          PROVE  cmd.frame_idx < cmdq[i].frame_idx
      <4>1. i \in 1..Len(cmdq) /\ 1 < i
        BY <1>2
      <4> QED BY <1>0, <1>2, <2>3, <3>3, <4>1 DEF CmdsOK
    <3>4. Brought(cmd) \notin leaked
      BY <2>13 DEF Placed, KeptOK, Places
    <3> QED BY <3>1, <3>2, <3>3, <3>4 DEF Given
  <2> QED BY <1>1, <2>9, <2>10, <2>13
<1>6. CASE ProcessRequest
  <2> DEFINE n == Head(cmdq).num_buf_requested
             c == [chan EXCEPT !.pending_cnt = n]
  <2>1. Finish(Skip(c), {})
    BY <1>6 DEF ProcessRequest
  <2>2. NextCmd("REQ_DATA_CB")
    BY <1>6 DEF ProcessRequest
  <2>3. n \in 0..MaxRequest
    BY <1>0, <2>2, NextCmdType, CmdFields
  <2> HIDE DEF n
  <2>4. c \in Chan /\ c.queue = chan.queue /\ c.match_cnt = chan.match_cnt
    BY <1>0, <2>3 DEF Chan
  <2> HIDE DEF c
  <2>5. ChanInv(c) /\ LookBack \in Nat /\ Rising(c.queue)
    BY <1>0, <2>4, ParameterAssumption DEF ChanInv
  <2>6. ChanInv(Skip(c).chan) /\ Skip(c).hang = FALSE
    BY <2>5, TrimInv DEF Skip
  <2>7. Sorted(Skip(c), c, {})
    BY <2>5, TrimSorted DEF Skip
  <2>8. Sorted(Skip(c), chan, {})
    BY <2>4, <2>7 DEF Sorted
  <2>9. \E out, gone, lost : Sends(out, gone, lost, {})
    <3>1. \E out, gone, lost : Sends(out, gone, lost, {} \cup {})
      BY <1>0, <2>1, <2>5, <2>6, <2>8, FinishSends
    <3>2. {} \cup {} = {}
      OBVIOUS
    <3> QED BY <3>1, <3>2
  <2> QED BY <1>1, <1>4, <2>2, <2>9
<1>7. CASE ProcessConfigNotify
  <2> DEFINE n == Head(cmdq).notify_mode
             c == [chan EXCEPT !.notify_mode = n]
             r == Result(c, {})
  <2>1. Finish(r, {})
    BY <1>7 DEF ProcessConfigNotify
  <2>2. NextCmd("CONFIG_NOTIFY")
    BY <1>7 DEF ProcessConfigNotify
  <2>3. n \in {BURST, CONTINUOUS}
    BY <1>0, <2>2, NextCmdType, CmdFields
  <2> HIDE DEF n
  <2>4. c \in Chan /\ c.queue = chan.queue /\ c.match_cnt = chan.match_cnt
    BY <1>0, <2>3 DEF Chan
  <2>5. r.chan = c /\ r.hang = FALSE /\ r.done = {}
    BY DEF Result
  <2> HIDE DEF c, r
  <2>6. ChanInv(c)
    BY <1>0, <2>4, ParameterAssumption DEF ChanInv
  <2>7. Sorted(r, chan, {})
    BY <1>0, <2>4, <2>5 DEF Sorted
  <2>8. \E out, gone, lost : Sends(out, gone, lost, {})
    <3>1. \E out, gone, lost : Sends(out, gone, lost, {} \cup {})
      BY <1>0, <2>1, <2>5, <2>6, <2>7, FinishSends
    <3>2. {} \cup {} = {}
      OBVIOUS
    <3> QED BY <3>1, <3>2
  <2> QED BY <1>1, <1>4, <2>2, <2>8
<1>8. CASE ProcessFlush
  <2>1. NextCmd("FLUSH_QUEUE")
    BY <1>8 DEF ProcessFlush
  <2> QED BY <1>0, <1>1, <1>4, <1>8, <2>1, FlushSends
<1> QED BY <1>5, <1>6, <1>7, <1>8 DEF ProcessStreamBuf

\* A command behind the others.
LEMMA AppendPlaced ==
  ASSUME cmdq \in Seq(Cmd), CmdsOK, NEW cmd \in Cmd, cmdq' = Append(cmdq, cmd),
         user \subseteq user', UNCHANGED <<chan, sent>>,
         cmd.cmd_type = "DATA_CB" =>
           /\ Brought(cmd) \in user' /\ sent < cmd.frame_idx /\ cmd.meta \in Metadata
           /\ \A g \in FramesIn(chan.queue) : g[1] = cmd.stream => g[2] < cmd.frame_idx,
         \A i \in 1..Len(cmdq) :
           cmdq[i].cmd_type = "DATA_CB" /\ cmd.cmd_type = "DATA_CB"
             /\ cmdq[i].stream = cmd.stream => cmdq[i].frame_idx < cmd.frame_idx
  PROVE  /\ CmdsOK'
         /\ CmdFrames(cmdq') = CmdFrames(cmdq)
              \cup (IF cmd.cmd_type = "DATA_CB" THEN {Brought(cmd)} ELSE {})
<1>1. /\ Len(cmdq) \in Nat /\ Len(cmdq') = Len(cmdq) + 1
      /\ \A i \in 1..Len(cmdq) : i \in 1..Len(cmdq') /\ cmdq'[i] = cmdq[i]
      /\ cmdq'[Len(cmdq')] = cmd /\ Len(cmdq') \in 1..Len(cmdq')
      /\ \A i \in 1..Len(cmdq') : i \in 1..Len(cmdq) \/ i = Len(cmdq')
  <2>1. /\ Len(cmdq) \in Nat /\ Len(cmdq') = Len(cmdq) + 1
        /\ \A i \in 1..Len(cmdq) : cmdq'[i] = cmdq[i]
        /\ cmdq'[Len(cmdq) + 1] = cmd
    BY AppendProperties, LenProperties
  <2> QED BY <2>1
<1>2. ASSUME NEW i \in 1..Len(cmdq'), cmdq'[i].cmd_type = "DATA_CB"
      PROVE  /\ Brought(cmdq'[i]) \in user' /\ sent' < cmdq'[i].frame_idx
             /\ cmdq'[i].meta \in Metadata
             /\ \A g \in FramesIn(chan'.queue) :
                  g[1] = cmdq'[i].stream => g[2] < cmdq'[i].frame_idx
  <2>0. sent' = sent /\ chan'.queue = chan.queue
    OBVIOUS
  <2>1. CASE i \in 1..Len(cmdq)
    <3>1. CmdOK(cmdq[i]) /\ cmdq'[i] = cmdq[i]
      BY <1>1, <2>1 DEF CmdsOK
    <3> QED BY <1>2, <2>0, <3>1 DEF CmdOK
  <2>2. CASE i = Len(cmdq')
    <3>1. cmdq'[i] = cmd
      BY <1>1, <2>2
    <3> QED BY <1>2, <2>0, <3>1
  <2> QED BY <1>1, <2>1, <2>2
<1>3. ASSUME NEW i \in 1..Len(cmdq'), NEW j \in 1..Len(cmdq'), i < j,
             cmdq'[i].cmd_type = "DATA_CB", cmdq'[j].cmd_type = "DATA_CB",
             cmdq'[i].stream = cmdq'[j].stream
      PROVE  cmdq'[i].frame_idx < cmdq'[j].frame_idx
  <2>1. i \in 1..Len(cmdq) /\ cmdq'[i] = cmdq[i]
    BY <1>1, <1>3
  <2>2. CASE j \in 1..Len(cmdq)
    BY <1>1, <1>3, <2>1, <2>2 DEF CmdsOK
  <2>3. CASE j = Len(cmdq')
    BY <1>1, <1>3, <2>1, <2>3
  <2> QED BY <1>1, <2>2, <2>3
<1>4. CmdFrames(cmdq) \subseteq CmdFrames(cmdq')
  BY <1>1 DEF CmdFrames
<1>5. cmd.cmd_type = "DATA_CB" => Brought(cmd) \in CmdFrames(cmdq')
  BY <1>1 DEF CmdFrames
<1>6. ASSUME NEW g \in CmdFrames(cmdq')
      PROVE  g \in CmdFrames(cmdq) \/ (cmd.cmd_type = "DATA_CB" /\ g = Brought(cmd))
  <2>1. PICK i \in 1..Len(cmdq') : cmdq'[i].cmd_type = "DATA_CB" /\ g = Brought(cmdq'[i])
    BY <1>6 DEF CmdFrames
  <2>2. CASE i \in 1..Len(cmdq)
    BY <1>1, <2>1, <2>2 DEF CmdFrames
  <2>3. CASE i = Len(cmdq')
    BY <1>1, <2>1, <2>3
  <2> QED BY <1>1, <2>2, <2>3
<1>7. CmdsOK'
  BY <1>2, <1>3 DEF CmdsOK, CmdOK
<1> QED BY <1>4, <1>5, <1>6, <1>7

\* The places of the frames at the beginning.
LEMMA PlacedInit == Init => Placed
<1> SUFFICES ASSUME Init PROVE Placed
  OBVIOUS
<1>1. Inv
  BY InitInv
<1>2. /\ chan.queue = <<>> /\ user = {} /\ cmdq = <<>> /\ cbq = <<>> /\ sent = 0
      /\ client = {} /\ leaked = {} /\ last = [s \in Streams |-> 0]
  BY DEF Init
<1>3. /\ QueueOK /\ CmdsOK /\ LastOK /\ OutOK
  BY <1>2, NoFrames DEF QueueOK, CmdsOK, LastOK, OutOK, Rising
<1>4. KeptOK
  <2>1. CmdFrames(cmdq) = {}
    BY <1>2 DEF CmdFrames
  <2> QED BY <1>2, <2>1, NoFrames DEF KeptOK, Places
<1> QED BY <1>1, <1>3, <1>4 DEF Placed

\* Every step keeps the frames in their places.
LEMMA PlacedNext == Placed /\ [Next]_vars => Placed'
<1> SUFFICES ASSUME Placed, [Next]_vars PROVE Placed'
  OBVIOUS
<1>0. /\ Inv /\ Inv' /\ QueueOK /\ CmdsOK /\ LastOK /\ OutOK
      /\ cmdq \in Seq(Cmd) /\ cbq \in Seq(Node) /\ user \subseteq Frame
      /\ last \in [Streams -> 0..MaxFrame] /\ sent \in Nat /\ chan.queue \in Seq(Node)
      /\ client \subseteq Frame /\ WholeOnes(cbq)
      /\ KeptOK
  BY NextInv, ChanFields DEF Placed, Inv, TypeOK
<1>1. ASSUME NEW s \in Streams, NEW n \in FrameIdx, NEW md \in Metadata,
             DataNotify(s, n, md)
      PROVE  Placed'
  <2> DEFINE cmd == [cmd_type |-> "DATA_CB", stream |-> s, frame_idx |-> n, meta |-> md]
  <2>1. PICK ok \in MallocOutcomes :
          /\ cmdq' = IF ok THEN Append(cmdq, cmd) ELSE cmdq
          /\ leaked' = IF ok THEN leaked ELSE leaked \cup {<<s, n>>}
    BY <1>1 DEF DataNotify, Enqueue
  <2>2. /\ n > last[s] /\ last' = [last EXCEPT ![s] = n] /\ user' = user \cup {<<s, n>>}
        /\ UNCHANGED <<chan, spinning, cbq, sent, client>>
    BY <1>1 DEF DataNotify
  <2>3. cmd \in Cmd /\ Brought(cmd) = <<s, n>>
    BY ParameterAssumption DEF Cmd, Brought
  <2>4. n \in Nat /\ last[s] \in Nat /\ sent <= last[s]
    BY <1>0, ParameterAssumption DEF LastOK, FrameIdx
  <2>5. \A f \in user : f[1] = s => f[2] < n
    <3> TAKE f \in user
    <3>1. f[2] <= last[f[1]] /\ f[2] \in Nat
      BY <1>0 DEF LastOK, Frame, FrameIdx
    <3> QED BY <2>2, <2>4, <3>1
  <2>6. <<s, n>> \notin user
    BY <2>4, <2>5, NewerAbsent
  <2>7. QueueOK'
    BY <1>0, <2>2 DEF QueueOK
  <2>8. /\ cmd.cmd_type = "DATA_CB" /\ cmd.stream = s /\ cmd.frame_idx = n /\ cmd.meta = md
    OBVIOUS
  <2> HIDE DEF cmd
  <2>9. /\ Brought(cmd) \in user' /\ sent < cmd.frame_idx /\ cmd.meta \in Metadata
        /\ \A g \in FramesIn(chan.queue) : g[1] = cmd.stream => g[2] < cmd.frame_idx
    <3>1. sent < n
      BY <1>0, <2>2, <2>4
    <3>2. \A g \in FramesIn(chan.queue) : g[1] = s => g[2] < n
      BY <1>0, <2>5 DEF QueueOK
    <3> QED BY <2>2, <2>3, <2>8, <3>1, <3>2
  <2>10. \A i \in 1..Len(cmdq) :
           cmdq[i].cmd_type = "DATA_CB" /\ cmd.cmd_type = "DATA_CB"
             /\ cmdq[i].stream = cmd.stream => cmdq[i].frame_idx < cmd.frame_idx
    <3> SUFFICES ASSUME NEW i \in 1..Len(cmdq), cmdq[i].cmd_type = "DATA_CB",
                        cmdq[i].stream = s
                 PROVE  cmdq[i].frame_idx < n
      BY <2>8
    <3>1. Brought(cmdq[i]) \in user
      BY <1>0 DEF CmdsOK, CmdOK
    <3>2. Brought(cmdq[i])[1] = s /\ Brought(cmdq[i])[2] = cmdq[i].frame_idx
      BY DEF Brought
    <3> QED BY <2>5, <3>1, <3>2
  <2>11. CmdsOK' /\ CmdFrames(cmdq') \cup leaked' = CmdFrames(cmdq) \cup leaked \cup {<<s, n>>}
         /\ CmdFrames(cmdq') \cap leaked' = {}
    <3>0. <<s, n>> \notin CmdFrames(cmdq) /\ <<s, n>> \notin leaked /\ CmdFrames(cmdq) \cap leaked = {}
      BY <1>0, <2>6 DEF KeptOK, Places
    <3>1. CASE ok
      <4>1. cmdq' = Append(cmdq, cmd) /\ leaked' = leaked
        BY <2>1, <3>1
      <4>2. /\ CmdsOK'
            /\ CmdFrames(cmdq') = CmdFrames(cmdq)
                 \cup (IF cmd.cmd_type = "DATA_CB" THEN {Brought(cmd)} ELSE {})
        BY <1>0, <2>2, <2>3, <2>9, <2>10, <4>1, AppendPlaced
      <4> QED BY <2>3, <2>8, <3>0, <4>1, <4>2
    <3>2. CASE ~ok
      <4>1. cmdq' = cmdq /\ leaked' = leaked \cup {<<s, n>>}
        BY <2>1, <3>2
      <4>2. CmdsOK'
        BY <1>0, <2>2, <4>1 DEF CmdsOK, CmdOK
      <4> QED BY <3>0, <4>1, <4>2
    <3> QED BY <3>1, <3>2
  <2>12. LastOK'
    <3>1. last'[s] = n /\ \A t \in Streams : t # s => last'[t] = last[t]
      BY <1>0, <2>2
    <3>2. ASSUME NEW f \in user' PROVE f[2] <= last'[f[1]]
      <4>1. CASE f = <<s, n>>
        BY <2>4, <3>1, <4>1
      <4>2. CASE f \in user /\ f[1] = s
        <5>1. f[2] < n /\ f[2] \in Nat
          BY <1>0, <2>5, <4>2 DEF Frame, FrameIdx
        <5> QED BY <2>4, <3>1, <4>2, <5>1
      <4>3. CASE f \in user /\ f[1] # s
        <5>1. f[1] \in Streams /\ f[2] <= last[f[1]]
          BY <1>0, <4>3 DEF LastOK, Frame
        <5> QED BY <3>1, <4>3, <5>1
      <4> QED BY <2>2, <4>1, <4>2, <4>3
    <3>3. ASSUME NEW t \in Streams PROVE sent' <= last'[t]
      <4>1. sent <= last[t]
        BY <1>0 DEF LastOK
      <4> QED BY <1>0, <2>2, <2>4, <3>1, <4>1
    <3> QED BY <3>2, <3>3 DEF LastOK
  <2>13. OutOK'
    BY <1>0, <2>2 DEF OutOK
  <2>14. KeptOK'
    <3>1. /\ user = CmdFrames(cmdq) \cup FramesIn(chan.queue) \cup FramesIn(cbq) \cup client \cup leaked
          /\ (FramesIn(chan.queue) \cup FramesIn(cbq) \cup client) \cap leaked = {}
      BY <1>0 DEF KeptOK, Places
    <3>2. user' = CmdFrames(cmdq') \cup FramesIn(chan.queue) \cup FramesIn(cbq) \cup client \cup leaked'
      BY <2>2, <2>11, <3>1
    <3>3. (CmdFrames(cmdq') \cup FramesIn(chan.queue) \cup FramesIn(cbq) \cup client) \cap leaked' = {}
      <4>1. leaked' \subseteq leaked \cup {<<s, n>>}
        BY <2>1
      <4> QED BY <2>6, <2>11, <3>1, <4>1
    <3>4. chan' = chan /\ cbq' = cbq /\ client' = client
      BY <2>2
    <3> QED BY <3>2, <3>3, <3>4 DEF KeptOK, Places
  <2> QED BY <1>0, <2>7, <2>11, <2>12, <2>13, <2>14 DEF Placed
<1>2. ASSUME NEW cmd \in Cmd, cmd.cmd_type # "DATA_CB", ClientCall(cmd) PROVE Placed'
  <2>1. PICK ok \in MallocOutcomes : Enqueue(cmd, ok)
    BY <1>2 DEF ClientCall
  <2>2. UNCHANGED <<last, user, chan, spinning, cbq, sent, client, leaked>>
    BY <1>2 DEF ClientCall
  <2>3. CmdsOK' /\ CmdFrames(cmdq') = CmdFrames(cmdq)
    <3>1. CASE ok
      <4>1. cmdq' = Append(cmdq, cmd)
        BY <2>1, <3>1 DEF Enqueue
      <4> QED BY <1>0, <1>2, <2>2, <4>1, AppendPlaced
    <3>2. CASE ~ok
      <4>1. cmdq' = cmdq
        BY <2>1, <3>2 DEF Enqueue
      <4> QED BY <1>0, <2>2, <4>1 DEF CmdsOK, CmdOK
    <3> QED BY <3>1, <3>2
  <2>4. QueueOK' /\ LastOK' /\ OutOK'
    BY <1>0, <2>2 DEF QueueOK, LastOK, OutOK
  <2>5. KeptOK'
    BY <1>0, <2>2, <2>3 DEF KeptOK, Places
  <2> QED BY <1>0, <2>3, <2>4, <2>5 DEF Placed
<1>3. ASSUME NEW n \in 0..MaxRequest, RequestSuperBuf(n) PROVE Placed'
  <2>1. [cmd_type |-> "REQ_DATA_CB", num_buf_requested |-> n] \in Cmd
    BY DEF Cmd
  <2> QED BY <1>2, <1>3, <2>1 DEF RequestSuperBuf
<1>4. ASSUME NEW n \in FlushTargets, FlushSuperBufQueue(n) PROVE Placed'
  <2>1. [cmd_type |-> "FLUSH_QUEUE", frame_idx |-> n] \in Cmd
    BY ParameterAssumption DEF Cmd
  <2> QED BY <1>2, <1>4, <2>1 DEF FlushSuperBufQueue
<1>5. ASSUME NEW mode \in NotifyModes, ConfigNotifyMode(mode) PROVE Placed'
  <2>1. [cmd_type |-> "CONFIG_NOTIFY", notify_mode |-> mode] \in Cmd
    BY ParameterAssumption DEF Cmd
  <2> QED BY <1>2, <1>5, <2>1 DEF ConfigNotifyMode
<1>6. CASE ProcessStreamBuf
  <2>1. /\ cmdq # <<>> /\ cmdq' = Tail(cmdq) /\ last' = last /\ client' = client
        /\ \E F, out, gone, lost :
             /\ Given(F) /\ Sends(out, gone, lost, F)
             /\ CmdFrames(cmdq) = F \cup CmdFrames(cmdq')
    BY <1>6, CommandSends
  <2> QED BY <1>0, <2>1, SendsPlaced
<1>7. CASE DispatchSuperBuf
  <2>1. /\ cbq # <<>> /\ cbq' = Tail(cbq) /\ client' = client \cup Frames(Head(cbq))
        /\ UNCHANGED <<last, user, cmdq, chan, spinning, sent, leaked>>
    BY <1>7 DEF DispatchSuperBuf
  <2>2. /\ Head(cbq) = cbq[1] /\ cbq' \in Seq(Node) /\ Len(cbq') = Len(cbq) - 1
        /\ \A i \in 1..Len(cbq') : cbq'[i] = cbq[i + 1]
    BY <1>0, <2>1, HeadTailProperties
  <2>3. Len(cbq) \in Nat /\ Len(cbq) # 0
    BY <1>0, <2>1, LenProperties, EmptySeq
  <2>4. \A i \in 1..Len(cbq') : i + 1 \in 1..Len(cbq) /\ 1 < i + 1
    BY <2>2, <2>3
  <2>5. 1 \in 1..Len(cbq)
    BY <2>3
  <2>6. \A g \in Frames(Head(cbq)) : g[2] = cbq[1].frame_idx
    BY <2>2, NodeNumber
  <2>7. OutOK'
    <3>1. Rising(cbq')
      <4> SUFFICES ASSUME NEW i \in 1..Len(cbq'), NEW j \in 1..Len(cbq'), i < j
                   PROVE  cbq'[i].frame_idx < cbq'[j].frame_idx
        BY DEF Rising
      <4>1. i + 1 < j + 1
        BY <2>2, <2>3
      <4> QED BY <1>0, <2>2, <2>4, <4>1 DEF OutOK, Rising
    <3>2. \A i \in 1..Len(cbq') : cbq'[i].frame_idx <= sent' /\ Frames(cbq'[i]) \subseteq user'
      BY <1>0, <2>1, <2>2, <2>4 DEF OutOK
    <3>3. client' \subseteq user'
      BY <1>0, <2>1, <2>2, <2>5 DEF OutOK
    <3>4. ASSUME NEW g \in client'
          PROVE  g[2] <= sent' /\ \A i \in 1..Len(cbq') : g[2] < cbq'[i].frame_idx
      <4>1. CASE g \in client
        BY <1>0, <2>1, <2>2, <2>4, <4>1 DEF OutOK
      <4>2. CASE g \in Frames(Head(cbq))
        BY <1>0, <2>1, <2>2, <2>4, <2>5, <2>6, <4>2 DEF OutOK, Rising
      <4> QED BY <2>1, <4>1, <4>2
    <3> QED BY <3>1, <3>2, <3>3, <3>4 DEF OutOK
  <2>8. FramesIn(cbq) = Frames(Head(cbq)) \cup FramesIn(cbq')
    <3>0. FramesIn(cbq) = Part(cbq, 1, Len(cbq)) /\ FramesIn(cbq') = Part(cbq', 1, Len(cbq'))
      BY <1>0, <2>2, FrameFacts
    <3>1. ASSUME NEW g \in FramesIn(cbq) PROVE g \in Frames(Head(cbq)) \cup FramesIn(cbq')
      <4>1. PICK i \in 1..Len(cbq) : g \in Frames(cbq[i])
        BY <3>0, <3>1 DEF Part
      <4>2. CASE i = 1
        BY <2>2, <4>1, <4>2
      <4>3. CASE i # 1
        <5>1. i - 1 \in 1..Len(cbq') /\ (i - 1) + 1 = i
          BY <2>2, <2>3, <4>3
        <5>2. cbq'[i - 1] = cbq[i]
          BY <2>2, <5>1
        <5> QED BY <3>0, <4>1, <5>1, <5>2 DEF Part
      <4> QED BY <4>2, <4>3
    <3>2. Frames(Head(cbq)) \subseteq FramesIn(cbq)
      BY <2>2, <2>5, <3>0 DEF Part
    <3>3. ASSUME NEW g \in FramesIn(cbq') PROVE g \in FramesIn(cbq)
      <4>1. PICK i \in 1..Len(cbq') : g \in Frames(cbq'[i])
        BY <3>0, <3>3 DEF Part
      <4>2. i + 1 \in 1..Len(cbq) /\ cbq'[i] = cbq[i + 1]
        BY <2>2, <2>4
      <4> QED BY <3>0, <4>1, <4>2 DEF Part
    <3> QED BY <3>1, <3>2, <3>3
  <2>9. KeptOK'
    <3>1. FramesIn(cbq') \cup client' = FramesIn(cbq) \cup client
      BY <2>1, <2>8
    <3>2. CmdFrames(cmdq') = CmdFrames(cmdq) /\ FramesIn(chan'.queue) = FramesIn(chan.queue)
          /\ user' = user /\ leaked' = leaked
      BY <2>1
    <3> QED BY <1>0, <3>1, <3>2 DEF KeptOK, Places
  <2>10. QueueOK' /\ CmdsOK' /\ LastOK'
    BY <1>0, <2>1 DEF QueueOK, CmdsOK, CmdOK, LastOK
  <2> QED BY <1>0, <2>7, <2>9, <2>10 DEF Placed
<1>8. ASSUME NEW f \in client, QBuf(f) PROVE Placed'
  <2>1. /\ client' = client \ {f} /\ user' = user \ {f}
        /\ UNCHANGED <<last, cmdq, chan, spinning, cbq, sent, leaked>>
    BY <1>8 DEF QBuf
  <2>2. f[2] <= sent /\ f[2] \in Nat /\ \A i \in 1..Len(cbq) : f[2] < cbq[i].frame_idx
    BY <1>0 DEF OutOK, Frame, FrameIdx
  <2>3. f \notin FramesIn(chan.queue)
    <3> SUFFICES ASSUME f \in FramesIn(chan.queue) PROVE FALSE
      OBVIOUS
    <3>1. sent < f[2]
      BY <1>0 DEF QueueOK
    <3> QED BY <1>0, <2>2, <3>1
  <2>4. \A i \in 1..Len(cmdq) : cmdq[i].cmd_type = "DATA_CB" => Brought(cmdq[i]) # f
    <3> SUFFICES ASSUME NEW i \in 1..Len(cmdq), cmdq[i].cmd_type = "DATA_CB",
                        Brought(cmdq[i]) = f
                 PROVE  FALSE
      OBVIOUS
    <3>1. sent < cmdq[i].frame_idx /\ f[2] = cmdq[i].frame_idx
      BY <1>0 DEF CmdsOK, CmdOK, Brought
    <3> QED BY <1>0, <2>2, <3>1
  <2>5. \A i \in 1..Len(cbq) : f \notin Frames(cbq[i])
    <3> SUFFICES ASSUME NEW i \in 1..Len(cbq), f \in Frames(cbq[i]) PROVE FALSE
      OBVIOUS
    <3>1. f[2] = cbq[i].frame_idx /\ f[2] < cbq[i].frame_idx
      BY <2>2, NodeNumber
    <3> QED BY <2>2, <3>1
  <2>6. QueueOK'
    BY <1>0, <2>1, <2>3 DEF QueueOK
  <2>7. CmdsOK'
    BY <1>0, <2>1, <2>4 DEF CmdsOK, CmdOK
  <2>8. LastOK'
    BY <1>0, <2>1 DEF LastOK
  <2>9. OutOK'
    <3>1. \A i \in 1..Len(cbq) : Frames(cbq[i]) \subseteq user'
      BY <1>0, <2>1, <2>5 DEF OutOK
    <3> QED BY <1>0, <2>1, <3>1 DEF OutOK
  <2>10. KeptOK'
    <3>1. f \notin CmdFrames(cmdq)
      BY <2>4 DEF CmdFrames
    <3>2. f \notin FramesIn(cbq)
      BY <1>0, <2>5, FrameFacts DEF Part
    <3>3. /\ user = CmdFrames(cmdq) \cup FramesIn(chan.queue) \cup FramesIn(cbq) \cup client \cup leaked
          /\ (CmdFrames(cmdq) \cup FramesIn(chan.queue) \cup FramesIn(cbq) \cup client) \cap leaked = {}
      BY <1>0 DEF KeptOK, Places
    <3>4. f \notin leaked
      BY <1>8, <3>3
    <3>5. user' = CmdFrames(cmdq) \cup FramesIn(chan.queue) \cup FramesIn(cbq) \cup client' \cup leaked
      BY <2>1, <2>3, <3>1, <3>2, <3>3, <3>4
    <3>6. (CmdFrames(cmdq) \cup FramesIn(chan.queue) \cup FramesIn(cbq) \cup client') \cap leaked = {}
      BY <2>1, <3>3
    <3>7. cmdq' = cmdq /\ chan' = chan /\ cbq' = cbq /\ leaked' = leaked
      BY <2>1
    <3> QED BY <3>5, <3>6, <3>7 DEF KeptOK, Places
  <2> QED BY <1>0, <2>6, <2>7, <2>8, <2>9, <2>10 DEF Placed
<1>9. CASE UNCHANGED vars
  <2>1. UNCHANGED <<last, user, cmdq, chan, spinning, cbq, sent, client, leaked>>
    BY <1>9 DEF vars
  <2>2. QueueOK' /\ CmdsOK' /\ LastOK' /\ OutOK'
    BY <1>0, <2>1 DEF QueueOK, CmdsOK, CmdOK, LastOK, OutOK
  <2>3. KeptOK'
    BY <1>0, <2>1 DEF KeptOK, Places
  <2> QED BY <1>0, <2>2, <2>3 DEF Placed
<1> QED
  <2>1. 0 \in 0..MaxRequest /\ 1..MaxRequest \subseteq 0..MaxRequest
    BY ParameterAssumption
  <2> QED
    BY <1>1, <1>3, <1>4, <1>5, <1>6, <1>7, <1>8, <1>9, <2>1
    DEF Next, CancelSuperBufRequest, HalReturns

\* The frames are in their places in every state.
THEOREM Placement == Spec => []Placed
BY PlacedInit, PlacedNext, PTL DEF Spec

-----------------------------------------------------------------------------
(* One place for every frame.                                              *)

\* The frame the i-th command brings, if it brings one.
CmdPlace(i) == IF cmdq[i].cmd_type = "DATA_CB" THEN {Brought(cmdq[i])} ELSE {}

\* The places one by one: the commands, the queue, the callback messages, the HAL.
LEMMA HolderPlaces ==
  ASSUME cmdq \in Seq(Cmd), cbq \in Seq(Node), chan.queue \in Seq(Node), client \subseteq Frame
  PROVE  /\ Len(cmdq) \in Nat /\ Len(chan.queue) \in Nat /\ Len(cbq) \in Nat
         /\ DOMAIN Holders = 1..(Len(cmdq) + Len(chan.queue) + Len(cbq) + 1)
         /\ \A i \in 1..Len(cmdq) : Holders[i] = CmdPlace(i)
         /\ \A i \in 1..Len(chan.queue) : Holders[Len(cmdq) + i] = Frames(chan.queue[i])
         /\ \A i \in 1..Len(cbq) :
              Holders[Len(cmdq) + Len(chan.queue) + i] = Frames(cbq[i])
         /\ Holders[Len(cmdq) + Len(chan.queue) + Len(cbq) + 1] = client
<1> DEFINE S == SUBSET Frame
           a == Len(cmdq)  b == Len(chan.queue)  c == Len(cbq)
           A == [i \in DOMAIN cmdq |-> CmdPlace(i)]
           B == [i \in DOMAIN chan.queue |-> Frames(chan.queue[i])]
           C == [i \in DOMAIN cbq |-> Frames(cbq[i])]
           D == <<client>>
<1>1. /\ a \in Nat /\ b \in Nat /\ c \in Nat
      /\ DOMAIN cmdq = 1..a /\ DOMAIN chan.queue = 1..b /\ DOMAIN cbq = 1..c
  BY LenProperties
<1>2. /\ \A i \in 1..a : CmdPlace(i) \in S
      /\ \A i \in 1..b : Frames(chan.queue[i]) \in S
      /\ \A i \in 1..c : Frames(cbq[i]) \in S
  <2>1. \A i \in 1..a : CmdPlace(i) \in S
    <3> TAKE i \in 1..a
    <3>1. cmdq[i] \in Cmd
      BY ElementOfSeq
    <3> QED BY <3>1, CmdFields DEF CmdPlace, Brought, Frame
  <2> QED BY <2>1, FrameFacts
<1>3. Holders = A \o B \o C \o D
  BY DEF Holders, CmdPlace, Brought
<1>4. /\ A \in Seq(S) /\ Len(A) = a /\ \A i \in 1..a : A[i] = CmdPlace(i)
  BY <1>1, <1>2
<1>5. /\ B \in Seq(S) /\ Len(B) = b /\ \A i \in 1..b : B[i] = Frames(chan.queue[i])
  BY <1>1, <1>2
<1>6. /\ C \in Seq(S) /\ Len(C) = c /\ \A i \in 1..c : C[i] = Frames(cbq[i])
  BY <1>1, <1>2
<1>7. /\ D \in Seq(S) /\ Len(D) = 1 /\ D[1] = client
  OBVIOUS
<1> HIDE DEF S, a, b, c, A, B, C, D
<1>8. /\ A \o B \in Seq(S) /\ Len(A \o B) = a + b
      /\ \A i \in 1..(a + b) : (A \o B)[i] = IF i <= a THEN A[i] ELSE B[i - a]
  BY <1>4, <1>5, ConcatProperties
<1> DEFINE E == A \o B
<1>9. E \in Seq(S) /\ Len(E) = a + b
  BY <1>8
<1>10. /\ \A i \in 1..a : E[i] = CmdPlace(i)
       /\ \A i \in 1..b : E[a + i] = Frames(chan.queue[i])
  <2>1. \A i \in 1..a : E[i] = A[i]
    BY <1>1, <1>8
  <2>2. \A i \in 1..b : E[a + i] = B[i]
    <3> TAKE i \in 1..b
    <3>1. a + i \in 1..(a + b) /\ ~(a + i <= a) /\ (a + i) - a = i
      BY <1>1
    <3> QED BY <1>8, <3>1
  <2> QED BY <1>4, <1>5, <2>1, <2>2
<1> HIDE DEF E
<1>11. /\ E \o C \in Seq(S) /\ Len(E \o C) = a + b + c
       /\ \A i \in 1..(a + b + c) : (E \o C)[i] = IF i <= a + b THEN E[i] ELSE C[i - (a + b)]
  <2>1. /\ E \o C \in Seq(S) /\ Len(E \o C) = Len(E) + Len(C)
        /\ \A i \in 1..(Len(E) + Len(C)) :
             (E \o C)[i] = IF i <= Len(E) THEN E[i] ELSE C[i - Len(E)]
    BY <1>6, <1>9, ConcatProperties
  <2>2. Len(E) = a + b /\ Len(C) = c
    BY <1>6, <1>9
  <2> QED BY <2>1, <2>2
<1> DEFINE G == E \o C
<1>12. G \in Seq(S) /\ Len(G) = a + b + c
  BY <1>11
<1>13. /\ \A i \in 1..a : G[i] = CmdPlace(i)
       /\ \A i \in 1..b : G[a + i] = Frames(chan.queue[i])
       /\ \A i \in 1..c : G[a + b + i] = Frames(cbq[i])
  <2>1. \A i \in 1..(a + b) : G[i] = E[i]
    BY <1>1, <1>11
  <2>2. \A i \in 1..c : G[a + b + i] = C[i]
    <3> TAKE i \in 1..c
    <3>1. a + b + i \in 1..(a + b + c) /\ ~(a + b + i <= a + b) /\ (a + b + i) - (a + b) = i
      BY <1>1
    <3> QED BY <1>11, <3>1
  <2>3. /\ \A i \in 1..a : i \in 1..(a + b)
        /\ \A i \in 1..b : a + i \in 1..(a + b)
    BY <1>1
  <2> QED BY <1>6, <1>10, <2>1, <2>2, <2>3
<1> HIDE DEF G
<1>14. /\ G \o D \in Seq(S) /\ Len(G \o D) = a + b + c + 1
       /\ \A i \in 1..(a + b + c + 1) :
            (G \o D)[i] = IF i <= a + b + c THEN G[i] ELSE D[i - (a + b + c)]
  <2>1. /\ G \o D \in Seq(S) /\ Len(G \o D) = Len(G) + Len(D)
        /\ \A i \in 1..(Len(G) + Len(D)) :
             (G \o D)[i] = IF i <= Len(G) THEN G[i] ELSE D[i - Len(G)]
    BY <1>7, <1>12, ConcatProperties
  <2>2. Len(G) = a + b + c /\ Len(D) = 1
    BY <1>7, <1>12
  <2> QED BY <2>1, <2>2
<1>15. Holders = G \o D
  BY <1>3 DEF G, E
<1>16. DOMAIN Holders = 1..(a + b + c + 1)
  BY <1>14, <1>15, LenProperties
<1>17. \A i \in 1..(a + b + c) : Holders[i] = G[i]
  BY <1>1, <1>14, <1>15
<1>18. /\ \A i \in 1..a : i \in 1..(a + b + c)
       /\ \A i \in 1..b : a + i \in 1..(a + b + c)
       /\ \A i \in 1..c : a + b + i \in 1..(a + b + c)
  BY <1>1
<1>19. Holders[a + b + c + 1] = client
  <2>1. /\ a + b + c + 1 \in 1..(a + b + c + 1) /\ ~(a + b + c + 1 <= a + b + c)
        /\ (a + b + c + 1) - (a + b + c) = 1
    BY <1>1
  <2> QED BY <1>7, <1>14, <1>15, <2>1
<1> QED BY <1>1, <1>13, <1>16, <1>17, <1>18, <1>19 DEF a, b, c

\* Which place the number of a holder stands for.
LEMMA PlaceOf ==
  ASSUME cmdq \in Seq(Cmd), cbq \in Seq(Node), chan.queue \in Seq(Node), client \subseteq Frame,
         NEW i \in DOMAIN Holders, NEW g \in Holders[i]
  PROVE  \/ /\ i \in 1..Len(cmdq) /\ cmdq[i].cmd_type = "DATA_CB" /\ g = Brought(cmdq[i])
         \/ \E k \in 1..Len(chan.queue) : i = Len(cmdq) + k /\ g \in Frames(chan.queue[k])
         \/ \E k \in 1..Len(cbq) :
              i = Len(cmdq) + Len(chan.queue) + k /\ g \in Frames(cbq[k])
         \/ i = Len(cmdq) + Len(chan.queue) + Len(cbq) + 1 /\ g \in client
<1> DEFINE a == Len(cmdq)  b == Len(chan.queue)  c == Len(cbq)
<1>1. /\ a \in Nat /\ b \in Nat /\ c \in Nat
      /\ i \in 1..(a + b + c + 1)
      /\ \A k \in 1..a : Holders[k] = CmdPlace(k)
      /\ \A k \in 1..b : Holders[a + k] = Frames(chan.queue[k])
      /\ \A k \in 1..c : Holders[a + b + k] = Frames(cbq[k])
      /\ Holders[a + b + c + 1] = client
  BY HolderPlaces
<1> HIDE DEF a, b, c
<1>2. CASE i <= a
  <2>1. i \in 1..a
    BY <1>1, <1>2
  <2>2. g \in CmdPlace(i)
    BY <1>1, <2>1
  <2> QED BY <2>1, <2>2 DEF CmdPlace, a
<1>3. CASE a < i /\ i <= a + b
  <2>1. i - a \in 1..b /\ a + (i - a) = i
    BY <1>1, <1>3
  <2>2. g \in Frames(chan.queue[i - a])
    BY <1>1, <2>1
  <2> QED BY <2>1, <2>2 DEF a, b
<1>4. CASE a + b < i /\ i <= a + b + c
  <2>1. i - (a + b) \in 1..c /\ a + b + (i - (a + b)) = i
    BY <1>1, <1>4
  <2>2. g \in Frames(cbq[i - (a + b)])
    BY <1>1, <2>1
  <2> QED BY <2>1, <2>2 DEF a, b, c
<1>5. CASE a + b + c < i
  <2>1. i = a + b + c + 1
    <3>1. a \in Nat /\ b \in Nat /\ c \in Nat /\ i \in 1..(a + b + c + 1)
      BY <1>1
    <3> QED BY <1>5, <3>1
  <2> QED BY <1>1, <2>1 DEF a, b, c
<1> QED BY <1>1, <1>2, <1>3, <1>4, <1>5

\* No buffer is in two places, or given back while it is in one: the frame in a
\* command is newer than all its stream has in the queue, what is queued is newer
\* than what was sent, and what the HAL has is older than what is on its way.
THEOREM OwnedOnceAlways == Spec => []OwnedOnce
<1>1. Placed => OwnedOnce
  <2> SUFFICES ASSUME Placed PROVE OwnedOnce
    OBVIOUS
  <2>0. /\ cmdq \in Seq(Cmd) /\ cbq \in Seq(Node) /\ chan.queue \in Seq(Node)
        /\ client \subseteq Frame /\ sent \in Nat
        /\ QueueOK /\ CmdsOK /\ OutOK
    BY ChanFields DEF Placed, Inv, TypeOK
  <2> DEFINE a == Len(cmdq)  b == Len(chan.queue)  c == Len(cbq)
             InCmd(i, g)    == i \in 1..a /\ cmdq[i].cmd_type = "DATA_CB" /\ g = Brought(cmdq[i])
             InQueue(i, g)  == \E k \in 1..b : i = a + k /\ g \in Frames(chan.queue[k])
             InCb(i, g)     == \E k \in 1..c : i = a + b + k /\ g \in Frames(cbq[k])
             InClient(i, g) == i = a + b + c + 1 /\ g \in client
  <2>1. /\ a \in Nat /\ b \in Nat /\ c \in Nat
        /\ DOMAIN Holders \subseteq Nat
    BY <2>0, HolderPlaces
  <2>2. ASSUME NEW i \in DOMAIN Holders, NEW g \in Holders[i]
        PROVE  InCmd(i, g) \/ InQueue(i, g) \/ InCb(i, g) \/ InClient(i, g)
    BY <2>0, <2>2, PlaceOf
  <2>3. ASSUME NEW i, NEW g, InCmd(i, g)
        PROVE  /\ g \in user /\ sent < g[2] /\ g[2] \in Nat /\ g[1] = cmdq[i].stream
               /\ g[2] = cmdq[i].frame_idx /\ g \notin FramesIn(chan.queue)
    <3>1. CmdOK(cmdq[i])
      BY <2>0, <2>3 DEF CmdsOK
    <3>2. cmdq[i] \in Cmd
      BY <2>0, <2>3, ElementOfSeq
    <3>3. g[1] = cmdq[i].stream /\ g[2] = cmdq[i].frame_idx
      BY <2>3 DEF Brought
    <3>4. g[2] \in Nat
      BY <2>3, <3>2, <3>3, CmdFields DEF FrameIdx
    <3>5. g \in FramesIn(chan.queue) => g[2] < g[2]
      BY <2>3, <3>1, <3>3 DEF CmdOK
    <3> QED BY <2>3, <3>1, <3>3, <3>4, <3>5 DEF CmdOK
  <2>4. ASSUME NEW k \in 1..b, NEW g \in Frames(chan.queue[k])
        PROVE  /\ g \in user /\ sent < g[2] /\ g[2] = chan.queue[k].frame_idx
               /\ g \in FramesIn(chan.queue) /\ g[2] \in Nat
    <3>1. /\ FramesIn(chan.queue) = Part(chan.queue, 1, b)
          /\ chan.queue[k].frame_idx \in Nat
      BY <2>0, FrameFacts
    <3>2. g \in FramesIn(chan.queue)
      BY <2>4, <3>1 DEF Part
    <3> QED BY <2>0, <2>4, <3>1, <3>2, NodeNumber DEF QueueOK
  <2>5. ASSUME NEW k \in 1..c, NEW g \in Frames(cbq[k])
        PROVE  g \in user /\ g[2] <= sent /\ g[2] = cbq[k].frame_idx /\ g[2] \in Nat
    <3>1. cbq[k].frame_idx \in Nat
      BY <2>0, FrameFacts
    <3> QED BY <2>0, <2>5, <3>1, NodeNumber DEF OutOK
  <2>6. ASSUME NEW g \in client
        PROVE  /\ g \in user /\ g[2] <= sent /\ g[2] \in Nat
               /\ \A k \in 1..c : g[2] < cbq[k].frame_idx
    BY <2>0 DEF OutOK, Frame, FrameIdx
  <2>7. ASSUME NEW i \in DOMAIN Holders PROVE Holders[i] \subseteq user
    <3> SUFFICES ASSUME NEW g \in Holders[i] PROVE g \in user
      OBVIOUS
    <3> HIDE DEF a, b, c
    <3> QED BY <2>2, <2>3, <2>4, <2>5, <2>6
  <2>8. ASSUME NEW i \in DOMAIN Holders, NEW j \in DOMAIN Holders, i < j,
               NEW g \in Holders[i], g \in Holders[j]
        PROVE  FALSE
    <3>1. /\ InCmd(i, g) \/ InQueue(i, g) \/ InCb(i, g) \/ InClient(i, g)
          /\ InCmd(j, g) \/ InQueue(j, g) \/ InCb(j, g) \/ InClient(j, g)
      BY <2>2, <2>8
    <3>2. CASE InCmd(i, g)
      <4>1. CASE InCmd(j, g)
        <5>1. /\ i \in 1..a /\ j \in 1..a
              /\ cmdq[i].cmd_type = "DATA_CB" /\ cmdq[j].cmd_type = "DATA_CB"
              /\ g[1] = cmdq[i].stream /\ g[2] = cmdq[i].frame_idx /\ g[2] \in Nat
          BY <2>3, <3>2, <4>1
        <5>2. g[1] = cmdq[j].stream /\ g[2] = cmdq[j].frame_idx
          BY <2>3, <4>1
        <5>3. cmdq[i].frame_idx < cmdq[j].frame_idx
          BY <2>0, <2>8, <5>1, <5>2 DEF CmdsOK
        <5> QED BY <5>1, <5>2, <5>3
      <4>2. CASE InQueue(j, g)
        BY <2>3, <2>4, <3>2, <4>2
      <4>3. CASE InCb(j, g)
        BY <2>0, <2>3, <2>5, <3>2, <4>3
      <4>4. CASE InClient(j, g)
        BY <2>0, <2>3, <2>6, <3>2, <4>4
      <4> QED BY <3>1, <4>1, <4>2, <4>3, <4>4
    <3>3. CASE InQueue(i, g)
      <4> PICK k \in 1..b : i = a + k /\ g \in Frames(chan.queue[k])
        BY <3>3
      <4>1. CASE InCmd(j, g)
        BY <2>1, <2>8, <4>1
      <4>2. CASE InQueue(j, g)
        <5> PICK l \in 1..b : j = a + l /\ g \in Frames(chan.queue[l])
          BY <4>2
        <5>1. k < l
          BY <2>1, <2>8
        <5>2. chan.queue[k].frame_idx < chan.queue[l].frame_idx
          BY <2>0, <5>1 DEF QueueOK, Rising
        <5>3. g[2] = chan.queue[k].frame_idx /\ g[2] \in Nat
          BY <2>4
        <5>4. g[2] = chan.queue[l].frame_idx
          BY <2>4
        <5> QED BY <5>2, <5>3, <5>4
      <4>3. CASE InCb(j, g)
        <5>1. sent < g[2] /\ g[2] \in Nat
          BY <2>4
        <5>2. g[2] <= sent
          BY <2>5, <4>3
        <5> QED BY <2>0, <5>1, <5>2
      <4>4. CASE InClient(j, g)
        BY <2>0, <2>4, <2>6, <4>4
      <4> QED BY <3>1, <4>1, <4>2, <4>3, <4>4
    <3>4. CASE InCb(i, g)
      <4> PICK k \in 1..c : i = a + b + k /\ g \in Frames(cbq[k])
        BY <3>4
      <4>1. CASE InCmd(j, g)
        BY <2>1, <2>8, <4>1
      <4>2. CASE InQueue(j, g)
        BY <2>1, <2>8, <4>2
      <4>3. CASE InCb(j, g)
        <5> PICK l \in 1..c : j = a + b + l /\ g \in Frames(cbq[l])
          BY <4>3
        <5>1. k < l
          BY <2>1, <2>8
        <5>2. cbq[k].frame_idx < cbq[l].frame_idx
          BY <2>0, <5>1 DEF OutOK, Rising
        <5>3. g[2] = cbq[k].frame_idx /\ g[2] \in Nat
          BY <2>5
        <5>4. g[2] = cbq[l].frame_idx
          BY <2>5
        <5> QED BY <5>2, <5>3, <5>4
      <4>4. CASE InClient(j, g)
        <5>1. g[2] < cbq[k].frame_idx
          BY <2>6, <4>4
        <5> QED BY <2>5, <5>1
      <4> QED BY <3>1, <4>1, <4>2, <4>3, <4>4
    <3>5. CASE InClient(i, g)
      <4>1. j <= a + b + c + 1
        <5> HIDE DEF a, b, c
        <5> QED BY <2>1, <3>1
      <4> QED BY <2>1, <2>8, <3>5, <4>1
    <3> QED BY <3>1, <3>2, <3>3, <3>4, <3>5
  <2>9. ASSUME NEW i \in DOMAIN Holders, NEW j \in DOMAIN Holders, i # j
        PROVE  Holders[i] \cap Holders[j] = {}
    <3>1. i < j \/ j < i
      BY <2>1, <2>9
    <3> QED BY <2>8, <3>1
  <2> QED BY <2>7, <2>9 DEF OwnedOnce
<1> QED BY <1>1, Placement, PTL

\* No buffer is lost but by a failure nobody handles: what is in user space is in
\* one of the places, or was forgotten because a message for it could not be queued
\* or its metadata was refused; and what was forgotten is in none of the places.
THEOREM NoBufferLostAlways == Spec => []NoBufferLost
<1>1. Placed => NoBufferLost
  <2> SUFFICES ASSUME Placed PROVE NoBufferLost
    OBVIOUS
  <2>0. /\ cmdq \in Seq(Cmd) /\ cbq \in Seq(Node) /\ chan.queue \in Seq(Node)
        /\ client \subseteq Frame
        /\ user = Places \cup leaked /\ Places \cap leaked = {}
    BY ChanFields DEF Placed, Inv, TypeOK, KeptOK
  <2> DEFINE a == Len(cmdq)  b == Len(chan.queue)  c == Len(cbq)
             held == UNION {Holders[i] : i \in DOMAIN Holders}
  <2>1. /\ a \in Nat /\ b \in Nat /\ c \in Nat
        /\ DOMAIN Holders = 1..(a + b + c + 1)
        /\ \A i \in 1..a : Holders[i] = CmdPlace(i)
        /\ \A i \in 1..b : Holders[a + i] = Frames(chan.queue[i])
        /\ \A i \in 1..c : Holders[a + b + i] = Frames(cbq[i])
        /\ Holders[a + b + c + 1] = client
    BY <2>0, HolderPlaces
  <2>2. ASSUME NEW g \in Places PROVE \E i \in DOMAIN Holders : g \in Holders[i]
    <3>1. CASE g \in CmdFrames(cmdq)
      <4>1. PICK i \in 1..a : cmdq[i].cmd_type = "DATA_CB" /\ g = Brought(cmdq[i])
        BY <3>1 DEF CmdFrames
      <4>2. g \in Holders[i]
        BY <2>1, <4>1 DEF CmdPlace
      <4>3. i \in DOMAIN Holders
        BY <2>1
      <4> QED BY <4>2, <4>3
    <3>2. CASE g \in FramesIn(chan.queue)
      <4>1. PICK i \in 1..b : g \in Frames(chan.queue[i])
        BY <2>0, <3>2, FrameFacts DEF Part
      <4>2. a + i \in DOMAIN Holders
        BY <2>1
      <4> QED BY <2>1, <4>1, <4>2
    <3>3. CASE g \in FramesIn(cbq)
      <4>1. PICK i \in 1..c : g \in Frames(cbq[i])
        BY <2>0, <3>3, FrameFacts DEF Part
      <4>2. a + b + i \in DOMAIN Holders
        BY <2>1
      <4> QED BY <2>1, <4>1, <4>2
    <3>4. CASE g \in client
      <4>1. a + b + c + 1 \in DOMAIN Holders
        BY <2>1
      <4> QED BY <2>1, <3>4, <4>1
    <3> QED BY <2>2, <3>1, <3>2, <3>3, <3>4 DEF Places
  <2>3. ASSUME NEW i \in DOMAIN Holders, NEW g \in Holders[i] PROVE g \in Places
    <3>0. /\ FramesIn(chan.queue) = Part(chan.queue, 1, b) /\ FramesIn(cbq) = Part(cbq, 1, c)
      BY <2>0, FrameFacts
    <3>1. \/ i \in 1..a /\ cmdq[i].cmd_type = "DATA_CB" /\ g = Brought(cmdq[i])
          \/ \E k \in 1..b : i = a + k /\ g \in Frames(chan.queue[k])
          \/ \E k \in 1..c : i = a + b + k /\ g \in Frames(cbq[k])
          \/ i = a + b + c + 1 /\ g \in client
      BY <2>0, PlaceOf
    <3>2. CASE i \in 1..a /\ cmdq[i].cmd_type = "DATA_CB" /\ g = Brought(cmdq[i])
      BY <3>2 DEF Places, CmdFrames
    <3>3. CASE \E k \in 1..b : i = a + k /\ g \in Frames(chan.queue[k])
      BY <3>0, <3>3 DEF Places, Part
    <3>4. CASE \E k \in 1..c : i = a + b + k /\ g \in Frames(cbq[k])
      BY <3>0, <3>4 DEF Places, Part
    <3>5. CASE g \in client
      BY <3>5 DEF Places
    <3> QED BY <3>1, <3>2, <3>3, <3>4, <3>5
  <2>4. held = Places
    BY <2>2, <2>3
  <2> QED BY <2>0, <2>4 DEF NoBufferLost
<1> QED BY <1>1, Placement, PTL

-----------------------------------------------------------------------------
(* The queue implements BundleContract.                                    *)

\* What a queue of super buffers owes the HAL.
Owed(q) == [i \in DOMAIN q |-> q[i].frame_idx]

\* One number for every super buffer.
LEMMA OwedFacts ==
  ASSUME NEW q \in Seq(Node)
  PROVE  /\ Owed(q) \in Seq(Nat) /\ Len(Owed(q)) = Len(q) /\ Len(q) \in Nat
         /\ DOMAIN Owed(q) = 1..Len(q)
         /\ \A i \in 1..Len(q) : Owed(q)[i] = q[i].frame_idx /\ Owed(q)[i] \in Nat
<1>1. /\ DOMAIN q = 1..Len(q) /\ Len(q) \in Nat
      /\ \A i \in 1..Len(q) : q[i].frame_idx \in Nat
  BY LenProperties, FrameFacts
<1> QED BY <1>1 DEF Owed

\* A frame in user space newer than what was sent is neither promised nor handed
\* out.
LEMMA HeldFrames ==
  ASSUME Placed, NEW g \in user, sent < g[2]
  PROVE  g \in Contract!Held
<1>0. /\ cbq \in Seq(Node) /\ OutOK /\ sent \in Nat /\ g[2] \in Nat
  BY DEF Placed, Inv, TypeOK, Frame, FrameIdx
<1>1. g \notin client
  BY <1>0 DEF OutOK
<1>2. ASSUME NEW i \in DOMAIN cbq, g \in Contract!SuperBuf(cbq[i].frame_idx)
      PROVE  FALSE
  <2>1. i \in 1..Len(cbq)
    BY <1>0, LenProperties
  <2>2. cbq[i].frame_idx <= sent
    BY <1>0, <2>1 DEF OutOK
  <2>3. g[2] = cbq[i].frame_idx
    BY <1>2 DEF Contract!SuperBuf
  <2> QED BY <1>0, <2>2, <2>3
<1> QED BY <1>1, <1>2 DEF Contract!Held, Contract!Promised

\* What the command thread does to the channel is a sorting step.
LEMMA SendsSorts ==
  ASSUME Placed, NEW F, Given(F), NEW out, NEW gone, NEW lost, Sends(out, gone, lost, F),
         last' = last, client' = client
  PROVE  Contract!Sort
<1>0. /\ Inv /\ QueueOK /\ OutOK /\ cbq \in Seq(Node)
  BY DEF Placed, Inv, TypeOK
<1>1. /\ \A g \in FramesIn(chan.queue) \cup F :
           g \in user /\ g \in Frame /\ sent < g[2] /\ g[2] \in Nat
      /\ \A i \in 1..Len(out) : sent < out[i].frame_idx /\ out[i].frame_idx <= sent'
  BY <1>0, SendsNumbers
<1>2. /\ out \in Seq(Node) /\ Rising(out) /\ WholeOnes(out)
      /\ FramesIn(out) \cup FramesIn(chan'.queue) \cup gone \cup lost
           = FramesIn(chan.queue) \cup F
      /\ gone \cap (FramesIn(out) \cup FramesIn(chan'.queue)) = {}
      /\ cbq' = cbq \o out /\ user' = user \ gone
      /\ sent' = IF out # <<>> THEN out[Len(out)].frame_idx ELSE sent
  BY DEF Sends
<1> DEFINE P == Owed(cbq)  Q == Owed(cbq')
<1>3. /\ cbq' \in Seq(Node) /\ Len(cbq') = Len(cbq) + Len(out)
      /\ \A i \in 1..Len(cbq) : cbq'[i] = cbq[i]
      /\ \A i \in 1..Len(out) : cbq'[i + Len(cbq)] = out[i]
  BY <1>0, <1>2, ConcatFrames
<1>4. /\ P \in Seq(Nat) /\ Len(P) = Len(cbq) /\ Len(cbq) \in Nat
      /\ \A i \in 1..Len(cbq) : P[i] = cbq[i].frame_idx
  BY <1>0, OwedFacts
<1>5. /\ Q \in Seq(Nat) /\ Len(Q) = Len(cbq')
      /\ \A i \in 1..Len(cbq') : Q[i] = cbq'[i].frame_idx
  BY <1>3, OwedFacts
<1>6. Len(out) \in Nat /\ \A i \in 1..Len(out) : out[i].frame_idx \in Nat
  BY <1>2, FrameFacts
<1> HIDE DEF P, Q
<1>7. Len(Q) = Len(P) + Len(out)
  BY <1>3, <1>4, <1>5
<1>8. \A i \in 1..Len(P) : Q[i] = P[i]
  <2> TAKE i \in 1..Len(P)
  <2>1. i \in 1..Len(cbq) /\ i \in 1..Len(cbq')
    BY <1>3, <1>4, <1>6
  <2> QED BY <1>3, <1>4, <1>5, <2>1
<1>9. \A k \in 1..Len(out) : Q[k + Len(P)] = out[k].frame_idx
  <2> TAKE k \in 1..Len(out)
  <2>1. k + Len(cbq) \in 1..Len(cbq')
    BY <1>3, <1>4, <1>6
  <2> QED BY <1>3, <1>4, <1>5, <2>1
<1>10. SubSeq(Q, 1, Len(P)) = P
  <2>1. /\ SubSeq(Q, 1, Len(P)) \in Seq(Nat) /\ Len(SubSeq(Q, 1, Len(P))) = Len(P)
        /\ \A i \in 1..Len(P) : SubSeq(Q, 1, Len(P))[i] = Q[i]
    <3>1. Len(P) \in 0..Len(Q)
      BY <1>4, <1>6, <1>7
    <3> QED BY <1>5, <3>1, TakeFacts
  <2> QED BY <1>4, <1>8, <2>1, SeqEqual
<1>11. user' \subseteq user /\ user \ user' \subseteq Contract!Held
  <2> SUFFICES ASSUME NEW g \in user, g \in gone PROVE g \in Contract!Held
    BY <1>2
  <2> QED BY <1>1, <1>2, HeldFrames
<1>12. ASSUME NEW i \in (Len(P) + 1)..Len(Q)
       PROVE  /\ Q[i] > (IF i = Len(P) + 1 THEN sent ELSE Q[i - 1])
              /\ Contract!SuperBuf(Q[i]) \subseteq Contract!Held \cap user'
  <2>1. PICK k \in 1..Len(out) : i = k + Len(P)
    <3>1. i - Len(P) \in 1..Len(out) /\ i = (i - Len(P)) + Len(P)
      BY <1>4, <1>6, <1>7
    <3> QED BY <3>1
  <2>2. Q[i] = out[k].frame_idx
    BY <1>9, <2>1
  <2>3. Q[i] > (IF i = Len(P) + 1 THEN sent ELSE Q[i - 1])
    <3>1. CASE k = 1
      <4>1. i = Len(P) + 1
        BY <1>4, <2>1, <3>1
      <4>2. sent < out[k].frame_idx /\ sent \in Nat /\ out[k].frame_idx \in Nat
        BY <1>0, <1>1, <1>6 DEF Inv, TypeOK
      <4> QED BY <2>2, <4>1, <4>2
    <3>2. CASE k # 1
      <4>1. k - 1 \in 1..Len(out) /\ k - 1 < k /\ i - 1 = (k - 1) + Len(P) /\ i # Len(P) + 1
        BY <1>4, <1>6, <2>1, <3>2
      <4>2. Q[i - 1] = out[k - 1].frame_idx
        BY <1>9, <4>1
      <4>3. out[k - 1].frame_idx < out[k].frame_idx
        BY <1>2, <4>1 DEF Rising
      <4>4. out[k - 1].frame_idx \in Nat /\ out[k].frame_idx \in Nat
        BY <1>6, <4>1
      <4> QED BY <2>2, <4>1, <4>2, <4>3, <4>4
    <3> QED BY <3>1, <3>2
  <2>4. Contract!SuperBuf(Q[i]) \subseteq FramesIn(out)
    <3>1. Frames(out[k]) = Streams \X {out[k].frame_idx} /\ Frames(out[k]) \subseteq FramesIn(out)
      BY <1>2, WholeFrames
    <3> QED BY <2>2, <3>1 DEF Contract!SuperBuf
  <2>5. FramesIn(out) \subseteq Contract!Held \cap user'
    <3> SUFFICES ASSUME NEW g \in FramesIn(out) PROVE g \in Contract!Held /\ g \in user'
      OBVIOUS
    <3>1. g \in user /\ sent < g[2]
      BY <1>1, <1>2
    <3>2. g \notin gone
      BY <1>2
    <3> QED BY <1>2, <3>1, <3>2, HeldFrames
  <2> QED BY <2>3, <2>4, <2>5
<1>13. sent' = IF Len(Q) > Len(P) THEN Q[Len(Q)] ELSE sent
  <2>1. CASE out = <<>>
    <3>1. Len(out) = 0
      BY <2>1, EmptySeq
    <3> QED BY <1>2, <1>4, <1>7, <2>1, <3>1
  <2>2. CASE out # <<>>
    <3>1. Len(out) # 0
      BY <1>2, <2>2, EmptySeq
    <3>2. Len(out) \in 1..Len(out) /\ Len(Q) > Len(P) /\ Len(Q) = Len(out) + Len(P)
      BY <1>4, <1>6, <1>7, <3>1
    <3> QED BY <1>2, <1>9, <2>2, <3>2
  <2> QED BY <2>1, <2>2
<1>14. Len(Q) >= Len(P)
  BY <1>4, <1>6, <1>7
<1> QED BY <1>10, <1>11, <1>12, <1>13, <1>14 DEF Contract!Sort, P, Q, Owed

\* Every step of the channel is a step of the contract, or leaves it alone.
LEMMA ContractStep == Placed /\ [Next]_vars => [Contract!Next]_(Contract!vars)
<1> SUFFICES ASSUME Placed, [Next]_vars PROVE [Contract!Next]_(Contract!vars)
  OBVIOUS
<1>0. cbq \in Seq(Node) /\ WholeOnes(cbq)
  BY DEF Placed, Inv, TypeOK
<1>1. ASSUME NEW s \in Streams, NEW n \in FrameIdx, NEW md \in Metadata,
             DataNotify(s, n, md)
      PROVE  Contract!Next
  <2>1. Contract!Borrow(s, n)
    BY <1>1 DEF DataNotify, Contract!Borrow
  <2> QED BY <2>1 DEF Contract!Next, FrameIdx
<1>2. ASSUME NEW cmd, ClientCall(cmd) PROVE UNCHANGED Contract!vars
  BY <1>2 DEF ClientCall, Contract!vars
<1>3. CASE ProcessStreamBuf
  <2>1. /\ last' = last /\ client' = client
        /\ \E F, out, gone, lost : Given(F) /\ Sends(out, gone, lost, F)
    BY <1>3, CommandSends
  <2>2. Contract!Sort
    BY <2>1, SendsSorts
  <2> QED BY <2>2 DEF Contract!Next
<1>4. CASE DispatchSuperBuf
  <2>1. /\ cbq # <<>> /\ cbq' = Tail(cbq) /\ client' = client \cup Frames(Head(cbq))
        /\ UNCHANGED <<last, user, sent>>
    BY <1>4 DEF DispatchSuperBuf
  <2> DEFINE P == Owed(cbq)  Q == Owed(cbq')
  <2>2. /\ Head(cbq) = cbq[1] /\ cbq' \in Seq(Node) /\ Len(cbq') = Len(cbq) - 1
        /\ \A i \in 1..Len(cbq') : cbq'[i] = cbq[i + 1]
    BY <1>0, <2>1, HeadTailProperties
  <2>3. /\ P \in Seq(Nat) /\ Len(P) = Len(cbq) /\ Len(cbq) \in Nat
        /\ \A i \in 1..Len(cbq) : P[i] = cbq[i].frame_idx
    BY <1>0, OwedFacts
  <2>4. /\ Q \in Seq(Nat) /\ Len(Q) = Len(cbq')
        /\ \A i \in 1..Len(cbq') : Q[i] = cbq'[i].frame_idx
    BY <2>2, OwedFacts
  <2> HIDE DEF P, Q
  <2>5. Len(cbq) # 0
    BY <1>0, <2>1, EmptySeq
  <2>6. P # <<>> /\ Head(P) = cbq[1].frame_idx
    BY <2>3, <2>5, EmptySeq
  <2>7. Q = Tail(P)
    <3>1. /\ Tail(P) \in Seq(Nat) /\ Len(Tail(P)) = Len(P) - 1
          /\ \A i \in 1..Len(Tail(P)) : Tail(P)[i] = P[i + 1]
      BY <2>3, <2>6, HeadTailProperties
    <3>2. Len(Q) = Len(Tail(P))
      BY <2>2, <2>3, <2>4, <3>1
    <3>3. ASSUME NEW i \in 1..Len(Q) PROVE Q[i] = Tail(P)[i]
      <4>1. i + 1 \in 1..Len(cbq)
        BY <2>2, <2>3, <2>4
      <4> QED BY <2>2, <2>3, <2>4, <3>1, <3>2, <4>1
    <3> QED BY <2>4, <3>1, <3>2, <3>3, SeqEqual
  <2>8. Frames(Head(cbq)) = Contract!SuperBuf(Head(P))
    <3>1. 1 \in 1..Len(cbq)
      BY <2>3, <2>5
    <3>2. Frames(cbq[1]) = Streams \X {cbq[1].frame_idx}
      BY <1>0, <3>1, WholeFrames
    <3> QED BY <2>2, <2>6, <3>2 DEF Contract!SuperBuf
  <2>9. Contract!CallBack
    BY <2>1, <2>6, <2>7, <2>8 DEF Contract!CallBack, P, Q, Owed
  <2> QED BY <2>9 DEF Contract!Next
<1>5. ASSUME NEW f \in client, QBuf(f) PROVE Contract!Next
  <2>1. Contract!Return(f)
    BY <1>5 DEF QBuf, Contract!Return
  <2> QED BY <2>1 DEF Contract!Next
<1>6. CASE UNCHANGED vars
  BY <1>6 DEF vars, Contract!vars
<1> QED
  BY <1>1, <1>2, <1>3, <1>4, <1>5, <1>6
  DEF Next, RequestSuperBuf, CancelSuperBufRequest, FlushSuperBufQueue, ConfigNotifyMode,
      HalReturns

\* The queue keeps the contract: what the HAL gets are whole super buffers of one
\* number, in increasing order, and only the HAL gives back what it was promised.
THEOREM ImplementsContract == Spec => KeepsContract
<1>1. Init => Contract!Init
  <2> SUFFICES ASSUME Init PROVE Contract!Init
    OBVIOUS
  <2>1. Owed(cbq) = <<>>
    <3>1. cbq = <<>> /\ cbq \in Seq(Node)
      BY EmptySeq DEF Init
    <3>2. Owed(cbq) \in Seq(Nat) /\ Len(Owed(cbq)) = 0
      BY <3>1, OwedFacts, EmptySeq
    <3> QED BY <3>2, EmptySeq
  <2> QED BY <2>1 DEF Init, Contract!Init, Owed
<1>2. Placed /\ [Next]_vars => [Contract!Next]_(Contract!vars)
  BY ContractStep
<1> QED BY <1>1, <1>2, Placement, PTL DEF Spec, KeepsContract, Contract!Spec

-----------------------------------------------------------------------------
(* The bundle does not stall.                                              *)

\* A stream has a buffer more than the queue's limits: getBufNumRequired gives
\* every stream of a bundle at least CAMERA_MIN_STREAMING_BUFFERS more.
EnoughBuffers == \A s \in Streams : NumBufs[s] > WaterMark + MaxUnmatchedFrames

\* The nodes of the queue that have a frame of a stream.
NodesOf(s) == {i \in 1..Len(chan.queue) : s \in chan.queue[i].super_buf}

\* No more frames of a stream in the queue than nodes that have one.
LEMMA FramesPerNode ==
  ASSUME chan.queue \in Seq(Node), NEW s \in Streams
  PROVE  LET T == {f \in FramesIn(chan.queue) : f[1] = s}
         IN  /\ IsFiniteSet(T) /\ IsFiniteSet(NodesOf(s))
             /\ Cardinality(T) \in Nat /\ Cardinality(NodesOf(s)) \in Nat
             /\ Cardinality(T) <= Cardinality(NodesOf(s))
             /\ Cardinality(NodesOf(s)) <= Len(chan.queue)
             /\ Cardinality(NodesOf(s)) = Len(chan.queue) => NodesOf(s) = 1..Len(chan.queue)
<1> DEFINE q == chan.queue
           S == NodesOf(s)
           I == {<<s, q[i].frame_idx>> : i \in S}
           g == [i \in S |-> <<s, q[i].frame_idx>>]
           T == {f \in FramesIn(q) : f[1] = s}
<1>1. Len(q) \in Nat
  BY FrameFacts
<1>2. IsFiniteSet(1..Len(q)) /\ Cardinality(1..Len(q)) = Len(q)
  <2>1. ASSUME NEW n \in Nat PROVE IsFiniteSet(1..n) /\ Cardinality(1..n) = n
    <3>1. IsFiniteSet(1..n) /\ Cardinality(1..n) = IF 1 > n THEN 0 ELSE n - 1 + 1
      BY FS_Interval
    <3> QED BY <3>1
  <2> QED BY <1>1, <2>1
<1>3. /\ IsFiniteSet(S) /\ Cardinality(S) <= Cardinality(1..Len(q))
      /\ Cardinality(1..Len(q)) = Cardinality(S) => 1..Len(q) = S
  <2>1. S \in SUBSET (1..Len(q))
    BY DEF NodesOf
  <2> QED BY <1>2, <2>1, FS_Subset
<1>4. g \in Surjection(S, I)
  BY DEF Surjection
<1>5. IsFiniteSet(I) /\ Cardinality(I) <= Cardinality(S)
  BY <1>3, <1>4, FS_Surjection
<1>6. T \in SUBSET I
  <2> SUFFICES ASSUME NEW f \in FramesIn(q), f[1] = s PROVE f \in I
    OBVIOUS
  <2>1. PICK i \in 1..Len(q) : f \in Frames(q[i])
    BY FrameFacts DEF Part
  <2>2. f[1] \in q[i].super_buf /\ f[2] = q[i].frame_idx /\ f = <<f[1], f[2]>>
    BY <2>1, NodeNumber
  <2>3. i \in S
    BY <2>2 DEF NodesOf
  <2> QED BY <2>2, <2>3
<1>7. IsFiniteSet(T) /\ Cardinality(T) <= Cardinality(I)
  BY <1>5, <1>6, FS_Subset
<1>8. Cardinality(T) \in Nat /\ Cardinality(I) \in Nat /\ Cardinality(S) \in Nat
  BY <1>3, <1>5, <1>7, FS_CardinalityType
<1> HIDE DEF S, I, T, q
<1>9. Cardinality(T) <= Cardinality(S)
  BY <1>5, <1>7, <1>8
<1> QED BY <1>2, <1>3, <1>7, <1>8, <1>9 DEF S, T, q

\* With more buffers than the limits of the queue, the queue never holds every
\* buffer of every stream: then its nodes would all be matched, and more than the
\* water mark.
THEOREM NoStallAlways == ASSUME EnoughBuffers PROVE Spec => []NoStall
<1>1. Inv => NoStall
  <2> SUFFICES ASSUME Inv, user = FramesIn(chan.queue),
                      \A s \in Streams : Cardinality({f \in user : f[1] = s}) = NumBufs[s]
               PROVE  FALSE
    BY DEF NoStall
  <2> DEFINE q == chan.queue  L == Len(q)  m == chan.match_cnt  W == WaterMark  U == MaxUnmatchedFrames
  <2>1. /\ q \in Seq(Node) /\ L \in Nat /\ W \in Nat /\ U \in Nat /\ m \in Nat
        /\ m <= L /\ L <= m + U + 1 /\ m <= W
        /\ \A i \in 1..L : q[i].matched <=> i <= m
        /\ \A i \in 1..L : q[i].matched <=> q[i].super_buf = Streams
        /\ \A i \in 1..L : q[i] \in Node
    <3>1. /\ q \in Seq(Node) /\ L \in Nat /\ \A i \in 1..L : q[i] \in Node
          /\ chan.notify_mode \in {BURST, CONTINUOUS} /\ m \in Int
      BY ChanFields DEF Inv, TypeOK
    <3>2. /\ m \in 0..L /\ L <= m + U + 1
          /\ \A i \in 1..L : q[i].matched <=> i <= m
          /\ \A i \in 1..L : q[i].matched <=> q[i].super_buf = Streams
      BY DEF Inv, ChanInv, Ordered
    <3>3. W \in Nat /\ U \in Nat
      BY ParameterAssumption
    <3>4. m <= W
      <4>1. /\ chan.notify_mode = BURST => m <= W
            /\ chan.notify_mode = CONTINUOUS => m = 0
        BY DEF Inv, Trimmed
      <4> QED BY <3>1, <3>3, <4>1
    <3> QED BY <3>1, <3>2, <3>3, <3>4
  <2>2. ASSUME NEW s \in Streams PROVE NodesOf(s) = 1..L /\ L > W + U
    <3> DEFINE N == Cardinality(NodesOf(s))  T == {f \in FramesIn(chan.queue) : f[1] = s}
    <3>1. /\ Cardinality(T) \in Nat /\ N \in Nat /\ Cardinality(T) <= N /\ N <= L
          /\ N = L => NodesOf(s) = 1..L
      BY <2>1, FramesPerNode
    <3>2. Cardinality(T) = NumBufs[s] /\ NumBufs[s] > W + U /\ NumBufs[s] \in Nat
      BY ParameterAssumption DEF EnoughBuffers
    <3> HIDE DEF N, T, L, m, W, U
    <3>3. N > W + U /\ L <= W + U + 1
      BY <2>1, <3>1, <3>2
    <3>4. N = L
      BY <2>1, <3>1, <3>3
    <3> QED BY <2>1, <3>1, <3>3, <3>4
  <2>3. PICK s \in Streams : TRUE
    BY ParameterAssumption
  <2>4. L \in 1..L /\ L > m
    <3>1. L > W + U
      BY <2>2
    <3> HIDE DEF L, m, W, U
    <3> QED BY <2>1, <3>1
  <2>5. q[L].super_buf = Streams
    <3>1. \A t \in Streams : t \in q[L].super_buf
      BY <2>2, <2>4 DEF NodesOf
    <3>2. q[L].super_buf \subseteq Streams
      BY <2>1, <2>4, NodeFields
    <3> QED BY <3>1, <3>2
  <2>6. L <= m
    BY <2>1, <2>4, <2>5
  <2> HIDE DEF L, m
  <2> QED BY <2>1, <2>4, <2>6
<1> QED BY <1>1, Invariance, PTL

-----------------------------------------------------------------------------
(* Deliveries keep their distance.                                         *)

\* Spread looks at the matched nodes only.
LEMMA SpreadSame ==
  ASSUME NEW b, NEW q, NEW m \in Nat, NEW x, Spread(b, q, m, x),
         NEW r, \A i \in 1..m : r[i] = q[i]
  PROVE  Spread(b, r, m, x)
BY DEF Spread, Apart

\* A node that is matched comes behind the matched ones, at or after the frame to
\* expect, and moves that one on.
LEMMA SpreadMore ==
  ASSUME NEW b \in Seq(Node), NEW q \in Seq(Node), NEW m \in 0..Len(q), NEW x \in Nat,
         Spread(b, q, m, x),
         NEW r, NEW n \in Nat, x <= n,
         \A i \in 1..m : r[i] = q[i], r[m + 1].frame_idx = n
  PROVE  Spread(b, r, m + 1, n + PostFrameSkip)
<1>1. /\ PostFrameSkip \in Nat /\ m \in Nat
      /\ \A i \in 1..m : q[i].frame_idx \in Nat
      /\ \A i \in 1..Len(b) : b[i].frame_idx \in Nat
  <2>1. Len(q) \in Nat /\ \A i \in 1..Len(q) : q[i].frame_idx \in Nat
    BY FrameFacts
  <2> QED BY <2>1, FrameFacts, ParameterAssumption
<1>2. \A i \in 1..(m + 1) : i \in 1..m \/ i = m + 1
  BY <1>1
<1>3. ASSUME NEW i \in 1..m
      PROVE  r[i].frame_idx \in Nat /\ r[i].frame_idx + PostFrameSkip <= n
  <2>1. q[i].frame_idx + PostFrameSkip <= x /\ r[i] = q[i]
    BY DEF Spread
  <2> QED BY <1>1, <2>1
<1>4. ASSUME NEW i \in 1..Len(b)
      PROVE  b[i].frame_idx + PostFrameSkip <= n
  <2>1. b[i].frame_idx + PostFrameSkip <= x
    BY DEF Spread
  <2> QED BY <1>1, <2>1
<1>5. Apart(r, m + 1)
  <2> SUFFICES ASSUME NEW i \in 1..(m + 1), NEW j \in 1..(m + 1), i < j
               PROVE  r[i].frame_idx + PostFrameSkip <= r[j].frame_idx
    BY DEF Apart
  <2>1. i \in 1..m
    BY <1>1
  <2>2. CASE j \in 1..m
    BY <2>1, <2>2 DEF Spread, Apart
  <2>3. CASE j = m + 1
    BY <1>3, <2>1, <2>3
  <2> QED BY <1>2, <2>2, <2>3
<1>6. ASSUME NEW i \in 1..(m + 1) PROVE r[i].frame_idx + PostFrameSkip <= n + PostFrameSkip
  <2>1. CASE i \in 1..m
    BY <1>1, <1>3, <2>1
  <2>2. CASE i = m + 1
    BY <1>1, <2>2
  <2> QED BY <1>2, <2>1, <2>2
<1>7. \A i \in 1..Len(b) : b[i].frame_idx + PostFrameSkip <= n + PostFrameSkip
  BY <1>1, <1>4
<1>8. ASSUME NEW i \in 1..Len(b), NEW j \in 1..(m + 1)
      PROVE  b[i].frame_idx + PostFrameSkip <= r[j].frame_idx
  <2>1. CASE j \in 1..m
    BY <2>1 DEF Spread
  <2>2. CASE j = m + 1
    BY <1>4, <2>2
  <2> QED BY <1>2, <2>1, <2>2
<1>9. Apart(b, Len(b))
  BY DEF Spread
<1> QED BY <1>5, <1>6, <1>7, <1>8, <1>9 DEF Spread

\* The first k matched nodes leave the queue.
LEMMA SpreadDrop ==
  ASSUME NEW b, NEW q, NEW m \in Nat, NEW x, Spread(b, q, m, x), NEW k \in 0..m,
         NEW r, \A i \in 1..(m - k) : r[i] = q[i + k]
  PROVE  Spread(b, r, m - k, x)
<1>1. \A i \in 1..(m - k) : i + k \in 1..m
  OBVIOUS
<1>2. Apart(r, m - k)
  <2> SUFFICES ASSUME NEW i \in 1..(m - k), NEW j \in 1..(m - k), i < j
               PROVE  r[i].frame_idx + PostFrameSkip <= r[j].frame_idx
    BY DEF Apart
  <2>1. i + k < j + k
    OBVIOUS
  <2> QED BY <1>1, <2>1 DEF Spread, Apart
<1> QED BY <1>1, <1>2 DEF Spread

\* Some of them go to the callback thread.
LEMMA SpreadSend ==
  ASSUME NEW b \in Seq(Node), NEW q \in Seq(Node), NEW m \in 0..Len(q), NEW x,
         Spread(b, q, m, x), NEW k \in 0..m, NEW at \in Picks(k)
  PROVE  Spread(b \o Pick(SubSeq(q, 1, k), at), SubSeq(q, k + 1, Len(q)), m - k, x)
<1> DEFINE u == SubSeq(q, 1, k)  o == Pick(u, at)  p == b \o o  r == SubSeq(q, k + 1, Len(q))
           l == Len(at)
<1>1. Len(q) \in Nat /\ Len(b) \in Nat /\ m \in Nat /\ k \in 0..Len(q)
  BY LenProperties
<1>2. u \in Seq(Node) /\ Len(u) = k /\ \A i \in 1..k : u[i] = q[i]
  BY <1>1, TakeFacts
<1>3. r \in Seq(Node) /\ Len(r) = Len(q) - k /\ \A i \in 1..Len(r) : r[i] = q[i + k]
  BY <1>1, DropFacts
<1> HIDE DEF u, r
<1>11. /\ o \in Seq(Node) /\ Len(o) = l /\ l \in Nat
       /\ \A i \in 1..l : at[i] \in 1..k /\ o[i] = u[at[i]]
       /\ \A i, j \in 1..l : i < j => at[i] < at[j]
  BY <1>2, PickFacts
<1> HIDE DEF o, l
<1>12. \A i \in 1..l : at[i] \in 1..k /\ at[i] \in 1..m /\ o[i] = q[at[i]]
  BY <1>1, <1>2, <1>11
<1>4. /\ Len(p) = Len(b) + l
      /\ \A i \in 1..Len(b) : p[i] = b[i]
      /\ \A i \in 1..l : p[i + Len(b)] = o[i]
  BY <1>11, ConcatFrames
<1> HIDE DEF p
<1>5. ASSUME NEW i \in 1..Len(p)
      PROVE  \/ i \in 1..Len(b) /\ p[i] = b[i]
             \/ /\ i - Len(b) \in 1..l /\ at[i - Len(b)] \in 1..k /\ at[i - Len(b)] \in 1..m
                /\ p[i] = q[at[i - Len(b)]]
  <2>1. CASE i \in 1..Len(b)
    BY <1>4, <2>1
  <2>2. CASE i \notin 1..Len(b)
    <3>1. i - Len(b) \in 1..l /\ i = (i - Len(b)) + Len(b)
      BY <1>1, <1>4, <1>11, <2>2
    <3> QED BY <1>4, <1>12, <3>1
  <2> QED BY <2>1, <2>2
<1>6. ASSUME NEW i \in 1..(m - k) PROVE i + k \in 1..m /\ r[i] = q[i + k]
  <2>1. i \in 1..Len(r) /\ i + k \in 1..m
    BY <1>1, <1>3
  <2> QED BY <1>3, <2>1
<1>7. Spread(b, r, m - k, x)
  BY <1>1, <1>6, SpreadDrop
<1>8. Apart(p, Len(p))
  <2> SUFFICES ASSUME NEW i \in 1..Len(p), NEW j \in 1..Len(p), i < j
               PROVE  p[i].frame_idx + PostFrameSkip <= p[j].frame_idx
    BY DEF Apart
  <2>1. CASE j \in 1..Len(b)
    <3>1. i \in 1..Len(b)
      BY <1>1, <2>1
    <3> QED BY <1>4, <2>1, <3>1 DEF Spread, Apart
  <2>2. CASE j \notin 1..Len(b)
    <3>1. j - Len(b) \in 1..l /\ at[j - Len(b)] \in 1..m /\ p[j] = q[at[j - Len(b)]]
      BY <1>5, <2>2
    <3>2. CASE i \in 1..Len(b)
      BY <1>4, <3>1, <3>2 DEF Spread
    <3>3. CASE i \notin 1..Len(b)
      <4>1. i - Len(b) \in 1..l /\ at[i - Len(b)] \in 1..m /\ p[i] = q[at[i - Len(b)]]
        BY <1>5, <3>3
      <4>2. i - Len(b) < j - Len(b)
        BY <1>1
      <4>3. at[i - Len(b)] < at[j - Len(b)]
        BY <1>11, <3>1, <4>1, <4>2
      <4> QED BY <3>1, <4>1, <4>3 DEF Spread, Apart
    <3> QED BY <3>2, <3>3
  <2> QED BY <2>1, <2>2
<1>9. ASSUME NEW i \in 1..Len(p) PROVE p[i].frame_idx + PostFrameSkip <= x
  BY <1>5 DEF Spread
<1>10. ASSUME NEW i \in 1..Len(p), NEW j \in 1..(m - k)
       PROVE  p[i].frame_idx + PostFrameSkip <= r[j].frame_idx
  <2>1. CASE i \in 1..Len(b) /\ p[i] = b[i]
    BY <1>7, <2>1 DEF Spread
  <2>2. CASE /\ at[i - Len(b)] \in 1..k /\ at[i - Len(b)] \in 1..m
             /\ p[i] = q[at[i - Len(b)]]
    <3>1. at[i - Len(b)] < j + k
      BY <1>1, <2>2
    <3> QED BY <1>6, <2>2, <3>1 DEF Spread, Apart
  <2> QED BY <1>5, <2>1, <2>2
<1> QED BY <1>7, <1>8, <1>9, <1>10 DEF Spread, p, o, r, u

\* The same of a channel, behind the callback messages b.
Spaced(b, c) == Spread(b, c.queue, c.match_cnt, c.expected_frame_id)

\* Frame numbers do not wrap around within the frames considered.
LEMMA ExpectIsNext == \A n \in FrameIdx : n \in Nat /\ Expect(n) = n + PostFrameSkip
<1> SUFFICES ASSUME NEW n \in FrameIdx PROVE n \in Nat /\ Expect(n) = n + PostFrameSkip
  OBVIOUS
<1>1. /\ n \in Nat /\ PostFrameSkip \in Nat /\ FrameIdxLimit \in Nat
      /\ n + PostFrameSkip < FrameIdxLimit
  BY ParameterAssumption DEF FrameIdx
<1>2. ASSUME NEW k \in Nat, NEW w \in Nat, k < w PROVE k % w = k
  BY <1>2
<1>3. n + PostFrameSkip \in Nat
  BY <1>1
<1> QED BY <1>1, <1>2, <1>3 DEF Expect

\* A frame that joins its node.
LEMMA JoinSpaced ==
  ASSUME NEW c, ChanInv(c), NEW s \in Streams, NEW n \in FrameIdx, Same(c.queue, n) # {},
         NEW b \in Seq(Node), Spaced(b, c), c.expected_frame_id <= n
  PROVE  Spaced(b, Join(c, s, n).chan)
<1> DEFINE q      == c.queue
           m      == c.match_cnt
           y      == c.expected_frame_id
           p      == First(Same(q, n), 0)
           slots  == q[p].super_buf \cup {s}
           full   == Full(slots)
           oldest == First(Older(q, n), p)
           filled == [q EXCEPT ![p].super_buf = slots, ![p].matched = full]
           e      == [q[p] EXCEPT !.super_buf = slots, !.matched = full]
           f      == [q EXCEPT ![p] = e]
<1>1. /\ c \in Chan /\ Ordered(q, m) /\ q \in Seq(Node) /\ Len(q) \in Nat
      /\ m \in 0..Len(q) /\ m \in Nat /\ y \in Nat
  BY ChanFields, ParameterAssumption DEF ChanInv, Ordered, Counter
<1>2. /\ p \in (m + 1)..Len(q) /\ q[p].frame_idx = n /\ oldest = m + 1
  BY <1>1, JoinPositions
<1>3. Join(c, s, n) =
        IF full THEN Result([c EXCEPT !.queue = Cut(filled, oldest, p),
                                      !.expected_frame_id = Expect(n),
                                      !.match_cnt = @ + 1],
                            FramesIn(SubSeq(q, oldest, p - 1)))
        ELSE Result([c EXCEPT !.queue = filled], {})
  BY DEF Join
<1> HIDE DEF p, oldest
<1>4. p \in 1..Len(q) /\ q[p] \in Node
  BY <1>1, <1>2, ChanFields
<1>5. e \in Node /\ e.frame_idx = q[p].frame_idx
  BY <1>4 DEF Node, Full
<1>6. filled = f
  BY <1>1, <1>4, ChanFields
<1> HIDE DEF e, full, filled
<1>7. /\ f \in Seq(Node) /\ Len(f) = Len(q)
      /\ \A j \in 1..Len(q) : f[j] = IF j = p THEN e ELSE q[j]
  BY <1>1, <1>4, <1>5, ReplaceFacts
<1>8. Spread(b, q, m, y)
  BY DEF Spaced
<1> HIDE DEF f, q, m, y
<1>9. \A i \in 1..m : f[i] = q[i]
  <2> TAKE i \in 1..m
  <2>1. i \in 1..Len(q) /\ i # p
    BY <1>1, <1>2
  <2> QED BY <1>7, <2>1
<1>10. CASE full
  <2> DEFINE r == Cut(f, oldest, p)
             D == FramesIn(SubSeq(q, oldest, p - 1))
             x == Expect(n)
             w == m + 1
             d == [c EXCEPT !.queue = r, !.expected_frame_id = x, !.match_cnt = w]
  <2>1. oldest \in 1..(Len(f) + 1) /\ p \in oldest..(Len(f) + 1)
    BY <1>1, <1>2, <1>7
  <2>2. \A i \in 1..(Len(f) - (p - oldest)) :
          r[i] = IF i < oldest THEN f[i] ELSE f[i + (p - oldest)]
    BY <1>7, <2>1, CutNodes
  <2>3. \A i \in 1..m : r[i] = q[i]
    <3> TAKE i \in 1..m
    <3>1. i \in 1..(Len(f) - (p - oldest)) /\ i < oldest
      BY <1>1, <1>2, <1>7
    <3> QED BY <1>9, <2>2, <3>1
  <2>4. r[m + 1].frame_idx = n
    <3>1. /\ m + 1 \in 1..(Len(f) - (p - oldest)) /\ ~(m + 1 < oldest)
          /\ (m + 1) + (p - oldest) = p
      BY <1>1, <1>2, <1>7
    <3>2. r[m + 1] = f[p]
      BY <2>2, <3>1
    <3> QED BY <1>2, <1>4, <1>5, <1>7, <3>2
  <2>5. Join(c, s, n) = Result(d, D)
    BY <1>3, <1>6, <1>10 DEF m, q
  <2> HIDE DEF r, D
  <2>6. x = n + PostFrameSkip /\ n \in Nat
    BY ExpectIsNext
  <2>7. y <= n
    BY DEF y
  <2>8. Spread(b, r, m + 1, n + PostFrameSkip)
    BY <1>1, <1>8, <2>3, <2>4, <2>6, <2>7, SpreadMore
  <2> HIDE DEF x, w
  <2>9. d.queue = r /\ d.match_cnt = w /\ d.expected_frame_id = x
    BY <1>1 DEF Chan
  <2> HIDE DEF d
  <2> QED BY <2>5, <2>6, <2>8, <2>9 DEF Spaced, Result, w
<1>11. CASE ~full
  <2> DEFINE d == [c EXCEPT !.queue = f]
  <2>1. Join(c, s, n) = Result(d, {})
    BY <1>3, <1>6, <1>11
  <2>2. d.queue = f /\ d.match_cnt = m /\ d.expected_frame_id = y
    BY <1>1 DEF Chan, m, y
  <2>3. Spread(b, f, m, y)
    BY <1>1, <1>8, <1>9, SpreadSame
  <2> HIDE DEF d
  <2> QED BY <2>1, <2>2, <2>3 DEF Spaced, Result
<1> QED BY <1>10, <1>11

\* A frame that gets a node of its own, which is matched if the bundle is one
\* stream: then no node is unmatched.
LEMMA InsertSpaced ==
  ASSUME NEW c, ChanInv(c), NEW s \in Streams, NEW n \in FrameIdx, Same(c.queue, n) = {},
         NEW ok \in BOOLEAN,
         NEW b \in Seq(Node), Spaced(b, c), c.expected_frame_id <= n
  PROVE  Spaced(b, Insert(c, s, n, ok).chan)
<1> DEFINE q        == c.queue
           m        == c.match_cnt
           y        == c.expected_frame_id
           crowded  == Crowded(q, n)
           oldest   == First(Older(q, n), 0)
           before   == First(Newer(q, n), Len(q) + 1)
           single   == Streams = {s}
           new      == [frame_idx |-> n, super_buf |-> {s}, matched |-> single]
           evict(r) == IF crowded THEN Cut(r, oldest, oldest + 1) ELSE r
           evicted  == IF crowded THEN Frames(q[oldest]) ELSE {}
           f        == InsertBefore(q, before, new)
           g        == evict(f)
           x        == IF single THEN Expect(n) ELSE y
           w        == IF single THEN m + 1 ELSE m
           d        == [c EXCEPT !.queue = g, !.expected_frame_id = x,
                                 !.match_cnt = w]
<1>1. /\ c \in Chan /\ Ordered(q, m) /\ q \in Seq(Node) /\ Len(q) \in Nat
      /\ m \in 0..Len(q) /\ m \in Nat /\ y \in Nat
  BY ChanFields, ParameterAssumption DEF ChanInv, Ordered, Counter
<1>2. /\ before \in (m + 1)..(Len(q) + 1)
      /\ oldest = 0 \/ (oldest = m + 1 /\ m < Len(q) /\ m + 1 < before)
  BY <1>1, InsertPositions
<1>3. Insert(c, s, n, ok) =
        IF crowded /\ oldest = 0 THEN Result(c, {<<s, n>>})
        ELSE IF ~ok THEN Result([c EXCEPT !.queue = evict(q)], evicted \cup {<<s, n>>})
        ELSE Result([c EXCEPT
                       !.queue = IF oldest < before THEN evict(f)
                                 ELSE InsertBefore(evict(q), before, new),
                       !.expected_frame_id = IF single THEN Expect(n) ELSE @,
                       !.match_cnt = IF single THEN @ + 1 ELSE @],
                    evicted)
  BY DEF Insert
<1> HIDE DEF oldest, before, crowded
<1>4. new \in Node /\ new.frame_idx = n
  BY DEF Node
<1> HIDE DEF new
<1>5. single => Len(q) = m
  <2> SUFFICES ASSUME single, m < Len(q) PROVE FALSE
    BY <1>1
  <2>1. Len(q) \in 1..Len(q) /\ ~(Len(q) <= m)
    BY <1>1
  <2>2. q[Len(q)].super_buf # {} /\ q[Len(q)].super_buf # Streams
    BY <1>1, <2>1 DEF Ordered
  <2>3. q[Len(q)].super_buf \subseteq Streams
    BY <1>1, <2>1, ChanFields, NodeFields
  <2> QED BY <2>2, <2>3
<1>6. before \in 1..(Len(q) + 1)
  BY <1>1, <1>2
<1>7. /\ f \in Seq(Node) /\ Len(f) = Len(q) + 1
      /\ \A i \in 1..(Len(q) + 1) :
           f[i] = IF i < before THEN q[i] ELSE IF i = before THEN new ELSE q[i - 1]
  <2>1. f = InsertBefore(q, before, new)
    OBVIOUS
  <2>2. q \in Seq(Node) /\ new \in Node
    BY <1>1, <1>4
  <2> HIDE DEF f, q
  <2>3. /\ InsertBefore(q, before, new) \in Seq(Node)
        /\ Len(InsertBefore(q, before, new)) = Len(q) + 1
        /\ \A i \in 1..(Len(q) + 1) :
             InsertBefore(q, before, new)[i] =
               IF i < before THEN q[i]
               ELSE IF i = before THEN new ELSE q[i - 1]
    BY <1>6, <2>2, InsertNodes
  <2> QED BY <2>1, <2>3, Zenon
<1>8. Spread(b, q, m, y)
  BY DEF Spaced
<1>9. y <= n
  OBVIOUS
<1> HIDE DEF f, q, m, y
<1>10. \A i \in 1..m : f[i] = q[i]
  <2> TAKE i \in 1..m
  <2>1. i \in 1..(Len(q) + 1) /\ i < before
    BY <1>1, <1>2
  <2> QED BY <1>7, <2>1
<1>11. ASSUME NEW r \in Seq(Node), oldest # 0, Len(q) <= Len(r)
       PROVE  \A i \in 1..m : Cut(r, oldest, oldest + 1)[i] = r[i]
  <2>1. oldest = m + 1 /\ m < Len(q) /\ Len(r) \in Nat
    BY <1>2, <1>11, LenProperties
  <2>2. /\ oldest \in 1..(Len(r) + 1) /\ oldest + 1 \in oldest..(Len(r) + 1)
        /\ (oldest + 1) - oldest = 1
    BY <1>1, <1>11, <2>1
  <2>3. \A i \in 1..(Len(r) - 1) :
          Cut(r, oldest, oldest + 1)[i] = IF i < oldest THEN r[i] ELSE r[i + 1]
    <3>1. \A i \in 1..(Len(r) - ((oldest + 1) - oldest)) :
            Cut(r, oldest, oldest + 1)[i] =
              IF i < oldest THEN r[i] ELSE r[i + ((oldest + 1) - oldest)]
      BY <1>11, <2>2, CutNodes
    <3> QED BY <2>2, <3>1
  <2> TAKE i \in 1..m
  <2>4. i \in 1..(Len(r) - 1) /\ i < oldest
    BY <1>1, <1>11, <2>1
  <2> QED BY <2>3, <2>4
<1>12. CASE crowded /\ oldest = 0
  <2>1. Insert(c, s, n, ok) = Result(c, {<<s, n>>})
    BY <1>3, <1>12
  <2> QED BY <2>1 DEF Result
<1>13. CASE ~ (crowded /\ oldest = 0) /\ ~ok
  <2> DEFINE r == evict(q)
             k == [c EXCEPT !.queue = r]
             E == evicted \cup {<<s, n>>}
  <2>1. \A i \in 1..m : r[i] = q[i]
    BY <1>1, <1>11, <1>13
  <2>2. Insert(c, s, n, ok) = Result(k, E)
    BY <1>3, <1>13
  <2> HIDE DEF r, E
  <2>3. k.queue = r /\ k.match_cnt = m /\ k.expected_frame_id = y
    BY <1>1 DEF Chan, m, y
  <2>4. Spread(b, r, m, y)
    BY <1>1, <1>8, <2>1, SpreadSame
  <2> HIDE DEF k
  <2> QED BY <2>2, <2>3, <2>4 DEF Spaced, Result
<1>14. CASE ~ (crowded /\ oldest = 0) /\ ok
  <2> DEFINE E == evicted
  <2>1. oldest < before
    BY <1>1, <1>2
  <2>2. Insert(c, s, n, ok) = Result(d, E)
    BY <1>3, <1>14, <2>1 DEF m, y
  <2>3. \A i \in 1..m : g[i] = f[i]
    <3>1. Len(q) <= Len(f)
      BY <1>1, <1>7
    <3> QED BY <1>7, <1>11, <1>14, <3>1
  <2>4. \A i \in 1..m : g[i] = q[i]
    BY <1>10, <2>3
  <2>5. single => g[m + 1].frame_idx = n
    <3> HAVE single
    <3>1. before = m + 1 /\ oldest = 0
      BY <1>1, <1>2, <1>5
    <3>2. g = f
      BY <1>14, <3>1
    <3>3. m + 1 \in 1..(Len(q) + 1) /\ ~(m + 1 < before)
      BY <1>1, <3>1
    <3> QED BY <1>4, <1>7, <3>1, <3>2, <3>3
  <2>6. x = (IF single THEN n + PostFrameSkip ELSE y) /\ n \in Nat
    BY ExpectIsNext
  <2> HIDE DEF g
  <2>7. Spread(b, g, w, x)
    <3>1. CASE single
      <4>1. w = m + 1 /\ x = n + PostFrameSkip
        BY <2>6, <3>1
      <4>2. Spread(b, g, m + 1, n + PostFrameSkip)
        BY <1>1, <1>8, <1>9, <2>4, <2>5, <2>6, <3>1, SpreadMore
      <4> QED BY <4>1, <4>2
    <3>2. CASE ~single
      <4>1. w = m /\ x = y
        BY <3>2
      <4> QED BY <1>1, <1>8, <2>4, <4>1, SpreadSame
    <3> QED BY <3>1, <3>2
  <2> HIDE DEF x, w, E
  <2>8. d.queue = g /\ d.match_cnt = w /\ d.expected_frame_id = x
    BY <1>1 DEF Chan
  <2> HIDE DEF d
  <2> QED BY <2>2, <2>7, <2>8 DEF Spaced, Result
<1> QED BY <1>12, <1>13, <1>14

\* Filing a frame, when metadata frames carry no notices.
LEMMA CompSpaced ==
  ASSUME NEW c, ChanInv(c), NEW s \in Streams, NEW n \in FrameIdx,
         NEW md \in MetaInfo, NEW ok \in BOOLEAN, NEW b \in Seq(Node), Spaced(b, c),
         md.prep # "NEED_FUTURE_FRAME", md.range = NoRange
  PROVE  Spaced(b, CompAndEnqueue(c, s, n, md, ok).chan)
<1> DEFINE h == HandleMetadata(c, md)
           r == IF n < h.chan.expected_frame_id THEN TooOld(h.chan, s, n)
                ELSE IF Same(h.chan.queue, n) # {} THEN Join(h.chan, s, n)
                ELSE Insert(h.chan, s, n, ok)
<1>1. CompAndEnqueue(c, s, n, md, ok) = [r EXCEPT !.done = r.done \cup h.done]
  BY DEF CompAndEnqueue, Contradictory
<1>2. h.chan = c
  BY DEF HandleMetadata, Result
<1>3. c.expected_frame_id \in Nat /\ n \in Nat
  BY ChanFields, ParameterAssumption DEF ChanInv, Counter, FrameIdx
<1> HIDE DEF h
<1>4. Spaced(b, r.chan)
  <2>1. CASE n < c.expected_frame_id
    BY <1>2, <2>1 DEF TooOld, Result
  <2>2. CASE c.expected_frame_id <= n /\ Same(c.queue, n) # {}
    <3>1. r = Join(c, s, n)
      BY <1>2, <1>3, <2>2
    <3>2. Spaced(b, Join(c, s, n).chan)
      BY <2>2, JoinSpaced
    <3> QED BY <3>1, <3>2
  <2>3. CASE c.expected_frame_id <= n /\ Same(c.queue, n) = {}
    <3>1. r = Insert(c, s, n, ok)
      BY <1>2, <1>3, <2>3
    <3>2. Spaced(b, Insert(c, s, n, ok).chan)
      BY <2>3, InsertSpaced
    <3> QED BY <3>1, <3>2
  <2> QED BY <1>3, <2>1, <2>2, <2>3
<1>5. r = [chan |-> r.chan, done |-> r.done, hang |-> r.hang]
  BY DEF TooOld, Join, Insert, Result
<1> HIDE DEF r
<1>6. CompAndEnqueue(c, s, n, md, ok).chan = r.chan
  BY <1>1, <1>5
<1> QED BY <1>4, <1>6

\* Dequeuing matched nodes.
LEMMA DropSpaced ==
  ASSUME NEW c, ChanInv(c), NEW b, Spaced(b, c), NEW k \in 0..c.match_cnt
  PROVE  Spaced(b, Drop(c, k))
<1> DEFINE q == c.queue  m == c.match_cnt  x == c.expected_frame_id
           r == SubSeq(q, k + 1, Len(q))
           d == [c EXCEPT !.queue = r, !.match_cnt = m - k]
<1>1. /\ c \in Chan /\ q \in Seq(Node) /\ Len(q) \in Nat /\ m \in 0..Len(q) /\ m \in Nat
      /\ k \in 0..Len(q)
  BY ChanFields DEF ChanInv, Ordered
<1>2. Len(r) = Len(q) - k /\ \A i \in 1..Len(r) : r[i] = q[i + k]
  BY <1>1, DropFacts
<1>3. Drop(c, k) = d
  BY DEF Drop
<1>4. Spread(b, q, m, x)
  BY DEF Spaced
<1> HIDE DEF r
<1>5. d.queue = r /\ d.match_cnt = m - k /\ d.expected_frame_id = x
  BY <1>1 DEF Chan
<1>6. \A i \in 1..(m - k) : r[i] = q[i + k]
  <2> TAKE i \in 1..(m - k)
  <2>1. i \in 1..Len(r)
    BY <1>1, <1>2
  <2> QED BY <1>2, <2>1
<1> HIDE DEF d, m
<1>7. Spread(b, r, m - k, x)
  BY <1>1, <1>4, <1>6, SpreadDrop DEF m
<1> QED BY <1>3, <1>5, <1>7 DEF Spaced

\* Trimming.
LEMMA TrimSpaced ==
  ASSUME NEW c, ChanInv(c), NEW b, Spaced(b, c), NEW limit \in Nat
  PROVE  Spaced(b, TrimTo(c, limit).chan)
<1> DEFINE k == First({Excess(c, limit), Leading(c.queue)}, 0)
<1>1. c \in Chan /\ Ordered(c.queue, c.match_cnt)
  BY DEF ChanInv
<1>2. c.match_cnt \in 0..Len(c.queue) /\ Len(c.queue) \in Nat
  BY <1>1, ChanFields DEF Ordered
<1>3. Leading(c.queue) = c.match_cnt
  BY <1>1, LeadingIsCount, ChanFields
<1>4. Excess(c, limit) \in 0..c.match_cnt
  BY <1>2 DEF Excess
<1>5. k \in 0..c.match_cnt
  <2>1. {Excess(c, limit), c.match_cnt} \in SUBSET Nat
    BY <1>2, <1>4
  <2>2. {Excess(c, limit), c.match_cnt} # {}
    OBVIOUS
  <2>3. First({Excess(c, limit), c.match_cnt}, 0) \in {Excess(c, limit), c.match_cnt}
    BY <2>1, <2>2, FirstIsLeast
  <2> QED BY <1>2, <1>3, <1>4, <2>3
<1>6. TrimTo(c, limit).chan = Drop(c, k)
  BY DEF TrimTo
<1> HIDE DEF k
<1> QED BY <1>5, <1>6, DropSpaced

\* The tail of mm_channel_process_stream_buf.
LEMMA FinishSpaced ==
  ASSUME Inv, NEW r, ChanInv(r.chan), r.hang = FALSE, Spaced(cbq, r.chan),
         NEW refused, Finish(r, refused)
  PROVE  Spaced(cbq', chan')
<1> DEFINE o == Overflow(r.chan)
           c == o.chan
           k == Ready(c)
<1>1. ChanInv(c) /\ o.hang = FALSE /\ Spaced(cbq, c)
  <2>1. WaterMark \in Nat
    BY ParameterAssumption
  <2>2. ChanInv(TrimTo(r.chan, WaterMark).chan) /\ TrimTo(r.chan, WaterMark).hang = FALSE
    BY <2>1, TrimInv
  <2>3. Spaced(cbq, TrimTo(r.chan, WaterMark).chan)
    BY <2>1, TrimSpaced
  <2> QED BY <2>2, <2>3 DEF Overflow
<1>2. chan' = Dispatched(c) /\ Send(SubSeq(c.queue, 1, k), r.done \cup o.done, refused)
  BY <1>1 DEF Finish
<1> HIDE DEF o
<1>12. PICK at \in Picks(Len(SubSeq(c.queue, 1, k))) : cbq' = cbq \o Pick(SubSeq(c.queue, 1, k), at)
  BY <1>2 DEF Send
<1>3. /\ c \in Chan /\ c.queue \in Seq(Node) /\ c.match_cnt \in 0..Len(c.queue)
      /\ cbq \in Seq(Node)
  BY <1>1, ChanFields DEF ChanInv, Ordered, Inv, TypeOK
<1>4. k \in 0..c.match_cnt
  BY <1>1, DispatchInv
<1> HIDE DEF c
<1> DEFINE d == Drop(c, k)
<1>5. /\ chan'.queue = d.queue /\ chan'.match_cnt = d.match_cnt
      /\ chan'.expected_frame_id = d.expected_frame_id
  <2> DEFINE z == IF c.notify_mode = BURST THEN d.pending_cnt - k ELSE d.pending_cnt
  <2>1. Dispatched(c) = [d EXCEPT !.pending_cnt = z]
    BY DEF Dispatched
  <2>2. d \in Chan
    BY <1>1, <1>4, DropInv DEF ChanInv
  <2> HIDE DEF d, z
  <2> QED BY <1>2, <2>1, <2>2 DEF Chan
<1>6. /\ d.queue = SubSeq(c.queue, k + 1, Len(c.queue))
      /\ d.match_cnt = c.match_cnt - k /\ d.expected_frame_id = c.expected_frame_id
  <2> DEFINE q == SubSeq(c.queue, k + 1, Len(c.queue))  w == c.match_cnt - k
  <2>1. d = [c EXCEPT !.queue = q, !.match_cnt = w]
    BY DEF Drop
  <2> HIDE DEF q, w, d
  <2>2. d.queue = q /\ d.match_cnt = w /\ d.expected_frame_id = c.expected_frame_id
    BY <1>3, <2>1 DEF Chan
  <2> QED BY <2>2 DEF q, w
<1> HIDE DEF d
<1>7. Spread(cbq, c.queue, c.match_cnt, c.expected_frame_id)
  BY <1>1 DEF Spaced
<1>8. Len(SubSeq(c.queue, 1, k)) = k /\ k \in 0..Len(c.queue)
  <2>1. k \in 0..Len(c.queue)
    BY <1>3, <1>4, LenProperties
  <2> QED BY <1>3, <2>1, TakeFacts
<1> DEFINE b == cbq \o Pick(SubSeq(c.queue, 1, k), at)
           q == SubSeq(c.queue, k + 1, Len(c.queue))
<1>9. Spread(b, q, c.match_cnt - k, c.expected_frame_id)
  BY <1>3, <1>4, <1>7, <1>8, <1>12, SpreadSend
<1>10. cbq' = b
  BY <1>12
<1> HIDE DEF b
<1> QED BY <1>5, <1>6, <1>9, <1>10 DEF Spaced

\* The commands of a channel that is never flushed.
LEMMA CommandSpaced ==
  ASSUME Plain, Placed, SpacedOK, ProcessStreamBuf
  PROVE  Spaced(cbq', chan')
<1>0. /\ Inv /\ CmdsOK /\ ChanInv(chan) /\ chan \in Chan /\ cmdq \in Seq(Cmd)
      /\ cbq \in Seq(Node) /\ Spaced(cbq, chan) /\ NoFlush
  BY DEF Placed, Inv, TypeOK, SpacedOK, Spaced
<1>1. ASSUME NEW type, NextCmd(type)
      PROVE  /\ Head(cmdq) = cmdq[1] /\ 1 \in 1..Len(cmdq) /\ cmdq[1].cmd_type = type
  <2>1. cmdq # <<>>
    BY <1>1 DEF NextCmd
  <2> QED BY <1>0, <1>1, <2>1, TailFrames DEF NextCmd
<1>2. CASE ProcessData
  <2> DEFINE cmd == Head(cmdq)
             r(ok) == CompAndEnqueue(chan, cmd.stream, cmd.frame_idx, cmd.meta, ok)
  <2>1. PICK ok \in MallocOutcomes : Finish(r(ok), Refused(cmd))
    BY <1>2 DEF ProcessData
  <2>2. NextCmd("DATA_CB")
    BY <1>2 DEF ProcessData
  <2>3. /\ cmd.stream \in Streams /\ cmd.frame_idx \in FrameIdx
        /\ cmd.meta \in MetaInfo /\ cmd.cmd_type = "DATA_CB" /\ ok \in BOOLEAN
    BY <1>0, <2>2, NextCmdType, CmdFields, ParameterAssumption
  <2>4. cmd.meta \in Metadata
    BY <1>0, <1>1, <2>2, <2>3 DEF CmdsOK, CmdOK
  <2>5. cmd.meta.prep # "NEED_FUTURE_FRAME" /\ cmd.meta.range = NoRange
    BY <2>4 DEF Plain
  <2> HIDE DEF cmd
  <2>6. ChanInv(r(ok).chan) /\ r(ok).hang = FALSE
    BY <1>0, <2>3, CompInv DEF Steady
  <2>7. Spaced(cbq, r(ok).chan)
    BY <1>0, <2>3, <2>5, CompSpaced
  <2> HIDE DEF r
  <2> QED BY <1>0, <2>1, <2>3, <2>6, <2>7, FinishSpaced
<1>3. CASE ProcessRequest
  <2> DEFINE n == Head(cmdq).num_buf_requested
             c == [chan EXCEPT !.pending_cnt = n]
  <2>1. Finish(Skip(c), {})
    BY <1>3 DEF ProcessRequest
  <2>2. NextCmd("REQ_DATA_CB")
    BY <1>3 DEF ProcessRequest
  <2>3. n \in 0..MaxRequest
    BY <1>0, <2>2, NextCmdType, CmdFields
  <2> HIDE DEF n
  <2>4. /\ c \in Chan /\ c.queue = chan.queue /\ c.match_cnt = chan.match_cnt
        /\ c.expected_frame_id = chan.expected_frame_id
    BY <1>0, <2>3 DEF Chan
  <2> HIDE DEF c
  <2>5. ChanInv(c) /\ LookBack \in Nat /\ Spaced(cbq, c)
    BY <1>0, <2>4, ParameterAssumption DEF ChanInv, Spaced
  <2>6. /\ ChanInv(Skip(c).chan) /\ Skip(c).hang = FALSE
        /\ Spaced(cbq, Skip(c).chan)
    BY <2>5, TrimInv, TrimSpaced DEF Skip
  <2> QED BY <1>0, <2>1, <2>5, <2>6, FinishSpaced
<1>4. CASE ProcessConfigNotify
  <2> DEFINE n == Head(cmdq).notify_mode
             c == [chan EXCEPT !.notify_mode = n]
             r == Result(c, {})
  <2>1. Finish(r, {})
    BY <1>4 DEF ProcessConfigNotify
  <2>2. NextCmd("CONFIG_NOTIFY")
    BY <1>4 DEF ProcessConfigNotify
  <2>3. n \in {BURST, CONTINUOUS}
    BY <1>0, <2>2, NextCmdType, CmdFields
  <2> HIDE DEF n
  <2>4. /\ c \in Chan /\ c.queue = chan.queue /\ c.match_cnt = chan.match_cnt
        /\ c.expected_frame_id = chan.expected_frame_id
    BY <1>0, <2>3 DEF Chan
  <2>5. r.chan = c /\ r.hang = FALSE
    BY DEF Result
  <2> HIDE DEF c, r
  <2>6. ChanInv(c) /\ Spaced(cbq, c)
    BY <1>0, <2>4, ParameterAssumption DEF ChanInv, Spaced
  <2> QED BY <1>0, <2>1, <2>5, <2>6, FinishSpaced
<1>5. CASE ProcessFlush
  BY <1>0, <1>1, <1>5 DEF ProcessFlush, NoFlush
<1> QED BY <1>2, <1>3, <1>4, <1>5 DEF ProcessStreamBuf

\* The distance is kept by every step.
LEMMA SpacedNext ==
  ASSUME Plain, Placed, SpacedOK, [Next]_vars
  PROVE  SpacedOK'
<1>0. /\ cmdq \in Seq(Cmd) /\ cbq \in Seq(Node) /\ NoFlush /\ Spaced(cbq, chan)
      /\ chan.match_cnt \in Nat
  BY ChanFields DEF Placed, Inv, ChanInv, Ordered, TypeOK, SpacedOK, Spaced
<1>1. ASSUME Spaced(cbq', chan'), NoFlush' PROVE SpacedOK'
  BY <1>1 DEF SpacedOK, Spaced
<1>2. ASSUME NEW cmd \in Cmd, cmd.cmd_type # "FLUSH_QUEUE", NEW ok, Enqueue(cmd, ok) PROVE NoFlush'
  <2>0. CASE ~ok
    BY <1>0, <1>2, <2>0 DEF Enqueue, NoFlush
  <2>3. CASE ok
    <3>0. cmdq' = Append(cmdq, cmd)
      BY <1>2, <2>3 DEF Enqueue
    <3>1. /\ Len(cmdq) \in Nat /\ Len(cmdq') = Len(cmdq) + 1
          /\ \A i \in 1..Len(cmdq) : cmdq'[i] = cmdq[i]
          /\ cmdq'[Len(cmdq) + 1] = cmd
      BY <1>0, <3>0, AppendProperties, LenProperties
    <3>2. \A i \in 1..Len(cmdq') : i \in 1..Len(cmdq) \/ i = Len(cmdq) + 1
      BY <3>1
    <3> QED BY <1>0, <1>2, <3>1, <3>2 DEF NoFlush
  <2> QED BY <2>0, <2>3
<1>3. ASSUME UNCHANGED <<chan, cbq>> PROVE Spaced(cbq', chan')
  BY <1>0, <1>3
<1>4. ASSUME NEW s \in Streams, NEW n \in FrameIdx, NEW md \in Metadata,
             DataNotify(s, n, md)
      PROVE  SpacedOK'
  <2> DEFINE cmd == [cmd_type |-> "DATA_CB", stream |-> s, frame_idx |-> n, meta |-> md]
  <2>1. cmd \in Cmd /\ cmd.cmd_type # "FLUSH_QUEUE"
    BY ParameterAssumption DEF Cmd
  <2>2. (\E ok \in MallocOutcomes : Enqueue(cmd, ok)) /\ UNCHANGED <<chan, cbq>>
    BY <1>4 DEF DataNotify
  <2> HIDE DEF cmd
  <2> QED BY <1>1, <1>2, <1>3, <2>1, <2>2
<1>5. ASSUME NEW cmd \in Cmd, cmd.cmd_type # "FLUSH_QUEUE", ClientCall(cmd) PROVE SpacedOK'
  <2>1. (\E ok \in MallocOutcomes : Enqueue(cmd, ok)) /\ UNCHANGED <<chan, cbq>>
    BY <1>5 DEF ClientCall
  <2> QED BY <1>1, <1>2, <1>3, <1>5, <2>1
<1>6. ASSUME NEW n \in 0..MaxRequest, RequestSuperBuf(n) PROVE SpacedOK'
  <2>1. [cmd_type |-> "REQ_DATA_CB", num_buf_requested |-> n] \in Cmd
    BY DEF Cmd
  <2> QED BY <1>5, <1>6, <2>1 DEF RequestSuperBuf
<1>7. ASSUME NEW mode \in NotifyModes, ConfigNotifyMode(mode) PROVE SpacedOK'
  <2>1. [cmd_type |-> "CONFIG_NOTIFY", notify_mode |-> mode] \in Cmd
    BY ParameterAssumption DEF Cmd
  <2> QED BY <1>5, <1>7, <2>1 DEF ConfigNotifyMode
<1>8. CASE ProcessStreamBuf
  <2>1. Spaced(cbq', chan')
    BY <1>8, CommandSpaced
  <2>2. cmdq # <<>> /\ cmdq' = Tail(cmdq)
    BY <1>8, CommandSends
  <2>3. /\ Len(cmdq') = Len(cmdq) - 1 /\ Len(cmdq) \in Nat
        /\ \A i \in 1..Len(cmdq') : cmdq'[i] = cmdq[i + 1]
    BY <1>0, <2>2, HeadTailProperties, LenProperties
  <2>4. \A i \in 1..Len(cmdq') : i + 1 \in 1..Len(cmdq)
    BY <2>3
  <2>5. NoFlush'
    BY <1>0, <2>3, <2>4 DEF NoFlush
  <2> QED BY <1>1, <2>1, <2>5
<1>9. CASE DispatchSuperBuf
  <2>1. cbq # <<>> /\ cbq' = Tail(cbq) /\ UNCHANGED <<cmdq, chan>>
    BY <1>9 DEF DispatchSuperBuf
  <2>2. /\ Len(cbq') = Len(cbq) - 1 /\ Len(cbq) \in Nat
        /\ \A i \in 1..Len(cbq') : cbq'[i] = cbq[i + 1]
    BY <1>0, <2>1, HeadTailProperties, LenProperties
  <2>3. \A i \in 1..Len(cbq') : i + 1 \in 1..Len(cbq)
    BY <2>2
  <2>4. Apart(cbq', Len(cbq'))
    <3> SUFFICES ASSUME NEW i \in 1..Len(cbq'), NEW j \in 1..Len(cbq'), i < j
                 PROVE  cbq'[i].frame_idx + PostFrameSkip <= cbq'[j].frame_idx
      BY DEF Apart
    <3>1. i + 1 < j + 1
      BY <2>2
    <3> QED BY <1>0, <2>2, <2>3, <3>1 DEF Spaced, Spread, Apart
  <2>5. Spaced(cbq', chan)
    BY <1>0, <2>2, <2>3, <2>4 DEF Spaced, Spread
  <2> QED BY <1>0, <1>1, <2>1, <2>5 DEF NoFlush
<1>10. ASSUME NEW f \in client, QBuf(f) PROVE SpacedOK'
  BY <1>0, <1>1, <1>3, <1>10 DEF QBuf, NoFlush
<1>11. CASE UNCHANGED vars
  BY <1>0, <1>1, <1>3, <1>11 DEF vars, NoFlush
<1> QED
  <2>1. 0 \in 0..MaxRequest /\ 1..MaxRequest \subseteq 0..MaxRequest
    BY ParameterAssumption
  <2>2. FlushTargets = {}
    BY DEF Plain
  <2> QED
    BY <1>4, <1>6, <1>7, <1>8, <1>9, <1>10, <1>11, <2>1, <2>2
    DEF Next, CancelSuperBufRequest, HalReturns

\* Where nobody flushes and metadata frames carry no notices, the numbers of
\* deliveries are at least post_frame_skip apart: post_frame_skip - 1 frames are
\* skipped between two, one fewer than mm_camera_interface.h:244-246 announces.
THEOREM BurstIntervalAlways == ASSUME Plain PROVE Spec => []BurstInterval
<1>1. Init => Placed /\ SpacedOK
  <2>1. ASSUME Init PROVE SpacedOK
    <3>1. chan.match_cnt = 0 /\ cbq = <<>> /\ cmdq = <<>> /\ Len(cbq) = 0 /\ Len(cmdq) = 0
      BY <2>1, EmptySeq DEF Init
    <3> QED BY <3>1 DEF SpacedOK, NoFlush, Spread, Apart
  <2> QED BY <2>1, PlacedInit
<1>2. (Placed /\ SpacedOK) /\ [Next]_vars => (Placed /\ SpacedOK)'
  BY PlacedNext, SpacedNext
<1>3. Placed /\ SpacedOK => BurstInterval
  <2> SUFFICES ASSUME Placed, SpacedOK PROVE BurstInterval
    OBVIOUS
  <2> DEFINE q == chan.queue  m == chan.match_cnt  line == cbq \o q
             Delivered(i) == i <= Len(cbq) \/ line[i].matched
  <2>1. /\ cbq \in Seq(Node) /\ q \in Seq(Node) /\ Len(cbq) \in Nat /\ Len(q) \in Nat
        /\ m \in 0..Len(q) /\ \A i \in 1..Len(q) : q[i].matched <=> i <= m
        /\ Spread(cbq, q, m, chan.expected_frame_id)
    BY ChanFields, LenProperties DEF Placed, Inv, ChanInv, Ordered, TypeOK, SpacedOK
  <2> HIDE DEF q, m
  <2>2. /\ line \in Seq(Node) /\ Len(line) = Len(cbq) + Len(q)
        /\ \A i \in 1..Len(cbq) : line[i] = cbq[i]
        /\ \A i \in 1..Len(q) : line[i + Len(cbq)] = q[i]
    BY <2>1, ConcatFrames
  <2>3. DOMAIN line = 1..Len(line)
    BY <2>2, LenProperties
  <2> HIDE DEF line
  <2>4. ASSUME NEW i \in 1..Len(line), Delivered(i)
        PROVE  \/ i \in 1..Len(cbq) /\ line[i] = cbq[i]
               \/ i - Len(cbq) \in 1..m /\ line[i] = q[i - Len(cbq)]
    <3>1. CASE i <= Len(cbq)
      BY <2>1, <2>2, <3>1
    <3>2. CASE ~(i <= Len(cbq))
      <4>1. i - Len(cbq) \in 1..Len(q) /\ i = (i - Len(cbq)) + Len(cbq)
        BY <2>1, <2>2, <3>2
      <4>2. line[i] = q[i - Len(cbq)]
        BY <2>2, <4>1
      <4>3. q[i - Len(cbq)].matched
        BY <2>4, <3>2, <4>2
      <4>4. i - Len(cbq) <= m
        BY <2>1, <4>1, <4>3
      <4> QED BY <2>1, <4>1, <4>2, <4>4
    <3> QED BY <3>1, <3>2
  <2>5. ASSUME NEW i \in 1..Len(line), NEW j \in 1..Len(line), i < j,
               Delivered(i), Delivered(j)
        PROVE  line[i].frame_idx + PostFrameSkip <= line[j].frame_idx
    <3>1. CASE j \in 1..Len(cbq) /\ line[j] = cbq[j]
      <4>1. i \in 1..Len(cbq)
        BY <2>1, <2>5, <3>1
      <4>2. line[i] = cbq[i]
        BY <2>2, <4>1
      <4> QED BY <2>1, <2>5, <3>1, <4>1, <4>2 DEF Spread, Apart
    <3>2. CASE j - Len(cbq) \in 1..m /\ line[j] = q[j - Len(cbq)]
      <4>1. CASE i \in 1..Len(cbq) /\ line[i] = cbq[i]
        BY <2>1, <3>2, <4>1 DEF Spread
      <4>2. CASE i - Len(cbq) \in 1..m /\ line[i] = q[i - Len(cbq)]
        <5>1. i - Len(cbq) < j - Len(cbq)
          BY <2>1, <2>5
        <5> QED BY <2>1, <3>2, <4>2, <5>1 DEF Spread, Apart
      <4> QED BY <2>4, <2>5, <4>1, <4>2
    <3> QED BY <2>4, <2>5, <3>1, <3>2
  <2> QED BY <2>3, <2>5 DEF BurstInterval, line, q
<1> QED BY <1>1, <1>2, <1>3, PTL DEF Spec

=============================================================================
