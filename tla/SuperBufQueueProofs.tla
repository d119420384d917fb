------------------------ MODULE SuperBufQueueProofs ------------------------
(***************************************************************************)
(* Proofs about SuperBufQueue for every value of its constants.            *)
(*                                                                         *)
(* The inductive invariant says of the queue that its matched nodes come   *)
(* first, that there are match_cnt of them, that a node is matched when    *)
(* and only when it is full, and that the rest is in frame order.  Each    *)
(* operator the command thread's handlers are built from preserves it; the *)
(* trimming loops then always find the nodes they look for.                *)
(***************************************************************************)
EXTENDS SuperBufQueue, SequenceTheorems, FiniteSetTheorems, TLAPS

\* The matched nodes are the first m; the others are sorted.
Ordered(q, m) ==
  /\ m \in 0..Len(q)
  /\ \A i \in 1..Len(q) : q[i].matched <=> i <= m
  /\ \A i \in 1..Len(q) : /\ q[i].super_buf # {}
                          /\ q[i].matched <=> q[i].super_buf = Streams
  /\ \A i, j \in 1..Len(q) :
       m < i /\ i < j => q[i].frame_idx < q[j].frame_idx

\* What holds of the channel between two commands.
ChanInv(c) == /\ c \in Chan
              /\ Ordered(c.queue, c.match_cnt)
              /\ Len(c.queue) <= c.match_cnt + MaxUnmatchedFrames + 1

-----------------------------------------------------------------------------
(* Positions and sequences. *)

NatLess == {ss \in Nat \X Nat : ss[1] < ss[2]}

\* First returns the least element of a non-empty set of naturals: the scan
\* of the queue stops at the first node that qualifies.
LEMMA FirstIsLeast ==
  ASSUME NEW S \in SUBSET Nat, S # {}, NEW d
  PROVE  First(S, d) \in S /\ \A j \in S : First(S, d) <= j
<1>1. IsWellFoundedOn(NatLess, Nat)
  BY NatLessThanWellFounded DEF NatLess, OpToRel
<1>2. PICK i \in S : \A j \in S : ~ (<<j, i>> \in NatLess)
  BY <1>1, WFMin
<1>3. ASSUME NEW j \in S PROVE i <= j
  <2>1. i \in Nat /\ j \in Nat
    OBVIOUS
  <2>2. <<j, i>> \in NatLess <=> j < i
    BY <2>1 DEF NatLess
  <2> QED BY <1>2, <2>1, <2>2
<1> QED BY <1>3 DEF First

\* What is left when the first k nodes are dequeued.
LEMMA DropFacts ==
  ASSUME NEW S, NEW q \in Seq(S), NEW k \in 0..Len(q)
  PROVE  LET r == SubSeq(q, k + 1, Len(q))
         IN  /\ r \in Seq(S) /\ Len(r) = Len(q) - k
             /\ \A i \in 1..Len(r) : r[i] = q[i + k]
<1>1. \A i \in (k + 1)..Len(q) : q[i] \in S
  BY ElementOfSeq, LenProperties
<1> QED BY <1>1, SubSeqProperties, LenProperties

\* The first k nodes themselves.
LEMMA TakeFacts ==
  ASSUME NEW S, NEW q \in Seq(S), NEW k \in 0..Len(q)
  PROVE  LET r == SubSeq(q, 1, k)
         IN  /\ r \in Seq(S) /\ Len(r) = k
             /\ \A i \in 1..k : r[i] = q[i]
<1>1. \A i \in 1..k : q[i] \in S
  BY ElementOfSeq, LenProperties
<1> QED BY <1>1, SubSeqProperties, LenProperties

\* Removing the nodes a .. b-1 moves the later ones up.
LEMMA CutFacts ==
  ASSUME NEW S, NEW q \in Seq(S), NEW a \in 1..(Len(q) + 1),
         NEW b \in a..(Len(q) + 1)
  PROVE  /\ Cut(q, a, b) \in Seq(S)
         /\ Len(Cut(q, a, b)) = Len(q) - (b - a)
         /\ \A i \in 1..(Len(q) - (b - a)) :
              Cut(q, a, b)[i] = IF i < a THEN q[i] ELSE q[i + (b - a)]
<1> DEFINE x == SubSeq(q, 1, a - 1)
           y == SubSeq(q, b, Len(q))
<1>1. Len(q) \in Nat
  BY LenProperties
<1>2. x \in Seq(S) /\ Len(x) = a - 1 /\ \A i \in 1..(a - 1) : x[i] = q[i]
  BY <1>1, TakeFacts
<1>3. /\ y \in Seq(S) /\ Len(y) = Len(q) - (b - 1)
      /\ \A i \in 1..Len(y) : y[i] = q[i + (b - 1)]
  <2>1. b - 1 \in 0..Len(q) /\ (b - 1) + 1 = b
    BY <1>1
  <2> QED BY <2>1, DropFacts
<1> HIDE DEF x, y
<1>4. /\ x \o y \in Seq(S) /\ Len(x \o y) = Len(x) + Len(y)
      /\ \A i \in 1..(Len(x) + Len(y)) :
           (x \o y)[i] = IF i <= Len(x) THEN x[i] ELSE y[i - Len(x)]
  BY <1>2, <1>3, ConcatProperties
<1>5. ASSUME NEW i \in 1..(Len(q) - (b - a))
      PROVE  (x \o y)[i] = IF i < a THEN q[i] ELSE q[i + (b - a)]
  <2>1. CASE i < a
    BY <2>1, <1>1, <1>2, <1>3, <1>4
  <2>2. CASE i >= a
    <3>1. i - (a - 1) \in 1..Len(y) /\ i \in 1..(Len(x) + Len(y)) /\ ~ (i <= Len(x))
      BY <2>2, <1>1, <1>2, <1>3
    <3>2. (x \o y)[i] = y[i - (a - 1)]
      BY <3>1, <1>2, <1>4
    <3>3. y[i - (a - 1)] = q[(i - (a - 1)) + (b - 1)]
      BY <3>1, <1>3
    <3>4. (i - (a - 1)) + (b - 1) = i + (b - a) /\ ~ (i < a)
      BY <2>2, <1>1
    <3> QED BY <3>2, <3>3, <3>4
  <2>3. i < a \/ i >= a
    BY <1>1
  <2> QED BY <2>1, <2>2, <2>3, Zenon
<1>6. Cut(q, a, b) = x \o y
  BY DEF Cut, x, y
<1>7. Len(x) + Len(y) = Len(q) - (b - a)
  BY <1>1, <1>2, <1>3
<1> QED BY <1>4, <1>5, <1>6, <1>7

\* Inserting a node in front of p moves the later ones down.
LEMMA InsertFacts ==
  ASSUME NEW S, NEW q \in Seq(S), NEW p \in 1..(Len(q) + 1), NEW e \in S
  PROVE  /\ InsertBefore(q, p, e) \in Seq(S)
         /\ Len(InsertBefore(q, p, e)) = Len(q) + 1
         /\ \A i \in 1..(Len(q) + 1) :
              InsertBefore(q, p, e)[i] =
                IF i < p THEN q[i] ELSE IF i = p THEN e ELSE q[i - 1]
<1> DEFINE x == SubSeq(q, 1, p - 1)
           y == SubSeq(q, p, Len(q))
<1>1. Len(q) \in Nat
  BY LenProperties
<1>2. x \in Seq(S) /\ Len(x) = p - 1 /\ \A i \in 1..(p - 1) : x[i] = q[i]
  BY <1>1, TakeFacts
<1>3. /\ y \in Seq(S) /\ Len(y) = Len(q) - (p - 1)
      /\ \A i \in 1..Len(y) : y[i] = q[i + (p - 1)]
  <2>1. p - 1 \in 0..Len(q) /\ (p - 1) + 1 = p
    BY <1>1
  <2> QED BY <2>1, DropFacts
<1>4. <<e>> \in Seq(S) /\ Len(<<e>>) = 1 /\ <<e>>[1] = e
  OBVIOUS
<1> HIDE DEF x, y
<1>5. /\ x \o <<e>> \in Seq(S) /\ Len(x \o <<e>>) = p
      /\ \A i \in 1..p : (x \o <<e>>)[i] = IF i < p THEN q[i] ELSE e
  BY <1>1, <1>2, <1>4, ConcatProperties
<1> DEFINE z == x \o <<e>>
<1> HIDE DEF z
<1>6. /\ z \in Seq(S) /\ Len(z) = p
      /\ \A i \in 1..p : z[i] = IF i < p THEN q[i] ELSE e
  BY <1>5 DEF z
<1>7. /\ z \o y \in Seq(S) /\ Len(z \o y) = Len(z) + Len(y)
      /\ \A i \in 1..(Len(z) + Len(y)) :
           (z \o y)[i] = IF i <= Len(z) THEN z[i] ELSE y[i - Len(z)]
  BY <1>3, <1>6, ConcatProperties
<1>8. ASSUME NEW i \in 1..(Len(q) + 1)
      PROVE  (z \o y)[i] = IF i < p THEN q[i] ELSE IF i = p THEN e ELSE q[i - 1]
  <2>1. CASE i <= p
    BY <2>1, <1>1, <1>3, <1>6, <1>7
  <2>2. CASE i > p
    <3>1. i - p \in 1..Len(y) /\ i \in 1..(Len(z) + Len(y)) /\ ~ (i <= Len(z))
      BY <2>2, <1>1, <1>3, <1>6
    <3>2. (z \o y)[i] = y[i - p]
      BY <3>1, <1>6, <1>7
    <3>3. y[i - p] = q[(i - p) + (p - 1)]
      BY <3>1, <1>3
    <3>4. (i - p) + (p - 1) = i - 1 /\ ~ (i < p) /\ i # p
      BY <2>2, <1>1
    <3> QED BY <3>2, <3>3, <3>4
  <2>3. i <= p \/ i > p
    BY <1>1
  <2> QED BY <2>1, <2>2, <2>3, Zenon
<1>9. InsertBefore(q, p, e) = z \o y
  BY DEF InsertBefore, x, y, z
<1>10. Len(z) + Len(y) = Len(q) + 1
  BY <1>1, <1>3, <1>6
<1> QED BY <1>7, <1>8, <1>9, <1>10

-----------------------------------------------------------------------------
(* Trimming and dispatching. *)

\* The fields of a channel.
LEMMA ChanFields ==
  ASSUME NEW c \in Chan
  PROVE  /\ c.queue \in Seq(Node) /\ Len(c.queue) \in Nat
         /\ DOMAIN c.queue = 1..Len(c.queue)
         /\ \A i \in 1..Len(c.queue) : c.queue[i] \in Node
         /\ c.match_cnt \in Int /\ c.expected_frame_id \in Counter
         /\ c.pending_cnt \in 0..MaxRequest
         /\ c.notify_mode \in {BURST, CONTINUOUS}
<1>1. c.queue \in Seq(Node)
  BY DEF Chan
<1>2. \A i \in 1..Len(c.queue) : c.queue[i] \in Node
  BY <1>1, ElementOfSeq
<1> QED BY <1>1, <1>2, LenProperties DEF Chan

\* dequeue finds the matched nodes one after the other, and no other.
LEMMA LeadingIsCount ==
  ASSUME NEW q \in Seq(Node), NEW m, Ordered(q, m)
  PROVE  Leading(q) = m
<1> DEFINE S == {k \in 0..Len(q) : k = Len(q) \/ ~q[k + 1].matched}
<1>1. Len(q) \in Nat /\ m \in 0..Len(q)
  BY LenProperties DEF Ordered
<1>2. m \in S
  <2>1. CASE m = Len(q)
    BY <1>1, <2>1
  <2>2. CASE m < Len(q)
    <3>1. m + 1 \in 1..Len(q) /\ ~ (m + 1 <= m)
      BY <1>1, <2>2
    <3> QED BY <1>1, <3>1 DEF Ordered
  <2> QED BY <1>1, <2>1, <2>2
<1>3. ASSUME NEW k \in S PROVE m <= k
  <2>1. SUFFICES ASSUME k < m PROVE FALSE
    BY <1>1
  <2>2. k + 1 \in 1..Len(q) /\ k + 1 <= m /\ k # Len(q)
    BY <1>1, <2>1
  <2> QED BY <2>2 DEF Ordered
<1>4. S \in SUBSET Nat
  BY <1>1
<1>5. First(S, 0) \in S /\ First(S, 0) <= m
  BY <1>2, <1>4, FirstIsLeast
<1>6. First(S, 0) = m
  BY <1>1, <1>3, <1>4, <1>5
<1> QED BY <1>6 DEF Leading

\* Dequeuing matched nodes keeps the order of the rest.
LEMMA DropOrdered ==
  ASSUME NEW q \in Seq(Node), NEW m, Ordered(q, m), NEW k \in 0..m
  PROVE  /\ SubSeq(q, k + 1, Len(q)) \in Seq(Node)
         /\ Len(SubSeq(q, k + 1, Len(q))) = Len(q) - k
         /\ Ordered(SubSeq(q, k + 1, Len(q)), m - k)
<1> DEFINE r == SubSeq(q, k + 1, Len(q))
<1>1. Len(q) \in Nat /\ m \in 0..Len(q) /\ k \in 0..Len(q)
  BY LenProperties DEF Ordered
<1>2. /\ r \in Seq(Node) /\ Len(r) = Len(q) - k
      /\ \A i \in 1..Len(r) : r[i] = q[i + k]
  BY <1>1, DropFacts
<1> HIDE DEF r
<1>3. m - k \in 0..Len(r)
  BY <1>1, <1>2
<1>4. \A i \in 1..Len(r) : i + k \in 1..Len(q) /\ r[i] = q[i + k]
  BY <1>1, <1>2
<1>5. \A i \in 1..Len(r) : r[i].matched <=> i <= m - k
  <2>1. \A i \in 1..Len(r) : q[i + k].matched <=> i + k <= m
    BY <1>4 DEF Ordered
  <2> QED BY <1>1, <1>2, <1>4, <2>1
<1>6. \A i \in 1..Len(r) : /\ r[i].super_buf # {}
                           /\ r[i].matched <=> r[i].super_buf = Streams
  BY <1>4 DEF Ordered
<1>7. \A i, j \in 1..Len(r) :
        m - k < i /\ i < j => r[i].frame_idx < r[j].frame_idx
  <2> TAKE i, j \in 1..Len(r)
  <2> HAVE m - k < i /\ i < j
  <2>1. m < i + k /\ i + k < j + k
    BY <1>1, <1>2
  <2>2. i + k \in 1..Len(q) /\ j + k \in 1..Len(q)
    BY <1>4
  <2>3. q[i + k].frame_idx < q[j + k].frame_idx
    BY <2>1, <2>2 DEF Ordered
  <2> QED BY <1>4, <2>3
<1> QED BY <1>2, <1>3, <1>5, <1>6, <1>7 DEF Ordered, r

\* Dequeuing k matched nodes preserves the invariant of the channel.
LEMMA DropInv ==
  ASSUME NEW c, ChanInv(c), NEW k \in 0..c.match_cnt
  PROVE  /\ ChanInv(Drop(c, k))
         /\ Drop(c, k).match_cnt = c.match_cnt - k
         /\ Drop(c, k).notify_mode = c.notify_mode
         /\ Drop(c, k).pending_cnt = c.pending_cnt
<1>1. c \in Chan /\ Ordered(c.queue, c.match_cnt) /\ c.queue \in Seq(Node)
  BY ChanFields DEF ChanInv
<1> DEFINE q == SubSeq(c.queue, k + 1, Len(c.queue))
<1>2. /\ q \in Seq(Node) /\ Ordered(q, c.match_cnt - k)
      /\ Len(q) = Len(c.queue) - k
  BY <1>1, DropOrdered
<1>3. /\ c.match_cnt - k \in Int
      /\ Len(q) <= c.match_cnt - k + MaxUnmatchedFrames + 1
  BY <1>1, <1>2, ChanFields, ParameterAssumption DEF ChanInv
<1>4. Drop(c, k) = [c EXCEPT !.queue = q, !.match_cnt = c.match_cnt - k]
  BY DEF Drop
<1> HIDE DEF q
<1>5. /\ Drop(c, k) \in Chan /\ Drop(c, k).queue = q
      /\ Drop(c, k).match_cnt = c.match_cnt - k
      /\ Drop(c, k).notify_mode = c.notify_mode
      /\ Drop(c, k).pending_cnt = c.pending_cnt
  BY <1>1, <1>2, <1>3, <1>4 DEF Chan
<1> QED BY <1>2, <1>3, <1>5 DEF ChanInv

\* A trimming loop ends, and in burst mode it ends at its limit.
LEMMA TrimInv ==
  ASSUME NEW c, ChanInv(c), NEW limit \in Nat
  PROVE  /\ ChanInv(TrimTo(c, limit).chan)
         /\ TrimTo(c, limit).hang = FALSE
         /\ TrimTo(c, limit).chan.notify_mode = c.notify_mode
         /\ TrimTo(c, limit).chan.pending_cnt = c.pending_cnt
         /\ c.notify_mode = BURST => TrimTo(c, limit).chan.match_cnt <= limit
<1>1. c \in Chan /\ Ordered(c.queue, c.match_cnt)
  BY DEF ChanInv
<1>2. c.match_cnt \in 0..Len(c.queue) /\ Len(c.queue) \in Nat
  BY <1>1, ChanFields DEF Ordered
<1>3. Leading(c.queue) = c.match_cnt
  BY <1>1, LeadingIsCount, ChanFields
<1>4. Excess(c, limit) \in 0..c.match_cnt
  BY <1>2 DEF Excess
<1>5. First({Excess(c, limit), c.match_cnt}, 0) = Excess(c, limit)
  <2>1. {Excess(c, limit), c.match_cnt} \in SUBSET Nat
    BY <1>2, <1>4
  <2>2. {Excess(c, limit), c.match_cnt} # {}
    OBVIOUS
  <2> DEFINE f == First({Excess(c, limit), c.match_cnt}, 0)
  <2>3. f \in {Excess(c, limit), c.match_cnt} /\ f <= Excess(c, limit)
    BY <2>1, <2>2, FirstIsLeast
  <2> HIDE DEF f
  <2>4. f = Excess(c, limit)
    BY <1>2, <1>4, <2>3
  <2> QED BY <2>4 DEF f
<1>6. /\ TrimTo(c, limit).chan = Drop(c, Excess(c, limit))
      /\ TrimTo(c, limit).hang = (Excess(c, limit) < Excess(c, limit))
  BY <1>3, <1>5 DEF TrimTo
<1>7. (Excess(c, limit) < Excess(c, limit)) = FALSE
  BY <1>2, <1>4
<1>8. c.notify_mode = BURST => c.match_cnt - Excess(c, limit) <= limit
  BY <1>2 DEF Excess
<1>9. TrimTo(c, limit).hang = FALSE
  BY <1>6, <1>7
<1>10. /\ ChanInv(Drop(c, Excess(c, limit)))
       /\ Drop(c, Excess(c, limit)).match_cnt = c.match_cnt - Excess(c, limit)
       /\ Drop(c, Excess(c, limit)).notify_mode = c.notify_mode
       /\ Drop(c, Excess(c, limit)).pending_cnt = c.pending_cnt
  BY <1>4, DropInv
<1> QED BY <1>6, <1>8, <1>9, <1>10

\* Dispatching keeps the order, and nothing matched is left behind while the
\* HAL waits or in continuous mode.
LEMMA DispatchInv ==
  ASSUME NEW c, ChanInv(c)
  PROVE  /\ Ready(c) \in 0..c.match_cnt
         /\ ChanInv(Dispatched(c))
         /\ Dispatched(c).notify_mode = c.notify_mode
         /\ Dispatched(c).match_cnt = c.match_cnt - Ready(c)
         /\ Dispatched(c).pending_cnt > 0 \/ c.notify_mode = CONTINUOUS
              => Dispatched(c).match_cnt = 0
<1>1. c \in Chan /\ Ordered(c.queue, c.match_cnt)
  BY DEF ChanInv
<1>2. c.match_cnt \in 0..Len(c.queue) /\ Len(c.queue) \in Nat
  BY <1>1, ChanFields DEF Ordered
<1>3. Leading(c.queue) = c.match_cnt
  BY <1>1, LeadingIsCount, ChanFields
<1>4. /\ c.pending_cnt \in 0..MaxRequest /\ MaxRequest \in Nat
      /\ c.notify_mode \in {BURST, CONTINUOUS} /\ BURST # CONTINUOUS
  BY <1>1, ChanFields, ParameterAssumption DEF BURST, CONTINUOUS
<1>5. /\ Ready(c) \in 0..c.match_cnt
      /\ c.notify_mode = BURST => Ready(c) <= c.pending_cnt
      /\ c.notify_mode = CONTINUOUS => Ready(c) = c.match_cnt
      /\ Ready(c) < c.match_cnt => Ready(c) = c.pending_cnt
  BY <1>2, <1>3, <1>4 DEF Ready
<1> DEFINE d == Drop(c, Ready(c))
           left == IF c.notify_mode = BURST THEN c.pending_cnt - Ready(c)
                   ELSE c.pending_cnt
<1>6. /\ ChanInv(d) /\ d.match_cnt = c.match_cnt - Ready(c)
      /\ d.notify_mode = c.notify_mode /\ d.pending_cnt = c.pending_cnt
  BY <1>5, DropInv
<1>7. left \in 0..MaxRequest
  BY <1>2, <1>4, <1>5
<1>8. Dispatched(c) = [d EXCEPT !.pending_cnt = left]
  BY <1>6 DEF Dispatched
<1> HIDE DEF d
<1>9. left > 0 \/ c.notify_mode = CONTINUOUS => c.match_cnt - Ready(c) = 0
  BY <1>2, <1>4, <1>5
<1> HIDE DEF left
<1>10. /\ Dispatched(c) \in Chan /\ Dispatched(c).queue = d.queue
       /\ Dispatched(c).match_cnt = d.match_cnt
       /\ Dispatched(c).notify_mode = d.notify_mode
       /\ Dispatched(c).pending_cnt = left
  BY <1>6, <1>7, <1>8 DEF ChanInv, Chan
<1> QED BY <1>5, <1>6, <1>9, <1>10 DEF ChanInv

-----------------------------------------------------------------------------
(* Matching. *)

\* The fields of a node.
LEMMA NodeFields ==
  ASSUME NEW e \in Node
  PROVE  /\ e.frame_idx \in FrameIdx /\ e.super_buf \in SUBSET Streams
         /\ e.matched \in BOOLEAN
BY DEF Node

\* Flushing empties the queue and brings match_cnt to 0.
LEMMA FlushInv ==
  ASSUME NEW c, ChanInv(c)
  PROVE  /\ ChanInv(Flush(c).chan) /\ Flush(c).hang = FALSE
         /\ Flush(c).chan.queue = <<>> /\ Flush(c).chan.match_cnt = 0
         /\ Flush(c).chan.notify_mode = c.notify_mode
         /\ Flush(c).chan.pending_cnt = c.pending_cnt
         /\ Flush(c).chan.expected_frame_id = c.expected_frame_id
<1>1. c \in Chan /\ Ordered(c.queue, c.match_cnt)
  BY DEF ChanInv
<1>2. c.match_cnt \in 0..Len(c.queue) /\ Len(c.queue) \in Nat
  BY <1>1, ChanFields DEF Ordered
<1>3. {i \in DOMAIN c.queue : c.queue[i].matched} = 1..c.match_cnt
  BY <1>1, <1>2, ChanFields DEF Ordered
<1>4. Cardinality(1..c.match_cnt) = c.match_cnt
  BY <1>2, FS_Interval
<1> DEFINE z == c.match_cnt - Cardinality({i \in DOMAIN c.queue :
                                             c.queue[i].matched})
           none == <<>>
<1>5. z = 0
  <2>1. z = c.match_cnt - c.match_cnt
    BY <1>3, <1>4, Zenon
  <2> QED BY <1>2, <2>1
<1>6. /\ none \in Seq(Node) /\ Ordered(none, 0)
      /\ Len(none) <= 0 + MaxUnmatchedFrames + 1
  BY ParameterAssumption DEF Ordered
<1>7. /\ Flush(c).chan = [c EXCEPT !.queue = none, !.match_cnt = z]
      /\ Flush(c).hang = FALSE
  BY DEF Flush, Result
<1> DEFINE d == Flush(c).chan
<1> HIDE DEF z, none, d
<1>8. d = [c EXCEPT !.queue = none, !.match_cnt = z]
  BY <1>7 DEF d
<1>10. none \in Seq(Node) /\ z \in Int
  BY <1>5, <1>6
<1>11. /\ d \in Chan /\ d.queue = none /\ d.match_cnt = z
       /\ d.notify_mode = c.notify_mode /\ d.pending_cnt = c.pending_cnt
       /\ d.expected_frame_id = c.expected_frame_id
  BY <1>1, <1>8, <1>10 DEF Chan
<1>9. none = <<>>
  BY DEF none
<1> QED BY <1>5, <1>6, <1>7, <1>9, <1>11 DEF ChanInv, d

\* Where the scan stops: the node of the same frame is unmatched, and the
\* oldest node before it is the first unmatched one.
LEMMA JoinPositions ==
  ASSUME NEW q \in Seq(Node), NEW m, Ordered(q, m), NEW n \in FrameIdx,
         Same(q, n) # {}
  PROVE  /\ First(Same(q, n), 0) \in (m + 1)..Len(q)
         /\ q[First(Same(q, n), 0)].frame_idx = n
         /\ First(Older(q, n), First(Same(q, n), 0)) = m + 1
<1> DEFINE p == First(Same(q, n), 0)
<1>1. Len(q) \in Nat /\ m \in 0..Len(q) /\ DOMAIN q = 1..Len(q)
  BY LenProperties DEF Ordered
<1>2. \A i : i \in Unmatched(q) <=> i \in (m + 1)..Len(q)
  BY <1>1 DEF Unmatched, Ordered
<1>3. Same(q, n) \in SUBSET Nat /\ Older(q, n) \in SUBSET Nat
  BY <1>1, <1>2 DEF Same, Older, Scanned
<1>4. p \in Same(q, n) /\ \A j \in Same(q, n) : p <= j
  BY <1>3, FirstIsLeast
<1>5. p \in (m + 1)..Len(q) /\ q[p].frame_idx = n
  BY <1>2, <1>4 DEF Same
<1> HIDE DEF p
<1>6. \A i \in Older(q, n) : i \in (m + 1)..(p - 1)
  BY <1>1, <1>2, <1>4, <1>5 DEF Older, Scanned
<1>7. p > m + 1 => m + 1 \in Older(q, n)
  <2> HAVE p > m + 1
  <2>1. m + 1 \in Unmatched(q) /\ m + 1 \in 1..Len(q) /\ p \in 1..Len(q)
    BY <1>1, <1>2, <1>5
  <2>2. q[m + 1].frame_idx < n
    BY <1>1, <1>5, <2>1 DEF Ordered
  <2>3. \A j \in Same(q, n) : m + 1 < j
    BY <1>1, <1>3, <1>4, <1>5
  <2> QED BY <2>1, <2>2, <2>3 DEF Older, Scanned
<1>8. CASE Older(q, n) = {}
  BY <1>1, <1>5, <1>7, <1>8 DEF First, p
<1>9. CASE Older(q, n) # {}
  <2> DEFINE f == First(Older(q, n), p)
  <2>1. f \in Older(q, n) /\ \A j \in Older(q, n) : f <= j
    BY <1>3, <1>9, FirstIsLeast
  <2> HIDE DEF f
  <2>2. p > m + 1
    BY <1>1, <1>5, <1>6, <1>9
  <2>3. f = m + 1
    BY <1>1, <1>5, <1>6, <1>7, <2>1, <2>2
  <2> QED BY <1>5, <2>3 DEF f, p
<1> QED BY <1>5, <1>8, <1>9 DEF p

\* Replacing one node.
LEMMA ReplaceFacts ==
  ASSUME NEW q \in Seq(Node), NEW p \in 1..Len(q), NEW e \in Node
  PROVE  /\ [q EXCEPT ![p] = e] \in Seq(Node)
         /\ Len([q EXCEPT ![p] = e]) = Len(q)
         /\ \A j \in 1..Len(q) :
              [q EXCEPT ![p] = e][j] = IF j = p THEN e ELSE q[j]
BY ExceptSeq

\* CutFacts for queues of nodes.
LEMMA CutNodes ==
  \A q \in Seq(Node) : \A a \in 1..(Len(q) + 1) : \A b \in a..(Len(q) + 1) :
    /\ Cut(q, a, b) \in Seq(Node)
    /\ Len(Cut(q, a, b)) = Len(q) - (b - a)
    /\ \A i \in 1..(Len(q) - (b - a)) :
         Cut(q, a, b)[i] = IF i < a THEN q[i] ELSE q[i + (b - a)]
BY CutFacts

\* InsertFacts for queues of nodes.
LEMMA InsertNodes ==
  \A q \in Seq(Node) : \A p \in 1..(Len(q) + 1) : \A e \in Node :
    /\ InsertBefore(q, p, e) \in Seq(Node)
    /\ Len(InsertBefore(q, p, e)) = Len(q) + 1
    /\ \A i \in 1..(Len(q) + 1) :
         InsertBefore(q, p, e)[i] =
           IF i < p THEN q[i] ELSE IF i = p THEN e ELSE q[i - 1]
<1> SUFFICES ASSUME NEW q \in Seq(Node), NEW p \in 1..(Len(q) + 1), NEW e \in Node
             PROVE  /\ InsertBefore(q, p, e) \in Seq(Node)
                    /\ Len(InsertBefore(q, p, e)) = Len(q) + 1
                    /\ \A i \in 1..(Len(q) + 1) :
                         InsertBefore(q, p, e)[i] =
                           IF i < p THEN q[i] ELSE IF i = p THEN e ELSE q[i - 1]
  OBVIOUS
<1> DEFINE r == InsertBefore(q, p, e)
<1>1. /\ r \in Seq(Node) /\ Len(r) = Len(q) + 1
      /\ \A i \in 1..(Len(q) + 1) :
           r[i] = IF i < p THEN q[i] ELSE IF i = p THEN e ELSE q[i - 1]
  <2> DEFINE S == Node
  <2>1. q \in Seq(S) /\ e \in S
    OBVIOUS
  <2> HIDE DEF S
  <2>2. /\ r \in Seq(S) /\ Len(r) = Len(q) + 1
        /\ \A i \in 1..(Len(q) + 1) :
             r[i] = IF i < p THEN q[i] ELSE IF i = p THEN e ELSE q[i - 1]
    BY <2>1, InsertFacts
  <2> QED BY <2>2 DEF S
<1> QED BY <1>1

\* Filling a slot of the unmatched node p, without filling all: nothing moves.
LEMMA FillOrdered ==
  ASSUME NEW q \in Seq(Node), NEW m, Ordered(q, m), NEW p \in (m + 1)..Len(q),
         NEW e \in Node, e.frame_idx = q[p].frame_idx, e.super_buf # {},
         e.matched <=> e.super_buf = Streams,
         NEW f \in Seq(Node), Len(f) = Len(q),
         \A j \in 1..Len(q) : f[j] = IF j = p THEN e ELSE q[j]
  PROVE  /\ ~e.matched => Ordered(f, m)
         /\ e.matched => /\ Cut(f, m + 1, p) \in Seq(Node)
                         /\ Ordered(Cut(f, m + 1, p), m + 1)
<1>1. Len(q) \in Nat /\ m \in 0..Len(q) /\ p \in 1..Len(q) /\ m \in Nat /\ p \in Nat
  BY LenProperties DEF Ordered
<1>2. /\ f \in Seq(Node) /\ Len(f) = Len(q)
      /\ \A j \in 1..Len(q) : f[j] = IF j = p THEN e ELSE q[j]
  OBVIOUS
<1>3. \A j \in 1..Len(q) : f[j].frame_idx = q[j].frame_idx
  BY <1>2
<1>4. \A j \in 1..Len(q) : /\ f[j].super_buf # {}
                           /\ f[j].matched <=> f[j].super_buf = Streams
  BY <1>2 DEF Ordered
<1>5. \A i, j \in 1..Len(q) :
        m < i /\ i < j => f[i].frame_idx < f[j].frame_idx
  BY <1>3 DEF Ordered
<1>6. \A i \in 1..Len(q) : i # p => (f[i].matched <=> i <= m)
  BY <1>2 DEF Ordered
<1>7. f[p] = e
  BY <1>1, <1>2
<1>8. ASSUME ~e.matched PROVE Ordered(f, m)
  <2>1. \A i \in 1..Len(q) : f[i].matched <=> i <= m
    BY <1>1, <1>6, <1>7, <1>8
  <2> QED BY <1>1, <1>2, <1>4, <1>5, <2>1 DEF Ordered
<1>9. ASSUME e.matched
      PROVE  Cut(f, m + 1, p) \in Seq(Node) /\ Ordered(Cut(f, m + 1, p), m + 1)
  <2> DEFINE r == Cut(f, m + 1, p)
             k == p - (m + 1)
  <2>1. m + 1 \in 1..(Len(f) + 1) /\ p \in (m + 1)..(Len(f) + 1)
    BY <1>1, <1>2
  <2>2. /\ r \in Seq(Node) /\ Len(r) = Len(f) - k
        /\ \A i \in 1..(Len(f) - k) :
             r[i] = IF i < m + 1 THEN f[i] ELSE f[i + k]
    <3> DEFINE a == m + 1
    <3>1. a \in 1..(Len(f) + 1) /\ p \in a..(Len(f) + 1)
      BY <2>1
    <3>2. r = Cut(f, a, p) /\ k = p - a /\ a = m + 1
      OBVIOUS
    <3> HIDE DEF a, r, k
    <3>3. /\ Cut(f, a, p) \in Seq(Node) /\ Len(Cut(f, a, p)) = Len(f) - (p - a)
          /\ \A i \in 1..(Len(f) - (p - a)) :
               Cut(f, a, p)[i] = IF i < a THEN f[i] ELSE f[i + (p - a)]
      BY <1>2, <3>1, CutNodes, Zenon
    <3> QED BY <3>2, <3>3, Zenon
  <2>3. k \in Nat /\ p = m + 1 + k
    BY <1>1
  <2>4. /\ Len(r) = Len(q) - k
        /\ \A i \in 1..Len(r) : r[i] = IF i < m + 1 THEN f[i] ELSE f[i + k]
    BY <1>2, <2>2
  <2> HIDE DEF r, k
  <2>5. m + 1 \in 0..Len(r)
    BY <1>1, <2>3, <2>4
  <2>6. \A i \in 1..Len(r) : i \in 1..Len(q) /\ i + k \in 1..Len(q)
    BY <1>1, <2>3, <2>4
  <2>7. ASSUME NEW i \in 1..Len(r) PROVE r[i].matched <=> i <= m + 1
    <3>1. CASE i < m + 1
      <4>1. r[i] = f[i] /\ i # p /\ i <= m /\ i <= m + 1
        BY <1>1, <2>3, <2>4, <3>1
      <4> QED BY <4>1, <1>6, <2>6
    <3>2. CASE i = m + 1
      <4>1. r[i] = f[p]
        BY <1>1, <2>3, <2>4, <3>2
      <4> QED BY <1>7, <1>9, <3>2, <4>1, <1>1
    <3>3. CASE i > m + 1
      <4>1. r[i] = f[i + k] /\ i + k # p /\ ~ (i + k <= m) /\ ~ (i <= m + 1)
        BY <1>1, <2>3, <2>4, <3>3
      <4> QED BY <4>1, <1>6, <2>6
    <3>4. i < m + 1 \/ i = m + 1 \/ i > m + 1
      BY <1>1
    <3> QED BY <3>1, <3>2, <3>3, <3>4, Zenon
  <2>8. \A i \in 1..Len(r) : /\ r[i].super_buf # {}
                             /\ r[i].matched <=> r[i].super_buf = Streams
    BY <1>4, <2>4, <2>6
  <2>9. ASSUME NEW i \in 1..Len(r), NEW j \in 1..Len(r), m + 1 < i, i < j
        PROVE  r[i].frame_idx < r[j].frame_idx
    <3>1. /\ m < i + k /\ i + k < j + k /\ ~ (i < m + 1) /\ ~ (j < m + 1)
          /\ i + k \in 1..Len(q) /\ j + k \in 1..Len(q)
      BY <1>1, <2>3, <2>6, <2>9
    <3>2. f[i + k].frame_idx < f[j + k].frame_idx
      BY <1>5, <3>1
    <3>3. r[i] = f[i + k] /\ r[j] = f[j + k]
      BY <2>4, <3>1
    <3> QED BY <3>2, <3>3
  <2>10. Ordered(r, m + 1)
    BY <2>5, <2>7, <2>8, <2>9 DEF Ordered
  <2> QED BY <2>2, <2>10 DEF r
<1> QED BY <1>2, <1>8, <1>9

\* Where a new node goes: behind the older ones, in front of the newer ones;
\* the oldest unmatched node, if older than the frame, is the first one.
LEMMA InsertPositions ==
  ASSUME NEW q \in Seq(Node), NEW m, Ordered(q, m), NEW n \in FrameIdx,
         Same(q, n) = {},
         NEW b, b = First(Newer(q, n), Len(q) + 1),
         NEW a, a = First(Older(q, n), 0)
  PROVE  /\ Cardinality(Scanned(q, n)) = Len(q) - m
         /\ b \in (m + 1)..(Len(q) + 1)
         /\ \A i \in (m + 1)..(b - 1) : q[i].frame_idx < n
         /\ \A i \in b..Len(q) : n < q[i].frame_idx
         /\ a = 0 \/ (a = m + 1 /\ m < Len(q) /\ m + 1 < b)
<1>1. /\ Len(q) \in Nat /\ m \in 0..Len(q) /\ m \in Nat /\ n \in Nat
      /\ DOMAIN q = 1..Len(q)
  BY LenProperties DEF Ordered, FrameIdx
<1>2. \A i \in 1..Len(q) : q[i].frame_idx \in Nat
  <2>1. \A i \in 1..Len(q) : q[i] \in Node
    BY ElementOfSeq
  <2> QED BY <2>1, NodeFields DEF FrameIdx
<1>3. Unmatched(q) = (m + 1)..Len(q)
  BY <1>1 DEF Unmatched, Ordered
<1>4. Scanned(q, n) = (m + 1)..Len(q)
  BY <1>3 DEF Scanned
<1>5. Cardinality((m + 1)..Len(q)) = Len(q) - m
  <2>1. Cardinality((m + 1)..Len(q)) =
          IF m + 1 > Len(q) THEN 0 ELSE Len(q) - (m + 1) + 1
    <3>1. m + 1 \in Int /\ Len(q) \in Int
      BY <1>1
    <3> QED BY <3>1, FS_Interval, Zenon
  <2> QED BY <1>1, <2>1
<1>6. \A i \in (m + 1)..Len(q) : q[i].frame_idx < n \/ n < q[i].frame_idx
  <2> TAKE i \in (m + 1)..Len(q)
  <2>1. q[i].frame_idx # n
    BY <1>3 DEF Same
  <2> QED BY <1>1, <1>2, <2>1
<1>7. \A i, j \in (m + 1)..Len(q) : i < j => q[i].frame_idx < q[j].frame_idx
  BY <1>1 DEF Ordered
<1>8. /\ \A i : i \in Newer(q, n) <=> i \in (m + 1)..Len(q) /\ n < q[i].frame_idx
      /\ \A i : i \in Older(q, n) <=> i \in (m + 1)..Len(q) /\ q[i].frame_idx < n
  BY <1>4 DEF Newer, Older
<1>9. Newer(q, n) \in SUBSET Nat /\ Older(q, n) \in SUBSET Nat
  BY <1>1, <1>8
<1>10. /\ b \in (m + 1)..(Len(q) + 1)
       /\ \A i \in (m + 1)..(b - 1) : q[i].frame_idx < n
       /\ \A i \in b..Len(q) : n < q[i].frame_idx
  <2>1. CASE Newer(q, n) = {}
    <3>1. b = Len(q) + 1
      BY <2>1 DEF First
    <3>2. \A i \in (m + 1)..Len(q) : q[i].frame_idx < n
      BY <1>6, <1>8, <2>1
    <3>3. /\ b \in (m + 1)..(Len(q) + 1)
          /\ \A i \in (m + 1)..(b - 1) : i \in (m + 1)..Len(q)
          /\ \A i \in b..Len(q) : FALSE
      BY <1>1, <3>1
    <3> QED BY <3>2, <3>3
  <2>2. CASE Newer(q, n) # {}
    <3>1. b \in Newer(q, n) /\ \A j \in Newer(q, n) : b <= j
      BY <1>9, <2>2, FirstIsLeast
    <3>2. b \in (m + 1)..Len(q) /\ n < q[b].frame_idx
      BY <1>8, <3>1
    <3>3. \A i \in (m + 1)..(b - 1) : q[i].frame_idx < n
      <4> TAKE i \in (m + 1)..(b - 1)
      <4>1. i \in (m + 1)..Len(q) /\ ~ (b <= i)
        BY <1>1, <3>2
      <4> QED BY <1>6, <1>8, <3>1, <4>1
    <3>4. ASSUME NEW i \in b..Len(q) PROVE n < q[i].frame_idx
      <4>1. i \in (m + 1)..Len(q) /\ (i = b \/ b < i)
        BY <1>1, <3>2
      <4>2. i = b \/ q[b].frame_idx < q[i].frame_idx
        BY <1>7, <3>2, <4>1
      <4>3. q[b].frame_idx \in Nat /\ q[i].frame_idx \in Nat
        BY <1>1, <1>2, <3>2, <4>1
      <4> QED BY <1>1, <3>2, <4>2, <4>3
    <3> QED BY <1>1, <3>2, <3>3, <3>4
  <2> QED BY <2>1, <2>2
<1>11. a = 0 \/ (a = m + 1 /\ m < Len(q) /\ m + 1 < b)
  <2>1. CASE Older(q, n) = {}
    BY <2>1 DEF First
  <2>2. CASE Older(q, n) # {}
    <3>1. a \in Older(q, n) /\ \A j \in Older(q, n) : a <= j
      BY <1>9, <2>2, FirstIsLeast
    <3>2. a \in (m + 1)..Len(q) /\ q[a].frame_idx < n
      BY <1>8, <3>1
    <3>3. m + 1 \in (m + 1)..Len(q) /\ (a = m + 1 \/ m + 1 < a)
      BY <1>1, <3>2
    <3>4. q[m + 1].frame_idx < n
      <4>1. a = m + 1 \/ q[m + 1].frame_idx < q[a].frame_idx
        BY <1>7, <3>2, <3>3
      <4>2. q[a].frame_idx \in Nat /\ q[m + 1].frame_idx \in Nat
        BY <1>1, <1>2, <3>2, <3>3
      <4> QED BY <1>1, <3>2, <4>1, <4>2
    <3>5. a <= m + 1
      BY <1>8, <3>1, <3>3, <3>4
    <3>6. b # m + 1
      <4> SUFFICES ASSUME b = m + 1 PROVE FALSE
        OBVIOUS
      <4>1. n < q[m + 1].frame_idx
        BY <1>10, <3>3
      <4>2. q[m + 1].frame_idx \in Nat
        BY <1>1, <1>2, <3>3
      <4> QED BY <1>1, <3>4, <4>1, <4>2
    <3> QED BY <1>1, <1>10, <3>2, <3>3, <3>5, <3>6
  <2> QED BY <2>1, <2>2
<1> QED BY <1>4, <1>5, <1>10, <1>11

\* A new node between the older and the newer unmatched ones keeps the order;
\* one that is matched at once has no unmatched node before it.
LEMMA InsertOrdered ==
  ASSUME NEW q \in Seq(Node), NEW m, Ordered(q, m), NEW e \in Node,
         e.super_buf # {}, e.matched <=> e.super_buf = Streams,
         NEW b \in (m + 1)..(Len(q) + 1),
         \A i \in (m + 1)..(b - 1) : q[i].frame_idx < e.frame_idx,
         \A i \in b..Len(q) : e.frame_idx < q[i].frame_idx,
         NEW f \in Seq(Node), Len(f) = Len(q) + 1,
         \A i \in 1..(Len(q) + 1) :
           f[i] = IF i < b THEN q[i] ELSE IF i = b THEN e ELSE q[i - 1]
  PROVE  /\ ~e.matched => Ordered(f, m)
         /\ e.matched /\ b = m + 1 => Ordered(f, m + 1)
<1>1. Len(q) \in Nat /\ m \in 0..Len(q) /\ m \in Nat /\ b \in Nat /\ Len(f) \in Nat
  BY LenProperties DEF Ordered
<1>2. \A i \in 1..Len(f) : \/ i < b /\ i \in 1..Len(q) /\ f[i] = q[i]
                           \/ i = b /\ f[i] = e
                           \/ i > b /\ i - 1 \in 1..Len(q) /\ f[i] = q[i - 1]
  BY <1>1
<1>3. \A i \in 1..Len(f) : /\ f[i].super_buf # {}
                           /\ f[i].matched <=> f[i].super_buf = Streams
  BY <1>2 DEF Ordered
<1>4. ASSUME NEW i \in 1..Len(f), NEW j \in 1..Len(f), m < i, i < j
      PROVE  f[i].frame_idx < f[j].frame_idx
  <2>1. CASE j < b
    <3>1. f[i] = q[i] /\ f[j] = q[j] /\ i \in 1..Len(q) /\ j \in 1..Len(q)
      BY <1>1, <1>2, <1>4, <2>1
    <3> QED BY <1>4, <3>1 DEF Ordered
  <2>2. CASE j = b
    <3>1. f[i] = q[i] /\ f[j] = e /\ i \in (m + 1)..(b - 1)
      BY <1>1, <1>2, <1>4, <2>2
    <3> QED BY <3>1
  <2>3. CASE j > b /\ i < b
    <3>1. /\ f[i] = q[i] /\ f[j] = q[j - 1] /\ i \in 1..Len(q)
          /\ j - 1 \in 1..Len(q) /\ i < j - 1
      BY <1>1, <1>2, <1>4, <2>3
    <3> QED BY <1>4, <3>1 DEF Ordered
  <2>4. CASE j > b /\ i = b
    <3>1. f[i] = e /\ f[j] = q[j - 1] /\ j - 1 \in b..Len(q)
      BY <1>1, <1>2, <1>4, <2>4
    <3> QED BY <3>1
  <2>5. CASE i > b
    <3>1. /\ f[i] = q[i - 1] /\ f[j] = q[j - 1] /\ i - 1 \in 1..Len(q)
          /\ j - 1 \in 1..Len(q) /\ i - 1 < j - 1 /\ m < i - 1
      BY <1>1, <1>2, <1>4, <2>5
    <3> QED BY <3>1 DEF Ordered
  <2>6. j < b \/ j = b \/ (j > b /\ i < b) \/ (j > b /\ i = b) \/ i > b
    BY <1>1
  <2> QED BY <2>1, <2>2, <2>3, <2>4, <2>5, <2>6, Zenon
<1>5. ASSUME ~e.matched PROVE Ordered(f, m)
  <2>1. ASSUME NEW i \in 1..Len(f) PROVE f[i].matched <=> i <= m
    <3>1. CASE i < b
      <4>1. f[i] = q[i] /\ i \in 1..Len(q)
        BY <1>1, <1>2, <3>1
      <4> QED BY <4>1 DEF Ordered
    <3>2. CASE i = b
      <4>1. f[i] = e /\ ~ (i <= m)
        BY <1>1, <1>2, <3>2
      <4> QED BY <1>5, <4>1
    <3>3. CASE i > b
      <4>1. /\ f[i] = q[i - 1] /\ i - 1 \in 1..Len(q)
            /\ ~ (i <= m) /\ ~ (i - 1 <= m)
        BY <1>1, <1>2, <3>3
      <4>2. ~ q[i - 1].matched
        BY <4>1 DEF Ordered
      <4> QED BY <4>1, <4>2
    <3>4. i < b \/ i = b \/ i > b
      BY <1>1
    <3> QED BY <3>1, <3>2, <3>3, <3>4, Zenon
  <2>2. m \in 0..Len(f)
    BY <1>1
  <2> QED BY <1>3, <1>4, <2>1, <2>2 DEF Ordered
<1>6. ASSUME e.matched, b = m + 1 PROVE Ordered(f, m + 1)
  <2>1. ASSUME NEW i \in 1..Len(f) PROVE f[i].matched <=> i <= m + 1
    <3>1. CASE i < b
      <4>1. f[i] = q[i] /\ i \in 1..Len(q) /\ i <= m /\ i <= m + 1
        BY <1>1, <1>2, <1>6, <3>1
      <4> QED BY <4>1 DEF Ordered
    <3>2. CASE i = b
      <4>1. f[i] = e /\ i <= m + 1
        BY <1>1, <1>2, <1>6, <3>2
      <4> QED BY <1>6, <4>1
    <3>3. CASE i > b
      <4>1. /\ f[i] = q[i - 1] /\ i - 1 \in 1..Len(q)
            /\ ~ (i <= m + 1) /\ ~ (i - 1 <= m)
        BY <1>1, <1>2, <1>6, <3>3
      <4>2. ~ q[i - 1].matched
        BY <4>1 DEF Ordered
      <4> QED BY <4>1, <4>2
    <3>4. i < b \/ i = b \/ i > b
      BY <1>1
    <3> QED BY <3>1, <3>2, <3>3, <3>4, Zenon
  <2>2. m + 1 \in 0..Len(f)
    BY <1>1
  <2>3. \A i, j \in 1..Len(f) : m + 1 < i /\ i < j => f[i].frame_idx < f[j].frame_idx
    <3> TAKE i, j \in 1..Len(f)
    <3> HAVE m + 1 < i /\ i < j
    <3>1. m < i
      BY <1>1
    <3> QED BY <1>4, <3>1
  <2> QED BY <1>3, <2>1, <2>2, <2>3 DEF Ordered
<1> QED BY <1>5, <1>6

\* Driving out the first unmatched node keeps the order.
LEMMA EvictOrdered ==
  ASSUME NEW q \in Seq(Node), NEW m, Ordered(q, m), m < Len(q),
         NEW a, a = m + 1
  PROVE  /\ Cut(q, a, a + 1) \in Seq(Node)
         /\ Len(Cut(q, a, a + 1)) = Len(q) - 1
         /\ Ordered(Cut(q, a, a + 1), m)
<1>1. Len(q) \in Nat /\ m \in 0..Len(q) /\ m \in Nat /\ a \in Nat
  BY LenProperties DEF Ordered
<1> DEFINE r == Cut(q, a, a + 1)
<1>2. /\ r \in Seq(Node) /\ Len(r) = Len(q) - 1
      /\ \A i \in 1..Len(r) : r[i] = IF i < a THEN q[i] ELSE q[i + 1]
  <2>1. a \in 1..(Len(q) + 1) /\ a + 1 \in a..(Len(q) + 1) /\ (a + 1) - a = 1
    BY <1>1
  <2>2. /\ r \in Seq(Node) /\ Len(r) = Len(q) - ((a + 1) - a)
        /\ \A i \in 1..(Len(q) - ((a + 1) - a)) :
             r[i] = IF i < a THEN q[i] ELSE q[i + ((a + 1) - a)]
    BY <2>1, CutNodes, Zenon
  <2> QED BY <2>1, <2>2, Zenon
<1> HIDE DEF r
<1>3. \A i \in 1..Len(r) : \/ i <= m /\ i \in 1..Len(q) /\ r[i] = q[i]
                           \/ i > m /\ i + 1 \in 1..Len(q) /\ r[i] = q[i + 1]
  BY <1>1, <1>2
<1>4. m \in 0..Len(r)
  BY <1>1, <1>2
<1>5. ASSUME NEW i \in 1..Len(r) PROVE r[i].matched <=> i <= m
  <2>1. CASE i <= m
    <3>1. i \in 1..Len(q) /\ r[i] = q[i]
      BY <1>1, <1>3, <2>1
    <3> QED BY <3>1 DEF Ordered
  <2>2. CASE i > m
    <3>1. i + 1 \in 1..Len(q) /\ r[i] = q[i + 1] /\ ~ (i <= m) /\ ~ (i + 1 <= m)
      BY <1>1, <1>3, <2>2
    <3>2. ~ q[i + 1].matched
      BY <3>1 DEF Ordered
    <3> QED BY <3>1, <3>2
  <2>3. i <= m \/ i > m
    BY <1>1
  <2> QED BY <2>1, <2>2, <2>3, Zenon
<1>6. \A i \in 1..Len(r) : /\ r[i].super_buf # {}
                           /\ r[i].matched <=> r[i].super_buf = Streams
  BY <1>3 DEF Ordered
<1>7. ASSUME NEW i \in 1..Len(r), NEW j \in 1..Len(r), m < i, i < j
      PROVE  r[i].frame_idx < r[j].frame_idx
  <2>1. /\ r[i] = q[i + 1] /\ r[j] = q[j + 1] /\ i + 1 \in 1..Len(q)
        /\ j + 1 \in 1..Len(q) /\ m < i + 1 /\ i + 1 < j + 1
    BY <1>1, <1>3, <1>7
  <2> QED BY <2>1 DEF Ordered
<1>8. Ordered(r, m)
  BY <1>4, <1>5, <1>6, <1>7 DEF Ordered
<1> QED BY <1>2, <1>8 DEF r

\* Frame numbers stay in the range of the counter.
LEMMA CounterFacts ==
  /\ \A n \in FrameIdx : Expect(n) \in Counter
  /\ \A n \in Counter : (n + MaxFutureFrameOffset) % FrameIdxLimit \in Counter
  /\ 0..MaxFrame \subseteq Counter
<1>1. /\ FrameIdxLimit \in Nat /\ FrameIdxLimit > 0 /\ MaxFrame < FrameIdxLimit
      /\ MaxFutureFrameOffset \in Nat /\ PostFrameSkip \in Nat /\ MaxFrame \in Nat
  BY ParameterAssumption
<1>2. \A n \in Nat : n % FrameIdxLimit \in Counter
  BY <1>1 DEF Counter
<1>3. \A n \in FrameIdx : n + PostFrameSkip \in Nat
  BY <1>1 DEF FrameIdx
<1>4. \A n \in Counter : n + MaxFutureFrameOffset \in Nat
  BY <1>1 DEF Counter
<1>5. 0..MaxFrame \subseteq Counter
  BY <1>1 DEF Counter
<1> QED BY <1>2, <1>3, <1>4, <1>5 DEF Expect

\* What a step of the matching leaves as it is, and what it keeps true.
Steady(r, c) == /\ ChanInv(r.chan)
                /\ r.hang = FALSE
                /\ r.chan.notify_mode = c.notify_mode
                /\ r.chan.pending_cnt = c.pending_cnt

\* A channel whose queue alone is replaced.
LEMMA ReplacedQueue ==
  ASSUME NEW c \in Chan, NEW q \in Seq(Node), Ordered(q, c.match_cnt),
         Len(q) <= c.match_cnt + MaxUnmatchedFrames + 1,
         NEW d, d = [c EXCEPT !.queue = q]
  PROVE  /\ ChanInv(d) /\ d.notify_mode = c.notify_mode
         /\ d.pending_cnt = c.pending_cnt
<1>1. /\ d \in Chan /\ d.queue = q /\ d.match_cnt = c.match_cnt
      /\ d.notify_mode = c.notify_mode /\ d.pending_cnt = c.pending_cnt
  BY DEF Chan
<1> QED BY <1>1 DEF ChanInv

\* A frame that joins its node.
LEMMA JoinInv ==
  ASSUME NEW c, ChanInv(c), NEW s \in Streams, NEW n \in FrameIdx,
         Same(c.queue, n) # {}
  PROVE  Steady(Join(c, s, n), c)
<1> DEFINE q      == c.queue
           m      == c.match_cnt
           p      == First(Same(q, n), 0)
           slots  == q[p].super_buf \cup {s}
           full   == Full(slots)
           oldest == First(Older(q, n), p)
           filled == [q EXCEPT ![p].super_buf = slots, ![p].matched = full]
           e      == [q[p] EXCEPT !.super_buf = slots, !.matched = full]
           f      == [q EXCEPT ![p] = e]
           U      == MaxUnmatchedFrames
<1>1. /\ c \in Chan /\ Ordered(q, m) /\ q \in Seq(Node) /\ Len(q) \in Nat
      /\ m \in 0..Len(q) /\ m \in Nat /\ Len(q) <= m + U + 1 /\ U \in Nat
  BY ChanFields, ParameterAssumption DEF ChanInv, Ordered
<1>2. /\ p \in (m + 1)..Len(q) /\ q[p].frame_idx = n /\ oldest = m + 1
  BY <1>1, JoinPositions
<1>3. Join(c, s, n) =
        IF full THEN Result([c EXCEPT !.queue = Cut(filled, oldest, p),
                                      !.expected_frame_id = Expect(n),
                                      !.match_cnt = @ + 1],
                            FramesIn(SubSeq(q, oldest, p - 1)))
        ELSE Result([c EXCEPT !.queue = filled], {})
  BY DEF Join
<1> HIDE DEF p, oldest
<1>4. p \in 1..Len(q) /\ q[p] \in Node
  BY <1>1, <1>2, ChanFields
<1>5. /\ e \in Node /\ e.frame_idx = q[p].frame_idx /\ e.super_buf # {}
      /\ e.matched <=> e.super_buf = Streams
      /\ e.matched <=> full
  BY <1>4 DEF Node, Full
<1>6. filled = f
  BY <1>1, <1>4, ChanFields
<1> HIDE DEF e, full, filled
<1>7. /\ f \in Seq(Node) /\ Len(f) = Len(q)
      /\ \A j \in 1..Len(q) : f[j] = IF j = p THEN e ELSE q[j]
  BY <1>1, <1>4, <1>5, ReplaceFacts
<1> HIDE DEF f, q, m, U
<1>8. /\ ~e.matched => Ordered(f, m)
      /\ e.matched => /\ Cut(f, m + 1, p) \in Seq(Node)
                      /\ Ordered(Cut(f, m + 1, p), m + 1)
  BY <1>1, <1>2, <1>5, <1>7, FillOrdered
<1>9. CASE full
  <2> DEFINE r == Cut(f, oldest, p)
             w == m + 1
             x == Expect(n)
             d == [c EXCEPT !.queue = r, !.expected_frame_id = x,
                            !.match_cnt = w]
  <2>1. r \in Seq(Node) /\ Ordered(r, w)
    BY <1>2, <1>5, <1>8, <1>9
  <2>2. Len(r) <= Len(q)
    <3>1. /\ oldest \in 1..(Len(f) + 1) /\ p \in oldest..(Len(f) + 1)
          /\ Len(q) - (p - oldest) <= Len(q)
      BY <1>1, <1>2, <1>7
    <3>2. Len(r) = Len(f) - (p - oldest)
      BY <1>7, <3>1, CutNodes, Zenon
    <3> QED BY <1>7, <3>1, <3>2
  <2>3. Join(c, s, n) = Result(d, FramesIn(SubSeq(q, oldest, p - 1)))
    BY <1>3, <1>6, <1>9 DEF m
  <2> HIDE DEF r, w, x
  <2>4. Len(r) <= w + MaxUnmatchedFrames + 1
    <3>1. Len(r) \in Nat
      BY <2>1, LenProperties
    <3> QED BY <1>1, <2>2, <3>1 DEF U, w
  <2>5. x \in Counter
    BY CounterFacts DEF x
  <2>6. w \in Int
    BY <1>1 DEF w
  <2>7. /\ d \in Chan /\ d.queue = r /\ d.match_cnt = w
        /\ d.notify_mode = c.notify_mode /\ d.pending_cnt = c.pending_cnt
    BY <1>1, <2>1, <2>5, <2>6 DEF Chan
  <2> HIDE DEF d
  <2> QED BY <2>1, <2>3, <2>4, <2>7 DEF Steady, Result, ChanInv
<1>10. CASE ~full
  <2> DEFINE d == [c EXCEPT !.queue = f]
  <2>1. Join(c, s, n) = Result(d, {})
    BY <1>3, <1>6, <1>10
  <2>2. Ordered(f, c.match_cnt) /\ Len(f) <= c.match_cnt + MaxUnmatchedFrames + 1
    BY <1>1, <1>5, <1>7, <1>8, <1>10 DEF m, U
  <2>3. d = [c EXCEPT !.queue = f]
    OBVIOUS
  <2> HIDE DEF d
  <2>4. /\ ChanInv(d) /\ d.notify_mode = c.notify_mode
        /\ d.pending_cnt = c.pending_cnt
    BY <1>1, <1>7, <2>2, <2>3, ReplacedQueue, Zenon
  <2> QED BY <2>1, <2>4 DEF Steady, Result
<1> QED BY <1>9, <1>10

\* The first frame of its number: it gets a node in its place, the oldest one
\* leaves a crowded queue, and match_cnt counts a node that is whole at once.
LEMMA InsertInv ==
  ASSUME NEW c, ChanInv(c), NEW s \in Streams, NEW n \in FrameIdx,
         Same(c.queue, n) = {}, NEW ok \in BOOLEAN
  PROVE  Steady(Insert(c, s, n, ok), c)
<1> DEFINE q        == c.queue
           m        == c.match_cnt
           U        == MaxUnmatchedFrames
           crowded  == Crowded(q, n)
           oldest   == First(Older(q, n), 0)
           before   == First(Newer(q, n), Len(q) + 1)
           single   == Streams = {s}
           new      == [frame_idx |-> n, super_buf |-> {s}, matched |-> single]
           evict(r) == IF crowded THEN Cut(r, oldest, oldest + 1) ELSE r
           evicted  == IF crowded THEN Frames(q[oldest]) ELSE {}
           f        == InsertBefore(q, before, new)
           g        == evict(f)
           x        == IF single THEN Expect(n) ELSE c.expected_frame_id
           w        == IF single THEN m + 1 ELSE m
           d        == [c EXCEPT !.queue = g, !.expected_frame_id = x,
                                 !.match_cnt = w]
<1>1. /\ c \in Chan /\ Ordered(q, m) /\ q \in Seq(Node) /\ Len(q) \in Nat
      /\ m \in 0..Len(q) /\ m \in Nat /\ Len(q) <= m + U + 1 /\ U \in Nat
      /\ c.expected_frame_id \in Counter
  BY ChanFields, ParameterAssumption DEF ChanInv, Ordered
<1>2. /\ Cardinality(Scanned(q, n)) = Len(q) - m
      /\ before \in (m + 1)..(Len(q) + 1)
      /\ \A i \in (m + 1)..(before - 1) : q[i].frame_idx < n
      /\ \A i \in before..Len(q) : n < q[i].frame_idx
      /\ oldest = 0 \/ (oldest = m + 1 /\ m < Len(q) /\ m + 1 < before)
  BY <1>1, InsertPositions
<1>3. crowded <=> U < Len(q) - m
  BY <1>2 DEF Crowded
<1>4. Insert(c, s, n, ok) =
        IF crowded /\ oldest = 0 THEN Result(c, {<<s, n>>})
        ELSE IF ~ok THEN Result([c EXCEPT !.queue = evict(q)], evicted \cup {<<s, n>>})
        ELSE Result([c EXCEPT
                       !.queue = IF oldest < before THEN evict(f)
                                 ELSE InsertBefore(evict(q), before, new),
                       !.expected_frame_id = IF single THEN Expect(n) ELSE @,
                       !.match_cnt = IF single THEN @ + 1 ELSE @],
                    evicted)
  BY DEF Insert
<1> HIDE DEF oldest, before, crowded
<1>5. /\ new \in Node /\ new.frame_idx = n /\ new.super_buf # {}
      /\ new.matched <=> new.super_buf = Streams
      /\ new.matched <=> single
  BY DEF Node
<1> HIDE DEF new
<1>6. /\ f \in Seq(Node) /\ Len(f) = Len(q) + 1
      /\ \A i \in 1..(Len(q) + 1) :
           f[i] = IF i < before THEN q[i] ELSE IF i = before THEN new ELSE q[i - 1]
  <2>1. before \in 1..(Len(q) + 1)
    BY <1>1, <1>2
  <2>2. q \in Seq(Node) /\ new \in Node
    BY <1>1, <1>5
  <2>3. f = InsertBefore(q, before, new)
    OBVIOUS
  <2> HIDE DEF q, f
  <2>4. /\ InsertBefore(q, before, new) \in Seq(Node)
        /\ Len(InsertBefore(q, before, new)) = Len(q) + 1
        /\ \A i \in 1..(Len(q) + 1) :
             InsertBefore(q, before, new)[i] =
               IF i < before THEN q[i]
               ELSE IF i = before THEN new ELSE q[i - 1]
    BY <2>1, <2>2, InsertNodes
  <2> QED BY <2>3, <2>4, Zenon
<1> HIDE DEF f
<1>7. /\ ~single => Ordered(f, m)
      /\ single /\ before = m + 1 => Ordered(f, m + 1)
  BY <1>1, <1>2, <1>5, <1>6, InsertOrdered
<1>8. single => m = Len(q) /\ before = m + 1 /\ ~crowded
  <2> SUFFICES ASSUME single PROVE m = Len(q) /\ before = m + 1 /\ ~crowded
    OBVIOUS
  <2>1. ASSUME m < Len(q) PROVE FALSE
    <3>1. Len(q) \in 1..Len(q) /\ ~ (Len(q) <= m)
      BY <1>1, <2>1
    <3>2. q[Len(q)] \in Node
      BY <1>1, <3>1, ElementOfSeq
    <3>3. q[Len(q)].super_buf # {} /\ q[Len(q)].super_buf # Streams
      BY <1>1, <3>1 DEF Ordered
    <3>4. q[Len(q)].super_buf \subseteq {s}
      BY <3>2, NodeFields
    <3> QED BY <3>3, <3>4
  <2>2. m = Len(q)
    BY <1>1, <2>1
  <2> QED BY <1>1, <1>2, <1>3, <2>2
<1>9. crowded /\ oldest # 0 =>
        /\ Cut(q, oldest, oldest + 1) \in Seq(Node)
        /\ Len(Cut(q, oldest, oldest + 1)) = Len(q) - 1
        /\ Ordered(Cut(q, oldest, oldest + 1), m)
  BY <1>1, <1>2, EvictOrdered
<1>10. crowded /\ oldest # 0 =>
        /\ Cut(f, oldest, oldest + 1) \in Seq(Node)
        /\ Len(Cut(f, oldest, oldest + 1)) = Len(f) - 1
        /\ Ordered(Cut(f, oldest, oldest + 1), m)
  <2> HAVE crowded /\ oldest # 0
  <2>1. Ordered(f, m) /\ oldest = m + 1 /\ m < Len(f)
    BY <1>1, <1>2, <1>6, <1>7, <1>8
  <2> QED BY <1>6, <2>1, EvictOrdered
<1>11. CASE crowded /\ oldest = 0
  <2>1. Insert(c, s, n, ok) = Result(c, {<<s, n>>})
    BY <1>4, <1>11
  <2> QED BY <2>1 DEF Steady, Result
<1>12. CASE ~ (crowded /\ oldest = 0) /\ ~ok
  <2> DEFINE r == evict(q)
             k == [c EXCEPT !.queue = r]
  <2>1. r \in Seq(Node) /\ Ordered(r, c.match_cnt)
    BY <1>1, <1>9, <1>12
  <2>2. Len(r) <= c.match_cnt + MaxUnmatchedFrames + 1
    BY <1>1, <1>9, <1>12
  <2>3. Insert(c, s, n, ok) = Result(k, evicted \cup {<<s, n>>})
    BY <1>4, <1>12
  <2>4. k = [c EXCEPT !.queue = r]
    OBVIOUS
  <2> HIDE DEF k, r, evicted
  <2>5. /\ ChanInv(k) /\ k.notify_mode = c.notify_mode
        /\ k.pending_cnt = c.pending_cnt
    BY <1>1, <2>1, <2>2, <2>4, ReplacedQueue, Zenon
  <2> QED BY <2>3, <2>5 DEF Steady, Result
<1>13. CASE ~ (crowded /\ oldest = 0) /\ ok
  <2>1. oldest < before
    BY <1>1, <1>2
  <2>2. Insert(c, s, n, ok) = Result(d, evicted)
    BY <1>4, <1>13, <2>1
  <2>3. g \in Seq(Node) /\ Ordered(g, w) /\ Len(g) <= w + U + 1
    <3>1. CASE crowded
      <4>1. g = Cut(f, oldest, oldest + 1) /\ w = m
        BY <1>8, <3>1
      <4>2. /\ Cut(f, oldest, oldest + 1) \in Seq(Node)
            /\ Ordered(Cut(f, oldest, oldest + 1), m)
            /\ Len(Cut(f, oldest, oldest + 1)) = Len(q)
        BY <1>1, <1>6, <1>10, <1>13, <3>1
      <4> QED BY <1>1, <4>1, <4>2
    <3>2. CASE ~crowded
      <4>1. g = f
        BY <3>2
      <4>2. Ordered(f, w)
        BY <1>7, <1>8
      <4>3. Len(f) <= w + U + 1
        BY <1>1, <1>3, <1>6, <3>2
      <4> QED BY <1>6, <4>1, <4>2, <4>3
    <3> QED BY <3>1, <3>2
  <2>4. x \in Counter /\ w \in Int
    BY <1>1, CounterFacts
  <2> HIDE DEF g, x, w, evicted
  <2>5. /\ d \in Chan /\ d.queue = g /\ d.match_cnt = w
        /\ d.notify_mode = c.notify_mode /\ d.pending_cnt = c.pending_cnt
    BY <1>1, <2>3, <2>4 DEF Chan
  <2> HIDE DEF d
  <2> QED BY <2>2, <2>3, <2>5 DEF Steady, Result, ChanInv
<1> QED BY <1>11, <1>12, <1>13

-----------------------------------------------------------------------------
(* The steps of the command thread. *)

\* A metadata frame may flush the queue or move expected_frame_id.
LEMMA MetadataInv ==
  ASSUME NEW c, ChanInv(c), NEW md \in MetaInfo
  PROVE  Steady(HandleMetadata(c, md), c)
<1>1. c \in Chan /\ Ordered(c.queue, c.match_cnt)
  BY DEF ChanInv
<1>2. CASE md.prep = "NEED_FUTURE_FRAME"
  <2> DEFINE x == (c.expected_frame_id + MaxFutureFrameOffset) % FrameIdxLimit
             d == [c EXCEPT !.expected_frame_id = x]
  <2>1. x \in Counter
    BY <1>1, ChanFields, CounterFacts
  <2>2. HandleMetadata(c, md) = Flush(d)
    BY <1>2 DEF HandleMetadata
  <2> HIDE DEF x
  <2>3. /\ d \in Chan /\ d.queue = c.queue /\ d.match_cnt = c.match_cnt
        /\ d.notify_mode = c.notify_mode /\ d.pending_cnt = c.pending_cnt
    BY <1>1, <2>1 DEF Chan
  <2> HIDE DEF d
  <2>4. ChanInv(d)
    BY <2>3 DEF ChanInv
  <2> QED BY <2>2, <2>3, <2>4, FlushInv DEF Steady
<1>3. CASE md.prep # "NEED_FUTURE_FRAME" /\ md.range # NoRange
  <2> DEFINE x == md.range
             d == [c EXCEPT !.expected_frame_id = x]
  <2>1. x \in Counter
    BY <1>3, CounterFacts DEF MetaInfo
  <2>2. HandleMetadata(c, md) = Result(d, {})
    BY <1>3 DEF HandleMetadata
  <2> HIDE DEF x
  <2>3. /\ d \in Chan /\ d.queue = c.queue /\ d.match_cnt = c.match_cnt
        /\ d.notify_mode = c.notify_mode /\ d.pending_cnt = c.pending_cnt
    BY <1>1, <2>1 DEF Chan
  <2> HIDE DEF d
  <2>4. ChanInv(d)
    BY <2>3 DEF ChanInv
  <2> QED BY <2>2, <2>3, <2>4 DEF Steady, Result
<1>4. CASE md.prep # "NEED_FUTURE_FRAME" /\ md.range = NoRange
  <2>1. HandleMetadata(c, md) = Result(c, {})
    BY <1>4 DEF HandleMetadata
  <2> QED BY <2>1 DEF Steady, Result
<1> QED BY <1>2, <1>3, <1>4

\* Whatever becomes of a frame, the channel stays in order.
LEMMA CompInv ==
  ASSUME NEW c, ChanInv(c), NEW s \in Streams, NEW n \in FrameIdx,
         NEW md \in MetaInfo, NEW ok \in BOOLEAN
  PROVE  Steady(CompAndEnqueue(c, s, n, md, ok), c)
<1>1. CASE Contradictory(md)
  BY <1>1 DEF CompAndEnqueue, Steady, Result
<1>2. CASE ~Contradictory(md)
  <2> DEFINE h == HandleMetadata(c, md)
             r == IF n < h.chan.expected_frame_id THEN TooOld(h.chan, s, n)
                  ELSE IF Same(h.chan.queue, n) # {} THEN Join(h.chan, s, n)
                  ELSE Insert(h.chan, s, n, ok)
             e == [r EXCEPT !.done = @ \cup h.done]
  <2>1. CompAndEnqueue(c, s, n, md, ok) = e
    BY <1>2 DEF CompAndEnqueue
  <2>2. Steady(h, c)
    BY MetadataInv
  <2> HIDE DEF h
  <2>3. Steady(TooOld(h.chan, s, n), h.chan)
    BY <2>2 DEF TooOld, Steady, Result
  <2>4. Same(h.chan.queue, n) # {} => Steady(Join(h.chan, s, n), h.chan)
    BY <2>2, JoinInv DEF Steady
  <2>5. Same(h.chan.queue, n) = {} => Steady(Insert(h.chan, s, n, ok), h.chan)
    BY <2>2, InsertInv DEF Steady
  <2>6. Steady(r, h.chan)
    BY <2>3, <2>4, <2>5
  <2>7. e.chan = r.chan /\ e.hang = r.hang
    <3>1. r.chan = [r EXCEPT !.done = @ \cup h.done].chan
      <4>1. \E a, b, z : r = [chan |-> a, done |-> b, hang |-> z]
        BY DEF TooOld, Join, Insert, Result
      <4> QED BY <4>1
    <3>2. r.hang = [r EXCEPT !.done = @ \cup h.done].hang
      <4>1. \E a, b, z : r = [chan |-> a, done |-> b, hang |-> z]
        BY DEF TooOld, Join, Insert, Result
      <4> QED BY <4>1
    <3> QED BY <3>1, <3>2
  <2> HIDE DEF r, e
  <2> QED BY <2>1, <2>2, <2>6, <2>7 DEF Steady
<1> QED BY <1>1, <1>2

-----------------------------------------------------------------------------
(* The inductive invariant. *)

\* Between two commands: nothing is over the water mark, nothing matched waits
\* for a HAL that waits, and what goes to the HAL is whole.
Trimmed(c) ==
  /\ c.notify_mode = BURST => c.match_cnt <= WaterMark
  /\ c.pending_cnt > 0 \/ c.notify_mode = CONTINUOUS => c.match_cnt = 0
WholeOnes(q) == \A i \in 1..Len(q) : q[i].super_buf = Streams

Inv == /\ TypeOK
       /\ ChanInv(chan)
       /\ Trimmed(chan)
       /\ ~spinning
       /\ WholeOnes(cbq)

\* Joining two sequences of whole super buffers.
LEMMA WholeConcat ==
  ASSUME NEW a \in Seq(Node), NEW b \in Seq(Node), WholeOnes(a), WholeOnes(b)
  PROVE  a \o b \in Seq(Node) /\ WholeOnes(a \o b)
<1>1. /\ a \o b \in Seq(Node) /\ Len(a \o b) = Len(a) + Len(b)
      /\ \A i \in 1..(Len(a) + Len(b)) :
           (a \o b)[i] = IF i <= Len(a) THEN a[i] ELSE b[i - Len(a)]
  BY ConcatProperties
<1>2. Len(a) \in Nat /\ Len(b) \in Nat
  BY LenProperties
<1>3. ASSUME NEW i \in 1..Len(a \o b) PROVE (a \o b)[i].super_buf = Streams
  <2>1. CASE i <= Len(a)
    <3>1. (a \o b)[i] = a[i] /\ i \in 1..Len(a)
      BY <1>1, <1>2, <2>1
    <3> QED BY <3>1 DEF WholeOnes
  <2>2. CASE i > Len(a)
    <3>1. (a \o b)[i] = b[i - Len(a)] /\ i - Len(a) \in 1..Len(b)
      BY <1>1, <1>2, <2>2
    <3> QED BY <3>1 DEF WholeOnes
  <2>3. i <= Len(a) \/ i > Len(a)
    BY <1>1, <1>2
  <2> QED BY <2>1, <2>2, <2>3
<1> QED BY <1>1, <1>3 DEF WholeOnes

\* Super buffers picked out of some.
LEMMA PickFacts ==
  ASSUME NEW out \in Seq(Node), NEW at \in Picks(Len(out))
  PROVE  /\ Pick(out, at) \in Seq(Node) /\ Len(Pick(out, at)) = Len(at) /\ Len(at) \in Nat
         /\ DOMAIN at = 1..Len(at)
         /\ \A i \in 1..Len(at) : at[i] \in 1..Len(out) /\ Pick(out, at)[i] = out[at[i]]
         /\ \A i, j \in 1..Len(at) : i < j => at[i] < at[j]
         /\ at # <<>> => Len(at) \in 1..Len(at)
         /\ at = <<>> => Pick(out, at) = <<>>
<1>1. PICK k \in 0..Len(out) :
        /\ at \in [1..k -> 1..Len(out)]
        /\ \A i, j \in 1..k : i < j => at[i] < at[j]
  BY DEF Picks
<1>2. Len(out) \in Nat /\ \A i \in 1..Len(out) : out[i] \in Node
  BY LenProperties, ElementOfSeq
<1>3. at \in Seq(1..Len(out)) /\ Len(at) = k /\ k \in Nat /\ DOMAIN at = 1..k
  BY <1>1, <1>2
<1>4. Pick(out, at) \in [1..k -> Node]
  BY <1>1, <1>2, <1>3 DEF Pick
<1>5. Pick(out, at) \in Seq(Node) /\ Len(Pick(out, at)) = k
  BY <1>3, <1>4
<1>6. \A i \in 1..k : Pick(out, at)[i] = out[at[i]]
  BY <1>3 DEF Pick
<1>7. at # <<>> => k \in 1..k
  BY <1>3, EmptySeq
<1>8. at = <<>> => Pick(out, at) = <<>>
  BY <1>3, <1>5, EmptySeq
<1> QED BY <1>1, <1>3, <1>5, <1>6, <1>7, <1>8

\* The tail of mm_channel_process_stream_buf re-establishes the invariant after
\* whatever a command did to the channel.
LEMMA FinishInv ==
  ASSUME Inv, NEW r, ChanInv(r.chan), r.hang = FALSE,
         NEW refused \in SUBSET Frame, Finish(r, refused)
  PROVE  /\ ChanInv(chan') /\ Trimmed(chan')
         /\ spinning' = FALSE
         /\ cbq' \in Seq(Node) /\ WholeOnes(cbq')
         /\ sent' \in 0..MaxFrame
         /\ user' \subseteq Frame /\ leaked' \subseteq Frame
<1> DEFINE o   == Overflow(r.chan)
           c   == o.chan
           out == SubSeq(c.queue, 1, Ready(c))
<1>1. /\ ChanInv(c) /\ o.hang = FALSE
      /\ c.notify_mode = BURST => c.match_cnt <= WaterMark
  <2>1. WaterMark \in Nat
    BY ParameterAssumption
  <2>2. LET z == TrimTo(r.chan, WaterMark)
        IN  /\ ChanInv(z.chan) /\ z.hang = FALSE
            /\ z.chan.notify_mode = r.chan.notify_mode
            /\ r.chan.notify_mode = BURST => z.chan.match_cnt <= WaterMark
    BY <2>1, TrimInv
  <2> QED BY <2>2 DEF Overflow
<1>2. /\ Ready(c) \in 0..c.match_cnt
      /\ ChanInv(Dispatched(c))
      /\ Dispatched(c).notify_mode = c.notify_mode
      /\ Dispatched(c).match_cnt = c.match_cnt - Ready(c)
      /\ Dispatched(c).pending_cnt > 0 \/ c.notify_mode = CONTINUOUS
           => Dispatched(c).match_cnt = 0
  BY <1>1, DispatchInv
<1>3. chan' = Dispatched(c) /\ spinning' = FALSE /\ Send(out, r.done \cup o.done, refused)
  BY <1>1 DEF Finish
<1> HIDE DEF o
<1>4. /\ c \in Chan /\ Ordered(c.queue, c.match_cnt) /\ c.queue \in Seq(Node)
      /\ Len(c.queue) \in Nat /\ c.match_cnt \in 0..Len(c.queue)
  BY <1>1, ChanFields DEF ChanInv, Ordered
<1> HIDE DEF c
<1>5. Ready(c) \in 0..Len(c.queue) /\ Ready(c) \in Nat
  BY <1>2, <1>4
<1>6. /\ out \in Seq(Node) /\ Len(out) = Ready(c)
      /\ \A i \in 1..Ready(c) : out[i] = c.queue[i]
  BY <1>4, <1>5, TakeFacts
<1> HIDE DEF out
<1>7. WholeOnes(out)
  <2> SUFFICES ASSUME NEW i \in 1..Len(out) PROVE out[i].super_buf = Streams
    BY DEF WholeOnes
  <2>1. i \in 1..Len(c.queue) /\ i <= c.match_cnt /\ out[i] = c.queue[i]
    BY <1>2, <1>4, <1>6
  <2> QED BY <1>4, <2>1 DEF Ordered
<1>8. /\ cbq \in Seq(Node) /\ WholeOnes(cbq) /\ sent \in 0..MaxFrame
      /\ user \subseteq Frame /\ leaked \subseteq Frame
  BY DEF Inv, TypeOK
<1>15. PICK at \in Picks(Len(out)) : \E lost \in SUBSET Others(out, at) :
         /\ cbq' = cbq \o Pick(out, at)
         /\ sent' = IF at # <<>> THEN out[at[Len(at)]].frame_idx ELSE sent
         /\ user' \subseteq user
         /\ leaked' = leaked \cup refused \cup FramesAt(out, lost)
  BY <1>3 DEF Send
<1>12. PICK lost \in SUBSET Others(out, at) :
         /\ cbq' = cbq \o Pick(out, at)
         /\ sent' = IF at # <<>> THEN out[at[Len(at)]].frame_idx ELSE sent
         /\ user' \subseteq user
         /\ leaked' = leaked \cup refused \cup FramesAt(out, lost)
  BY <1>15
<1> DEFINE p == Pick(out, at)
<1>13. /\ p \in Seq(Node) /\ Len(p) = Len(at) /\ Len(at) \in Nat
       /\ \A i \in 1..Len(at) : at[i] \in 1..Len(out) /\ p[i] = out[at[i]]
       /\ at # <<>> => Len(at) \in 1..Len(at)
  BY <1>6, PickFacts
<1> HIDE DEF p
<1>9. cbq' \in Seq(Node) /\ WholeOnes(cbq')
  <2>1. WholeOnes(p)
    BY <1>7, <1>13 DEF WholeOnes
  <2>2. cbq' = cbq \o p
    BY <1>12 DEF p
  <2> QED BY <1>8, <1>13, <2>1, <2>2, WholeConcat
<1>10. sent' \in 0..MaxFrame
  <2>1. CASE at # <<>>
    <3>1. out[at[Len(at)]] \in Node
      BY <1>6, <1>13, <2>1, ElementOfSeq
    <3>2. out[at[Len(at)]].frame_idx \in 0..MaxFrame
      BY <3>1, NodeFields, ParameterAssumption DEF FrameIdx
    <3> QED BY <1>12, <2>1, <3>2
  <2>2. CASE at = <<>>
    BY <1>8, <1>12, <2>2
  <2> QED BY <2>1, <2>2
<1>14. leaked' \subseteq Frame
  <2>1. \A i \in lost : out[i] \in Node
    <3>1. lost \subseteq DOMAIN out
      BY <1>12 DEF Others
    <3> QED BY <1>6, <3>1, ElementOfSeq, LenProperties
  <2>2. \A i \in lost : Frames(out[i]) \subseteq Frame
    BY <2>1, NodeFields DEF Frames, Frame
  <2>3. FramesAt(out, lost) \subseteq Frame
    BY <2>2 DEF FramesAt
  <2> QED BY <1>8, <1>12, <2>3
<1>11. Trimmed(chan')
  <2>1. c.match_cnt - Ready(c) <= c.match_cnt /\ c.match_cnt \in Nat
    BY <1>4, <1>5
  <2>2. c.notify_mode = BURST => c.match_cnt - Ready(c) <= WaterMark
    BY <1>1, <1>5, <2>1, ParameterAssumption
  <2> QED BY <1>2, <1>3, <2>2 DEF Trimmed
<1> QED BY <1>2, <1>3, <1>8, <1>9, <1>10, <1>11, <1>12, <1>14

\* The fields of a command, by its type.
LEMMA CmdFields ==
  ASSUME NEW cmd \in Cmd
  PROVE  /\ cmd.cmd_type = "DATA_CB" =>
              /\ cmd.stream \in Streams /\ cmd.frame_idx \in FrameIdx
              /\ cmd.meta \in MetaInfo
         /\ cmd.cmd_type = "REQ_DATA_CB" =>
              cmd.num_buf_requested \in 0..MaxRequest
         /\ cmd.cmd_type = "FLUSH_QUEUE" => cmd.frame_idx \in 0..MaxFrame
         /\ cmd.cmd_type = "CONFIG_NOTIFY" =>
              cmd.notify_mode \in {BURST, CONTINUOUS}
BY DEF Cmd

\* Enqueuing a command.
LEMMA EnqueueType ==
  ASSUME cmdq \in Seq(Cmd), NEW cmd \in Cmd, NEW ok, Enqueue(cmd, ok)
  PROVE  cmdq' \in Seq(Cmd)
BY AppendProperties DEF Enqueue

\* Dequeuing one.
LEMMA NextCmdType ==
  ASSUME cmdq \in Seq(Cmd), NEW type, NextCmd(type)
  PROVE  /\ Head(cmdq) \in Cmd /\ Head(cmdq).cmd_type = type
         /\ cmdq' \in Seq(Cmd) /\ last' = last /\ client' = client
BY HeadTailProperties DEF NextCmd

\* The invariant holds initially.
LEMMA InitInv == Init => Inv
<1> SUFFICES ASSUME Init PROVE Inv
  OBVIOUS
<1> DEFINE none == <<>>
<1>1. none \in Seq(Node) /\ Len(none) = 0 /\ <<>> \in Seq(Cmd)
  OBVIOUS
<1>2. PICK mode \in InitModes :
        chan = [queue |-> none, match_cnt |-> 0, expected_frame_id |-> 0,
                pending_cnt |-> 0, notify_mode |-> mode]
  BY DEF Init
<1>3. cbq = none /\ sent = 0 /\ user = {} /\ client = {} /\ spinning = FALSE
      /\ leaked = {} /\ last = [s \in Streams |-> 0] /\ cmdq = <<>>
  BY DEF Init
<1> HIDE DEF none
<1>4. 0 \in Counter /\ 0 \in 0..MaxRequest /\ 0 \in 0..MaxFrame
      /\ mode \in {BURST, CONTINUOUS} /\ WaterMark \in Nat
      /\ MaxUnmatchedFrames \in Nat
  BY ParameterAssumption DEF Counter
<1>5. /\ chan \in Chan /\ chan.queue = none /\ chan.match_cnt = 0
      /\ chan.pending_cnt = 0
  BY <1>1, <1>2, <1>4 DEF Chan
<1>6. Ordered(none, 0) /\ WholeOnes(none)
  BY <1>1 DEF Ordered, WholeOnes
<1>7. ChanInv(chan) /\ Trimmed(chan)
  BY <1>1, <1>4, <1>5, <1>6 DEF ChanInv, Trimmed
<1>8. TypeOK
  BY <1>1, <1>3, <1>4, <1>5 DEF TypeOK
<1> QED BY <1>3, <1>6, <1>7, <1>8 DEF Inv

\* A step that leaves the command thread's state alone.
LEMMA QuietInv ==
  ASSUME Inv, TypeOK', UNCHANGED <<chan, spinning, cbq>>
  PROVE  Inv'
BY DEF Inv, ChanInv, Trimmed, WholeOnes

\* Every step of the channel preserves the invariant.
LEMMA NextInv == Inv /\ [Next]_vars => Inv'
<1> SUFFICES ASSUME Inv, [Next]_vars PROVE Inv'
  OBVIOUS
<1>0. /\ TypeOK /\ ChanInv(chan) /\ Trimmed(chan) /\ ~spinning /\ WholeOnes(cbq)
      /\ last \in [Streams -> 0..MaxFrame] /\ user \subseteq Frame
      /\ cmdq \in Seq(Cmd) /\ chan \in Chan /\ cbq \in Seq(Node)
      /\ sent \in 0..MaxFrame /\ client \subseteq Frame /\ leaked \subseteq Frame
  BY DEF Inv, TypeOK
<1>1. ASSUME NEW s \in Streams, NEW n \in FrameIdx, NEW md \in Metadata,
             DataNotify(s, n, md)
      PROVE  Inv'
  <2> DEFINE cmd == [cmd_type |-> "DATA_CB", stream |-> s, frame_idx |-> n,
                     meta |-> md]
  <2>1. cmd \in Cmd
    BY ParameterAssumption DEF Cmd
  <2>2. cmdq' \in Seq(Cmd)
    BY <1>0, <1>1, <2>1, EnqueueType DEF DataNotify
  <2>3. /\ last' \in [Streams -> 0..MaxFrame] /\ user' \subseteq Frame
        /\ leaked' \subseteq Frame
    BY <1>0, <1>1, ParameterAssumption DEF DataNotify, Frame, FrameIdx
  <2>4. UNCHANGED <<chan, spinning, cbq, sent, client>>
    BY <1>1 DEF DataNotify
  <2>5. TypeOK'
    BY <1>0, <2>2, <2>3, <2>4 DEF TypeOK
  <2> QED BY <2>4, <2>5, QuietInv
<1>2. ASSUME NEW cmd \in Cmd, ClientCall(cmd) PROVE Inv'
  <2>1. cmdq' \in Seq(Cmd)
    BY <1>0, <1>2, EnqueueType DEF ClientCall
  <2>2. UNCHANGED <<last, user, chan, spinning, cbq, sent, client, leaked>>
    BY <1>2 DEF ClientCall
  <2>3. TypeOK'
    BY <1>0, <2>1, <2>2 DEF TypeOK
  <2> QED BY <2>2, <2>3, QuietInv
<1>3. ASSUME NEW n \in 0..MaxRequest, RequestSuperBuf(n) PROVE Inv'
  <2>1. [cmd_type |-> "REQ_DATA_CB", num_buf_requested |-> n] \in Cmd
    BY DEF Cmd
  <2> QED BY <1>2, <1>3, <2>1 DEF RequestSuperBuf
<1>4. ASSUME NEW n \in FlushTargets, FlushSuperBufQueue(n) PROVE Inv'
  <2>1. [cmd_type |-> "FLUSH_QUEUE", frame_idx |-> n] \in Cmd
    BY ParameterAssumption DEF Cmd
  <2> QED BY <1>2, <1>4, <2>1 DEF FlushSuperBufQueue
<1>5. ASSUME NEW mode \in NotifyModes, ConfigNotifyMode(mode) PROVE Inv'
  <2>1. [cmd_type |-> "CONFIG_NOTIFY", notify_mode |-> mode] \in Cmd
    BY ParameterAssumption DEF Cmd
  <2> QED BY <1>2, <1>5, <2>1 DEF ConfigNotifyMode
<1>6. ASSUME NEW type, NextCmd(type), NEW r, ChanInv(r.chan), r.hang = FALSE,
             NEW refused \in SUBSET Frame, Finish(r, refused)
      PROVE  Inv'
  <2>1. cmdq' \in Seq(Cmd) /\ last' = last /\ client' = client
    BY <1>0, <1>6, NextCmdType
  <2>3. /\ ChanInv(chan') /\ Trimmed(chan') /\ spinning' = FALSE
        /\ cbq' \in Seq(Node) /\ WholeOnes(cbq') /\ sent' \in 0..MaxFrame
        /\ user' \subseteq Frame /\ leaked' \subseteq Frame
    BY <1>6, FinishInv
  <2>4. TypeOK'
    BY <1>0, <2>1, <2>3 DEF TypeOK, ChanInv
  <2> QED BY <2>3, <2>4 DEF Inv
<1>7. CASE ProcessData
  <2> DEFINE cmd == Head(cmdq)
  <2>1. PICK ok \in MallocOutcomes :
          Finish(CompAndEnqueue(chan, cmd.stream, cmd.frame_idx, cmd.meta, ok), Refused(cmd))
    BY <1>7 DEF ProcessData
  <2>2. NextCmd("DATA_CB")
    BY <1>7 DEF ProcessData
  <2>3. /\ cmd.stream \in Streams /\ cmd.frame_idx \in FrameIdx
        /\ cmd.meta \in MetaInfo
    BY <1>0, <2>2, NextCmdType, CmdFields
  <2> HIDE DEF cmd
  <2>4. Steady(CompAndEnqueue(chan, cmd.stream, cmd.frame_idx, cmd.meta, ok), chan)
    BY <1>0, <2>3, CompInv, ParameterAssumption
  <2>5. Refused(cmd) \subseteq Frame
    BY <2>3 DEF Refused, Frame
  <2> QED BY <1>6, <2>1, <2>2, <2>4, <2>5 DEF Steady
<1>8. CASE ProcessRequest
  <2> DEFINE n == Head(cmdq).num_buf_requested
             c == [chan EXCEPT !.pending_cnt = n]
  <2>1. Finish(Skip(c), {})
    BY <1>8 DEF ProcessRequest
  <2>2. NextCmd("REQ_DATA_CB")
    BY <1>8 DEF ProcessRequest
  <2>3. n \in 0..MaxRequest
    BY <1>0, <2>2, NextCmdType, CmdFields
  <2> HIDE DEF n
  <2>4. c \in Chan /\ c.queue = chan.queue /\ c.match_cnt = chan.match_cnt
    BY <1>0, <2>3 DEF Chan
  <2> HIDE DEF c
  <2>5. ChanInv(c) /\ LookBack \in Nat
    BY <1>0, <2>4, ParameterAssumption DEF ChanInv
  <2>6. ChanInv(Skip(c).chan) /\ Skip(c).hang = FALSE
    BY <2>5, TrimInv DEF Skip
  <2> QED BY <1>6, <2>1, <2>2, <2>6
<1>9. CASE ProcessConfigNotify
  <2> DEFINE n == Head(cmdq).notify_mode
             c == [chan EXCEPT !.notify_mode = n]
  <2>1. Finish(Result(c, {}), {})
    BY <1>9 DEF ProcessConfigNotify
  <2>2. NextCmd("CONFIG_NOTIFY")
    BY <1>9 DEF ProcessConfigNotify
  <2>3. n \in {BURST, CONTINUOUS}
    BY <1>0, <2>2, NextCmdType, CmdFields
  <2> HIDE DEF n
  <2>4. c \in Chan /\ c.queue = chan.queue /\ c.match_cnt = chan.match_cnt
    BY <1>0, <2>3 DEF Chan
  <2> HIDE DEF c
  <2>5. ChanInv(c)
    BY <1>0, <2>4 DEF ChanInv
  <2>6. ChanInv(Result(c, {}).chan) /\ Result(c, {}).hang = FALSE
    BY <2>5 DEF Result
  <2> DEFINE r == Result(c, {})  none == {}
  <2>7. none \in SUBSET Frame /\ Finish(r, none) /\ ChanInv(r.chan) /\ r.hang = FALSE
    BY <2>1, <2>6
  <2> HIDE DEF r, none
  <2> QED BY <1>6, <2>2, <2>7
<1>10. CASE ProcessFlush
  <2> DEFINE n == Head(cmdq).frame_idx
             c == [chan EXCEPT !.expected_frame_id = n]
  <2>1. /\ chan' = Flush(c).chan /\ user' \subseteq user
        /\ UNCHANGED <<spinning, cbq, sent, leaked>>
    BY <1>10 DEF ProcessFlush
  <2>2. NextCmd("FLUSH_QUEUE")
    BY <1>10 DEF ProcessFlush
  <2>3. n \in Counter
    BY <1>0, <2>2, NextCmdType, CmdFields, CounterFacts
  <2> HIDE DEF n
  <2>4. c \in Chan /\ c.queue = chan.queue /\ c.match_cnt = chan.match_cnt
    BY <1>0, <2>3 DEF Chan
  <2> HIDE DEF c
  <2>5. ChanInv(c)
    BY <1>0, <2>4 DEF ChanInv
  <2>6. ChanInv(chan') /\ chan'.match_cnt = 0
    BY <2>1, <2>5, FlushInv
  <2>7. Trimmed(chan')
    BY <2>6, ParameterAssumption DEF Trimmed
  <2>8. cmdq' \in Seq(Cmd) /\ last' = last /\ client' = client
    BY <1>0, <2>2, NextCmdType
  <2>9. TypeOK'
    BY <1>0, <2>1, <2>6, <2>8 DEF TypeOK, ChanInv
  <2> QED BY <1>0, <2>1, <2>6, <2>7, <2>9 DEF Inv, WholeOnes
<1>11. CASE DispatchSuperBuf
  <2>1. /\ cbq # <<>> /\ cbq' = Tail(cbq)
        /\ client' = client \cup Frames(Head(cbq))
        /\ UNCHANGED <<last, user, cmdq, chan, spinning, sent, leaked>>
    BY <1>11 DEF DispatchSuperBuf
  <2>2. /\ Head(cbq) \in Node /\ cbq' \in Seq(Node) /\ Len(cbq') = Len(cbq) - 1
        /\ \A i \in 1..Len(cbq') : cbq'[i] = cbq[i + 1]
    BY <1>0, <2>1, HeadTailProperties
  <2>3. WholeOnes(cbq')
    <3>1. Len(cbq) \in Nat
      BY <1>0, LenProperties
    <3> QED BY <1>0, <2>2, <3>1 DEF WholeOnes
  <2>4. Frames(Head(cbq)) \subseteq Frame
    BY <2>2, NodeFields DEF Frames, Frame
  <2>5. TypeOK'
    BY <1>0, <2>1, <2>2, <2>4 DEF TypeOK
  <2> QED BY <1>0, <2>1, <2>3, <2>5 DEF Inv
<1>12. CASE HalReturns
  <2>1. /\ user' \subseteq user /\ client' \subseteq client
        /\ UNCHANGED <<last, cmdq, chan, spinning, cbq, sent, leaked>>
    BY <1>12 DEF HalReturns, QBuf
  <2>2. TypeOK'
    BY <1>0, <2>1 DEF TypeOK
  <2> QED BY <2>1, <2>2, QuietInv
<1>13. CASE UNCHANGED vars
  BY <1>13, QuietInv DEF vars, Inv, TypeOK
<1> QED
  <2>1. 0 \in 0..MaxRequest /\ 1..MaxRequest \subseteq 0..MaxRequest
    BY ParameterAssumption
  <2> QED
    BY <1>1, <1>3, <1>4, <1>5, <1>7, <1>8, <1>9, <1>10, <1>11, <1>12, <1>13, <2>1
    DEF Next, ProcessStreamBuf, CancelSuperBufRequest

\* The invariant of the channel.
THEOREM Invariance == Spec => []Inv
BY InitInv, NextInv, PTL DEF Spec

-----------------------------------------------------------------------------
(* The properties of the channel that follow. *)

\* The variables keep their types, and with them the channel's fields their
\* ranges: expected_frame_id stays a frame number, pending_cnt never goes below
\* 0 when super buffers are dispatched (mm_channel_process_stream_buf).
THEOREM TypeCorrect == Spec => []TypeOK
<1>1. Inv => TypeOK
  BY DEF Inv
<1> QED BY <1>1, Invariance, PTL

\* The matched nodes are the first match_cnt nodes of the queue and the others
\* are in frame order, which mm_channel_superbuf_dequeue relies on.
THEOREM MatchedFirstAlways == Spec => []MatchedFirst
<1>1. Inv => MatchedFirst
  <2> SUFFICES ASSUME Inv PROVE MatchedFirst
    OBVIOUS
  <2>1. /\ Ordered(chan.queue, chan.match_cnt)
        /\ DOMAIN chan.queue = 1..Len(chan.queue)
        /\ chan.match_cnt \in 0..Len(chan.queue) /\ Len(chan.queue) \in Nat
    BY ChanFields DEF Inv, ChanInv, Ordered
  <2>2. \A i \in Unmatched(chan.queue) :
          i \in 1..Len(chan.queue) /\ chan.match_cnt < i
    BY <2>1 DEF Unmatched, Ordered
  <2>3. \A i, j \in Unmatched(chan.queue) :
          i < j => chan.queue[i].frame_idx < chan.queue[j].frame_idx
    BY <2>1, <2>2 DEF Ordered
  <2>4. \A i \in 1..Len(chan.queue) :
          chan.queue[i].matched <=> i <= chan.match_cnt
    BY <2>1 DEF Ordered
  <2> QED BY <2>1, <2>3, <2>4 DEF MatchedFirst
<1> QED BY <1>1, Invariance, PTL

\* The loops of mm_channel_superbuf_skip and mm_channel_superbuf_bufdone_overflow
\* end: the command thread never spins with the queue locked.
THEOREM NeverSpinsAlways == Spec => []NeverSpins
<1>1. Inv => NeverSpins
  BY DEF Inv, NeverSpins
<1> QED BY <1>1, Invariance, PTL

\* comp_and_enqueue keeps at most max_unmatched_frames + 1 unmatched nodes, one
\* more than its header says.
THEOREM UnmatchedBoundedAlways == Spec => []UnmatchedBounded
<1>1. Inv => UnmatchedBounded
  <2> SUFFICES ASSUME Inv PROVE UnmatchedBounded
    OBVIOUS
  <2> DEFINE q == chan.queue
             m == chan.match_cnt
  <2>1. /\ Ordered(q, m) /\ DOMAIN q = 1..Len(q)
        /\ m \in 0..Len(q) /\ Len(q) \in Nat /\ m \in Nat
        /\ Len(q) <= m + MaxUnmatchedFrames + 1 /\ MaxUnmatchedFrames \in Nat
    BY ChanFields, ParameterAssumption DEF Inv, ChanInv, Ordered
  <2> HIDE DEF q, m
  <2>2. Unmatched(q) = (m + 1)..Len(q)
    BY <2>1 DEF Unmatched, Ordered
  <2>3. m + 1 \in Int /\ Len(q) \in Int
    BY <2>1
  <2>4. Cardinality((m + 1)..Len(q)) =
          IF m + 1 > Len(q) THEN 0 ELSE Len(q) - (m + 1) + 1
    BY <2>3, FS_Interval, Zenon
  <2>5. Cardinality(Unmatched(q)) <= MaxUnmatchedFrames + 1
    BY <2>1, <2>2, <2>4
  <2> QED BY <2>5 DEF UnmatchedBounded, q
<1> QED BY <1>1, Invariance, PTL

\* After every command at most water_mark matched super buffers are kept back.
THEOREM WaterMarkAlways == Spec => []WaterMarkKept
<1>1. Inv => WaterMarkKept
  BY DEF Inv, Trimmed, WaterMarkKept
<1> QED BY <1>1, Invariance, PTL

\* After every command no matched super buffer is kept back from a HAL that
\* waits for one.
THEOREM NoMatchWaitsAlways == Spec => []NoMatchWaits
<1>1. Inv => NoMatchWaits
  <2> SUFFICES ASSUME Inv, chan.pending_cnt > 0 \/ chan.notify_mode = CONTINUOUS,
                      NEW i \in DOMAIN chan.queue
               PROVE  ~chan.queue[i].matched
    BY DEF NoMatchWaits
  <2>1. chan.match_cnt = 0
    BY DEF Inv, Trimmed
  <2>2. /\ Ordered(chan.queue, 0) /\ i \in 1..Len(chan.queue)
        /\ Len(chan.queue) \in Nat
    BY <2>1, ChanFields DEF Inv, ChanInv
  <2>3. ~ (i <= 0)
    BY <2>2
  <2> QED BY <2>2, <2>3 DEF Ordered
<1> QED BY <1>1, Invariance, PTL

\* Every super buffer in the callback queue has a frame of every stream.
THEOREM WholeSuperBufsAlways == Spec => []WholeSuperBufs
<1>1. Inv => WholeSuperBufs
  <2> SUFFICES ASSUME Inv, NEW i \in DOMAIN cbq PROVE cbq[i].super_buf = Streams
    BY DEF WholeSuperBufs
  <2>1. cbq \in Seq(Node) /\ WholeOnes(cbq)
    BY DEF Inv, TypeOK
  <2>2. i \in 1..Len(cbq)
    BY <2>1, LenProperties
  <2> QED BY <2>1, <2>2 DEF WholeOnes
<1> QED BY <1>1, Invariance, PTL

=============================================================================
