--------------------------- MODULE StreamPollProofs ---------------------------
(***************************************************************************)
(* What StreamPoll's runs check on one or two streams, proved for every    *)
(* set of streams and buffers: the types of the variables; a buffer is     *)
(* referenced at least as often as it is held; the driver never has a      *)
(* buffer that somebody may read; queued_buffer_count counts what the      *)
(* driver has; the poll list follows it; no buffer is stranded; few       *)
(* commands wait in the poll thread's pipe.                                *)
(*                                                                         *)
(* The invariant says what each of them needs of the others, stream by     *)
(* stream, from the moment mm_stream_reg_buf has filled the driver (Live). *)
(* A return that is still under way when the buffers are freed is a stray  *)
(* access (StaleReturn); what follows one is undefined and not modelled.   *)
(***************************************************************************)
EXTENDS StreamPoll, FiniteSetTheorems, SequenceTheorems, TLAPS

\* Streams whose reference counts mean something: running, or filled and about
\* to be started.
Starting(s) == ctl.step = "start" /\ ctl.s = s
Live(s) == str[s].state = "ACTIVE" \/ Starting(s)

\* The buffer dequeued and not yet counted down.
Deq(s) == IF pt.pc = "dequeued" /\ pt.s = s THEN 1 ELSE 0

\* No reference to a buffer of s is held or on its way back.
NoneOf(s) == (\A h \in hold : h[1] # s) /\ (\A h \in returning : h[1] # s)

\* What is on a queue; where; whether d is the buffer; references to a buffer.
Items(d) == {d[i] : i \in DOMAIN d}
At1(q, b)     == {i \in DOMAIN q : q[i] = b}
Here(d, b)    == IF d = b THEN 1 ELSE 0
With(H, s, b) == {h \in H : h[1] = s /\ h[2] = b}
Distinct(d) == \A i, k \in DOMAIN d : d[i] = d[k] => i = k

\* A buffer somebody holds is referenced at least that often.
RefsOK(s) == Live(s) => \A b \in Bufs : Holders(s, b) <= str[s].refcnt[b]

\* What the driver or the poll thread has is not referenced, and the driver has
\* it once.
ExclOK(s) ==
  Live(s) =>
    /\ \A b \in InDriver(s) : str[s].refcnt[b] = 0 /\ ~PollHas(s, b)
    /\ \A b \in Bufs : PollHas(s, b) => str[s].refcnt[b] = 0
    /\ drv[s].queued \cap Filled(s) = {}
    /\ Distinct(drv[s].done)

\* The count covers what the driver has.
CountOK(s) ==
  /\ Cardinality(drv[s].queued) + Len(drv[s].done) + Deq(s) <= str[s].count
  /\ drv[s].on => str[s].state = "ACTIVE"

\* ... and is no more than that, if no QBUF fails.
ExactOK(s) ==
  drv[s].on \/ Starting(s) =>
    Cardinality(drv[s].queued) + Len(drv[s].done) + Deq(s) = str[s].count

\* The stream is on the list while it has buffers in the driver.
ListOK(s) ==
  (drv[s].on /\ ctl.s # s) \/ Starting(s) => (s \in pt.entries <=> str[s].count > 0)

\* Where the stream is while the channel is started or stopped.
PlaceOK(s) ==
  /\ str[s].state # "ACTIVE" => /\ str[s].cmdq = <<>> /\ str[s].disp = None /\ ~str[s].alive
                                /\ ctl.phase = "starting" => pt.s # s
  /\ str[s].state = "CFG" => drv[s].done = <<>>
  /\ ctl.s = s =>
       /\ ctl.step = "reg" => str[s].state = "BUFFED" /\ drv[s].done = <<>>
       /\ ctl.step = "start" => str[s].state = "REG" /\ drv[s].done = <<>>
       /\ ctl.step \in {"off", "undo", "join"} => str[s].state = "ACTIVE"
       /\ ctl.step \in {"undo", "join"} => ~drv[s].on
       /\ ctl.step = "unreg" => str[s].state = "REG"

\* A stream without buffers is not referenced; one that is being filled is not
\* referenced from before.
FreeOK(s) ==
  /\ str[s].state = "CFG" => NoneOf(s)
  /\ ctl.s = s /\ ctl.step = "reg" => NoneOf(s)
  /\ Starting(s) => \A h \in returning : h[1] # s

\* Each buffer is somewhere, each reference is counted once, and the callback's
\* reference is a new one when the command thread takes it.
WhereOK(s) ==
  Live(s) =>
    /\ \A b \in Bufs :
         /\ str[s].refcnt[b] = Holders(s, b)
         /\ drv[s].on \/ Starting(s) => b \in InDriver(s) \/ PollHas(s, b) \/ Holders(s, b) > 0
         /\ b \in Items(str[s].cmdq) => <<s, b, "app">> \notin hold \cup returning
         /\ Cardinality(At1(str[s].cmdq, b)) <= 1
    /\ \A h \in hold : h[1] = s => h \notin returning
    /\ Starting(s) => NoneOf(s)

\* poll_fds is what poll_entries says, or an update is on the pipe.
Synced(p) == p.fds = p.entries \/ \E i \in DOMAIN p.pipe : p.pipe[i] # "COMMIT"

\* Who holds ch_lock, and what the poll thread has in its hands.
CtlOK ==
  /\ ctl.step = "none" <=> ctl.s = None
  /\ ctl.step \in {"reg", "start", "undo"} => ctl.phase = "starting"
  /\ ctl.step \in {"off", "join", "unreg"} => ctl.phase # "starting"
PollOK ==
  /\ pt.pc \in {"dequeued", "file"} <=> pt.s # None
  /\ pt.pc \in {"dequeued", "file"} <=> pt.b # None
  /\ Synced(pt)

\* No call on a buffer that is already registered fails, all buffers start in
\* the driver, and each frame goes to somebody.
Steady == /\ Failures \cap {"qbuf", "cache", "malloc"} = {}
          /\ \A s \in Streams : Initial[s] = Bufs
          /\ Streams = Bundled \cup HasCb
Exact  == "qbuf" \notin Failures
Polled == \A s \in Streams : Initial[s] # {}

\* What is true of each stream.  A stray access ends the program.
StreamOK(s) ==
  /\ crashed \/ PlaceOK(s)
  /\ CountOK(s)
  /\ Polled => ListOK(s)
  /\ RefsOK(s)
  /\ ExclOK(s)
  /\ crashed \/ FreeOK(s)
  /\ Exact  => ExactOK(s)
  /\ Steady => WhereOK(s)

Inv == TypeOK /\ CtlOK /\ PollOK /\ \A s \in Streams : StreamOK(s)

-----------------------------------------------------------------------------
(* Counting references. *)

\* The constants, as the proofs use them.
LEMMA SpFacts ==
  /\ IsFiniteSet(Bufs) /\ None \notin Streams /\ None \notin Bufs
  /\ Initial \in [Streams -> SUBSET Bufs]
BY StreamAssumption

\* A buffer has at most two references outside its stream's command thread.
LEMMA WithFinite ==
  ASSUME NEW H, H \subseteq Ref, NEW s \in Streams, NEW b \in Bufs
  PROVE  IsFiniteSet(With(H, s, b)) /\ Cardinality(With(H, s, b)) \in Nat
<1>1. IsFiniteSet({<<s, b, "bundle">>} \cup {<<s, b, "app">>})
  BY FS_Singleton, FS_Union
<1>2. With(H, s, b) \subseteq {<<s, b, "bundle">>} \cup {<<s, b, "app">>}
  BY DEF With, Ref
<1> QED BY <1>1, <1>2, FS_Subset, FS_CardinalityType

\* A new reference counts once, and only for its buffer.
LEMMA WithAdd ==
  ASSUME NEW H, H \subseteq Ref, NEW h \in Ref, NEW s \in Streams, NEW b \in Bufs
  PROVE  /\ h[1] = s /\ h[2] = b /\ h \notin H =>
              Cardinality(With(H \cup {h}, s, b)) = Cardinality(With(H, s, b)) + 1
         /\ ~(h[1] = s /\ h[2] = b) \/ h \in H =>
              Cardinality(With(H \cup {h}, s, b)) = Cardinality(With(H, s, b))
<1>1. CASE h[1] = s /\ h[2] = b /\ h \notin H
  <2>1. With(H \cup {h}, s, b) = With(H, s, b) \cup {h} /\ h \notin With(H, s, b)
    BY <1>1 DEF With
  <2>2. IsFiniteSet(With(H, s, b))
    BY WithFinite
  <2>3. Cardinality(With(H, s, b) \cup {h}) = Cardinality(With(H, s, b)) + 1
    BY <2>1, <2>2, FS_AddElement
  <2> QED BY <1>1, <2>1, <2>3
<1>2. CASE ~(h[1] = s /\ h[2] = b) \/ h \in H
  <2>1. With(H \cup {h}, s, b) = With(H, s, b)
    BY <1>2 DEF With
  <2> QED BY <1>2, <2>1
<1> QED BY <1>1, <1>2

\* A reference that goes away no longer counts.
LEMMA WithDrop ==
  ASSUME NEW H, H \subseteq Ref, NEW h \in H, NEW s \in Streams, NEW b \in Bufs
  PROVE  /\ h[1] = s /\ h[2] = b =>
              /\ Cardinality(With(H \ {h}, s, b)) = Cardinality(With(H, s, b)) - 1
              /\ Cardinality(With(H, s, b)) > 0
         /\ ~(h[1] = s /\ h[2] = b) =>
              Cardinality(With(H \ {h}, s, b)) = Cardinality(With(H, s, b))
<1>1. CASE h[1] = s /\ h[2] = b
  <2>1. With(H \ {h}, s, b) = With(H, s, b) \ {h} /\ h \in With(H, s, b)
    BY <1>1 DEF With
  <2>2. IsFiniteSet(With(H, s, b)) /\ Cardinality(With(H, s, b)) \in Nat
    BY WithFinite
  <2>3. Cardinality(With(H, s, b) \ {h}) = Cardinality(With(H, s, b)) - 1
    BY <2>1, <2>2, FS_RemoveElement
  <2>4. With(H \ {h}, s, b) \subseteq Ref
    BY DEF With
  <2>5. IsFiniteSet(With(H, s, b) \ {h})
    BY <2>2, FS_Subset
  <2>6. Cardinality(With(H, s, b) \ {h}) \in Nat
    BY <2>5, FS_CardinalityType
  <2>7. Cardinality(With(H \ {h}, s, b)) = Cardinality(With(H, s, b)) - 1
    BY <2>1, <2>3
  <2>8. Cardinality(With(H, s, b)) > 0
    BY <2>2, <2>3, <2>6
  <2> QED BY <1>1, <2>7, <2>8
<1>2. CASE ~(h[1] = s /\ h[2] = b)
  <2>1. With(H \ {h}, s, b) = With(H, s, b)
    BY <1>2 DEF With
  <2> QED BY <1>2, <2>1
<1> QED BY <1>1, <1>2

\* No reference of a stream counts where it has none.
LEMMA WithNone ==
  ASSUME NEW H, NEW s \in Streams, NEW b \in Bufs, \A h \in H : h[1] # s
  PROVE  Cardinality(With(H, s, b)) = 0
<1>1. With(H, s, b) = {}
  BY DEF With
<1> QED BY <1>1, FS_EmptySet

\* A reference that is there counts.
LEMMA WithSome ==
  ASSUME NEW H, H \subseteq Ref, NEW h \in H, NEW s \in Streams, NEW b \in Bufs,
         h[1] = s, h[2] = b
  PROVE  Cardinality(With(H, s, b)) > 0
BY WithDrop

\* How often a buffer is on a queue.
LEMMA CopiesTypes ==
  ASSUME NEW q \in Seq(Bufs), NEW b
  PROVE  IsFiniteSet(At1(q, b)) /\ Cardinality(At1(q, b)) \in Nat
<1>1. DOMAIN q = 1..Len(q) /\ Len(q) \in Nat
  OBVIOUS
<1>2. IsFiniteSet(1..Len(q))
  BY <1>1, FS_Interval
<1>3. At1(q, b) \subseteq 1..Len(q)
  BY <1>1 DEF At1
<1> QED BY <1>2, <1>3, FS_Subset, FS_CardinalityType

\* A buffer put on the queue is there once more.
LEMMA CopiesAppend ==
  ASSUME NEW q \in Seq(Bufs), NEW b \in Bufs, NEW c \in Bufs
  PROVE  Cardinality(At1(Append(q, c), b)) = Cardinality(At1(q, b)) + Here(c, b)
<1>1. DOMAIN q = 1..Len(q) /\ Len(q) \in Nat /\ DOMAIN Append(q, c) = 1..(Len(q) + 1)
  BY AppendProperties
<1>2. \A i \in 1..Len(q) : Append(q, c)[i] = q[i]
  BY <1>1, AppendProperties
<1>3. Append(q, c)[Len(q) + 1] = c
  BY <1>1, AppendProperties
<1>4. IsFiniteSet(At1(q, b)) /\ Cardinality(At1(q, b)) \in Nat
  BY CopiesTypes
<1>5. CASE c = b
  <2>1. At1(Append(q, c), b) = At1(q, b) \cup {Len(q) + 1}
    BY <1>1, <1>2, <1>3, <1>5 DEF At1
  <2>2. Len(q) + 1 \notin At1(q, b)
    BY <1>1 DEF At1
  <2>3. Cardinality(At1(q, b) \cup {Len(q) + 1}) = Cardinality(At1(q, b)) + 1
    BY <1>4, <2>2, FS_AddElement
  <2> QED BY <1>5, <2>1, <2>3 DEF Here
<1>6. CASE c # b
  <2>1. At1(Append(q, c), b) = At1(q, b)
    BY <1>1, <1>2, <1>3, <1>6 DEF At1
  <2> QED BY <1>4, <1>6, <2>1 DEF Here
<1> QED BY <1>5, <1>6

\* The one taken off it is there once less.
LEMMA CopiesTail ==
  ASSUME NEW q \in Seq(Bufs), q # <<>>, NEW b \in Bufs
  PROVE  Cardinality(At1(Tail(q), b)) + Here(Head(q), b) = Cardinality(At1(q, b))
<1>1. /\ DOMAIN q = 1..Len(q) /\ Len(q) \in Nat /\ Len(q) > 0
      /\ DOMAIN Tail(q) = 1..(Len(q) - 1) /\ Head(q) = q[1]
  OBVIOUS
<1>2. \A i \in 1..(Len(q) - 1) : Tail(q)[i] = q[i + 1]
  BY <1>1
<1>3. Tail(q) \in Seq(Bufs) /\ Head(q) \in Bufs
  BY <1>1
<1>4. /\ IsFiniteSet(At1(Tail(q), b)) /\ Cardinality(At1(Tail(q), b)) \in Nat
      /\ IsFiniteSet(At1(q, b)) /\ Cardinality(At1(q, b)) \in Nat
  BY <1>3, CopiesTypes
<1> DEFINE f == [i \in At1(Tail(q), b) |-> i + 1]
<1>5. f \in Bijection(At1(Tail(q), b), At1(q, b) \ {1})
  <2>1. \A i \in At1(Tail(q), b) : i \in Int /\ i + 1 \in At1(q, b) \ {1}
    BY <1>1, <1>2 DEF At1
  <2>2. f \in [At1(Tail(q), b) -> At1(q, b) \ {1}]
    BY <2>1
  <2>3. \A i, k \in At1(Tail(q), b) : f[i] = f[k] => i = k
    BY <2>1
  <2>4. \A k \in At1(q, b) \ {1} : \E i \in At1(Tail(q), b) : f[i] = k
    <3>1. SUFFICES ASSUME NEW k \in At1(q, b) \ {1}
                   PROVE  k - 1 \in At1(Tail(q), b) /\ f[k - 1] = k
      OBVIOUS
    <3>2. k \in 2..Len(q) /\ q[k] = b
      BY <1>1 DEF At1
    <3>3. k - 1 \in At1(Tail(q), b)
      BY <1>1, <1>2, <3>2 DEF At1
    <3> QED BY <3>2, <3>3
  <2> HIDE DEF f
  <2>5. f \in Injection(At1(Tail(q), b), At1(q, b) \ {1})
    BY <2>2, <2>3 DEF Injection, IsInjective
  <2>6. f \in Surjection(At1(Tail(q), b), At1(q, b) \ {1})
    BY <2>2, <2>4 DEF Surjection
  <2> QED BY <2>5, <2>6 DEF Bijection
<1>6. IsFiniteSet(At1(q, b) \ {1})
  BY <1>4, FS_Subset
<1>7. Cardinality(At1(Tail(q), b)) = Cardinality(At1(q, b) \ {1})
  BY <1>4, <1>5, <1>6, FS_Bijection DEF ExistsBijection
<1>8. CASE Head(q) = b
  <2>1. 1 \in At1(q, b)
    BY <1>1, <1>8 DEF At1
  <2>2. Cardinality(At1(q, b) \ {1}) = Cardinality(At1(q, b)) - 1
    BY <1>4, <2>1, FS_RemoveElement
  <2> QED BY <1>4, <1>7, <1>8, <2>2 DEF Here
<1>9. CASE Head(q) # b
  <2>1. At1(q, b) \ {1} = At1(q, b)
    BY <1>1, <1>9 DEF At1
  <2>2. Cardinality(At1(Tail(q), b)) = Cardinality(At1(q, b)) /\ Here(Head(q), b) = 0
    BY <1>7, <1>9, <2>1 DEF Here
  <2> QED BY <1>4, <2>2
<1> QED BY <1>8, <1>9

\* An empty queue has nothing.
LEMMA CopiesNone ==
  ASSUME NEW b
  PROVE  Cardinality(At1(<<>>, b)) = 0
<1>1. At1(<<>>, b) = {}
  BY DEF At1
<1> QED BY <1>1, FS_EmptySet

\* What is on the queue counts.
LEMMA CopiesSome ==
  ASSUME NEW q \in Seq(Bufs), NEW b, NEW i \in DOMAIN q, q[i] = b
  PROVE  Cardinality(At1(q, b)) > 0
<1>1. At1(q, b) # {}
  BY DEF At1
<1>2. IsFiniteSet(At1(q, b)) /\ Cardinality(At1(q, b)) \in Nat
  BY CopiesTypes
<1> QED BY <1>1, <1>2, FS_EmptySet

\* A queue with buffers has each of them at least once, and as many as it counts.
LEMMA CopiesZero ==
  ASSUME NEW q \in Seq(Bufs), NEW b, Cardinality(At1(q, b)) = 0
  PROVE  \A i \in DOMAIN q : q[i] # b
BY CopiesSome

-----------------------------------------------------------------------------
(* Types of one stream. *)

\* The fields of a stream, of its queues and of the other records.
LEMMA Types ==
  ASSUME TypeOK, NEW s \in Streams
  PROVE  /\ str[s] \in StreamRec /\ str[s].refcnt \in [Bufs -> Nat] /\ str[s].count \in Nat
         /\ str[s].cmdq \in Seq(Bufs) /\ str[s].disp \in Bufs \cup {None}
         /\ str[s].state \in {"CFG", "BUFFED", "REG", "ACTIVE"} /\ str[s].alive \in BOOLEAN
         /\ drv[s] \in [queued : SUBSET Bufs, done : Seq(Bufs), on : BOOLEAN]
         /\ drv[s].queued \subseteq Bufs /\ drv[s].done \in Seq(Bufs) /\ drv[s].on \in BOOLEAN
         /\ IsFiniteSet(drv[s].queued) /\ Cardinality(drv[s].queued) \in Nat
         /\ Len(drv[s].done) \in Nat /\ Deq(s) \in {0, 1}
<1>1. str[s] \in StreamRec /\ drv[s] \in [queued : SUBSET Bufs, done : Seq(Bufs), on : BOOLEAN]
  BY DEF TypeOK
<1>2. drv[s].queued \subseteq Bufs /\ drv[s].done \in Seq(Bufs) /\ drv[s].on \in BOOLEAN
  BY <1>1
<1>3. IsFiniteSet(drv[s].queued) /\ Cardinality(drv[s].queued) \in Nat
  BY <1>2, SpFacts, FS_Subset, FS_CardinalityType
<1>4. Len(drv[s].done) \in Nat /\ Deq(s) \in {0, 1}
  BY <1>2, LenProperties DEF Deq
<1>5. /\ str[s].refcnt \in [Bufs -> Nat] /\ str[s].count \in Nat
      /\ str[s].cmdq \in Seq(Bufs) /\ str[s].disp \in Bufs \cup {None}
      /\ str[s].state \in {"CFG", "BUFFED", "REG", "ACTIVE"} /\ str[s].alive \in BOOLEAN
  BY <1>1 DEF StreamRec
<1> QED BY <1>1, <1>2, <1>3, <1>4, <1>5

\* The number of holders is the sum of its parts.
LEMMA HoldersAre ==
  ASSUME NEW s \in Streams, NEW b \in Bufs
  PROVE  Holders(s, b) = Cardinality(With(hold, s, b)) + Cardinality(With(returning, s, b))
                           + Cardinality(At1(str[s].cmdq, b)) + Here(str[s].disp, b)
BY DEF Holders, With, At1, Here

\* ... in the next state too.
LEMMA HoldersAreNext ==
  ASSUME NEW s \in Streams, NEW b \in Bufs
  PROVE  Holders(s, b)' = Cardinality(With(hold', s, b)) + Cardinality(With(returning', s, b))
                           + Cardinality(At1(str'[s].cmdq, b)) + Here(str'[s].disp, b)
BY DEF Holders, With, At1, Here

\* Each part is a natural number.
LEMMA HolderTypes ==
  ASSUME TypeOK, NEW s \in Streams, NEW b \in Bufs
  PROVE  /\ Cardinality(With(hold, s, b)) \in Nat /\ Cardinality(With(returning, s, b)) \in Nat
         /\ Cardinality(At1(str[s].cmdq, b)) \in Nat /\ Here(str[s].disp, b) \in {0, 1}
         /\ Holders(s, b) \in Nat
<1>1. hold \subseteq Ref /\ returning \subseteq Ref
  BY DEF TypeOK
<1>2. /\ Cardinality(With(hold, s, b)) \in Nat /\ Cardinality(With(returning, s, b)) \in Nat
      /\ Cardinality(At1(str[s].cmdq, b)) \in Nat /\ Here(str[s].disp, b) \in {0, 1}
  BY <1>1, WithFinite, CopiesTypes, Types DEF Here
<1> QED BY <1>2, HoldersAre

\* ... in the next state too.
LEMMA HolderTypesNext ==
  ASSUME TypeOK', NEW s \in Streams, NEW b \in Bufs
  PROVE  Holders(s, b)' \in Nat
<1>1. hold' \subseteq Ref /\ returning' \subseteq Ref /\ str' \in [Streams -> StreamRec]
  BY DEF TypeOK
<1>2. str'[s].cmdq \in Seq(Bufs)
  BY <1>1 DEF StreamRec
<1>3. /\ Cardinality(With(hold', s, b)) \in Nat /\ Cardinality(With(returning', s, b)) \in Nat
      /\ Cardinality(At1(str'[s].cmdq, b)) \in Nat /\ Here(str'[s].disp, b) \in Nat
  BY <1>1, <1>2, WithFinite, CopiesTypes DEF Here
<1> QED BY <1>3, HoldersAreNext

-----------------------------------------------------------------------------
(* Buffers of the driver. *)

\* A buffer that is filled joins the filled ones.
LEMMA FilledAppend ==
  ASSUME NEW d \in Seq(Bufs), NEW b \in Bufs
  PROVE  /\ Items(Append(d, b)) = Items(d) \cup {b}
         /\ Distinct(d) /\ b \notin Items(d) => Distinct(Append(d, b))
         /\ Append(d, b) \in Seq(Bufs) /\ Len(Append(d, b)) = Len(d) + 1
<1>1. DOMAIN d = 1..Len(d) /\ Len(d) \in Nat /\ DOMAIN Append(d, b) = 1..(Len(d) + 1)
  BY AppendProperties
<1>2. \A i \in 1..Len(d) : Append(d, b)[i] = d[i]
  BY <1>1, AppendProperties
<1>3. Append(d, b)[Len(d) + 1] = b
  BY <1>1, AppendProperties
<1>4. Items(Append(d, b)) = Items(d) \cup {b}
  BY <1>1, <1>2, <1>3 DEF Items
<1>5. b \notin Items(d) => \A i \in DOMAIN d : d[i] # b
  BY DEF Items
<1>6. Distinct(d) /\ b \notin Items(d) => Distinct(Append(d, b))
  BY <1>1, <1>2, <1>3, <1>5 DEF Distinct
<1>7. Append(d, b) \in Seq(Bufs) /\ Len(Append(d, b)) = Len(d) + 1
  BY AppendProperties
<1> QED BY <1>4, <1>6, <1>7

\* The one dequeued is no longer there.
LEMMA FilledTail ==
  ASSUME NEW d \in Seq(Bufs), d # <<>>
  PROVE  /\ Head(d) \in Bufs /\ Head(d) \in Items(d) /\ Tail(d) \in Seq(Bufs)
         /\ Items(d) = Items(Tail(d)) \cup {Head(d)}
         /\ Distinct(d) => Distinct(Tail(d)) /\ Head(d) \notin Items(Tail(d))
<1>1. /\ DOMAIN d = 1..Len(d) /\ Len(d) \in Nat /\ Len(d) > 0
      /\ DOMAIN Tail(d) = 1..(Len(d) - 1) /\ Head(d) = d[1]
      /\ Tail(d) \in Seq(Bufs) /\ Head(d) \in Bufs
  OBVIOUS
<1>2. \A i \in 1..(Len(d) - 1) : Tail(d)[i] = d[i + 1]
  BY <1>1
<1>3. Head(d) \in Items(d)
  BY <1>1 DEF Items
<1>4. Items(d) = Items(Tail(d)) \cup {Head(d)}
  <2>1. ASSUME NEW x \in Items(d) PROVE x \in Items(Tail(d)) \cup {Head(d)}
    <3>1. PICK i \in 1..Len(d) : x = d[i]
      BY <1>1 DEF Items
    <3>2. CASE i = 1
      BY <1>1, <3>1, <3>2
    <3>3. CASE i # 1
      <4>1. i - 1 \in 1..(Len(d) - 1) /\ Tail(d)[i - 1] = d[i]
        BY <1>1, <1>2, <3>3
      <4> QED BY <1>1, <3>1, <4>1 DEF Items
    <3> QED BY <3>2, <3>3
  <2>2. ASSUME NEW x \in Items(Tail(d)) PROVE x \in Items(d)
    <3>1. PICK i \in 1..(Len(d) - 1) : x = Tail(d)[i]
      BY <1>1, <2>2 DEF Items
    <3>2. x = d[i + 1] /\ i + 1 \in DOMAIN d
      BY <1>1, <1>2, <3>1
    <3> QED BY <3>2 DEF Items
  <2> QED BY <1>3, <2>1, <2>2
<1>5. ASSUME Distinct(d) PROVE Distinct(Tail(d)) /\ Head(d) \notin Items(Tail(d))
  <2>1. \A i, k \in 1..(Len(d) - 1) : Tail(d)[i] = Tail(d)[k] => i = k
    BY <1>1, <1>2, <1>5 DEF Distinct
  <2>2. \A i \in 1..(Len(d) - 1) : Tail(d)[i] # Head(d)
    BY <1>1, <1>2, <1>5 DEF Distinct
  <2> QED BY <1>1, <2>1, <2>2 DEF Distinct, Items
<1> QED BY <1>1, <1>3, <1>4, <1>5

\* What is filled.
LEMMA FilledAre ==
  ASSUME NEW s \in Streams
  PROVE  /\ Filled(s) = Items(drv[s].done)
         /\ InDriver(s) = drv[s].queued \cup Items(drv[s].done)
         /\ Filled(s)' = Items(drv'[s].done)
         /\ InDriver(s)' = drv'[s].queued \cup Items(drv'[s].done)
BY DEF Filled, InDriver, Items

\* An empty queue has nothing.
LEMMA FilledNone == Items(<<>>) = {} /\ Distinct(<<>>)
BY DEF Items, Distinct

-----------------------------------------------------------------------------
(* Poll entries. *)

\* A command sent stays on the pipe behind the others.
LEMMA SyncedAppend ==
  ASSUME NEW q \in Seq(Cmds), NEW c \in Cmds
  PROVE  /\ c # "COMMIT" => \E i \in DOMAIN Append(q, c) : Append(q, c)[i] # "COMMIT"
         /\ (\E i \in DOMAIN q : q[i] # "COMMIT") =>
              \E i \in DOMAIN Append(q, c) : Append(q, c)[i] # "COMMIT"
<1>1. DOMAIN q = 1..Len(q) /\ Len(q) \in Nat /\ DOMAIN Append(q, c) = 1..(Len(q) + 1)
  BY AppendProperties
<1>2. \A i \in 1..Len(q) : Append(q, c)[i] = q[i]
  BY <1>1, AppendProperties
<1>3. Append(q, c)[Len(q) + 1] = c /\ Len(q) + 1 \in DOMAIN Append(q, c)
  BY <1>1, AppendProperties
<1>4. \A i \in DOMAIN q : i \in DOMAIN Append(q, c)
  BY <1>1
<1> QED BY <1>1, <1>2, <1>3, <1>4

\* What the three ways to change the list leave alone, and what they send.
SamePlace(p, r) == p.pc = r.pc /\ p.ready = r.ready /\ p.s = r.s /\ p.b = r.b

\* Putting a stream on the list announces it.
LEMMA AddFacts ==
  ASSUME NEW p \in PollRec, NEW s \in Streams
  PROVE  LET r == AddPollFd(p, s)
         IN  /\ r \in PollRec /\ SamePlace(r, p) /\ Synced(r)
             /\ r.entries = p.entries \cup {s}
<1> DEFINE r == AddPollFd(p, s)
<1>1. /\ p.entries \subseteq Streams /\ p.pipe \in Seq(Cmds)
      /\ "ENTRIES_UPDATED_ASYNC" \in Cmds /\ "ENTRIES_UPDATED_ASYNC" # "COMMIT"
  BY DEF PollRec, Cmds
<1>2. Append(p.pipe, "ENTRIES_UPDATED_ASYNC") \in Seq(Cmds)
  BY <1>1
<1>3. /\ r \in PollRec /\ SamePlace(r, p) /\ r.entries = p.entries \cup {s}
      /\ r.pipe = Append(p.pipe, "ENTRIES_UPDATED_ASYNC")
  BY <1>1, <1>2 DEF AddPollFd, PollRec, SamePlace
<1>4. Synced(r)
  BY <1>1, <1>3, SyncedAppend DEF Synced
<1> QED BY <1>3, <1>4

\* Taking it off announces it if it was on.
LEMMA DelFacts ==
  ASSUME NEW p \in PollRec, NEW s \in Streams, NEW cmd \in {"ENTRIES_UPDATED", "ENTRIES_UPDATED_ASYNC"}
  PROVE  LET r == DelPollFd(p, s, cmd)
         IN  /\ r \in PollRec /\ SamePlace(r, p) /\ (Synced(p) => Synced(r))
             /\ r.entries = p.entries \ {s}
<1> DEFINE r == DelPollFd(p, s, cmd)
<1>1. p.entries \subseteq Streams /\ p.pipe \in Seq(Cmds) /\ cmd \in Cmds /\ cmd # "COMMIT"
  BY DEF PollRec, Cmds
<1>2. CASE s \in p.entries
  <2>1. Append(p.pipe, cmd) \in Seq(Cmds)
    BY <1>1
  <2>2. /\ r \in PollRec /\ SamePlace(r, p) /\ r.entries = p.entries \ {s}
        /\ r.pipe = Append(p.pipe, cmd)
    BY <1>1, <1>2, <2>1 DEF DelPollFd, PollRec, SamePlace
  <2>3. Synced(r)
    BY <1>1, <2>2, SyncedAppend DEF Synced
  <2> QED BY <2>2, <2>3
<1>3. CASE s \notin p.entries
  <2>1. r = p
    BY <1>3 DEF DelPollFd
  <2> QED BY <1>1, <1>3, <2>1 DEF SamePlace
<1> QED BY <1>2, <1>3

\* STREAM STOP takes it off, or asks for a commit.
LEMMA StopFacts ==
  ASSUME NEW p \in PollRec, NEW s \in Streams
  PROVE  LET r == DelForStop(p, s)
         IN  /\ r \in PollRec /\ SamePlace(r, p) /\ (Synced(p) => Synced(r))
             /\ r.entries = p.entries \ {s}
<1> DEFINE r == DelForStop(p, s)
<1>1. CASE s \in p.entries
  <2>1. r = DelPollFd(p, s, "ENTRIES_UPDATED")
    BY <1>1 DEF DelForStop
  <2> QED BY <2>1, DelFacts
<1>2. CASE s \notin p.entries
  <2>1. p.entries \subseteq Streams /\ p.pipe \in Seq(Cmds) /\ "COMMIT" \in Cmds
    BY DEF PollRec, Cmds
  <2>2. Append(p.pipe, "COMMIT") \in Seq(Cmds)
    BY <2>1
  <2>3. /\ r \in PollRec /\ SamePlace(r, p) /\ r.entries = p.entries /\ r.fds = p.fds
        /\ r.pipe = Append(p.pipe, "COMMIT")
    BY <1>2, <2>1, <2>2 DEF DelForStop, PollRec, SamePlace
  <2>4. Synced(p) => Synced(r)
    BY <2>1, <2>3, SyncedAppend DEF Synced
  <2> QED BY <1>2, <2>3, <2>4
<1> QED BY <1>1, <1>2

-----------------------------------------------------------------------------
(* Streams a step leaves alone. *)

\* t, its queues and references stay; the poll thread's dealings with it and
\* the place of the thread that holds ch_lock, if that concerns t, stay too.
Untouched(t) ==
  /\ str'[t] = str[t] /\ drv'[t] = drv[t]
  /\ \A h \in Ref : h[1] = t => /\ h \in hold' <=> h \in hold
                                /\ h \in returning' <=> h \in returning
  /\ (pt'.s = t \/ pt.s = t) => pt'.s = pt.s /\ pt'.b = pt.b /\ pt'.pc = pt.pc
  /\ t \in pt'.entries <=> t \in pt.entries
  /\ ctl'.s = t <=> ctl.s = t
  /\ ctl.s = t => ctl'.step = ctl.step
  /\ ctl'.phase = "starting" => ctl.phase = "starting" \/ pt'.s # t

\* Its holders stay the same.
LEMMA UntouchedHolders ==
  ASSUME TypeOK, TypeOK', NEW t \in Streams, NEW b \in Bufs, Untouched(t)
  PROVE  Holders(t, b)' = Holders(t, b)
<1>1. hold \subseteq Ref /\ returning \subseteq Ref /\ hold' \subseteq Ref /\ returning' \subseteq Ref
  BY DEF TypeOK
<1>2. With(hold', t, b) = With(hold, t, b) /\ With(returning', t, b) = With(returning, t, b)
  BY <1>1 DEF Untouched, With
<1>3. str'[t] = str[t]
  BY DEF Untouched
<1> QED BY <1>2, <1>3, HoldersAre, HoldersAreNext

\* What was true of it stays true.
LEMMA Kept ==
  ASSUME TypeOK, TypeOK', ~crashed, NEW t \in Streams, Untouched(t), StreamOK(t)
  PROVE  StreamOK(t)'
<1>1. /\ str'[t] = str[t] /\ drv'[t] = drv[t]
      /\ Starting(t)' <=> Starting(t)
      /\ Live(t)' <=> Live(t)
      /\ \A b : PollHas(t, b)' <=> PollHas(t, b)
      /\ Deq(t)' = Deq(t)
  BY DEF Untouched, Starting, Live, PollHas, Deq
<1>2. \A b \in Bufs : Holders(t, b)' = Holders(t, b)
  BY UntouchedHolders
<1>3. InDriver(t)' = InDriver(t) /\ Filled(t)' = Filled(t)
  BY <1>1, FilledAre
<1>4. hold \subseteq Ref /\ returning \subseteq Ref /\ hold' \subseteq Ref /\ returning' \subseteq Ref
  BY DEF TypeOK
<1>5. NoneOf(t)' <=> NoneOf(t)
  BY <1>4 DEF NoneOf, Untouched
<1>6. PlaceOK(t) => PlaceOK(t)'
  BY <1>1 DEF PlaceOK, Untouched
<1>7. CountOK(t)'
  BY <1>1 DEF CountOK, StreamOK
<1>8. ListOK(t) => ListOK(t)'
  BY <1>1 DEF ListOK, Untouched
<1>9. RefsOK(t) => RefsOK(t)'
  BY <1>1, <1>2 DEF RefsOK
<1>10. ExclOK(t) => ExclOK(t)'
  BY <1>1, <1>3 DEF ExclOK
<1>11. FreeOK(t) => FreeOK(t)'
  BY <1>1, <1>4, <1>5 DEF FreeOK, Untouched
<1>12. ExactOK(t) => ExactOK(t)'
  BY <1>1 DEF ExactOK
<1>13. WhereOK(t) => WhereOK(t)'
  <2>1. \A b \in Bufs : <<t, b, "app">> \in Ref /\ <<t, b, "app">>[1] = t
    BY DEF Ref
  <2>2. \A b \in Bufs : <<t, b, "app">> \notin hold \cup returning =>
                           <<t, b, "app">> \notin hold' \cup returning'
    BY <2>1 DEF Untouched
  <2>3. (\A h \in hold : h[1] = t => h \notin returning) => (\A h \in hold' : h[1] = t => h \notin returning')
    BY <1>4 DEF Untouched
  <2> QED BY <1>1, <1>2, <1>3, <1>5, <2>2, <2>3 DEF WhereOK
<1> QED BY <1>6, <1>7, <1>8, <1>9, <1>10, <1>11, <1>12, <1>13 DEF StreamOK, Polled, Exact, Steady

-----------------------------------------------------------------------------
(* mm_stream_buf_done. *)

\* Buffer b of s is queued and counted, where n were, and the first one sends an
\* update; or its cache cannot be cleaned.
Requeued(s, b, n) ==
  \/ /\ str'[s].count = n /\ drv'[s].queued = drv[s].queued /\ pt' = pt
     /\ "cache" \in Failures
  \/ /\ str'[s].count = n + 1
     /\ \/ drv'[s].queued = drv[s].queued \cup {b}
        \/ drv'[s].queued = drv[s].queued /\ "qbuf" \in Failures
     /\ n = 0 => pt' = AddPollFd(pt, s)
     /\ n # 0 => pt' = pt

\* What queueing a buffer again does, whichever of its calls fail.
LEMMA QbufFacts ==
  ASSUME TypeOK, NEW s \in Streams, NEW b \in Bufs, NEW y \in StreamRec, Qbuf(s, b, y)
  PROVE  /\ str' \in [Streams -> StreamRec]
         /\ drv' \in [Streams -> [queued : SUBSET Bufs, done : Seq(Bufs), on : BOOLEAN]]
         /\ \A t \in Streams \ {s} : str'[t] = str[t] /\ drv'[t] = drv[t]
         /\ str'[s] = [y EXCEPT !.count = str'[s].count]
         /\ drv'[s].done = drv[s].done /\ drv'[s].on = drv[s].on
         /\ Requeued(s, b, y.count)
<1>1. /\ str \in [Streams -> StreamRec]
      /\ drv \in [Streams -> [queued : SUBSET Bufs, done : Seq(Bufs), on : BOOLEAN]]
  BY DEF TypeOK
<1>2. y.count \in Nat /\ y.count + 1 \in Nat
  BY DEF StreamRec
<1>3. PICK valid \in Ok("cache"), accepted \in Ok("qbuf") :
        IF valid
        THEN /\ str' = [str EXCEPT ![s] = [y EXCEPT !.count = @ + 1]]
             /\ pt' = IF y.count = 0 THEN AddPollFd(pt, s) ELSE pt
             /\ drv' = IF accepted THEN [drv EXCEPT ![s].queued = @ \cup {b}] ELSE drv
        ELSE /\ str' = [str EXCEPT ![s] = y]
             /\ UNCHANGED <<drv, pt>>
  BY DEF Qbuf
<1>4. (~valid => "cache" \in Failures) /\ (~accepted => "qbuf" \in Failures)
  BY DEF Ok
<1>5. CASE valid
  <2> DEFINE z == [y EXCEPT !.count = @ + 1]
  <2>1. z \in StreamRec /\ z.count = y.count + 1 /\ z = [y EXCEPT !.count = z.count]
    BY <1>2 DEF StreamRec
  <2>2. str' = [str EXCEPT ![s] = z] /\ (y.count = 0 => pt' = AddPollFd(pt, s)) /\ (y.count # 0 => pt' = pt)
    BY <1>3, <1>5
  <2> HIDE DEF z
  <2>3. /\ str' \in [Streams -> StreamRec] /\ str'[s] = z
        /\ \A t \in Streams \ {s} : str'[t] = str[t]
    BY <1>1, <2>1, <2>2
  <2>4. CASE accepted
    <3>1. drv' = [drv EXCEPT ![s].queued = @ \cup {b}]
      BY <1>3, <1>5, <2>4
    <3>2. /\ drv' \in [Streams -> [queued : SUBSET Bufs, done : Seq(Bufs), on : BOOLEAN]]
          /\ \A t \in Streams \ {s} : drv'[t] = drv[t]
          /\ drv'[s].done = drv[s].done /\ drv'[s].on = drv[s].on
          /\ drv'[s].queued = drv[s].queued \cup {b}
      BY <1>1, <3>1
    <3> QED BY <2>1, <2>2, <2>3, <3>2 DEF Requeued
  <2>5. CASE ~accepted
    <3>1. drv' = drv
      BY <1>3, <1>5, <2>5
    <3> QED BY <1>1, <1>4, <2>1, <2>2, <2>3, <2>5, <3>1 DEF Requeued
  <2> QED BY <2>4, <2>5
<1>6. CASE ~valid
  <2>1. str' = [str EXCEPT ![s] = y] /\ drv' = drv /\ pt' = pt
    BY <1>3, <1>6
  <2>2. y = [y EXCEPT !.count = y.count]
    BY DEF StreamRec
  <2>3. str'[s] = y
    BY <1>1, <2>1
  <2> QED BY <1>1, <1>4, <1>6, <2>1, <2>2, <2>3 DEF Requeued
<1> QED BY <1>5, <1>6

\* What a return does: a reference goes, and the last one queues the buffer.
LEMMA BufDoneFacts ==
  ASSUME TypeOK, NEW s \in Streams, NEW b \in Bufs, NEW x \in StreamRec, BufDone(s, b, x)
  PROVE  /\ str' \in [Streams -> StreamRec]
         /\ drv' \in [Streams -> [queued : SUBSET Bufs, done : Seq(Bufs), on : BOOLEAN]]
         /\ \A t \in Streams \ {s} : str'[t] = str[t] /\ drv'[t] = drv[t]
         /\ str'[s].state = x.state /\ str'[s].alive = x.alive
         /\ str'[s].cmdq = x.cmdq /\ str'[s].disp = x.disp
         /\ \A a \in Bufs \ {b} : str'[s].refcnt[a] = x.refcnt[a]
         /\ str'[s].refcnt[b] = IF x.refcnt[b] = 0 THEN 0 ELSE x.refcnt[b] - 1
         /\ drv'[s].done = drv[s].done /\ drv'[s].on = drv[s].on
         /\ \/ /\ str'[s].count = x.count /\ drv'[s].queued = drv[s].queued /\ pt' = pt
               /\ x.refcnt[b] # 1 \/ "cache" \in Failures
            \/ /\ str'[s].count = x.count + 1 /\ x.refcnt[b] = 1
               /\ \/ drv'[s].queued = drv[s].queued \cup {b}
                  \/ drv'[s].queued = drv[s].queued /\ "qbuf" \in Failures
               /\ (x.count = 0 => pt' = AddPollFd(pt, s)) /\ (x.count # 0 => pt' = pt)
<1>1. /\ str \in [Streams -> StreamRec]
      /\ drv \in [Streams -> [queued : SUBSET Bufs, done : Seq(Bufs), on : BOOLEAN]]
  BY DEF TypeOK
<1> DEFINE n == IF x.refcnt[b] = 0 THEN 0 ELSE x.refcnt[b] - 1
           y == [x EXCEPT !.refcnt[b] = n]
<1>2. x.refcnt \in [Bufs -> Nat] /\ n \in Nat
  BY DEF StreamRec
<1>3. y = [x EXCEPT !.refcnt[b] = IF @ = 0 THEN 0 ELSE @ - 1]
  BY <1>2 DEF StreamRec
<1>4. IF x.refcnt[b] = 1 THEN Qbuf(s, b, y)
                         ELSE str' = [str EXCEPT ![s] = y] /\ UNCHANGED <<drv, pt>>
  BY <1>3 DEF BufDone
<1>5. /\ y \in StreamRec /\ y.state = x.state /\ y.alive = x.alive /\ y.count = x.count
      /\ y.cmdq = x.cmdq /\ y.disp = x.disp
      /\ \A a \in Bufs \ {b} : y.refcnt[a] = x.refcnt[a]
      /\ y.refcnt[b] = n
  BY <1>2 DEF StreamRec
<1> HIDE DEF y
<1>6. CASE x.refcnt[b] = 1
  <2>0. y \in StreamRec
    BY <1>5
  <2>1. Qbuf(s, b, y)
    BY <1>4, <1>6
  <2>2. str'[s] = [y EXCEPT !.count = str'[s].count]
    BY <1>5, <2>1, QbufFacts
  <2>3. /\ str'[s].state = y.state /\ str'[s].alive = y.alive /\ str'[s].refcnt = y.refcnt
        /\ str'[s].cmdq = y.cmdq /\ str'[s].disp = y.disp
    BY <1>5, <2>2 DEF StreamRec
  <2>4. /\ str' \in [Streams -> StreamRec]
        /\ drv' \in [Streams -> [queued : SUBSET Bufs, done : Seq(Bufs), on : BOOLEAN]]
        /\ \A t \in Streams \ {s} : str'[t] = str[t] /\ drv'[t] = drv[t]
        /\ drv'[s].done = drv[s].done /\ drv'[s].on = drv[s].on
    BY <2>1, <2>0, QbufFacts
  <2>5. Requeued(s, b, y.count)
    BY <2>1, <2>0, QbufFacts
  <2> QED BY <1>5, <1>6, <2>3, <2>4, <2>5 DEF Requeued
<1>7. CASE x.refcnt[b] # 1
  <2>1. str' = [str EXCEPT ![s] = y] /\ drv' = drv /\ pt' = pt
    BY <1>4, <1>7
  <2>2. /\ str' \in [Streams -> StreamRec] /\ str'[s] = y
        /\ \A t \in Streams \ {s} : str'[t] = str[t]
    BY <1>1, <1>5, <2>1
  <2> QED BY <1>1, <1>5, <1>7, <2>1, <2>2
<1> QED BY <1>6, <1>7

\* The poll thread's list may change; its place does not.
LEMMA PollKept ==
  ASSUME PollOK, SamePlace(pt', pt), Synced(pt)'
  PROVE  PollOK'
BY DEF PollOK, SamePlace

\* Somebody who held buffer b of s gives his reference back.
LEMMA DoneStep ==
  ASSUME Inv, ~crashed, NEW s \in Streams, NEW b \in Bufs, NEW x \in StreamRec,
         x.state = str[s].state, x.refcnt = str[s].refcnt, x.count = str[s].count,
         x.alive = str[s].alive, x.cmdq = str[s].cmdq, x.disp \in {str[s].disp, None},
         BufDone(s, b, x), UNCHANGED <<ctl, bundle, hold, crashed>>,
         returning' \subseteq returning,
         \A h \in Ref : h[1] # s => (h \in returning' <=> h \in returning),
         Holders(s, b) = Holders(s, b)' + 1, Holders(s, b)' \in Nat,
         \A a \in Bufs \ {b} : Holders(s, a)' = Holders(s, a)
  PROVE  Inv'
<1>1. /\ str' \in [Streams -> StreamRec]
      /\ drv' \in [Streams -> [queued : SUBSET Bufs, done : Seq(Bufs), on : BOOLEAN]]
      /\ \A t \in Streams \ {s} : str'[t] = str[t] /\ drv'[t] = drv[t]
      /\ str'[s].state = str[s].state /\ str'[s].alive = str[s].alive
      /\ str'[s].cmdq = str[s].cmdq /\ str'[s].disp = x.disp
      /\ \A a \in Bufs \ {b} : str'[s].refcnt[a] = str[s].refcnt[a]
      /\ str'[s].refcnt[b] = IF str[s].refcnt[b] = 0 THEN 0 ELSE str[s].refcnt[b] - 1
      /\ drv'[s].done = drv[s].done /\ drv'[s].on = drv[s].on
  BY BufDoneFacts DEF Inv
<1>2. \/ /\ str'[s].count = str[s].count /\ drv'[s].queued = drv[s].queued /\ pt' = pt
         /\ str[s].refcnt[b] # 1 \/ "cache" \in Failures
      \/ /\ str'[s].count = str[s].count + 1 /\ str[s].refcnt[b] = 1
         /\ \/ drv'[s].queued = drv[s].queued \cup {b}
            \/ drv'[s].queued = drv[s].queued /\ "qbuf" \in Failures
         /\ (str[s].count = 0 => pt' = AddPollFd(pt, s)) /\ (str[s].count # 0 => pt' = pt)
  BY BufDoneFacts DEF Inv
<1>3. pt \in PollRec /\ Synced(pt)
  BY DEF Inv, TypeOK, PollOK
<1>4. /\ pt' \in PollRec /\ SamePlace(pt', pt) /\ Synced(pt)'
      /\ \A t \in Streams \ {s} : t \in pt'.entries <=> t \in pt.entries
      /\ s \in pt'.entries <=> s \in pt.entries \/ (str'[s].count # str[s].count /\ str[s].count = 0)
  <2>1. CASE pt' = pt /\ ~(str'[s].count # str[s].count /\ str[s].count = 0)
    BY <1>3, <2>1 DEF SamePlace
  <2>2. CASE pt' = AddPollFd(pt, s) /\ str[s].count = 0 /\ str'[s].count # str[s].count
    <3>1. Synced(pt)'
      BY <1>3, <2>2, AddFacts DEF Synced
    <3> QED BY <1>3, <2>2, <3>1, AddFacts
  <2>3. str[s].count \in Nat
    BY Types DEF Inv
  <2> QED BY <1>2, <2>1, <2>2, <2>3
<1>5. TypeOK'
  BY <1>1, <1>4 DEF Inv, TypeOK
<1>6. CtlOK' /\ PollOK'
  BY <1>4, PollKept DEF Inv, CtlOK
<1>7. ASSUME NEW t \in Streams \ {s} PROVE StreamOK(t)'
  <2>1. Untouched(t)
    BY <1>1, <1>4 DEF Untouched, SamePlace
  <2> QED BY <1>5, <2>1, Kept DEF Inv
<1>8. StreamOK(s)
  BY DEF Inv
<1>9. /\ Live(s)' <=> Live(s)
      /\ Starting(s)' <=> Starting(s)
      /\ \A a : PollHas(s, a)' <=> PollHas(s, a)
      /\ Deq(s)' = Deq(s)
      /\ Filled(s)' = Filled(s)
  BY <1>1, <1>4, FilledAre DEF Live, Starting, PollHas, Deq, SamePlace
<1>10. /\ str[s].count \in Nat /\ str[s].refcnt[b] \in Nat /\ Deq(s) \in Nat
       /\ Len(drv[s].done) \in Nat /\ Cardinality(drv[s].queued) \in Nat
       /\ IsFiniteSet(drv[s].queued)
  <2>1. TypeOK
    BY DEF Inv
  <2>2. str[s].refcnt \in [Bufs -> Nat] /\ Deq(s) \in {0, 1}
    BY <2>1, Types
  <2>3. str[s].refcnt[b] \in Nat /\ Deq(s) \in Nat
    BY <2>2
  <2> QED BY <2>1, <2>3, Types
<1>11. PlaceOK(s)'
  BY <1>1, <1>4, <1>8 DEF StreamOK, PlaceOK, SamePlace
<1>12. /\ Cardinality(drv'[s].queued) \in Nat
       /\ Cardinality(drv'[s].queued) - Cardinality(drv[s].queued) <= str'[s].count - str[s].count
       /\ "qbuf" \notin Failures /\ (str[s].refcnt[b] = 1 => b \notin drv[s].queued) =>
            Cardinality(drv'[s].queued) - Cardinality(drv[s].queued) = str'[s].count - str[s].count
  <2>1. /\ b \notin drv[s].queued => Cardinality(drv[s].queued \cup {b}) = Cardinality(drv[s].queued) + 1
        /\ b \in drv[s].queued => drv[s].queued \cup {b} = drv[s].queued
    BY <1>10, FS_AddElement
  <2>2. CASE /\ drv'[s].queued = drv[s].queued \cup {b} /\ str'[s].count = str[s].count + 1
             /\ str[s].refcnt[b] = 1
    <3>1. CASE b \in drv[s].queued
      <4>1. Cardinality(drv'[s].queued) = Cardinality(drv[s].queued)
        BY <2>1, <2>2, <3>1
      <4> QED BY <1>10, <2>2, <3>1, <4>1
    <3>2. CASE b \notin drv[s].queued
      <4>1. Cardinality(drv'[s].queued) = Cardinality(drv[s].queued) + 1
        BY <2>1, <2>2, <3>2
      <4> QED BY <1>10, <2>2, <3>2, <4>1
    <3> QED BY <3>1, <3>2
  <2>3. CASE drv'[s].queued = drv[s].queued
    <3>1. Cardinality(drv'[s].queued) = Cardinality(drv[s].queued)
      BY <2>3
    <3> QED BY <1>2, <1>10, <2>2, <2>3, <3>1
  <2> QED BY <1>2, <2>2, <2>3
<1>13. CountOK(s)'
  <2>1. Len(drv'[s].done) = Len(drv[s].done) /\ Deq(s)' = Deq(s)
    BY <1>1, <1>9
  <2>2. str'[s].count \in Nat
    BY <1>2, <1>10
  <2>3. Cardinality(drv'[s].queued) + Len(drv'[s].done) + Deq(s)' <= str'[s].count
    <3>1. Cardinality(drv[s].queued) + Len(drv[s].done) + Deq(s) <= str[s].count
      BY <1>8 DEF StreamOK, CountOK
    <3>2. Cardinality(drv'[s].queued) + Len(drv[s].done) + Deq(s) <= str'[s].count
      <4> DEFINE q == Cardinality(drv[s].queued)
                 r == Cardinality(drv'[s].queued)
                 l == Len(drv[s].done)
                 d == Deq(s)
                 c == str[s].count
                 e == str'[s].count
      <4>1. /\ q \in Nat /\ r \in Nat /\ l \in Nat /\ d \in Nat /\ c \in Nat /\ e \in Nat
            /\ r - q <= e - c /\ q + l + d <= c
        BY <1>10, <1>12, <2>2, <3>1
      <4> HIDE DEF q, r, l, d, c, e
      <4>2. r + l + d <= e
        BY <4>1
      <4> QED BY <4>2 DEF r, l, d, e
    <3> QED BY <2>1, <3>2
  <2> QED BY <1>1, <1>8, <2>3 DEF StreamOK, CountOK
<1>14. Polled => ListOK(s)'
  BY <1>1, <1>2, <1>4, <1>8, <1>9, <1>10 DEF StreamOK, ListOK
<1>15. RefsOK(s)'
  <2>1. SUFFICES ASSUME Live(s), NEW a \in Bufs
                 PROVE  Holders(s, a)' <= str'[s].refcnt[a]
    BY <1>9 DEF RefsOK
  <2>2. Holders(s, a) <= str[s].refcnt[a]
    BY <1>8, <2>1 DEF StreamOK, RefsOK
  <2>3. CASE a = b
    <3>1. /\ Holders(s, b)' + 1 <= str[s].refcnt[b]
          /\ str'[s].refcnt[b] = IF str[s].refcnt[b] = 0 THEN 0 ELSE str[s].refcnt[b] - 1
      BY <1>1, <2>2, <2>3
    <3>2. Holders(s, b)' <= str'[s].refcnt[b]
      BY <1>10, <3>1
    <3> QED BY <2>3, <3>2
  <2>4. CASE a # b
    BY <1>1, <2>2, <2>4
  <2> QED BY <2>3, <2>4
<1>16. /\ InDriver(s)' = InDriver(s) \/ (InDriver(s)' = InDriver(s) \cup {b} /\ str[s].refcnt[b] = 1)
       /\ InDriver(s) \subseteq InDriver(s)'
  BY <1>1, <1>2, FilledAre
<1>17. Live(s) =>
         \A a \in InDriver(s) : str[s].refcnt[a] = 0 /\ a \in Bufs
  <2>1. InDriver(s) \subseteq Bufs
    <3>1. drv[s].queued \subseteq Bufs /\ drv[s].done \in Seq(Bufs)
      BY Types DEF Inv
    <3>2. Items(drv[s].done) \subseteq Bufs
      BY <3>1 DEF Items
    <3> QED BY <3>1, <3>2, FilledAre
  <2> QED BY <1>8, <2>1 DEF StreamOK, ExclOK
<1>18. ExclOK(s)'
  <2>1. SUFFICES ASSUME Live(s) PROVE ExclOK(s)'
    BY <1>9 DEF ExclOK
  <2>2. /\ \A a \in InDriver(s) : str[s].refcnt[a] = 0 /\ a \in Bufs /\ ~PollHas(s, a)
        /\ \A a \in Bufs : PollHas(s, a) => str[s].refcnt[a] = 0
        /\ drv[s].queued \cap Filled(s) = {} /\ Distinct(drv[s].done)
    BY <1>8, <1>17, <2>1 DEF StreamOK, ExclOK
  <2>3. \A a \in InDriver(s)' : str'[s].refcnt[a] = 0 /\ ~PollHas(s, a)'
    BY <1>1, <1>9, <1>16, <2>2
  <2>4. \A a \in Bufs : PollHas(s, a)' => str'[s].refcnt[a] = 0
    BY <1>1, <1>9, <2>2
  <2>5. drv'[s].queued \cap Filled(s)' = {}
    BY <1>2, <1>9, <2>2, FilledAre
  <2> QED BY <1>1, <2>2, <2>3, <2>4, <2>5 DEF ExclOK
<1>19. FreeOK(s)'
  BY <1>1, <1>8, <1>9 DEF StreamOK, FreeOK, NoneOf
<1>20. Exact => ExactOK(s)'
  <2>1. SUFFICES ASSUME Exact, drv[s].on \/ Starting(s) PROVE ExactOK(s)'
    BY <1>1, <1>9 DEF ExactOK
  <2>2. Live(s) /\ "qbuf" \notin Failures
    BY <1>8, <2>1 DEF StreamOK, CountOK, Live, Exact
  <2>3. str[s].refcnt[b] = 1 => b \notin drv[s].queued
    BY <1>17, <2>2, FilledAre
  <2>4. Cardinality(drv[s].queued) + Len(drv[s].done) + Deq(s) = str[s].count
    BY <1>8, <2>1 DEF StreamOK, ExactOK
  <2>5. Len(drv'[s].done) = Len(drv[s].done) /\ Deq(s)' = Deq(s)
    BY <1>1, <1>9
  <2>6. str'[s].count \in Nat
    BY <1>2, <1>10
  <2>7. Cardinality(drv'[s].queued) + Len(drv'[s].done) + Deq(s)' = str'[s].count
    <3>1. Cardinality(drv'[s].queued) + Len(drv[s].done) + Deq(s) = str'[s].count
      <4> DEFINE q == Cardinality(drv[s].queued)
                 r == Cardinality(drv'[s].queued)
                 l == Len(drv[s].done)
                 d == Deq(s)
                 c == str[s].count
                 e == str'[s].count
      <4>1. /\ q \in Nat /\ r \in Nat /\ l \in Nat /\ d \in Nat /\ c \in Nat /\ e \in Nat
            /\ r - q = e - c /\ q + l + d = c
        BY <1>10, <1>12, <2>2, <2>3, <2>4, <2>6
      <4> HIDE DEF q, r, l, d, c, e
      <4>2. r + l + d = e
        BY <4>1
      <4> QED BY <4>2 DEF r, l, d, e
    <3> QED BY <2>5, <3>1
  <2> QED BY <2>7 DEF ExactOK
<1>21. Steady => WhereOK(s)'
  <2>1. SUFFICES ASSUME Steady, Live(s) PROVE WhereOK(s)'
    BY <1>9 DEF WhereOK
  <2>2. "cache" \notin Failures /\ "qbuf" \notin Failures
    BY <2>1 DEF Steady
  <2>3. /\ \A a \in Bufs : str[s].refcnt[a] = Holders(s, a)
        /\ \A a \in Bufs : drv[s].on \/ Starting(s) =>
             a \in InDriver(s) \/ PollHas(s, a) \/ Holders(s, a) > 0
        /\ \A a \in Bufs : a \in Items(str[s].cmdq) => <<s, a, "app">> \notin hold \cup returning
        /\ \A a \in Bufs : Cardinality(At1(str[s].cmdq, a)) <= 1
        /\ \A h \in hold : h[1] = s => h \notin returning
        /\ Starting(s) => NoneOf(s)
    BY <1>8, <2>1 DEF StreamOK, WhereOK
  <2>4. str[s].refcnt[b] = Holders(s, b)
    BY <2>3
  <2>5. \A a \in Bufs : str'[s].refcnt[a] = Holders(s, a)'
    <3>1. str'[s].refcnt[b] = Holders(s, b)'
      <4>1. /\ str[s].refcnt[b] = Holders(s, b)' + 1
            /\ str'[s].refcnt[b] = IF str[s].refcnt[b] = 0 THEN 0 ELSE str[s].refcnt[b] - 1
        BY <1>1, <2>4
      <4> QED BY <1>10, <4>1
    <3>2. ASSUME NEW a \in Bufs, a # b PROVE str'[s].refcnt[a] = Holders(s, a)'
      BY <1>1, <2>3, <3>2
    <3> QED BY <3>1, <3>2
  <2>6. Holders(s, b)' = 0 => b \in InDriver(s)'
    <3>1. Holders(s, b)' = 0 => drv'[s].queued = drv[s].queued \cup {b}
      BY <1>2, <2>2, <2>4
    <3> QED BY <3>1, FilledAre
  <2>7. \A a \in Bufs : drv'[s].on \/ Starting(s)' =>
          a \in InDriver(s)' \/ PollHas(s, a)' \/ Holders(s, a)' > 0
    <3>1. b \in InDriver(s)' \/ Holders(s, b)' > 0
      BY <2>6
    <3>2. ASSUME NEW a \in Bufs \ {b}, drv'[s].on \/ Starting(s)'
          PROVE  a \in InDriver(s)' \/ PollHas(s, a)' \/ Holders(s, a)' > 0
      BY <1>1, <1>9, <1>16, <2>3, <3>2
    <3> QED BY <3>1, <3>2
  <2>8. \A h \in hold' : h[1] = s => h \notin returning'
    BY <2>3
  <2>9. \A a \in Bufs : a \in Items(str'[s].cmdq) => <<s, a, "app">> \notin hold' \cup returning'
    BY <1>1, <2>3
  <2>10. \A a \in Bufs : Cardinality(At1(str'[s].cmdq, a)) <= 1
    BY <1>1, <2>3
  <2>11. Starting(s)' => NoneOf(s)'
    BY <1>9, <2>3 DEF NoneOf
  <2> QED BY <2>5, <2>7, <2>8, <2>9, <2>10, <2>11 DEF WhereOK
<1>22. StreamOK(s)'
  BY <1>11, <1>13, <1>14, <1>15, <1>18, <1>19, <1>20, <1>21 DEF StreamOK, Polled, Exact, Steady
<1> QED BY <1>5, <1>6, <1>7, <1>22 DEF Inv

-----------------------------------------------------------------------------
(* Steps that touch no stream. *)

\* The record of the thread that holds ch_lock, and what it may become.
CtlRec == [phase : {"stopped", "starting", "aborting", "active", "stopping", "putting"},
           step : {"none", "reg", "start", "undo", "off", "join", "unreg"},
           s : Streams \cup {None}, waiting : BOOLEAN]

\* Moving on changes the phase, the step and the stream.
LEMMA GotoFacts ==
  ASSUME ctl \in CtlRec,
         NEW phase \in {"stopped", "starting", "aborting", "active", "stopping", "putting"},
         NEW step \in {"none", "reg", "start", "undo", "off", "join", "unreg"},
         NEW s \in Streams \cup {None}, Goto(phase, step, s)
  PROVE  ctl' \in CtlRec /\ ctl'.phase = phase /\ ctl'.step = step /\ ctl'.s = s
BY DEF CtlRec, Goto

\* If all streams are left alone, what was true of them stays true.
LEMMA QuietStep ==
  ASSUME Inv, ~crashed, TypeOK', CtlOK', PollOK', \A t \in Streams : Untouched(t)
  PROVE  Inv'
BY Kept DEF Inv

\* Handling a command brings poll_fds up to date, unless it is a commit.
LEMMA PollPipeStep ==
  ASSUME Inv, ~crashed, PollPipe
  PROVE  Inv'
<1>1. /\ pt \in PollRec /\ pt.pipe \in Seq(Cmds) /\ pt.pipe # <<>> /\ ctl \in CtlRec
      /\ pt.entries \subseteq Streams /\ pt.fds \subseteq Streams
  BY DEF Inv, TypeOK, PollRec, PollPipe, CtlRec
<1> DEFINE cmd == Head(pt.pipe)
           fds == IF cmd = "COMMIT" THEN pt.fds ELSE pt.entries
           w   == ctl.waiting /\ cmd = "ENTRIES_UPDATED_ASYNC"
<1>2. pt' = [pt EXCEPT !.pipe = Tail(@), !.fds = fds] /\ ctl' = [ctl EXCEPT !.waiting = w]
  BY DEF PollPipe
<1>3. fds \subseteq Streams /\ Tail(pt.pipe) \in Seq(Cmds) /\ w \in BOOLEAN
  BY <1>1
<1> HIDE DEF w
<1>4. /\ pt' \in PollRec /\ SamePlace(pt', pt) /\ pt'.entries = pt.entries
      /\ pt'.fds = fds /\ pt'.pipe = Tail(pt.pipe)
  BY <1>1, <1>2, <1>3 DEF PollRec, SamePlace
<1>5. ctl' \in CtlRec /\ ctl'.phase = ctl.phase /\ ctl'.step = ctl.step /\ ctl'.s = ctl.s
  BY <1>1, <1>2, <1>3 DEF CtlRec
<1>6. Synced(pt)'
  <2>1. CASE cmd # "COMMIT"
    BY <1>4, <2>1 DEF Synced
  <2>2. CASE cmd = "COMMIT"
    <3>1. CASE pt.fds = pt.entries
      BY <1>4, <2>2, <3>1 DEF Synced
    <3>2. CASE pt.fds # pt.entries
      <4>1. PICK i \in DOMAIN pt.pipe : pt.pipe[i] # "COMMIT"
        BY <3>2 DEF Inv, PollOK, Synced
      <4>2. /\ DOMAIN pt.pipe = 1..Len(pt.pipe) /\ Len(pt.pipe) \in Nat /\ cmd = pt.pipe[1]
            /\ DOMAIN Tail(pt.pipe) = 1..(Len(pt.pipe) - 1)
        BY <1>1
      <4>3. i # 1
        BY <2>2, <4>1, <4>2
      <4>4. i - 1 \in DOMAIN Tail(pt.pipe) /\ Tail(pt.pipe)[i - 1] = pt.pipe[i]
        BY <1>1, <4>2, <4>3
      <4> QED BY <1>4, <4>1, <4>4 DEF Synced
    <3> QED BY <3>1, <3>2
  <2> QED BY <2>1, <2>2
<1>7. UNCHANGED <<str, drv, bundle, hold, returning, crashed>>
  BY DEF PollPipe
<1>8. TypeOK'
  BY <1>4, <1>5, <1>7 DEF Inv, TypeOK, CtlRec
<1>9. CtlOK' /\ PollOK'
  BY <1>4, <1>5, <1>6, PollKept DEF Inv, CtlOK
<1>10. ASSUME NEW t \in Streams PROVE Untouched(t)
  BY <1>4, <1>5, <1>7 DEF Untouched, SamePlace
<1> QED BY <1>8, <1>9, <1>10, QuietStep

\* Looking for frames, and going back to poll, changes where the thread is.
LEMMA PollMoves ==
  ASSUME Inv, ~crashed, UNCHANGED <<str, drv, ctl, bundle, hold, returning, crashed>>,
         NEW pc \in {"poll", "notify"}, pt.pc \in {"poll", "notify"},
         NEW ready \in SUBSET Streams,
         pt' = [pt EXCEPT !.pc = pc, !.ready = ready]
  PROVE  Inv'
<1>1. pt \in PollRec
  BY DEF Inv, TypeOK
<1>2. /\ pt' \in PollRec /\ pt'.pc = pc /\ pt'.s = pt.s /\ pt'.b = pt.b
      /\ pt'.entries = pt.entries /\ pt'.fds = pt.fds /\ pt'.pipe = pt.pipe
  BY <1>1 DEF PollRec
<1>3. TypeOK'
  BY <1>2 DEF Inv, TypeOK
<1>4. CtlOK' /\ PollOK'
  BY <1>2 DEF Inv, CtlOK, PollOK, Synced
<1>5. pt.s = None
  BY DEF Inv, PollOK
<1>6. ASSUME NEW t \in Streams PROVE Untouched(t)
  BY <1>2, <1>5, SpFacts DEF Untouched
<1> QED BY <1>3, <1>4, <1>6, QuietStep

\* poll() reports streams with a frame.
LEMMA PollDataStep ==
  ASSUME Inv, ~crashed, PollData
  PROVE  Inv'
<1>1. PICK ready \in SUBSET Streams : pt' = [pt EXCEPT !.pc = "notify", !.ready = ready]
  <2>1. {s \in pt.fds : drv[s].done # <<>>} \in SUBSET Streams
    BY DEF Inv, TypeOK, PollRec
  <2> QED BY <2>1 DEF PollData
<1> QED BY <1>1, PollMoves DEF PollData

\* All of them visited, the thread polls again.
LEMMA PollAgainStep ==
  ASSUME Inv, ~crashed, PollAgain
  PROVE  Inv'
<1>1. pt.ready \in SUBSET Streams
  BY DEF Inv, TypeOK, PollRec
<1>2. pt' = [pt EXCEPT !.pc = "poll", !.ready = pt.ready]
  BY DEF PollAgain, Inv, TypeOK, PollRec
<1> QED BY <1>1, <1>2, PollMoves DEF PollAgain

\* The thread that holds ch_lock goes from one phase to the next.
LEMMA PhaseStep ==
  ASSUME Inv, ~crashed, UNCHANGED <<str, drv, pt, hold, returning, crashed>>,
         ctl.step = "none", bundle' \in [alive : BOOLEAN, notify : BOOLEAN],
         NEW phase \in {"stopped", "starting", "aborting", "active", "stopping", "putting"},
         Goto(phase, "none", None),
         phase = "starting" => pt.s = None
  PROVE  Inv'
<1>1. ctl \in CtlRec
  BY DEF Inv, TypeOK, CtlRec
<1>2. ctl' \in CtlRec /\ ctl'.phase = phase /\ ctl'.step = "none" /\ ctl'.s = None
  BY <1>1, GotoFacts
<1>3. TypeOK'
  BY <1>2 DEF Inv, TypeOK, CtlRec
<1>4. CtlOK' /\ PollOK'
  BY <1>2 DEF Inv, CtlOK, PollOK, Synced
<1>5. ctl.s = None
  BY DEF Inv, CtlOK
<1>6. ASSUME NEW t \in Streams PROVE Untouched(t)
  BY <1>2, <1>5, SpFacts DEF Untouched
<1> QED BY <1>3, <1>4, <1>6, QuietStep

\* The start of the channel, ...
LEMMA StartChannelStep ==
  ASSUME Inv, ~crashed, StartChannel
  PROVE  Inv'
<1>1. pt.s = None
  BY DEF Inv, PollOK, StartChannel
<1>2. bundle' \in [alive : BOOLEAN, notify : BOOLEAN]
  BY DEF StartChannel, Inv, TypeOK
<1>3. /\ ctl.step = "none" /\ Goto("starting", "none", None)
      /\ UNCHANGED <<str, drv, pt, hold, returning, crashed>>
  BY DEF StartChannel, At
<1> QED BY <1>1, <1>2, <1>3, PhaseStep

\* ... its end, ...
LEMMA StartedStep ==
  ASSUME Inv, ~crashed, Started
  PROVE  Inv'
<1>1. /\ ctl.step = "none" /\ Goto("active", "none", None)
      /\ UNCHANGED <<str, drv, pt, bundle, hold, returning, crashed>>
  BY DEF Started, At
<1>2. bundle' \in [alive : BOOLEAN, notify : BOOLEAN]
  BY <1>1 DEF Inv, TypeOK
<1> QED BY <1>1, <1>2, PhaseStep

\* ... the beginning of the stop, ...
LEMMA StopChannelStep ==
  ASSUME Inv, ~crashed, StopChannel
  PROVE  Inv'
<1>1. /\ ctl.step = "none" /\ Goto("stopping", "none", None)
      /\ UNCHANGED <<str, drv, pt, bundle, hold, returning, crashed>>
  BY DEF StopChannel, At
<1>2. bundle' \in [alive : BOOLEAN, notify : BOOLEAN]
  BY <1>1 DEF Inv, TypeOK
<1> QED BY <1>1, <1>2, PhaseStep

\* ... the release of the bundle, ...
LEMMA ReleaseBundleStep ==
  ASSUME Inv, ~crashed, ReleaseBundle
  PROVE  Inv'
<1>1. /\ ctl.step = "none" /\ Goto("putting", "none", None)
      /\ UNCHANGED <<str, drv, pt, hold, returning, crashed>>
  BY DEF ReleaseBundle, At
<1>2. bundle' \in [alive : BOOLEAN, notify : BOOLEAN]
  BY DEF ReleaseBundle
<1> QED BY <1>1, <1>2, PhaseStep

\* ... and the end of the stop.
LEMMA StoppedStep ==
  ASSUME Inv, ~crashed, Stopped
  PROVE  Inv'
<1>1. /\ ctl.step = "none" /\ Goto("stopped", "none", None)
      /\ UNCHANGED <<str, drv, pt, bundle, hold, returning, crashed>>
  BY DEF Stopped, Idle
<1>2. bundle' \in [alive : BOOLEAN, notify : BOOLEAN]
  BY <1>1 DEF Inv, TypeOK
<1> QED BY <1>1, <1>2, PhaseStep

-----------------------------------------------------------------------------
(* Returns. *)

\* A return begins: in the state ACTIVE the reference is on its way, in another
\* it is lost.
LEMMA ReturnStep ==
  ASSUME Inv, ~crashed, NEW h \in hold, Return(h)
  PROVE  Inv'
<1> DEFINE s == h[1]
           b == h[2]
<1>1. /\ hold \subseteq Ref /\ returning \subseteq Ref /\ h \in Ref /\ s \in Streams /\ b \in Bufs
      /\ str \in [Streams -> StreamRec]
  BY DEF Inv, TypeOK, Ref
<1>2. /\ UNCHANGED <<str, drv, pt, ctl, bundle, crashed>> /\ hold' = hold \ {h}
      /\ str[s].state = "ACTIVE" => returning' = returning \cup {h}
      /\ str[s].state # "ACTIVE" => returning' = returning
  BY DEF Return
<1> HIDE DEF s, b
<1>3. TypeOK' /\ CtlOK' /\ PollOK'
  <2>1. returning' \subseteq Ref /\ hold' \subseteq Ref
    BY <1>1, <1>2
  <2> QED BY <1>2, <2>1 DEF Inv, TypeOK, CtlOK, PollOK, Synced
<1>4. ASSUME NEW t \in Streams, t # s PROVE StreamOK(t)'
  <2>1. Untouched(t)
    BY <1>1, <1>2, <1>4 DEF Untouched, s
  <2> QED BY <1>3, <1>4, <2>1, Kept DEF Inv
<1>5. StreamOK(s) /\ TypeOK
  BY <1>1 DEF Inv
<1>6. ASSUME NEW a \in Bufs
      PROVE  /\ Holders(s, a)' <= Holders(s, a)
             /\ str[s].state = "ACTIVE" /\ h \notin returning => Holders(s, a)' = Holders(s, a)
  <2> DEFINE x == Cardinality(With(hold, s, a))
             y == Cardinality(With(returning, s, a))
             u == Cardinality(At1(str[s].cmdq, a))
             v == Here(str[s].disp, a)
             p == Cardinality(With(hold', s, a))
             q == Cardinality(With(returning', s, a))
  <2>1. x \in Nat /\ y \in Nat /\ u \in Nat /\ v \in Nat
    BY <1>1, <1>5, HolderTypes
  <2>2. Holders(s, a) = x + y + u + v
    BY <1>1, HoldersAre
  <2>3. /\ p \in Nat /\ q \in Nat
    BY <1>1, <1>3, WithFinite DEF TypeOK
  <2>4. Holders(s, a)' = p + q + u + v
    BY <1>1, <1>2, HoldersAreNext
  <2>5. IF a = b THEN p = x - 1 ELSE p = x
    BY <1>1, <1>2, WithDrop DEF s, b
  <2>6. CASE str[s].state = "ACTIVE"
    <3>1. IF a = b /\ h \notin returning THEN q = y + 1 ELSE q = y
      BY <1>1, <1>2, <2>6, WithAdd DEF s, b
    <3> HIDE DEF x, y, u, v, p, q
    <3> QED BY <2>1, <2>2, <2>3, <2>4, <2>5, <3>1
  <2>7. CASE str[s].state # "ACTIVE"
    <3>1. q = y
      BY <1>2, <2>7
    <3> HIDE DEF x, y, u, v, p, q
    <3> QED BY <2>1, <2>2, <2>3, <2>4, <2>5, <2>7, <3>1
  <2> QED BY <2>6, <2>7
<1>7. /\ Live(s)' <=> Live(s)
      /\ Starting(s)' <=> Starting(s)
      /\ \A a : PollHas(s, a)' <=> PollHas(s, a)
      /\ Deq(s)' = Deq(s)
      /\ Filled(s)' = Filled(s) /\ InDriver(s)' = InDriver(s)
  BY <1>2 DEF Live, Starting, PollHas, Deq, Filled, InDriver
<1>8. PlaceOK(s)' /\ CountOK(s)'
  BY <1>2, <1>5, <1>7 DEF StreamOK, PlaceOK, CountOK
<1>9. (Polled => ListOK(s)') /\ (Exact => ExactOK(s)')
  BY <1>2, <1>5, <1>7 DEF StreamOK, ListOK, ExactOK
<1>10. RefsOK(s)'
  <2>1. SUFFICES ASSUME Live(s), NEW a \in Bufs
                 PROVE  Holders(s, a)' <= str[s].refcnt[a]
    BY <1>2, <1>7 DEF RefsOK
  <2>2. Holders(s, a) <= str[s].refcnt[a] /\ Holders(s, a)' <= Holders(s, a)
    BY <1>5, <1>6, <2>1 DEF StreamOK, RefsOK
  <2>3. str[s].refcnt[a] \in Nat /\ Holders(s, a) \in Nat
    BY <1>1, <1>5, Types, HolderTypes
  <2>4. Holders(s, a)' \in Nat
    BY <1>1, <1>3, HolderTypesNext
  <2> QED BY <2>2, <2>3, <2>4
<1>11. ExclOK(s)'
  BY <1>2, <1>5, <1>7 DEF StreamOK, ExclOK
<1>12. FreeOK(s)'
  <2>1. NoneOf(s) /\ str[s].state # "ACTIVE" => NoneOf(s)'
    BY <1>2 DEF NoneOf
  <2>2. PlaceOK(s) /\ (FreeOK(s))
    BY <1>5 DEF StreamOK
  <2>3. ~NoneOf(s)
    BY DEF NoneOf, s
  <2>4. Starting(s) => str[s].state = "REG"
    BY <2>2 DEF PlaceOK, Starting
  <2> QED BY <1>2, <1>7, <2>2, <2>3, <2>4 DEF FreeOK
<1>13. Steady => WhereOK(s)'
  <2>1. SUFFICES ASSUME Steady, Live(s) PROVE WhereOK(s)'
    BY <1>7 DEF WhereOK
  <2>2. /\ \A a \in Bufs : str[s].refcnt[a] = Holders(s, a)
        /\ \A a \in Bufs : drv[s].on \/ Starting(s) =>
             a \in InDriver(s) \/ PollHas(s, a) \/ Holders(s, a) > 0
        /\ \A a \in Bufs : a \in Items(str[s].cmdq) => <<s, a, "app">> \notin hold \cup returning
        /\ \A a \in Bufs : Cardinality(At1(str[s].cmdq, a)) <= 1
        /\ \A g \in hold : g[1] = s => g \notin returning
        /\ Starting(s) => NoneOf(s)
    BY <1>5, <2>1 DEF StreamOK, WhereOK
  <2>3. ~Starting(s) /\ str[s].state = "ACTIVE" /\ h \notin returning
    BY <2>1, <2>2 DEF NoneOf, Live, s
  <2>4. \A a \in Bufs : Holders(s, a)' = Holders(s, a)
    BY <1>6, <2>3
  <2>5. hold' \cup returning' \subseteq hold \cup returning
    BY <1>2
  <2>6. \A g \in hold' : g[1] = s => g \notin returning'
    BY <1>2, <2>2
  <2> QED BY <1>2, <1>7, <2>2, <2>3, <2>4, <2>5, <2>6 DEF WhereOK
<1>14. StreamOK(s)'
  BY <1>8, <1>9, <1>10, <1>11, <1>12, <1>13 DEF StreamOK, Polled, Exact, Steady
<1> QED BY <1>3, <1>4, <1>14 DEF Inv

\* A return ends: mm_stream_buf_done.
LEMMA ReturnDoneStep ==
  ASSUME Inv, ~crashed, NEW h \in returning, ReturnDone(h)
  PROVE  Inv'
<1> DEFINE s == h[1]
           b == h[2]
<1>1. /\ hold \subseteq Ref /\ returning \subseteq Ref /\ h \in Ref /\ s \in Streams /\ b \in Bufs
      /\ str \in [Streams -> StreamRec]
  BY DEF Inv, TypeOK, Ref
<1>2. /\ UNCHANGED <<ctl, bundle, hold, crashed>> /\ returning' = returning \ {h}
      /\ BufDone(s, b, str[s])
  BY DEF ReturnDone
<1> HIDE DEF s, b
<1>3. StreamOK(s) /\ TypeOK
  BY <1>1 DEF Inv
<1>4. BufDone(s, b, str[s]) /\ str[s] \in StreamRec
  BY <1>1, <1>2
<1>5. str'[s].cmdq = str[s].cmdq /\ str'[s].disp = str[s].disp
  BY <1>1, <1>3, <1>4, BufDoneFacts
<1>6. ASSUME NEW a \in Bufs
      PROVE  IF a = b THEN Holders(s, a) = Holders(s, a)' + 1 /\ Holders(s, a)' \in Nat
                      ELSE Holders(s, a)' = Holders(s, a)
  <2> DEFINE x == Cardinality(With(hold, s, a))
             y == Cardinality(With(returning, s, a))
             u == Cardinality(At1(str[s].cmdq, a))
             v == Here(str[s].disp, a)
             q == Cardinality(With(returning', s, a))
  <2>1. x \in Nat /\ y \in Nat /\ u \in Nat /\ v \in Nat
    BY <1>1, <1>3, HolderTypes
  <2>2. Holders(s, a) = x + y + u + v
    BY <1>1, HoldersAre
  <2>3. returning' \subseteq Ref
    BY <1>1, <1>2
  <2>4. q \in Nat
    BY <1>1, <2>3, WithFinite
  <2>5. Holders(s, a)' = x + q + u + v
    BY <1>1, <1>2, <1>5, HoldersAreNext
  <2>6. IF a = b THEN q = y - 1 ELSE q = y
    BY <1>1, <1>2, WithDrop DEF s, b
  <2> HIDE DEF x, y, u, v, q
  <2> QED BY <2>1, <2>2, <2>4, <2>5, <2>6
<1>7. /\ Holders(s, b) = Holders(s, b)' + 1 /\ Holders(s, b)' \in Nat
      /\ \A a \in Bufs \ {b} : Holders(s, a)' = Holders(s, a)
  BY <1>1, <1>6
<1>8. \A g \in Ref : g[1] # s => (g \in returning' <=> g \in returning)
  BY <1>2 DEF s
<1>9. UNCHANGED <<ctl, bundle, hold, crashed>> /\ returning' \subseteq returning
  BY <1>2
<1> QED BY <1>1, <1>4, <1>7, <1>8, <1>9, DoneStep

\* A return that is too late: the program goes no further.
LEMMA StaleReturnStep ==
  ASSUME Inv, ~crashed, NEW s \in Streams, StaleReturn(s)
  PROVE  Inv'
<1>1. UNCHANGED <<str, drv, pt, ctl, bundle, hold, returning>> /\ crashed' = TRUE
  BY DEF StaleReturn
<1>2. TypeOK' /\ CtlOK' /\ PollOK'
  BY <1>1 DEF Inv, TypeOK, CtlOK, PollOK, Synced
<1>3. ASSUME NEW t \in Streams PROVE StreamOK(t)'
  <2>1. StreamOK(t)
    BY DEF Inv
  <2>2. /\ Live(t)' = Live(t) /\ Starting(t)' = Starting(t) /\ Deq(t)' = Deq(t)
        /\ Filled(t)' = Filled(t) /\ InDriver(t)' = InDriver(t)
        /\ \A a \in Bufs : Holders(t, a)' = Holders(t, a) /\ PollHas(t, a)' = PollHas(t, a)
    BY <1>1 DEF Live, Starting, Deq, Filled, InDriver, Holders, PollHas
  <2>3. CountOK(t)' /\ (Polled => ListOK(t)')
    BY <1>1, <2>1, <2>2 DEF StreamOK, CountOK, ListOK
  <2>4. RefsOK(t)' /\ ExclOK(t)'
    <3>1. RefsOK(t)'
      BY <1>1, <2>1, <2>2 DEF StreamOK, RefsOK
    <3>2. ExclOK(t)'
      BY <1>1, <2>1, <2>2 DEF StreamOK, ExclOK, PollHas
    <3> QED BY <3>1, <3>2
  <2>5. Exact => ExactOK(t)'
    BY <1>1, <2>1, <2>2 DEF StreamOK, ExactOK
  <2>6. Steady => WhereOK(t)'
    BY <1>1, <2>1, <2>2 DEF StreamOK, WhereOK, NoneOf
  <2> QED BY <1>1, <2>3, <2>4, <2>5, <2>6 DEF StreamOK, Polled, Exact, Steady
<1> QED BY <1>2, <1>3 DEF Inv

\* The command thread drops its reference after the callback.
LEMMA DispatchedStep ==
  ASSUME Inv, ~crashed, NEW s \in Streams, Dispatched(s)
  PROVE  Inv'
<1>1. /\ str[s] \in StreamRec /\ TypeOK /\ str[s].disp \in Bufs \cup {None}
  BY Types DEF Inv
<1>2. PICK b \in Bufs : b = str[s].disp
  BY <1>1 DEF Dispatched
<1>3. PICK x : x = [str[s] EXCEPT !.disp = None]
  OBVIOUS
<1>4. /\ x \in StreamRec /\ x.state = str[s].state /\ x.refcnt = str[s].refcnt /\ x.count = str[s].count
      /\ x.alive = str[s].alive /\ x.cmdq = str[s].cmdq /\ x.disp = None
  BY <1>1, <1>3 DEF StreamRec
<1>5. BufDone(s, b, x) /\ UNCHANGED <<ctl, bundle, hold, returning, crashed>>
  BY <1>2, <1>3 DEF Dispatched
<1>6. str'[s].cmdq = str[s].cmdq /\ str'[s].disp = None
  BY <1>1, <1>4, <1>5, BufDoneFacts
<1>7. ASSUME NEW a \in Bufs
      PROVE  IF a = b THEN Holders(s, a) = Holders(s, a)' + 1 /\ Holders(s, a)' \in Nat
                      ELSE Holders(s, a)' = Holders(s, a)
  <2> DEFINE y == Cardinality(With(hold, s, a)) + Cardinality(With(returning, s, a))
                    + Cardinality(At1(str[s].cmdq, a))
  <2>1. y \in Nat
    BY <1>1, HolderTypes
  <2>2. Holders(s, a) = y + Here(b, a)
    BY <1>2, HoldersAre
  <2>3. Holders(s, a)' = y + Here(None, a)
    BY <1>5, <1>6, HoldersAreNext
  <2>4. Here(None, a) = 0 /\ Here(b, a) = IF a = b THEN 1 ELSE 0
    BY SpFacts DEF Here
  <2> HIDE DEF y
  <2> QED BY <2>1, <2>2, <2>3, <2>4
<1>8. /\ Holders(s, b) = Holders(s, b)' + 1 /\ Holders(s, b)' \in Nat
      /\ \A a \in Bufs \ {b} : Holders(s, a)' = Holders(s, a)
  BY <1>2, <1>7
<1>9. x.disp \in {str[s].disp, None} /\ returning' \subseteq returning
  BY <1>4, <1>5
<1> QED BY <1>4, <1>5, <1>8, <1>9, DoneStep

-----------------------------------------------------------------------------
(* The driver and the poll thread. *)

\* The references to a stream's buffers, and what its command thread has.
SameRefs(s) == /\ str'[s].refcnt = str[s].refcnt /\ str'[s].cmdq = str[s].cmdq
               /\ str'[s].disp = str[s].disp /\ hold' = hold /\ returning' = returning

\* What is said of references stays true of a stream whose references stay.
LEMMA RefsKept ==
  ASSUME NEW s \in Streams, SameRefs(s), Live(s)' => Live(s)
  PROVE  /\ \A b \in Bufs : Holders(s, b)' = Holders(s, b)
         /\ NoneOf(s)' <=> NoneOf(s)
         /\ RefsOK(s) => RefsOK(s)'
<1>1. \A b \in Bufs : Holders(s, b)' = Holders(s, b)
  BY HoldersAre, HoldersAreNext DEF SameRefs
<1>2. RefsOK(s) => RefsOK(s)'
  BY <1>1 DEF RefsOK, SameRefs
<1>3. NoneOf(s)' <=> NoneOf(s)
  BY DEF NoneOf, SameRefs
<1> QED BY <1>1, <1>2, <1>3

\* The parts of WhereOK.
LEMMA WhereParts ==
  ASSUME NEW s \in Streams, WhereOK(s), Live(s)
  PROVE  /\ \A a \in Bufs : str[s].refcnt[a] = Holders(s, a)
         /\ \A a \in Bufs : drv[s].on \/ Starting(s) =>
              a \in InDriver(s) \/ PollHas(s, a) \/ Holders(s, a) > 0
         /\ \A a \in Bufs : a \in Items(str[s].cmdq) => <<s, a, "app">> \notin hold \cup returning
         /\ \A a \in Bufs : Cardinality(At1(str[s].cmdq, a)) <= 1
         /\ \A h \in hold : h[1] = s => h \notin returning
         /\ Starting(s) => NoneOf(s)
BY DEF WhereOK

\* A buffer stays somewhere if it only moves between the driver and the poll
\* thread.
LEMMA WhereKept ==
  ASSUME NEW s \in Streams, SameRefs(s), WhereOK(s), Live(s)' => Live(s), Starting(s)' => Starting(s),
         drv'[s].on \/ Starting(s)' =>
           /\ drv[s].on \/ Starting(s)
           /\ \A b \in Bufs : b \in InDriver(s) \/ PollHas(s, b) => b \in InDriver(s)' \/ PollHas(s, b)'
  PROVE  WhereOK(s)'
<1>1. SUFFICES ASSUME Live(s)' PROVE WhereOK(s)'
  BY DEF WhereOK
<1>2. Live(s)
  BY <1>1
<1>3. /\ \A b \in Bufs : Holders(s, b)' = Holders(s, b)
      /\ NoneOf(s)' <=> NoneOf(s)
  BY <1>2, RefsKept
<1>4. \A a \in Bufs : str'[s].refcnt[a] = Holders(s, a)'
  BY <1>2, <1>3, WhereParts DEF SameRefs
<1>5. \A a \in Bufs : drv'[s].on \/ Starting(s)' =>
        a \in InDriver(s)' \/ PollHas(s, a)' \/ Holders(s, a)' > 0
  BY <1>2, <1>3, WhereParts
<1>6. /\ \A a \in Bufs : a \in Items(str'[s].cmdq) => <<s, a, "app">> \notin hold' \cup returning'
      /\ \A a \in Bufs : Cardinality(At1(str'[s].cmdq, a)) <= 1
      /\ \A h \in hold' : h[1] = s => h \notin returning'
  BY <1>2, WhereParts DEF SameRefs
<1>7. Starting(s)' => NoneOf(s)'
  BY <1>2, <1>3, WhereParts
<1> QED BY <1>4, <1>5, <1>6, <1>7 DEF WhereOK

\* What the driver has are buffers.
LEMMA DriverHasBufs ==
  ASSUME TypeOK, NEW s \in Streams
  PROVE  InDriver(s) \subseteq Bufs
<1>1. drv[s].queued \subseteq Bufs /\ drv[s].done \in Seq(Bufs)
  BY Types
<1>2. Items(drv[s].done) \subseteq Bufs
  BY <1>1 DEF Items
<1> QED BY <1>1, <1>2, FilledAre

\* The driver fills a queued buffer.
LEMMA FillStep ==
  ASSUME Inv, ~crashed, NEW s \in Streams, Fill(s)
  PROVE  Inv'
<1>1. PICK b \in drv[s].queued :
        drv' = [drv EXCEPT ![s].queued = @ \ {b}, ![s].done = Append(@, b)]
  BY DEF Fill
<1>2. /\ UNCHANGED <<str, pt, ctl, bundle, hold, returning, crashed>>
      /\ drv[s].on
  BY DEF Fill
<1>3. StreamOK(s) /\ TypeOK
  BY DEF Inv
<1>4. /\ drv \in [Streams -> [queued : SUBSET Bufs, done : Seq(Bufs), on : BOOLEAN]]
      /\ b \in Bufs /\ drv[s].done \in Seq(Bufs)
  BY <1>3, Types DEF TypeOK
<1>5. /\ Append(drv[s].done, b) \in Seq(Bufs) /\ Len(Append(drv[s].done, b)) = Len(drv[s].done) + 1
      /\ Items(Append(drv[s].done, b)) = Items(drv[s].done) \cup {b}
      /\ Distinct(drv[s].done) /\ b \notin Items(drv[s].done) => Distinct(Append(drv[s].done, b))
  BY <1>4, FilledAppend
<1>6. /\ drv' \in [Streams -> [queued : SUBSET Bufs, done : Seq(Bufs), on : BOOLEAN]]
      /\ \A t \in Streams \ {s} : drv'[t] = drv[t]
      /\ drv'[s].queued = drv[s].queued \ {b} /\ drv'[s].done = Append(drv[s].done, b)
      /\ drv'[s].on
  BY <1>1, <1>2, <1>4, <1>5
<1>7. TypeOK' /\ CtlOK' /\ PollOK'
  BY <1>2, <1>6 DEF Inv, TypeOK, CtlOK, PollOK, Synced
<1>8. ASSUME NEW t \in Streams, t # s PROVE StreamOK(t)'
  <2>1. Untouched(t)
    BY <1>2, <1>6, <1>8 DEF Untouched
  <2> QED BY <1>7, <1>8, <2>1, Kept DEF Inv
<1>9. /\ Live(s)' <=> Live(s)
      /\ Starting(s)' <=> Starting(s)
      /\ \A a : PollHas(s, a)' <=> PollHas(s, a)
      /\ Deq(s)' = Deq(s)
      /\ SameRefs(s)
      /\ str[s].state = "ACTIVE"
  BY <1>2, <1>3 DEF Live, Starting, PollHas, Deq, SameRefs, StreamOK, CountOK
<1>10. InDriver(s)' = InDriver(s)
  <2>1. InDriver(s)' = (drv[s].queued \ {b}) \cup (Items(drv[s].done) \cup {b})
    BY <1>5, <1>6, FilledAre
  <2> QED BY <2>1, FilledAre
<1>11. Cardinality(drv'[s].queued) + Len(drv'[s].done) + Deq(s)'
         = Cardinality(drv[s].queued) + Len(drv[s].done) + Deq(s)
  <2>1. Cardinality(drv'[s].queued) = Cardinality(drv[s].queued) - 1
    <3>1. IsFiniteSet(drv[s].queued)
      BY <1>3, Types
    <3>2. Cardinality(drv[s].queued \ {b}) = Cardinality(drv[s].queued) - 1
      BY <3>1, FS_RemoveElement
    <3> QED BY <1>6, <3>2
  <2>2. Cardinality(drv[s].queued) \in Nat /\ Len(drv[s].done) \in Nat /\ Deq(s) \in Int
    BY <1>3, Types
  <2> QED BY <1>5, <1>6, <1>9, <2>1, <2>2
<1>12. PlaceOK(s)' /\ CountOK(s)'
  BY <1>2, <1>3, <1>6, <1>9, <1>11 DEF StreamOK, PlaceOK, CountOK
<1>13. (Polled => ListOK(s)') /\ (Exact => ExactOK(s)')
  BY <1>2, <1>3, <1>6, <1>9, <1>11 DEF StreamOK, ListOK, ExactOK
<1>14. RefsOK(s)' /\ FreeOK(s)'
  BY <1>2, <1>3, <1>9, RefsKept DEF StreamOK, FreeOK
<1>15. ExclOK(s)'
  <2>1. SUFFICES ASSUME Live(s) PROVE ExclOK(s)'
    BY <1>9 DEF ExclOK
  <2>2. drv[s].queued \cap Items(drv[s].done) = {} /\ Distinct(drv[s].done)
    BY <1>3, <2>1, FilledAre DEF StreamOK, ExclOK
  <2>3. drv'[s].queued \cap Filled(s)' = {} /\ Distinct(drv'[s].done)
    <3>1. b \notin Items(drv[s].done)
      BY <2>2
    <3> QED BY <1>5, <1>6, <2>2, <3>1, FilledAre
  <2>4. /\ \A a \in InDriver(s) : str[s].refcnt[a] = 0 /\ ~PollHas(s, a)
        /\ \A a \in Bufs : PollHas(s, a) => str[s].refcnt[a] = 0
    BY <1>3, <2>1 DEF StreamOK, ExclOK
  <2> QED BY <1>2, <1>9, <1>10, <2>3, <2>4 DEF ExclOK
<1>16. Steady => WhereOK(s)'
  BY <1>2, <1>3, <1>6, <1>9, <1>10, WhereKept DEF StreamOK
<1>17. StreamOK(s)'
  BY <1>12, <1>13, <1>14, <1>15, <1>16 DEF StreamOK, Polled, Exact, Steady
<1> QED BY <1>7, <1>8, <1>17 DEF Inv

\* A stream is visited: a frame is dequeued, or there is nothing to do.
LEMMA NotifyStep ==
  ASSUME Inv, ~crashed, NEW s \in Streams, Notify(s)
  PROVE  Inv'
<1>1. /\ UNCHANGED <<str, ctl, bundle, hold, returning, crashed>> /\ pt.pc = "notify" /\ s \in pt.ready
      /\ pt \in PollRec /\ StreamOK(s) /\ TypeOK
  BY DEF Notify, Inv, TypeOK
<1>2. pt.s = None /\ pt.b = None
  BY <1>1 DEF Inv, PollOK
<1>3. CASE ~(s \in pt.entries /\ str[s].state = "ACTIVE" /\ drv[s].done # <<>>)
  <2>1. drv' = drv /\ pt' = [pt EXCEPT !.ready = @ \ {s}]
    BY <1>3 DEF Notify
  <2>2. pt' = [pt EXCEPT !.pc = "notify", !.ready = pt.ready \ {s}] /\ pt.ready \ {s} \in SUBSET Streams
    BY <1>1, <2>1 DEF PollRec
  <2> QED BY <1>1, <2>1, <2>2, PollMoves
<1>4. CASE s \in pt.entries /\ str[s].state = "ACTIVE" /\ drv[s].done # <<>>
  <2>1. PICK b : b = Head(drv[s].done)
    OBVIOUS
  <2>2. /\ drv \in [Streams -> [queued : SUBSET Bufs, done : Seq(Bufs), on : BOOLEAN]]
        /\ drv[s].done \in Seq(Bufs)
    BY <1>1, Types DEF TypeOK
  <2>3. /\ b \in Bufs /\ b \in Items(drv[s].done) /\ Tail(drv[s].done) \in Seq(Bufs)
        /\ Len(Tail(drv[s].done)) = Len(drv[s].done) - 1
        /\ Items(drv[s].done) = Items(Tail(drv[s].done)) \cup {b}
        /\ Distinct(drv[s].done) => Distinct(Tail(drv[s].done)) /\ b \notin Items(Tail(drv[s].done))
    BY <1>4, <2>1, <2>2, FilledTail
  <2>4. /\ drv' = [drv EXCEPT ![s].done = Tail(drv[s].done)]
        /\ pt' = [pt EXCEPT !.ready = pt.ready \ {s}, !.pc = "dequeued", !.s = s, !.b = b]
    BY <1>4, <2>1, <2>2 DEF Notify
  <2>5. /\ drv' \in [Streams -> [queued : SUBSET Bufs, done : Seq(Bufs), on : BOOLEAN]]
        /\ \A t \in Streams \ {s} : drv'[t] = drv[t]
        /\ drv'[s].queued = drv[s].queued /\ drv'[s].done = Tail(drv[s].done)
        /\ drv'[s].on = drv[s].on
    BY <2>2, <2>3, <2>4
  <2>6. /\ pt' \in PollRec /\ pt'.entries = pt.entries /\ pt'.pipe = pt.pipe /\ pt'.fds = pt.fds
        /\ pt'.pc = "dequeued" /\ pt'.s = s /\ pt'.b = b
    <3> DEFINE mid == [pt EXCEPT !.ready = pt.ready \ {s}, !.pc = "dequeued"]
    <3>1. /\ mid \in PollRec /\ mid.entries = pt.entries /\ mid.pipe = pt.pipe /\ mid.fds = pt.fds
          /\ mid.pc = "dequeued"
      BY <1>1 DEF PollRec
    <3>2. pt' = [mid EXCEPT !.s = s, !.b = b]
      BY <1>1, <2>4 DEF PollRec
    <3> HIDE DEF mid
    <3> QED BY <2>3, <3>1, <3>2 DEF PollRec
  <2>7. TypeOK' /\ CtlOK' /\ PollOK'
    <3>1. s # None /\ b # None
      BY <2>3, SpFacts
    <3>2. Synced(pt)'
      BY <2>6 DEF Inv, PollOK, Synced
    <3> QED BY <1>1, <2>5, <2>6, <3>1, <3>2 DEF Inv, TypeOK, CtlOK, PollOK
  <2>8. ASSUME NEW t \in Streams, t # s PROVE StreamOK(t)'
    <3>1. Untouched(t)
      BY <1>1, <1>2, <2>5, <2>6, <2>8, SpFacts DEF Untouched
    <3> QED BY <2>7, <2>8, <3>1, Kept DEF Inv
  <2>9. /\ Live(s)' /\ Live(s)
        /\ Starting(s)' <=> Starting(s)
        /\ \A a : PollHas(s, a)' <=> a = b
        /\ \A a \in Bufs : ~PollHas(s, a)
        /\ Deq(s)' = 1 /\ Deq(s) = 0
        /\ SameRefs(s)
    BY <1>1, <1>2, <1>4, <2>6, SpFacts DEF Live, Starting, PollHas, Deq, SameRefs
  <2>10. InDriver(s) = InDriver(s)' \cup {b}
    BY <2>3, <2>5, FilledAre
  <2>11. Cardinality(drv'[s].queued) + Len(drv'[s].done) + Deq(s)'
           = Cardinality(drv[s].queued) + Len(drv[s].done) + Deq(s)
    <3>1. Cardinality(drv[s].queued) \in Nat /\ Len(drv[s].done) \in Nat
      BY <1>1, Types
    <3>2. Cardinality(drv'[s].queued) = Cardinality(drv[s].queued) /\ Len(drv'[s].done) = Len(drv[s].done) - 1
      BY <2>3, <2>5
    <3> QED BY <2>9, <3>1, <3>2
  <2>12. PlaceOK(s)' /\ CountOK(s)'
    BY <1>1, <1>4, <2>5, <2>9, <2>11 DEF StreamOK, PlaceOK, CountOK
  <2>13. (Polled => ListOK(s)') /\ (Exact => ExactOK(s)')
    BY <1>1, <2>5, <2>6, <2>9, <2>11 DEF StreamOK, ListOK, ExactOK
  <2>14. RefsOK(s)' /\ FreeOK(s)'
    BY <1>1, <2>9, RefsKept DEF StreamOK, FreeOK
  <2>15. ExclOK(s)'
    <3>2. drv[s].queued \cap Items(drv[s].done) = {} /\ Distinct(drv[s].done)
      BY <1>1, <2>9, FilledAre DEF StreamOK, ExclOK
    <3>3. drv'[s].queued \cap Filled(s)' = {} /\ Distinct(drv'[s].done) /\ b \notin InDriver(s)'
      BY <2>3, <2>5, <3>2, FilledAre
    <3>4. \A a \in InDriver(s) : str[s].refcnt[a] = 0
      BY <1>1, <2>9 DEF StreamOK, ExclOK
    <3> QED BY <1>1, <2>9, <2>10, <3>3, <3>4 DEF ExclOK
  <2>16. Steady => WhereOK(s)'
    BY <1>1, <2>5, <2>9, <2>10, WhereKept DEF StreamOK
  <2>17. StreamOK(s)'
    BY <2>12, <2>13, <2>14, <2>15, <2>16 DEF StreamOK, Polled, Exact, Steady
  <2> QED BY <2>7, <2>8, <2>17 DEF Inv
<1> QED BY <1>3, <1>4

\* The dequeued buffer is counted down; the last one takes the stream off the
\* list.
LEMMA CountDownStep ==
  ASSUME Inv, ~crashed, CountDown
  PROVE  Inv'
<1>1. /\ pt.pc = "dequeued" /\ pt \in PollRec /\ TypeOK
      /\ UNCHANGED <<drv, ctl, bundle, hold, returning, crashed>>
  BY DEF CountDown, Inv, TypeOK
<1>2. PICK s \in Streams : s = pt.s
  BY <1>1 DEF Inv, PollOK, PollRec
<1>3. StreamOK(s) /\ Synced(pt)
  BY DEF Inv, PollOK
<1>4. /\ str \in [Streams -> StreamRec] /\ str[s].count \in Nat /\ str[s].count - 1 \in Nat
      /\ Deq(s) = 1
  <2>1. str[s].count \in Nat /\ Cardinality(drv[s].queued) \in Nat /\ Len(drv[s].done) \in Nat
    BY <1>1, Types
  <2>2. Deq(s) = 1
    BY <1>1, <1>2 DEF Deq
  <2>3. Cardinality(drv[s].queued) + Len(drv[s].done) + 1 <= str[s].count
    BY <1>3, <2>2 DEF StreamOK, CountOK
  <2> QED BY <1>1, <2>1, <2>2, <2>3 DEF TypeOK
<1> DEFINE p == IF str[s].count = 1 THEN DelPollFd(pt, s, "ENTRIES_UPDATED_ASYNC") ELSE pt
<1>5. str' = [str EXCEPT ![s].count = @ - 1] /\ pt' = [p EXCEPT !.pc = "file"]
  BY <1>2 DEF CountDown
<1>6. /\ str' \in [Streams -> StreamRec] /\ str'[s].count = str[s].count - 1
      /\ \A t \in Streams \ {s} : str'[t] = str[t]
      /\ str'[s].state = str[s].state /\ str'[s].alive = str[s].alive /\ str'[s].refcnt = str[s].refcnt
      /\ str'[s].cmdq = str[s].cmdq /\ str'[s].disp = str[s].disp
  BY <1>4, <1>5 DEF StreamRec
<1>7. /\ p \in PollRec /\ SamePlace(p, pt) /\ Synced(p)
      /\ p.entries = IF str[s].count = 1 THEN pt.entries \ {s} ELSE pt.entries
  BY <1>1, <1>3, DelFacts DEF SamePlace
<1> HIDE DEF p
<1>8. /\ pt' \in PollRec /\ pt'.entries = p.entries /\ pt'.pipe = p.pipe /\ pt'.fds = p.fds
      /\ pt'.pc = "file" /\ pt'.s = p.s /\ pt'.b = p.b
  BY <1>5, <1>7 DEF PollRec
<1>9. pt'.s = s /\ pt'.b = pt.b /\ Synced(pt)'
  BY <1>2, <1>7, <1>8 DEF SamePlace, Synced
<1>10. TypeOK' /\ CtlOK' /\ PollOK'
  BY <1>1, <1>2, <1>6, <1>8, <1>9 DEF Inv, TypeOK, CtlOK, PollOK
<1>11. ASSUME NEW t \in Streams, t # s PROVE StreamOK(t)'
  <2>1. Untouched(t)
    BY <1>1, <1>2, <1>6, <1>7, <1>8, <1>9, <1>11 DEF Untouched
  <2> QED BY <1>10, <1>11, <2>1, Kept DEF Inv
<1>12. /\ Live(s)' <=> Live(s)
       /\ Starting(s)' <=> Starting(s)
       /\ \A a : PollHas(s, a)' <=> PollHas(s, a)
       /\ Deq(s)' = 0
       /\ SameRefs(s) /\ drv'[s] = drv[s]
       /\ InDriver(s)' = InDriver(s) /\ Filled(s)' = Filled(s)
  BY <1>1, <1>2, <1>6, <1>8, <1>9, FilledAre DEF Live, Starting, PollHas, Deq, SameRefs
<1>13. /\ Cardinality(drv[s].queued) + Len(drv[s].done) + Deq(s) <= str[s].count =>
             Cardinality(drv[s].queued) + Len(drv[s].done) + Deq(s)' <= str'[s].count
       /\ Cardinality(drv[s].queued) + Len(drv[s].done) + Deq(s) = str[s].count =>
             Cardinality(drv[s].queued) + Len(drv[s].done) + Deq(s)' = str'[s].count
  <2>1. Cardinality(drv[s].queued) \in Nat /\ Len(drv[s].done) \in Nat
    BY <1>1, Types
  <2> QED BY <1>4, <1>6, <1>12, <2>1
<1>14. PlaceOK(s)' /\ CountOK(s)'
  BY <1>1, <1>2, <1>3, <1>6, <1>9, <1>12, <1>13 DEF StreamOK, PlaceOK, CountOK
<1>15. Exact => ExactOK(s)'
  BY <1>1, <1>3, <1>12, <1>13 DEF StreamOK, ExactOK
<1>16. Polled => ListOK(s)'
  <2>1. ListOK(s) => ((drv[s].on /\ ctl.s # s) \/ Starting(s) => (s \in pt.entries <=> str[s].count > 0))
    BY DEF ListOK
  <2>2. str[s].count = 1 => s \notin pt'.entries /\ str'[s].count = 0
    BY <1>6, <1>7, <1>8
  <2>3. str[s].count # 1 => (s \in pt'.entries <=> s \in pt.entries) /\ str'[s].count > 0 /\ str[s].count > 0
    BY <1>4, <1>6, <1>7, <1>8
  <2> QED BY <1>1, <1>3, <1>6, <1>12, <2>1, <2>2, <2>3 DEF StreamOK, ListOK
<1>17. RefsOK(s)' /\ FreeOK(s)'
  BY <1>1, <1>3, <1>6, <1>12, RefsKept DEF StreamOK, FreeOK
<1>18. ExclOK(s)'
  BY <1>1, <1>3, <1>6, <1>12 DEF StreamOK, ExclOK
<1>19. Steady => WhereOK(s)'
  BY <1>1, <1>3, <1>12, WhereKept DEF StreamOK
<1>20. StreamOK(s)'
  BY <1>14, <1>15, <1>16, <1>17, <1>18, <1>19 DEF StreamOK, Polled, Exact, Steady
<1> QED BY <1>10, <1>11, <1>20 DEF Inv

-----------------------------------------------------------------------------
(* Frames go to the threads. *)

\* What is on a queue, by its number of copies.
LEMMA OnQueue ==
  ASSUME NEW q \in Seq(Bufs), NEW b
  PROVE  b \in Items(q) <=> Cardinality(At1(q, b)) > 0
<1>1. b \in Items(q) => Cardinality(At1(q, b)) > 0
  BY CopiesSome DEF Items
<1>2. b \notin Items(q) => Cardinality(At1(q, b)) = 0
  <2>1. b \notin Items(q) => At1(q, b) = {}
    BY DEF Items, At1
  <2> QED BY <2>1, FS_EmptySet
<1> QED BY <1>1, <1>2

\* A buffer nobody holds is nowhere.
LEMMA NoHolders ==
  ASSUME TypeOK, NEW s \in Streams, NEW b \in Bufs, Holders(s, b) = 0
  PROVE  /\ \A h \in hold \cup returning : ~(h[1] = s /\ h[2] = b)
         /\ b \notin Items(str[s].cmdq) /\ Cardinality(At1(str[s].cmdq, b)) = 0
<1>1. /\ hold \subseteq Ref /\ returning \subseteq Ref /\ str[s].cmdq \in Seq(Bufs)
  BY Types DEF TypeOK
<1> DEFINE x == Cardinality(With(hold, s, b))
           y == Cardinality(With(returning, s, b))
           u == Cardinality(At1(str[s].cmdq, b))
           v == Here(str[s].disp, b)
<1>2. x = 0 /\ y = 0 /\ u = 0
  <2>1. x \in Nat /\ y \in Nat /\ u \in Nat /\ v \in Nat
    BY HolderTypes
  <2>2. x + y + u + v = 0
    BY HoldersAre
  <2> HIDE DEF x, y, u, v
  <2> QED BY <2>1, <2>2
<1>3. \A h \in hold \cup returning : ~(h[1] = s /\ h[2] = b)
  BY <1>1, <1>2, WithSome
<1> QED BY <1>1, <1>2, <1>3, OnQueue

\* The frame is filed with a reference for each thread that gets it.
LEMMA FileStep ==
  ASSUME Inv, ~crashed, File
  PROVE  Inv'
<1>1. /\ pt.pc = "file" /\ pt \in PollRec /\ TypeOK
      /\ UNCHANGED <<drv, ctl, bundle, returning>>
      /\ pt' = [pt EXCEPT !.pc = "notify", !.s = None, !.b = None]
  BY DEF File, Inv, TypeOK
<1>2. PICK s \in Streams, b \in Bufs : s = pt.s /\ b = pt.b
  BY <1>1 DEF Inv, PollOK, PollRec
<1>3. StreamOK(s) /\ Synced(pt)
  BY DEF Inv, PollOK
<1>4. /\ pt' \in PollRec /\ pt'.entries = pt.entries /\ pt'.pipe = pt.pipe /\ pt'.fds = pt.fds
      /\ pt'.pc = "notify" /\ pt'.s = None /\ pt'.b = None
  BY <1>1 DEF PollRec
<1>5. CtlOK' /\ PollOK'
  BY <1>1, <1>3, <1>4 DEF Inv, CtlOK, PollOK, Synced
<1>6. /\ Starting(s)' <=> Starting(s)
      /\ \A a : ~PollHas(s, a)'
      /\ PollHas(s, b) /\ \A a : PollHas(s, a) => a = b
      /\ Deq(s)' = 0 /\ Deq(s) = 0
      /\ drv'[s] = drv[s] /\ InDriver(s)' = InDriver(s) /\ Filled(s)' = Filled(s)
  BY <1>1, <1>2, <1>4, SpFacts, FilledAre DEF Starting, PollHas, Deq
<1>7. ctl.s = s => ctl.step \notin {"reg", "start"}
  <2>1. PlaceOK(s)
    BY <1>3 DEF StreamOK
  <2> QED BY <1>2, <2>1 DEF PlaceOK, Inv, CtlOK
<1>8. CASE /\ UNCHANGED <<str, hold>>
           /\ \/ str[s].state = "CFG" /\ crashed' = TRUE
              \/ "cache" \in Failures /\ UNCHANGED crashed
  <2>1. TypeOK'
    BY <1>1, <1>4, <1>8 DEF Inv, TypeOK
  <2>2. ASSUME NEW t \in Streams, t # s PROVE StreamOK(t)'
    <3>1. Untouched(t)
      BY <1>1, <1>2, <1>4, <1>8, <2>2, SpFacts DEF Untouched
    <3> QED BY <2>1, <2>2, <3>1, Kept DEF Inv
  <2>3. (Live(s)' <=> Live(s)) /\ SameRefs(s)
    BY <1>1, <1>6, <1>8 DEF Live, SameRefs
  <2>4. crashed' \/ PlaceOK(s)'
    BY <1>1, <1>3, <1>4, <1>6, <1>8, SpFacts DEF StreamOK, PlaceOK
  <2>5. CountOK(s)' /\ (Polled => ListOK(s)') /\ (Exact => ExactOK(s)')
    BY <1>1, <1>3, <1>4, <1>6, <1>8 DEF StreamOK, CountOK, ListOK, ExactOK
  <2>6. RefsOK(s)' /\ (crashed' \/ FreeOK(s)')
    BY <1>1, <1>3, <1>6, <1>8, <2>3, RefsKept DEF StreamOK, FreeOK
  <2>7. ExclOK(s)'
    BY <1>1, <1>3, <1>6, <1>8, <2>3 DEF StreamOK, ExclOK
  <2>8. Steady => WhereOK(s)'
    <3>1. CASE str[s].state = "CFG"
      BY <1>6, <1>7, <2>3, <3>1 DEF WhereOK, Live, Starting
    <3>2. CASE "cache" \in Failures
      BY <3>2 DEF Steady
    <3> QED BY <1>8, <3>1, <3>2
  <2>9. StreamOK(s)'
    BY <2>4, <2>5, <2>6, <2>7, <2>8 DEF StreamOK, Polled, Exact, Steady
  <2> QED BY <1>5, <2>1, <2>2, <2>9 DEF Inv
<1> DEFINE shared == s \in Bundled
           own    == s \in HasCb
           n      == (IF shared THEN 1 ELSE 0) + (IF own THEN 1 ELSE 0)
           Filed(toBundle, toOwn) ==
             /\ str[s].state # "CFG"
             /\ str' = [str EXCEPT ![s].refcnt[b] = @ + n,
                                   ![s].cmdq = IF own /\ toOwn THEN Append(@, b) ELSE @]
             /\ hold' = IF shared /\ toBundle THEN hold \cup {<<s, b, "bundle">>} ELSE hold
             /\ crashed' = \/ shared /\ toBundle /\ ~bundle.alive
                           \/ own /\ toOwn /\ ~str[s].alive
<1>9. CASE \E toBundle, toOwn \in Ok("malloc") : Filed(toBundle, toOwn)
  <2>1. PICK toBundle \in BOOLEAN, toOwn \in BOOLEAN :
          /\ Filed(toBundle, toOwn)
          /\ "malloc" \notin Failures => toBundle /\ toOwn
    BY <1>9 DEF Ok
  <2>2. PICK g : g = <<s, b, "bundle">>
    OBVIOUS
  <2>3. PICK nb \in {0, 1}, no \in {0, 1} :
          /\ shared /\ toBundle <=> nb = 1
          /\ own /\ toOwn <=> no = 1
    OBVIOUS
  <2>4. nb + no <= n /\ n \in Nat
    BY <2>3
  <2> HIDE DEF n
  <2>5. /\ str \in [Streams -> StreamRec] /\ str[s].cmdq \in Seq(Bufs)
        /\ str[s].refcnt \in [Bufs -> Nat] /\ Append(str[s].cmdq, b) \in Seq(Bufs)
    BY <1>1, Types, FilledAppend DEF TypeOK
  <2>6. PICK q \in Seq(Bufs) :
          /\ q = IF own /\ toOwn THEN Append(str[s].cmdq, b) ELSE str[s].cmdq
    BY <2>5
  <2>7. /\ str' \in [Streams -> StreamRec]
        /\ \A t \in Streams \ {s} : str'[t] = str[t]
        /\ str'[s].state = str[s].state /\ str'[s].alive = str[s].alive
        /\ str'[s].count = str[s].count /\ str'[s].disp = str[s].disp
        /\ str'[s].cmdq = q
        /\ str'[s].refcnt[b] = str[s].refcnt[b] + n
        /\ \A a \in Bufs \ {b} : str'[s].refcnt[a] = str[s].refcnt[a]
    <3>1. PICK r \in [Bufs -> Nat] : r = [str[s].refcnt EXCEPT ![b] = @ + n]
      <4>1. str[s].refcnt[b] + n \in Nat
        BY <2>4, <2>5
      <4> QED BY <2>5, <4>1
    <3>2. r[b] = str[s].refcnt[b] + n /\ \A a \in Bufs \ {b} : r[a] = str[s].refcnt[a]
      BY <2>5, <3>1
    <3>3. str' = [str EXCEPT ![s].refcnt[b] = @ + n, ![s].cmdq = q]
      BY <2>1, <2>6
    <3>4. str' = [str EXCEPT ![s].refcnt = r, ![s].cmdq = q]
      BY <2>5, <3>1, <3>3 DEF StreamRec
    <3>5. /\ str' \in [Streams -> StreamRec]
          /\ \A t \in Streams \ {s} : str'[t] = str[t]
          /\ str'[s].state = str[s].state /\ str'[s].alive = str[s].alive
          /\ str'[s].count = str[s].count /\ str'[s].disp = str[s].disp
          /\ str'[s].cmdq = q /\ str'[s].refcnt = r
      BY <2>5, <3>4 DEF StreamRec
    <3> QED BY <3>2, <3>5
  <2>8. /\ nb = 1 => hold' = hold \cup {g}
        /\ nb = 0 => hold' = hold
        /\ g \in Ref /\ g[1] = s /\ g[2] = b
    BY <2>1, <2>2, <2>3 DEF Ref
  <2>9. /\ no = 1 => (str[s].alive \/ crashed') /\ q = Append(str[s].cmdq, b)
        /\ no = 0 => q = str[s].cmdq
        /\ crashed' \in BOOLEAN
    BY <2>1, <2>3, <2>6
  <2>10. Steady => nb + no = n /\ n > 0
    BY <2>1, <2>3 DEF Steady, n
  <2>11. str[s].state # "CFG"
    BY <2>1
  <2> HIDE DEF Filed
  <2>12. TypeOK'
    <3>1. hold' \subseteq Ref
      BY <1>1, <2>8 DEF TypeOK
    <3> QED BY <1>1, <1>4, <2>7, <2>9, <3>1 DEF Inv, TypeOK
  <2>13. ASSUME NEW t \in Streams, t # s PROVE StreamOK(t)'
    <3>1. Untouched(t)
      BY <1>1, <1>2, <1>4, <2>7, <2>8, <2>13, SpFacts DEF Untouched
    <3> QED BY <2>12, <2>13, <3>1, Kept DEF Inv
  <2>14. (Live(s)' <=> Live(s)) /\ (Live(s) => str[s].state = "ACTIVE") /\ ~Starting(s)
    BY <1>1, <1>7, <2>7 DEF Live, Starting
  <2>15. ASSUME NEW a \in Bufs
         PROVE  /\ a # b => Holders(s, a)' = Holders(s, a)
                /\ a = b => Holders(s, a)' <= Holders(s, a) + nb + no
                /\ a = b /\ g \notin hold => Holders(s, a)' = Holders(s, a) + nb + no
                /\ Cardinality(At1(q, a)) = Cardinality(At1(str[s].cmdq, a)) + (IF a = b THEN no ELSE 0)
    <3> DEFINE x == Cardinality(With(hold, s, a))
               y == Cardinality(With(returning, s, a))
               u == Cardinality(At1(str[s].cmdq, a))
               v == Here(str[s].disp, a)
               p == Cardinality(With(hold', s, a))
               w == Cardinality(At1(q, a))
    <3>1. x \in Nat /\ y \in Nat /\ u \in Nat /\ v \in Nat
      BY <1>1, HolderTypes
    <3>2. Holders(s, a) = x + y + u + v
      BY HoldersAre
    <3>3. hold \subseteq Ref /\ hold' \subseteq Ref
      BY <1>1, <2>12 DEF TypeOK
    <3>4. p \in Nat /\ w \in Nat
      BY <3>3, WithFinite, CopiesTypes
    <3>5. Holders(s, a)' = p + y + w + v
      BY <1>1, <2>7, HoldersAreNext
    <3>6. /\ a # b => p = x
          /\ a = b => p = x \/ p = x + nb
          /\ a = b /\ g \notin hold => p = x + nb
      <4>1. CASE nb = 1
        <5>1. p = Cardinality(With(hold \cup {g}, s, a))
          BY <2>8, <4>1
        <5>2. /\ a = b /\ g \notin hold => p = x + 1
              /\ a # b \/ g \in hold => p = x
          BY <2>8, <3>3, <5>1, WithAdd
        <5> QED BY <4>1, <5>2
      <4>2. CASE nb = 0
        <5>1. p = x
          BY <2>8, <4>2
        <5> HIDE DEF p, x
        <5> QED BY <3>1, <4>2, <5>1
      <4> QED BY <2>3, <4>1, <4>2
    <3>7. IF a = b THEN w = u + no ELSE w = u
      <4>1. CASE no = 1
        <5>1. w = u + Here(b, a)
          BY <2>5, <2>9, <4>1, CopiesAppend
        <5>2. Here(b, a) = IF a = b THEN 1 ELSE 0
          BY DEF Here
        <5> HIDE DEF u, w
        <5> QED BY <3>1, <4>1, <5>1, <5>2
      <4>2. CASE no = 0
        <5>1. w = u
          BY <2>9, <4>2
        <5> HIDE DEF u, w
        <5> QED BY <3>1, <4>2, <5>1
      <4> QED BY <2>3, <4>1, <4>2
    <3> HIDE DEF x, y, u, v, p, w
    <3>8. /\ a # b => Holders(s, a)' = Holders(s, a)
          /\ a = b => Holders(s, a)' <= Holders(s, a) + nb + no
          /\ a = b /\ g \notin hold => Holders(s, a)' = Holders(s, a) + nb + no
          /\ w = u + (IF a = b THEN no ELSE 0)
      BY <2>3, <3>1, <3>2, <3>4, <3>5, <3>6, <3>7
    <3> QED BY <3>8 DEF w, u
  <2>16. crashed' \/ PlaceOK(s)'
    BY <1>1, <1>3, <1>4, <1>6, <2>3, <2>7, <2>9, SpFacts DEF StreamOK, PlaceOK
  <2>17. CountOK(s)' /\ (Polled => ListOK(s)') /\ (Exact => ExactOK(s)')
    BY <1>1, <1>3, <1>4, <1>6, <2>7 DEF StreamOK, CountOK, ListOK, ExactOK
  <2>18. FreeOK(s)'
    BY <1>1, <1>6, <1>7, <2>7, <2>11, <2>14 DEF FreeOK
  <2>19. RefsOK(s)'
    <3>1. SUFFICES ASSUME Live(s), NEW a \in Bufs
                   PROVE  Holders(s, a)' <= str'[s].refcnt[a]
      BY <2>14 DEF RefsOK
    <3>2. Holders(s, a) <= str[s].refcnt[a]
      BY <1>3, <3>1 DEF StreamOK, RefsOK
    <3>3. Holders(s, a) \in Nat /\ str[s].refcnt[a] \in Nat
      BY <1>1, <2>5, HolderTypes
    <3>4. Holders(s, a)' \in Nat
      BY <2>12, HolderTypesNext
    <3>5. CASE a = b
      <4>1. /\ Holders(s, a)' <= Holders(s, a) + nb + no
            /\ str'[s].refcnt[a] = str[s].refcnt[a] + n
        BY <2>7, <2>15, <3>5
      <4> QED BY <2>3, <2>4, <3>2, <3>3, <3>4, <4>1
    <3>6. CASE a # b
      <4>1. /\ Holders(s, a)' = Holders(s, a)
            /\ str'[s].refcnt[a] = str[s].refcnt[a]
        BY <2>7, <2>15, <3>6
      <4> QED BY <3>2, <4>1
    <3> QED BY <3>5, <3>6
  <2>20. ExclOK(s)'
    <3>1. SUFFICES ASSUME Live(s) PROVE ExclOK(s)'
      BY <2>14 DEF ExclOK
    <3>2. \A a \in InDriver(s) : str[s].refcnt[a] = 0 /\ a # b
      BY <1>3, <1>6, <3>1 DEF StreamOK, ExclOK
    <3>3. InDriver(s) \subseteq Bufs
      BY <1>1, DriverHasBufs
    <3>4. \A a \in InDriver(s)' : str'[s].refcnt[a] = 0
      BY <1>6, <2>7, <3>2, <3>3
    <3>5. drv[s].queued \cap Filled(s) = {} /\ Distinct(drv[s].done)
      BY <1>3, <3>1 DEF StreamOK, ExclOK
    <3> QED BY <1>6, <3>4, <3>5 DEF ExclOK
  <2>21. Steady => WhereOK(s)'
    <3>1. SUFFICES ASSUME Steady, Live(s) PROVE WhereOK(s)'
      BY <2>14 DEF WhereOK
    <3>2. /\ \A a \in Bufs : str[s].refcnt[a] = Holders(s, a)
          /\ \A a \in Bufs : drv[s].on \/ Starting(s) =>
               a \in InDriver(s) \/ PollHas(s, a) \/ Holders(s, a) > 0
          /\ \A a \in Bufs : a \in Items(str[s].cmdq) => <<s, a, "app">> \notin hold \cup returning
          /\ \A a \in Bufs : Cardinality(At1(str[s].cmdq, a)) <= 1
          /\ \A h \in hold : h[1] = s => h \notin returning
      BY <1>3, <3>1, WhereParts DEF StreamOK
    <3>3. str[s].refcnt[b] = 0
      BY <1>3, <1>6, <3>1 DEF StreamOK, ExclOK, Steady
    <3>4. Holders(s, b) = 0
      BY <3>2, <3>3
    <3>5. /\ \A h \in hold \cup returning : ~(h[1] = s /\ h[2] = b)
          /\ b \notin Items(str[s].cmdq) /\ Cardinality(At1(str[s].cmdq, b)) = 0
      BY <1>1, <3>4, NoHolders
    <3>6. g \notin hold /\ g \notin returning
      BY <2>8, <3>5
    <3>7. Holders(s, b)' = n /\ n > 0 /\ n \in Nat /\ nb + no = n
      BY <2>3, <2>4, <2>10, <2>15, <3>1, <3>4, <3>6
    <3>8. \A a \in Bufs : str'[s].refcnt[a] = Holders(s, a)'
      <4>1. str'[s].refcnt[b] = Holders(s, b)'
        BY <2>7, <3>3, <3>7
      <4>2. ASSUME NEW a \in Bufs, a # b PROVE str'[s].refcnt[a] = Holders(s, a)'
        BY <2>7, <2>15, <3>2, <4>2
      <4> QED BY <4>1, <4>2
    <3>9. \A a \in Bufs : drv'[s].on \/ Starting(s)' =>
            a \in InDriver(s)' \/ PollHas(s, a)' \/ Holders(s, a)' > 0
      <4>1. ASSUME NEW a \in Bufs, a # b, drv[s].on \/ Starting(s)
            PROVE  a \in InDriver(s) \/ Holders(s, a)' > 0
        BY <1>6, <2>15, <3>2, <4>1
      <4> QED BY <1>6, <3>7, <4>1
    <3>10. ASSUME NEW a \in Bufs, a \in Items(str'[s].cmdq)
           PROVE  <<s, a, "app">> \notin hold' \cup returning'
      <4>1. <<s, a, "app">> # g
        BY <2>2
      <4>2. <<s, a, "app">> \notin hold \cup returning
        <5>1. CASE a = b
          BY <3>5, <5>1
        <5>2. CASE a # b
          <6>1. a \in Items(str[s].cmdq)
            <7>1. CASE no = 1
              <8>1. Items(str'[s].cmdq) = Items(str[s].cmdq) \cup {b}
                BY <2>5, <2>7, <2>9, <7>1, FilledAppend
              <8> QED BY <3>10, <5>2, <8>1
            <7>2. CASE no = 0
              BY <2>7, <2>9, <3>10, <7>2
            <7> QED BY <2>3, <7>1, <7>2
          <6> QED BY <3>2, <6>1
        <5> QED BY <5>1, <5>2
      <4> QED BY <1>1, <2>3, <2>8, <4>1, <4>2
    <3>11. ASSUME NEW a \in Bufs PROVE Cardinality(At1(str'[s].cmdq, a)) <= 1
      <4>1. Cardinality(At1(q, a)) = Cardinality(At1(str[s].cmdq, a)) + (IF a = b THEN no ELSE 0)
        BY <2>15
      <4>2. CASE a = b
        <5>1. Cardinality(At1(q, b)) = 0 + no
          BY <3>5, <4>1, <4>2
        <5> QED BY <2>3, <2>7, <4>2, <5>1
      <4>3. CASE a # b
        <5>1. Cardinality(At1(str[s].cmdq, a)) \in Nat
          BY <1>1, HolderTypes
        <5>2. Cardinality(At1(q, a)) = Cardinality(At1(str[s].cmdq, a))
          BY <4>1, <4>3, <5>1
        <5> QED BY <2>7, <3>2, <5>2
      <4> QED BY <4>2, <4>3
    <3>12. \A h \in hold' : h[1] = s => h \notin returning'
      BY <1>1, <2>3, <2>8, <3>2, <3>6
    <3> QED BY <2>14, <1>6, <3>8, <3>9, <3>10, <3>11, <3>12 DEF WhereOK
  <2>22. StreamOK(s)'
    BY <2>16, <2>17, <2>18, <2>19, <2>20, <2>21 DEF StreamOK, Polled, Exact, Steady
  <2> QED BY <1>5, <2>12, <2>13, <2>22 DEF Inv
<1>10. \/ str[s].state = "CFG" /\ crashed' = TRUE /\ UNCHANGED <<str, hold>>
       \/ FALSE \in Ok("cache") /\ UNCHANGED <<str, hold, crashed>>
       \/ \E toBundle, toOwn \in Ok("malloc") : Filed(toBundle, toOwn)
  BY <1>2 DEF File
<1>11. FALSE \in Ok("cache") => "cache" \in Failures
  BY DEF Ok
<1> HIDE DEF Filed
<1>12. CASE str[s].state = "CFG" /\ crashed' = TRUE /\ UNCHANGED <<str, hold>>
  BY <1>8, <1>12
<1>13. CASE FALSE \in Ok("cache") /\ UNCHANGED <<str, hold, crashed>>
  BY <1>8, <1>11, <1>13
<1> QED BY <1>9, <1>10, <1>12, <1>13

\* The stream's command thread takes the frame, with a reference more for the
\* callback.
LEMMA DispatchStep ==
  ASSUME Inv, ~crashed, NEW s \in Streams, Dispatch(s)
  PROVE  Inv'
<1>1. /\ TypeOK /\ StreamOK(s) /\ str[s].disp = None /\ str[s].cmdq # <<>>
      /\ UNCHANGED <<drv, pt, ctl, bundle, returning, crashed>>
  BY DEF Dispatch, Inv
<1>2. /\ str \in [Streams -> StreamRec] /\ str[s].cmdq \in Seq(Bufs)
      /\ str[s].refcnt \in [Bufs -> Nat]
  BY <1>1, Types DEF TypeOK
<1>3. PICK b \in Bufs : b = Head(str[s].cmdq)
  BY <1>1, <1>2, FilledTail
<1>4. PICK q \in Seq(Bufs) : q = Tail(str[s].cmdq)
  BY <1>1, <1>2, FilledTail
<1>5. PICK g : g = <<s, b, "app">>
  OBVIOUS
<1>6. hold' = hold \cup {g} /\ g \in Ref /\ g[1] = s /\ g[2] = b
  BY <1>3, <1>5 DEF Dispatch, Ref
<1>7. /\ str' \in [Streams -> StreamRec]
      /\ \A t \in Streams \ {s} : str'[t] = str[t]
      /\ str'[s].state = str[s].state /\ str'[s].alive = str[s].alive
      /\ str'[s].count = str[s].count /\ str'[s].disp = b /\ str'[s].cmdq = q
      /\ str'[s].refcnt[b] = str[s].refcnt[b] + 1
      /\ \A a \in Bufs \ {b} : str'[s].refcnt[a] = str[s].refcnt[a]
  <2>1. PICK r \in [Bufs -> Nat] : r = [str[s].refcnt EXCEPT ![b] = @ + 1]
    <3>1. str[s].refcnt[b] + 1 \in Nat
      BY <1>2
    <3> QED BY <1>2, <3>1
  <2>2. r[b] = str[s].refcnt[b] + 1 /\ \A a \in Bufs \ {b} : r[a] = str[s].refcnt[a]
    BY <1>2, <2>1
  <2>3. str' = [str EXCEPT ![s].cmdq = q, ![s].disp = b, ![s].refcnt[b] = @ + 1]
    BY <1>3, <1>4 DEF Dispatch
  <2>4. str' = [str EXCEPT ![s].cmdq = q, ![s].disp = b, ![s].refcnt = r]
    BY <1>2, <2>1, <2>3 DEF StreamRec
  <2>5. /\ str' \in [Streams -> StreamRec]
        /\ \A t \in Streams \ {s} : str'[t] = str[t]
        /\ str'[s].state = str[s].state /\ str'[s].alive = str[s].alive
        /\ str'[s].count = str[s].count /\ str'[s].disp = b
        /\ str'[s].cmdq = q /\ str'[s].refcnt = r
    BY <1>2, <2>4 DEF StreamRec
  <2> QED BY <2>2, <2>5
<1>8. TypeOK' /\ CtlOK' /\ PollOK'
  <2>1. hold' \subseteq Ref
    BY <1>1, <1>6 DEF TypeOK
  <2> QED BY <1>1, <1>7, <2>1 DEF Inv, TypeOK, CtlOK, PollOK, Synced
<1>9. ASSUME NEW t \in Streams, t # s PROVE StreamOK(t)'
  <2>1. Untouched(t)
    BY <1>1, <1>6, <1>7, <1>9 DEF Untouched
  <2> QED BY <1>8, <1>9, <2>1, Kept DEF Inv
<1>10. str[s].state = "ACTIVE" /\ ~Starting(s) /\ (ctl.s = s => ctl.step # "reg")
  BY <1>1 DEF StreamOK, PlaceOK, Starting
<1>11. /\ Live(s) /\ Live(s)' /\ ~Starting(s)'
       /\ \A a : PollHas(s, a)' <=> PollHas(s, a)
       /\ Deq(s)' = Deq(s) /\ drv'[s] = drv[s]
       /\ InDriver(s)' = InDriver(s) /\ Filled(s)' = Filled(s)
  BY <1>1, <1>7, <1>10, FilledAre DEF Live, Starting, PollHas, Deq
<1>12. ASSUME NEW a \in Bufs
       PROVE  /\ a # b => Holders(s, a)' = Holders(s, a)
              /\ a = b => Holders(s, a)' <= Holders(s, a) + 1
              /\ a = b /\ g \notin hold => Holders(s, a)' = Holders(s, a) + 1
              /\ a = b => Holders(s, a) > 0
              /\ Cardinality(At1(q, a)) = Cardinality(At1(str[s].cmdq, a)) - Here(b, a)
  <2> DEFINE x == Cardinality(With(hold, s, a))
             y == Cardinality(With(returning, s, a))
             u == Cardinality(At1(str[s].cmdq, a))
             p == Cardinality(With(hold', s, a))
             w == Cardinality(At1(q, a))
  <2>1. x \in Nat /\ y \in Nat /\ u \in Nat
    BY <1>1, HolderTypes
  <2>2. Holders(s, a) = x + y + u
    <3>1. Here(str[s].disp, a) = 0
      BY <1>1, SpFacts DEF Here
    <3>2. Holders(s, a) = x + y + u + Here(str[s].disp, a)
      BY HoldersAre
    <3> HIDE DEF x, y, u
    <3> QED BY <2>1, <3>1, <3>2
  <2>3. hold \subseteq Ref /\ hold' \subseteq Ref
    BY <1>1, <1>8 DEF TypeOK
  <2>4. p \in Nat /\ w \in Nat
    BY <2>3, WithFinite, CopiesTypes
  <2>5. Holders(s, a)' = p + y + w + Here(b, a)
    BY <1>1, <1>7, HoldersAreNext
  <2>6. /\ a # b => p = x
        /\ a = b => p = x \/ p = x + 1
        /\ a = b /\ g \notin hold => p = x + 1
    <3>1. p = Cardinality(With(hold \cup {g}, s, a))
      BY <1>6
    <3>2. /\ a = b /\ g \notin hold => p = x + 1
          /\ a # b \/ g \in hold => p = x
      BY <1>6, <2>3, <3>1, WithAdd
    <3> QED BY <3>2
  <2>7. w + Here(b, a) = u
    BY <1>1, <1>2, <1>3, <1>4, CopiesTail
  <2>8. Here(b, a) = IF a = b THEN 1 ELSE 0
    BY DEF Here
  <2> HIDE DEF x, y, u, p, w
  <2>9. /\ a # b => Holders(s, a)' = Holders(s, a)
        /\ a = b => Holders(s, a)' <= Holders(s, a) + 1
        /\ a = b /\ g \notin hold => Holders(s, a)' = Holders(s, a) + 1
        /\ a = b => Holders(s, a) > 0
        /\ w = u - Here(b, a)
    BY <2>1, <2>2, <2>4, <2>5, <2>6, <2>7, <2>8
  <2> QED BY <2>9 DEF w, u
<1>13. PlaceOK(s)' /\ CountOK(s)'
  BY <1>1, <1>7, <1>10, <1>11 DEF StreamOK, PlaceOK, CountOK
<1>14. (Polled => ListOK(s)') /\ (Exact => ExactOK(s)')
  BY <1>1, <1>7, <1>10, <1>11 DEF StreamOK, ListOK, ExactOK
<1>15. FreeOK(s)'
  BY <1>1, <1>7, <1>10, <1>11 DEF FreeOK
<1>16. RefsOK(s)'
  <2>1. SUFFICES ASSUME NEW a \in Bufs
                 PROVE  Holders(s, a)' <= str'[s].refcnt[a]
    BY DEF RefsOK
  <2>2. Holders(s, a) <= str[s].refcnt[a]
    BY <1>1, <1>11, <2>1 DEF StreamOK, RefsOK
  <2>3. Holders(s, a) \in Nat /\ str[s].refcnt[a] \in Nat /\ Holders(s, a)' \in Nat
    BY <1>1, <1>2, <1>8, HolderTypes, HolderTypesNext
  <2>4. CASE a = b
    <3>1. Holders(s, a)' <= Holders(s, a) + 1 /\ str'[s].refcnt[a] = str[s].refcnt[a] + 1
      BY <1>7, <1>12, <2>4
    <3> QED BY <2>2, <2>3, <3>1
  <2>5. CASE a # b
    <3>1. Holders(s, a)' = Holders(s, a) /\ str'[s].refcnt[a] = str[s].refcnt[a]
      BY <1>7, <1>12, <2>5
    <3> QED BY <2>2, <3>1
  <2> QED BY <2>4, <2>5
<1>17. ExclOK(s)'
  <2>2. str[s].refcnt[b] > 0
    <3>1. Holders(s, b) > 0 /\ Holders(s, b) <= str[s].refcnt[b]
      BY <1>1, <1>11, <1>12 DEF StreamOK, RefsOK
    <3>2. Holders(s, b) \in Nat /\ str[s].refcnt[b] \in Nat
      BY <1>1, <1>2, HolderTypes
    <3> QED BY <3>1, <3>2
  <2>3. /\ \A a \in InDriver(s) : str[s].refcnt[a] = 0 /\ ~PollHas(s, a)
        /\ \A a \in Bufs : PollHas(s, a) => str[s].refcnt[a] = 0
        /\ drv[s].queued \cap Filled(s) = {} /\ Distinct(drv[s].done)
    BY <1>1, <1>11 DEF StreamOK, ExclOK
  <2>4. b \notin InDriver(s) /\ ~PollHas(s, b) /\ InDriver(s) \subseteq Bufs
    BY <1>1, <2>2, <2>3, DriverHasBufs
  <2>5. \A a \in InDriver(s)' : str'[s].refcnt[a] = 0 /\ ~PollHas(s, a)'
    BY <1>7, <1>11, <2>3, <2>4
  <2>6. \A a \in Bufs : PollHas(s, a)' => str'[s].refcnt[a] = 0
    BY <1>7, <1>11, <2>3, <2>4
  <2> QED BY <1>11, <2>3, <2>5, <2>6 DEF ExclOK
<1>18. Steady => WhereOK(s)'
  <2>1. SUFFICES ASSUME Steady PROVE WhereOK(s)'
    OBVIOUS
  <2>2. /\ \A a \in Bufs : str[s].refcnt[a] = Holders(s, a)
        /\ \A a \in Bufs : drv[s].on \/ Starting(s) =>
             a \in InDriver(s) \/ PollHas(s, a) \/ Holders(s, a) > 0
        /\ \A a \in Bufs : a \in Items(str[s].cmdq) => <<s, a, "app">> \notin hold \cup returning
        /\ \A a \in Bufs : Cardinality(At1(str[s].cmdq, a)) <= 1
        /\ \A h \in hold : h[1] = s => h \notin returning
    BY <1>1, <1>11, <2>1, WhereParts DEF StreamOK
  <2>3. Items(str[s].cmdq) = Items(q) \cup {b}
    BY <1>1, <1>2, <1>3, <1>4, FilledTail
  <2>4. g \notin hold /\ g \notin returning
    BY <1>3, <1>5, <2>2, <2>3
  <2>5. ASSUME NEW a \in Bufs PROVE str'[s].refcnt[a] = Holders(s, a)'
    BY <1>7, <1>12, <2>2, <2>4
  <2>6. ASSUME NEW a \in Bufs, drv'[s].on \/ Starting(s)'
        PROVE  a \in InDriver(s)' \/ PollHas(s, a)' \/ Holders(s, a)' > 0
    <3>1. CASE a = b
      <4>1. Holders(s, b)' = Holders(s, b) + 1 /\ Holders(s, b) \in Nat
        BY <1>1, <1>12, <2>4, HolderTypes
      <4> QED BY <3>1, <4>1
    <3>2. CASE a # b
      <4>1. a \in InDriver(s) \/ PollHas(s, a) \/ Holders(s, a) > 0
        BY <1>11, <2>2, <2>6
      <4> QED BY <1>11, <1>12, <3>2, <4>1
    <3> QED BY <3>1, <3>2
  <2>7. ASSUME NEW a \in Bufs
        PROVE  /\ Cardinality(At1(q, a)) <= 1
               /\ a \in Items(q) => a # b
    <3>1. /\ Cardinality(At1(q, a)) = Cardinality(At1(str[s].cmdq, a)) - Here(b, a)
          /\ Cardinality(At1(str[s].cmdq, a)) <= 1 /\ Cardinality(At1(str[s].cmdq, a)) \in Nat
          /\ Cardinality(At1(q, a)) \in Nat
      BY <1>1, <1>12, <2>2, HolderTypes, CopiesTypes
    <3>2. Here(b, a) = IF a = b THEN 1 ELSE 0
      BY DEF Here
    <3>3. Cardinality(At1(q, a)) <= 1 /\ (a = b => ~(Cardinality(At1(q, a)) > 0))
      BY <3>1, <3>2
    <3> QED BY <3>3, OnQueue
  <2>8. ASSUME NEW a \in Bufs, a \in Items(q) PROVE <<s, a, "app">> \notin hold' \cup returning'
    <3>1. a \in Items(str[s].cmdq) /\ a # b
      BY <2>3, <2>7, <2>8
    <3>2. <<s, a, "app">> # g
      BY <1>5, <3>1
    <3> QED BY <1>1, <1>6, <2>2, <3>1, <3>2
  <2>9. \A h \in hold' : h[1] = s => h \notin returning'
    BY <1>1, <1>6, <2>2, <2>4
  <2> QED BY <1>7, <1>11, <2>5, <2>6, <2>7, <2>8, <2>9 DEF WhereOK
<1>19. StreamOK(s)'
  BY <1>13, <1>14, <1>15, <1>16, <1>17, <1>18 DEF StreamOK, Polled, Exact, Steady
<1> QED BY <1>8, <1>9, <1>19 DEF Inv

-----------------------------------------------------------------------------
(* Start and stop. *)

\* Of a stream that does not run little is said.
LEMMA NotRunning ==
  ASSUME NEW s \in Streams, str'[s].state # "ACTIVE", ~drv'[s].on, ~Starting(s)',
         crashed' \/ PlaceOK(s)', crashed' \/ FreeOK(s)',
         Cardinality(drv'[s].queued) + Len(drv'[s].done) + Deq(s)' <= str'[s].count
  PROVE  StreamOK(s)'
<1>1. ~Live(s)'
  BY DEF Live
<1>2. CountOK(s)' /\ ListOK(s)' /\ RefsOK(s)' /\ ExclOK(s)' /\ ExactOK(s)' /\ WhereOK(s)'
  BY <1>1 DEF CountOK, ListOK, RefsOK, ExclOK, ExactOK, WhereOK
<1> QED BY <1>2 DEF StreamOK, Polled, Exact, Steady

\* Drained queues are empty.
LEMMA DrainedFacts ==
  ASSUME TypeOK, NEW s \in Streams, drv' = [drv EXCEPT ![s] = Drained]
  PROVE  /\ drv' \in [Streams -> [queued : SUBSET Bufs, done : Seq(Bufs), on : BOOLEAN]]
         /\ \A t \in Streams \ {s} : drv'[t] = drv[t]
         /\ drv'[s].done = <<>> /\ drv'[s].on = FALSE /\ drv'[s].queued = {}
         /\ Cardinality(drv'[s].queued) = 0 /\ Len(drv'[s].done) = 0
<1>1. drv \in [Streams -> [queued : SUBSET Bufs, done : Seq(Bufs), on : BOOLEAN]]
  BY DEF TypeOK
<1>2. <<>> \in Seq(Bufs) /\ Len(<<>>) = 0 /\ Cardinality({}) = 0
  BY EmptySeq, FS_EmptySet
<1> QED BY <1>1, <1>2 DEF Drained

\* mm_stream_init_bufs: the stream gets its buffers.
LEMMA GetBufStep ==
  ASSUME Inv, ~crashed, NEW s \in Streams, GetBuf(s)
  PROVE  Inv'
<1>1. /\ ctl.phase = "starting" /\ ctl.step = "none" /\ str[s].state = "CFG"
      /\ UNCHANGED <<drv, pt, bundle, hold, returning, crashed>>
      /\ TypeOK /\ StreamOK(s) /\ ctl \in CtlRec
  BY DEF GetBuf, At, Inv, TypeOK, CtlRec
<1>2. ctl.s = None
  BY <1>1 DEF Inv, CtlOK
<1>3. CASE Goto("aborting", "none", None) /\ UNCHANGED str
  BY <1>1, <1>3, PhaseStep DEF Inv, TypeOK
<1>4. CASE /\ str' = [str EXCEPT ![s].state = "BUFFED", ![s].refcnt = NoRefs]
           /\ Goto("starting", "reg", s)
  <2>1. str \in [Streams -> StreamRec] /\ NoRefs \in [Bufs -> Nat]
    BY <1>1 DEF TypeOK, NoRefs
  <2>2. /\ str' \in [Streams -> StreamRec]
        /\ \A t \in Streams \ {s} : str'[t] = str[t]
        /\ str'[s].state = "BUFFED" /\ str'[s].alive = str[s].alive /\ str'[s].count = str[s].count
        /\ str'[s].cmdq = str[s].cmdq /\ str'[s].disp = str[s].disp
    BY <1>4, <2>1 DEF StreamRec
  <2>3. ctl' \in CtlRec /\ ctl'.phase = "starting" /\ ctl'.step = "reg" /\ ctl'.s = s
    BY <1>1, <1>4, GotoFacts
  <2>4. TypeOK' /\ CtlOK' /\ PollOK'
    BY <1>1, <2>2, <2>3, SpFacts DEF Inv, TypeOK, CtlRec, CtlOK, PollOK, Synced
  <2>5. ASSUME NEW t \in Streams, t # s PROVE StreamOK(t)'
    <3>1. Untouched(t)
      BY <1>1, <1>2, <2>2, <2>3, <2>5, SpFacts DEF Untouched
    <3> QED BY <2>4, <2>5, <3>1, Kept DEF Inv
  <2>6. PlaceOK(s) /\ (FreeOK(s)) /\ CountOK(s)
    BY <1>1 DEF StreamOK
  <2>7. PlaceOK(s)'
    BY <1>1, <2>2, <2>3, <2>6 DEF PlaceOK
  <2>8. ~drv'[s].on /\ ~Starting(s)' /\ Deq(s)' = Deq(s) /\ drv'[s] = drv[s]
    BY <1>1, <2>3, <2>6 DEF CountOK, Starting, Deq
  <2>9. FreeOK(s)'
    BY <1>1, <2>2, <2>6, <2>8 DEF FreeOK, NoneOf
  <2>10. Cardinality(drv'[s].queued) + Len(drv'[s].done) + Deq(s)' <= str'[s].count
    BY <2>2, <2>6, <2>8 DEF CountOK
  <2>11. StreamOK(s)'
    BY <2>2, <2>7, <2>8, <2>9, <2>10, NotRunning
  <2> QED BY <2>4, <2>5, <2>11 DEF Inv
<1> QED BY <1>3, <1>4 DEF GetBuf

\* mm_stream_reg_buf, with a call that fails: Q are in the driver, n counted, ...
GivenUp(s, Q, n) ==
  /\ str' = [str EXCEPT ![s].count = n]
  /\ drv' = [drv EXCEPT ![s].queued = Q]
  /\ pt' = AddPollFd(pt, s) \/ pt' = pt
  /\ Goto("aborting", "none", None)
  /\ UNCHANGED <<bundle, hold, returning, crashed>>

\* ... or with all its calls done.
Registered(s) ==
  /\ drv' = [drv EXCEPT ![s].queued = Initial[s]]
  /\ str' = [str EXCEPT
               ![s].state = "REG", ![s].count = Cardinality(Initial[s]),
               ![s].refcnt = [b \in Bufs |-> IF b \in Initial[s] THEN 0 ELSE 1]]
  /\ pt' = IF Initial[s] # {} THEN AddPollFd(pt, s) ELSE pt
  /\ hold' = hold \cup {<<s, b, "app">> : b \in Bufs \ Initial[s]}
  /\ Goto("starting", "start", s)
  /\ UNCHANGED <<bundle, returning, crashed>>

\* After a failure the start is given up.
LEMMA RegBufFails ==
  ASSUME Inv, ~crashed, NEW s \in Streams, s = ctl.s, ctl.step = "reg",
         NEW Q \in SUBSET Bufs, NEW n \in Nat, Cardinality(Q) <= n, GivenUp(s, Q, n)
  PROVE  Inv'
<1>1. /\ TypeOK /\ StreamOK(s) /\ PlaceOK(s) /\ CountOK(s) /\ ctl \in CtlRec /\ pt \in PollRec
      /\ str \in [Streams -> StreamRec] /\ Synced(pt)
      /\ drv \in [Streams -> [queued : SUBSET Bufs, done : Seq(Bufs), on : BOOLEAN]]
      /\ ctl.phase = "starting"
  BY DEF Inv, TypeOK, CtlRec, StreamOK, CtlOK, PollOK
<1>2. str[s].state = "BUFFED" /\ drv[s].done = <<>> /\ pt.s # s /\ ~drv[s].on
  BY <1>1 DEF PlaceOK, CountOK
<1>3. /\ str' \in [Streams -> StreamRec]
      /\ \A t \in Streams \ {s} : str'[t] = str[t]
      /\ str'[s].state = "BUFFED" /\ str'[s].alive = str[s].alive /\ str'[s].count = n
      /\ str'[s].cmdq = str[s].cmdq /\ str'[s].disp = str[s].disp
  <2>1. str' = [str EXCEPT ![s].count = n]
    BY DEF GivenUp
  <2>2. str \in [Streams -> StreamRec]
    BY <1>1
  <2>3. /\ str' \in [Streams -> StreamRec]
        /\ \A t \in Streams \ {s} : str'[t] = str[t]
        /\ str'[s].state = str[s].state /\ str'[s].alive = str[s].alive /\ str'[s].count = n
        /\ str'[s].cmdq = str[s].cmdq /\ str'[s].disp = str[s].disp
    BY <2>1, <2>2 DEF StreamRec
  <2> QED BY <1>2, <2>3
<1>4. /\ drv' \in [Streams -> [queued : SUBSET Bufs, done : Seq(Bufs), on : BOOLEAN]]
      /\ \A t \in Streams \ {s} : drv'[t] = drv[t]
      /\ drv'[s].queued = Q /\ drv'[s].done = <<>> /\ ~drv'[s].on
  <2>1. drv' = [drv EXCEPT ![s].queued = Q]
    BY DEF GivenUp
  <2> QED BY <1>1, <1>2, <2>1
<1>5. /\ pt' \in PollRec /\ SamePlace(pt', pt)
      /\ \A t \in Streams \ {s} : t \in pt'.entries <=> t \in pt.entries
  BY <1>1, AddFacts DEF SamePlace, GivenUp
<1>6. Synced(pt)'
  <2>1. CASE pt' = AddPollFd(pt, s)
    BY <1>1, <2>1, AddFacts DEF Synced
  <2>2. CASE pt' = pt
    BY <1>1, <2>2 DEF Synced
  <2> QED BY <2>1, <2>2 DEF GivenUp
<1>7. ctl' \in CtlRec /\ ctl'.phase = "aborting" /\ ctl'.step = "none" /\ ctl'.s = None
  BY <1>1, GotoFacts DEF GivenUp
<1>8. TypeOK'
  BY <1>3, <1>4, <1>5, <1>7 DEF Inv, TypeOK, CtlRec, GivenUp
<1>9. CtlOK' /\ PollOK'
  BY <1>5, <1>6, <1>7, PollKept DEF Inv, CtlOK
<1>10. ASSUME NEW t \in Streams, t # s PROVE StreamOK(t)'
  <2>1. Untouched(t)
    BY <1>3, <1>4, <1>5, <1>7, <1>10, SpFacts DEF Untouched, SamePlace, GivenUp
  <2> QED BY <1>8, <1>10, <2>1, Kept DEF Inv
<1>11. PlaceOK(s)'
  BY <1>1, <1>2, <1>3, <1>4, <1>7, SpFacts DEF PlaceOK
<1>12. ~Starting(s)' /\ Deq(s)' = 0
  BY <1>2, <1>5, <1>7 DEF Starting, Deq, SamePlace
<1>13. FreeOK(s)'
  BY <1>3, <1>7, <1>12, SpFacts DEF FreeOK
<1>14. Cardinality(drv'[s].queued) + Len(drv'[s].done) + Deq(s)' <= str'[s].count
  <2>1. Cardinality(Q) \in Nat /\ Len(<<>>) = 0
    BY SpFacts, FS_Subset, FS_CardinalityType, EmptySeq
  <2>2. drv'[s].queued = Q /\ Len(drv'[s].done) = 0 /\ Deq(s)' = 0 /\ str'[s].count = n
    BY <1>3, <1>4, <1>12, <2>1
  <2> QED BY <2>1, <2>2
<1>15. StreamOK(s)'
  BY <1>3, <1>4, <1>11, <1>12, <1>13, <1>14, NotRunning
<1> QED BY <1>8, <1>9, <1>10, <1>15 DEF Inv

\* Otherwise the initial buffers are in the driver and the others with the upper
\* layer.
LEMMA RegBufDone ==
  ASSUME Inv, ~crashed, NEW s \in Streams, s = ctl.s, ctl.step = "reg",
         Registered(s)
  PROVE  Inv'
<1>1. /\ TypeOK /\ StreamOK(s) /\ PlaceOK(s) /\ CountOK(s) /\ ctl \in CtlRec /\ pt \in PollRec
      /\ str \in [Streams -> StreamRec] /\ Synced(pt)
      /\ drv \in [Streams -> [queued : SUBSET Bufs, done : Seq(Bufs), on : BOOLEAN]]
      /\ hold \subseteq Ref /\ returning \subseteq Ref
      /\ ctl.phase = "starting"
      /\ FreeOK(s)
      /\ UNCHANGED <<bundle, returning, crashed>>
      /\ hold' = hold \cup {<<s, b, "app">> : b \in Bufs \ Initial[s]}
  BY DEF Inv, TypeOK, CtlRec, StreamOK, CtlOK, PollOK, Registered
<1>2. /\ str[s].state = "BUFFED" /\ drv[s].done = <<>> /\ pt.s # s /\ ~drv[s].on
      /\ str[s].cmdq = <<>> /\ str[s].disp = None /\ ~str[s].alive
  BY <1>1 DEF PlaceOK, CountOK
<1>3. PICK r \in [Bufs -> Nat] : r = [b \in Bufs |-> IF b \in Initial[s] THEN 0 ELSE 1]
  OBVIOUS
<1>4. PICK n \in Nat : n = Cardinality(Initial[s]) /\ (n > 0 <=> Initial[s] # {})
  <2>1. IsFiniteSet(Initial[s])
    BY SpFacts, FS_Subset
  <2> QED BY <2>1, FS_CardinalityType, FS_EmptySet
<1>5. /\ str' \in [Streams -> StreamRec]
      /\ \A t \in Streams \ {s} : str'[t] = str[t]
      /\ str'[s].state = "REG" /\ str'[s].alive = str[s].alive /\ str'[s].count = n
      /\ str'[s].cmdq = <<>> /\ str'[s].disp = None /\ str'[s].refcnt = r
  <2>1. str' = [str EXCEPT ![s].state = "REG", ![s].count = n, ![s].refcnt = r]
    BY <1>3, <1>4 DEF Registered
  <2>2. str \in [Streams -> StreamRec]
    BY <1>1
  <2>0. n \in Nat /\ r \in [Bufs -> Nat]
    BY <1>3, <1>4
  <2>3. PICK x : x = [str[s] EXCEPT !.state = "REG", !.count = n, !.refcnt = r]
    OBVIOUS
  <2>4. str[s] \in StreamRec
    BY <2>2
  <2>5. /\ x \in StreamRec /\ x.state = "REG" /\ x.alive = str[s].alive /\ x.count = n
        /\ x.cmdq = str[s].cmdq /\ x.disp = str[s].disp /\ x.refcnt = r
    BY <2>0, <2>3, <2>4 DEF StreamRec
  <2>6. str' = [str EXCEPT ![s] = x]
    BY <2>1, <2>2, <2>3
  <2>7. /\ str' \in [Streams -> StreamRec] /\ str'[s] = x
        /\ \A t \in Streams \ {s} : str'[t] = str[t]
    BY <2>2, <2>5, <2>6
  <2> QED BY <1>2, <2>5, <2>7
<1>6. /\ drv' \in [Streams -> [queued : SUBSET Bufs, done : Seq(Bufs), on : BOOLEAN]]
      /\ \A t \in Streams \ {s} : drv'[t] = drv[t]
      /\ drv'[s].queued = Initial[s] /\ drv'[s].done = <<>> /\ ~drv'[s].on
  <2>1. drv' = [drv EXCEPT ![s].queued = Initial[s]] /\ Initial[s] \subseteq Bufs
    BY SpFacts DEF Registered
  <2> QED BY <1>1, <1>2, <2>1
<1>7. /\ pt' \in PollRec /\ SamePlace(pt', pt)
      /\ \A t \in Streams \ {s} : t \in pt'.entries <=> t \in pt.entries
      /\ Initial[s] # {} => s \in pt'.entries
  BY <1>1, AddFacts DEF SamePlace, Registered
<1>8. Synced(pt)'
  <2>1. CASE pt' = AddPollFd(pt, s)
    BY <1>1, <2>1, AddFacts DEF Synced
  <2>2. CASE pt' = pt
    BY <1>1, <2>2 DEF Synced
  <2> QED BY <2>1, <2>2 DEF Registered
<1>9. ctl' \in CtlRec /\ ctl'.phase = "starting" /\ ctl'.step = "start" /\ ctl'.s = s
  BY <1>1, GotoFacts DEF Registered
<1>10. hold' \subseteq Ref
  BY <1>1 DEF Ref
<1>11. TypeOK'
  BY <1>1, <1>5, <1>6, <1>7, <1>9, <1>10 DEF Inv, TypeOK, CtlRec
<1>12. CtlOK' /\ PollOK'
  BY <1>7, <1>8, <1>9, PollKept, SpFacts DEF Inv, CtlOK
<1>13. ASSUME NEW t \in Streams, t # s PROVE StreamOK(t)'
  <2>1. \A h \in Ref : h[1] = t => (h \in hold' <=> h \in hold)
    BY <1>1, <1>13
  <2>2. Untouched(t)
    BY <1>1, <1>5, <1>6, <1>7, <1>9, <1>13, <2>1, SpFacts DEF Untouched, SamePlace
  <2> QED BY <1>11, <1>13, <2>2, Kept DEF Inv
<1>14. PlaceOK(s)'
  BY <1>1, <1>2, <1>5, <1>6, <1>7, <1>9 DEF PlaceOK, SamePlace
<1>15. /\ Starting(s)' /\ Live(s)' /\ Deq(s)' = 0 /\ \A a : ~PollHas(s, a)'
       /\ Filled(s)' = {} /\ InDriver(s)' = Initial[s]
  <2>1. /\ Starting(s)' /\ Live(s)' /\ Deq(s)' = 0 /\ \A a : ~PollHas(s, a)'
    BY <1>2, <1>7, <1>9 DEF Starting, Live, Deq, PollHas, SamePlace
  <2>2. Filled(s)' = {} /\ InDriver(s)' = Initial[s]
    BY <1>6, FilledAre, FilledNone
  <2> QED BY <2>1, <2>2
<1>16. Cardinality(drv'[s].queued) + Len(drv'[s].done) + Deq(s)' = str'[s].count
  <2>1. Cardinality(drv'[s].queued) = n /\ Len(drv'[s].done) = 0 /\ str'[s].count = n
    BY <1>4, <1>5, <1>6, EmptySeq
  <2> QED BY <1>15, <2>1
<1>17. CountOK(s)' /\ ExactOK(s)'
  <2>1. str'[s].count \in Nat /\ Cardinality(drv'[s].queued) + Len(drv'[s].done) + Deq(s)' <= str'[s].count
    BY <1>5, <1>16
  <2> QED BY <1>6, <1>16, <2>1 DEF CountOK, ExactOK
<1>18. Polled => ListOK(s)'
  BY <1>4, <1>5, <1>7 DEF Polled, ListOK
<1>19. NoneOf(s)
  BY <1>1 DEF FreeOK
<1>20. FreeOK(s)'
  BY <1>1, <1>5, <1>9, <1>19 DEF FreeOK, NoneOf
<1>21. ASSUME NEW a \in Bufs PROVE Holders(s, a)' = r[a]
  <2> DEFINE x == Cardinality(With(hold', s, a))
             y == Cardinality(With(returning', s, a))
             u == Cardinality(At1(str'[s].cmdq, a))
             v == Here(str'[s].disp, a)
  <2>1. Holders(s, a)' = x + y + u + v
    BY HoldersAreNext
  <2>2. y = 0 /\ u = 0 /\ v = 0
    <3>1. \A h \in returning' : h[1] # s
      BY <1>1, <1>19, <1>21 DEF NoneOf
    <3>2. y = 0
      BY <3>1, WithNone
    <3>3. u = 0
      BY <1>5, CopiesNone
    <3>4. v = 0
      BY <1>5, SpFacts DEF Here
    <3> QED BY <3>2, <3>3, <3>4
  <2>3. x = IF a \in Initial[s] THEN 0 ELSE 1
    <3>1. CASE a \in Initial[s]
      <4>1. With(hold', s, a) = {}
        BY <1>1, <1>19, <1>21, <3>1 DEF With, NoneOf
      <4> QED BY <3>1, <4>1, FS_EmptySet
    <3>2. CASE a \notin Initial[s]
      <4>1. With(hold', s, a) = {<<s, a, "app">>}
        BY <1>1, <1>19, <1>21, <3>2 DEF With, NoneOf
      <4>2. Cardinality({<<s, a, "app">>}) = 1
        BY FS_Singleton
      <4> QED BY <3>2, <4>1, <4>2
    <3> QED BY <3>1, <3>2
  <2> HIDE DEF x, y, u, v
  <2> QED BY <1>3, <2>1, <2>2, <2>3
<1>22. RefsOK(s)'
  BY <1>3, <1>5, <1>21 DEF RefsOK
<1>23. ExclOK(s)'
  <2>1. \A a \in InDriver(s)' : str'[s].refcnt[a] = 0
    BY <1>3, <1>5, <1>15, SpFacts
  <2> QED BY <1>6, <1>15, <2>1, FilledNone DEF ExclOK
<1>24. Steady => WhereOK(s)'
  <2>1. SUFFICES ASSUME Steady PROVE WhereOK(s)'
    OBVIOUS
  <2>2. Initial[s] = Bufs
    BY <2>1 DEF Steady
  <2>3. hold' = hold
    BY <1>1, <2>2
  <2>4. NoneOf(s)'
    BY <1>1, <1>19, <2>2, <2>3 DEF NoneOf
  <2>5. \A a \in Bufs : str'[s].refcnt[a] = Holders(s, a)'
    BY <1>5, <1>21, <2>2
  <2>6. Items(<<>>) = {} /\ \A a \in Bufs : Cardinality(At1(<<>>, a)) = 0
    BY FilledNone, CopiesNone
  <2> QED BY <1>5, <1>15, <2>2, <2>4, <2>5, <2>6 DEF WhereOK, NoneOf
<1>25. StreamOK(s)'
  BY <1>14, <1>17, <1>18, <1>20, <1>22, <1>23, <1>24 DEF StreamOK, Polled, Exact, Steady
<1> QED BY <1>11, <1>12, <1>13, <1>25 DEF Inv

\* mm_stream_reg_buf.
LEMMA RegBufStep ==
  ASSUME Inv, ~crashed, RegBuf
  PROVE  Inv'
<1>1. ctl.phase = "starting" /\ ctl.step = "reg" /\ UNCHANGED <<bundle, returning, crashed>>
  BY DEF RegBuf, At
<1>2. PICK s \in Streams : s = ctl.s
  BY <1>1 DEF Inv, TypeOK, CtlOK
<1>3. CASE Registered(s)
  BY <1>1, <1>2, <1>3, RegBufDone
<1>4. CASE \E Q \in SUBSET Initial[s] :
             GivenUp(s, Q, Cardinality(Q) + 1) \/ GivenUp(s, Q, Cardinality(Q))
  <2>1. PICK Q \in SUBSET Initial[s] :
             GivenUp(s, Q, Cardinality(Q) + 1) \/ GivenUp(s, Q, Cardinality(Q))
    BY <1>4
  <2>2. Q \in SUBSET Bufs /\ Cardinality(Q) \in Nat
    BY SpFacts, FS_Subset, FS_CardinalityType
  <2>3. PICK n \in Nat : GivenUp(s, Q, n) /\ Cardinality(Q) <= n
    BY <2>1, <2>2
  <2> QED BY <1>1, <1>2, <2>2, <2>3, RegBufFails
<1> QED BY <1>1, <1>2, <1>3, <1>4 DEF RegBuf, Registered, GivenUp

\* A buffer that has been dequeued is still counted when the queues are dropped.
LEMMA DeqCounted ==
  ASSUME TypeOK, NEW s \in Streams, StreamOK(s)
  PROVE  0 + 0 + Deq(s) <= str[s].count
<1>1. Cardinality(drv[s].queued) + Len(drv[s].done) + Deq(s) <= str[s].count
  BY DEF StreamOK, CountOK
<1>2. /\ Cardinality(drv[s].queued) \in Nat /\ Len(drv[s].done) \in Nat
      /\ Deq(s) \in {0, 1} /\ str[s].count \in Nat
  BY Types
<1> QED BY <1>1, <1>2

\* mm_stream_streamon: the stream runs, or STREAMON fails and it is taken off
\* the poll thread.
LEMMA StartStep ==
  ASSUME Inv, ~crashed, Start
  PROVE  Inv'
<1>1. /\ ctl.phase = "starting" /\ ctl.step = "start"
      /\ UNCHANGED <<bundle, hold, returning, crashed>>
      /\ TypeOK /\ CtlOK /\ PollOK
  BY DEF Start, At, Inv
<1>2. PICK s \in Streams : s = ctl.s
  BY <1>1 DEF TypeOK, CtlOK
<1>3. StreamOK(s) /\ PlaceOK(s) /\ Starting(s) /\ Live(s)
  BY <1>1, <1>2 DEF Inv, StreamOK, Starting, Live
<1>4. /\ str[s].state = "REG" /\ drv[s].done = <<>> /\ pt.s # s /\ ~drv[s].on
      /\ str[s].cmdq = <<>> /\ str[s].disp = None
  BY <1>1, <1>2, <1>3 DEF PlaceOK, StreamOK, CountOK
<1>5. /\ str' \in [Streams -> StreamRec]
      /\ \A t \in Streams \ {s} : str'[t] = str[t]
      /\ str'[s].state = "ACTIVE" /\ str'[s].refcnt = str[s].refcnt /\ str'[s].count = str[s].count
      /\ str'[s].cmdq = str[s].cmdq /\ str'[s].disp = str[s].disp
  <2> DEFINE alive == s \in HasCb
  <2>1. alive \in BOOLEAN
    OBVIOUS
  <2>2. str' = [str EXCEPT ![s].state = "ACTIVE", ![s].alive = alive]
    BY <1>2 DEF Start
  <2> HIDE DEF alive
  <2>3. str \in [Streams -> StreamRec] /\ alive \in BOOLEAN
    BY <1>1, <2>1 DEF TypeOK
  <2> QED BY <2>2, <2>3 DEF StreamRec
<1>6. /\ SameRefs(s) /\ Live(s)'
      /\ \A b \in Bufs : Holders(s, b)' = Holders(s, b)
      /\ RefsOK(s)'
  BY <1>1, <1>3, <1>5, RefsKept DEF SameRefs, Live, StreamOK
<1>7. CASE /\ drv' = [drv EXCEPT ![s].on = TRUE] /\ pt' = pt
           /\ Goto("starting", "none", None)
  <2>1. /\ drv' \in [Streams -> [queued : SUBSET Bufs, done : Seq(Bufs), on : BOOLEAN]]
        /\ \A t \in Streams \ {s} : drv'[t] = drv[t]
        /\ drv'[s].queued = drv[s].queued /\ drv'[s].done = drv[s].done /\ drv'[s].on
    <3>1. drv \in [Streams -> [queued : SUBSET Bufs, done : Seq(Bufs), on : BOOLEAN]]
      BY <1>1 DEF TypeOK
    <3> QED BY <1>7, <3>1
  <2>2. ctl' \in CtlRec /\ ctl'.phase = "starting" /\ ctl'.step = "none" /\ ctl'.s = None
    <3>1. ctl \in CtlRec
      BY <1>1 DEF TypeOK, CtlRec
    <3> QED BY <1>7, <3>1, GotoFacts
  <2>3. TypeOK'
    BY <1>1, <1>5, <1>7, <2>1, <2>2 DEF TypeOK, CtlRec
  <2>4. CtlOK' /\ PollOK'
    BY <1>1, <1>7, <2>2 DEF CtlOK, PollOK, Synced
  <2>5. ASSUME NEW t \in Streams, t # s PROVE StreamOK(t)'
    <3>1. Untouched(t)
      BY <1>1, <1>2, <1>5, <1>7, <2>1, <2>2, <2>5, SpFacts DEF Untouched
    <3> QED BY <2>3, <2>5, <3>1, Kept DEF Inv
  <2>6. /\ ~Starting(s)' /\ Deq(s)' = Deq(s) /\ \A a : PollHas(s, a)' <=> PollHas(s, a)
        /\ InDriver(s)' = InDriver(s) /\ Filled(s)' = Filled(s) /\ ctl'.s # s
    BY <1>7, <2>1, <2>2, FilledAre, SpFacts DEF Starting, Deq, PollHas
  <2>7. PlaceOK(s)'
    BY <1>5, <2>6 DEF PlaceOK
  <2>8. CountOK(s)'
    BY <1>3, <1>5, <2>1, <2>6 DEF StreamOK, CountOK
  <2>9. Polled => ListOK(s)'
    BY <1>3, <1>5, <1>7, <2>6 DEF StreamOK, ListOK
  <2>10. ExclOK(s)' /\ FreeOK(s)'
    BY <1>3, <1>5, <2>1, <2>6 DEF StreamOK, ExclOK, FreeOK
  <2>11. Exact => ExactOK(s)'
    BY <1>3, <1>5, <2>1, <2>6 DEF StreamOK, ExactOK
  <2>12. Steady => WhereOK(s)'
    BY <1>3, <1>6, <2>6, WhereKept DEF StreamOK
  <2>13. StreamOK(s)'
    BY <1>6, <2>7, <2>8, <2>9, <2>10, <2>11, <2>12 DEF StreamOK, Polled, Exact, Steady
  <2> QED BY <2>3, <2>4, <2>5, <2>13 DEF Inv
<1>8. CASE /\ pt' = DelPollFd(pt, s, "ENTRIES_UPDATED") /\ drv' = drv
           /\ ctl' = [phase |-> "starting", step |-> "undo", s |-> s,
                      waiting |-> s \in pt.entries]
  <2>1. /\ pt' \in PollRec /\ SamePlace(pt', pt) /\ Synced(pt)'
        /\ pt'.entries = pt.entries \ {s}
    <3>1. pt \in PollRec /\ Synced(pt)
      BY <1>1 DEF TypeOK, PollOK
    <3>2. LET r == DelPollFd(pt, s, "ENTRIES_UPDATED")
          IN  /\ r \in PollRec /\ SamePlace(r, pt) /\ (Synced(pt) => Synced(r))
              /\ r.entries = pt.entries \ {s}
      BY <3>1, DelFacts
    <3> QED BY <1>8, <3>1, <3>2 DEF Synced
  <2>2. ctl' \in CtlRec /\ ctl'.phase = "starting" /\ ctl'.step = "undo" /\ ctl'.s = s
    <3>1. (s \in pt.entries) \in BOOLEAN
      OBVIOUS
    <3> QED BY <1>8, <3>1 DEF CtlRec
  <2>3. TypeOK'
    BY <1>1, <1>5, <1>8, <2>1, <2>2 DEF TypeOK, CtlRec
  <2>4. CtlOK' /\ PollOK'
    BY <1>1, <2>1, <2>2, PollKept, SpFacts DEF CtlOK
  <2>5. ASSUME NEW t \in Streams, t # s PROVE StreamOK(t)'
    <3>1. Untouched(t)
      BY <1>1, <1>2, <1>5, <1>8, <2>1, <2>2, <2>5 DEF Untouched, SamePlace
    <3> QED BY <2>3, <2>5, <3>1, Kept DEF Inv
  <2>6. /\ ~Starting(s)' /\ Deq(s)' = Deq(s) /\ \A a : PollHas(s, a)' <=> PollHas(s, a)
        /\ InDriver(s)' = InDriver(s) /\ Filled(s)' = Filled(s)
    BY <1>8, <2>1, <2>2, FilledAre DEF Starting, Deq, PollHas, SamePlace
  <2>7. PlaceOK(s)'
    BY <1>4, <1>5, <1>8, <2>2 DEF PlaceOK
  <2>8. CountOK(s)'
    BY <1>3, <1>5, <1>8, <2>6 DEF StreamOK, CountOK
  <2>9. ListOK(s)' /\ ExactOK(s)'
    BY <1>4, <1>8, <2>6 DEF ListOK, ExactOK
  <2>10. ExclOK(s)' /\ FreeOK(s)'
    BY <1>3, <1>5, <1>8, <2>2, <2>6 DEF StreamOK, ExclOK, FreeOK
  <2>11. Steady => WhereOK(s)'
    BY <1>3, <1>4, <1>6, <1>8, <2>6, WhereKept DEF StreamOK
  <2>12. StreamOK(s)'
    BY <1>6, <2>7, <2>8, <2>9, <2>10, <2>11 DEF StreamOK, Polled, Exact, Steady
  <2> QED BY <2>3, <2>4, <2>5, <2>12 DEF Inv
<1> QED BY <1>2, <1>7, <1>8 DEF Start

\* The stream is taken off the poll thread.
LEMMA StreamOffStep ==
  ASSUME Inv, ~crashed, NEW s \in Streams, StreamOff(s)
  PROVE  Inv'
<1>1. /\ ctl.phase \in {"stopping", "aborting"} /\ ctl.step = "none" /\ str[s].state = "ACTIVE"
      /\ pt' = DelForStop(pt, s)
      /\ UNCHANGED <<str, drv, bundle, hold, returning, crashed>>
      /\ TypeOK /\ CtlOK /\ PollOK /\ StreamOK(s) /\ PlaceOK(s) /\ ctl.s = None
  BY DEF StreamOff, Idle, Inv, CtlOK, StreamOK
<1>2. /\ pt' \in PollRec /\ SamePlace(pt', pt) /\ Synced(pt)'
      /\ pt'.entries = pt.entries \ {s}
  <2>1. pt \in PollRec /\ Synced(pt)
    BY <1>1 DEF TypeOK, PollOK
  <2>2. LET r == DelForStop(pt, s)
        IN  /\ r \in PollRec /\ SamePlace(r, pt) /\ (Synced(pt) => Synced(r))
            /\ r.entries = pt.entries \ {s}
    BY <2>1, StopFacts
  <2> QED BY <1>1, <2>1, <2>2 DEF Synced
<1>3. ctl' \in CtlRec /\ ctl'.phase = ctl.phase /\ ctl'.step = "off" /\ ctl'.s = s
  <2>1. PICK w \in BOOLEAN : w = (pt'.pipe # pt.pipe)
    OBVIOUS
  <2>2. ctl' = [ctl EXCEPT !.step = "off", !.s = s, !.waiting = w]
    BY <2>1 DEF StreamOff
  <2>3. ctl \in CtlRec /\ w \in BOOLEAN
    BY <1>1, <2>1 DEF TypeOK, CtlRec
  <2> QED BY <2>2, <2>3 DEF CtlRec
<1>4. TypeOK'
  BY <1>1, <1>2, <1>3 DEF TypeOK, CtlRec
<1>5. CtlOK' /\ PollOK'
  BY <1>1, <1>2, <1>3, PollKept, SpFacts DEF CtlOK
<1>6. ASSUME NEW t \in Streams, t # s PROVE StreamOK(t)'
  <2>1. Untouched(t)
    BY <1>1, <1>2, <1>3, <1>6, SpFacts DEF Untouched, SamePlace
  <2> QED BY <1>4, <1>6, <2>1, Kept DEF Inv
<1>7. /\ ~Starting(s)' /\ ~Starting(s) /\ Live(s)' /\ Live(s) /\ SameRefs(s)
      /\ Deq(s)' = Deq(s) /\ \A a : PollHas(s, a)' <=> PollHas(s, a)
      /\ InDriver(s)' = InDriver(s) /\ Filled(s)' = Filled(s)
  BY <1>1, <1>2, <1>3, FilledAre DEF Starting, Live, SameRefs, Deq, PollHas, SamePlace
<1>8. PlaceOK(s)'
  BY <1>1, <1>3 DEF PlaceOK
<1>9. CountOK(s)' /\ (Exact => ExactOK(s)')
  BY <1>1, <1>7 DEF StreamOK, CountOK, ExactOK
<1>10. ListOK(s)'
  BY <1>3, <1>7 DEF ListOK
<1>11. RefsOK(s)' /\ ExclOK(s)' /\ FreeOK(s)'
  BY <1>1, <1>3, <1>7, RefsKept DEF StreamOK, ExclOK, FreeOK
<1>12. Steady => WhereOK(s)'
  BY <1>1, <1>7, WhereKept DEF StreamOK
<1>13. StreamOK(s)'
  BY <1>8, <1>9, <1>10, <1>11, <1>12 DEF StreamOK, Polled, Exact, Steady
<1> QED BY <1>4, <1>5, <1>6, <1>13 DEF Inv

\* VIDIOC_STREAMOFF: the driver drops its queues.
LEMMA StreamedOffStep ==
  ASSUME Inv, ~crashed, StreamedOff
  PROVE  Inv'
<1>1. /\ ctl.step = "off" /\ Goto(ctl.phase, "join", ctl.s)
      /\ UNCHANGED <<str, pt, bundle, hold, returning, crashed>>
      /\ TypeOK /\ CtlOK /\ PollOK /\ ctl \in CtlRec
  BY DEF StreamedOff, Inv, TypeOK, CtlRec
<1>2. PICK s \in Streams : s = ctl.s
  BY <1>1 DEF TypeOK, CtlOK
<1>3. StreamOK(s) /\ PlaceOK(s) /\ str[s].state = "ACTIVE"
  BY <1>1, <1>2 DEF Inv, StreamOK, PlaceOK
<1>4. /\ drv' \in [Streams -> [queued : SUBSET Bufs, done : Seq(Bufs), on : BOOLEAN]]
      /\ \A t \in Streams \ {s} : drv'[t] = drv[t]
      /\ drv'[s].done = <<>> /\ ~drv'[s].on /\ drv'[s].queued = {}
      /\ Cardinality(drv'[s].queued) = 0 /\ Len(drv'[s].done) = 0
  <2>1. drv' = [drv EXCEPT ![s] = Drained]
    BY <1>2 DEF StreamedOff
  <2> QED BY <1>1, <2>1, DrainedFacts
<1>5. ctl' \in CtlRec /\ ctl'.phase = ctl.phase /\ ctl'.step = "join" /\ ctl'.s = s
  <2>1. ctl.phase \in {"stopped", "starting", "aborting", "active", "stopping", "putting"}
    BY <1>1 DEF CtlRec
  <2> QED BY <1>1, <1>2, <2>1, GotoFacts
<1>6. TypeOK'
  BY <1>1, <1>4, <1>5 DEF TypeOK, CtlRec
<1>7. CtlOK' /\ PollOK'
  BY <1>1, <1>5, SpFacts DEF CtlOK, PollOK, Synced
<1>8. ASSUME NEW t \in Streams, t # s PROVE StreamOK(t)'
  <2>1. Untouched(t)
    BY <1>1, <1>2, <1>4, <1>5, <1>8 DEF Untouched
  <2> QED BY <1>6, <1>8, <2>1, Kept DEF Inv
<1>9. /\ ~Starting(s)' /\ Live(s)' /\ Live(s) /\ SameRefs(s)
      /\ Deq(s)' = Deq(s) /\ \A a : PollHas(s, a)' <=> PollHas(s, a)
      /\ InDriver(s)' = {} /\ Filled(s)' = {}
  BY <1>1, <1>3, <1>4, <1>5, FilledAre, FilledNone DEF Starting, Live, SameRefs, Deq, PollHas
<1>10. PlaceOK(s)'
  BY <1>1, <1>3, <1>4, <1>5 DEF PlaceOK
<1>11. CountOK(s)'
  BY <1>1, <1>3, <1>4, <1>9, DeqCounted DEF CountOK
<1>12. ListOK(s)' /\ ExactOK(s)'
  BY <1>4, <1>9 DEF ListOK, ExactOK
<1>13. RefsOK(s)' /\ FreeOK(s)'
  BY <1>1, <1>3, <1>5, <1>9, RefsKept DEF StreamOK, FreeOK
<1>14. ExclOK(s)'
  BY <1>1, <1>3, <1>4, <1>9, FilledNone DEF StreamOK, ExclOK
<1>15. Steady => WhereOK(s)'
  BY <1>3, <1>4, <1>9, WhereKept DEF StreamOK
<1>16. StreamOK(s)'
  BY <1>10, <1>11, <1>12, <1>13, <1>14, <1>15 DEF StreamOK, Polled, Exact, Steady
<1> QED BY <1>6, <1>7, <1>8, <1>16 DEF Inv

\* The command thread is joined and the stream is no longer active.
LEMMA JoinStep ==
  ASSUME Inv, ~crashed, Join
  PROVE  Inv'
<1>1. /\ ctl.step \in {"join", "undo"}
      /\ UNCHANGED <<drv, pt, bundle, hold, returning, crashed>>
      /\ TypeOK /\ CtlOK /\ PollOK /\ ctl \in CtlRec
  BY DEF Join, Inv, TypeOK, CtlRec
<1>2. PICK s \in Streams : s = ctl.s
  BY <1>1 DEF TypeOK, CtlOK
<1>3. /\ StreamOK(s) /\ PlaceOK(s) /\ str[s].state = "ACTIVE" /\ ~drv[s].on
      /\ str[s].cmdq = <<>> /\ str[s].disp = None
  BY <1>1, <1>2 DEF Inv, StreamOK, PlaceOK, Join, CmdThreadDrained
<1>4. /\ str' \in [Streams -> StreamRec]
      /\ \A t \in Streams \ {s} : str'[t] = str[t]
      /\ str'[s].state = "REG" /\ ~str'[s].alive /\ str'[s].count = str[s].count
      /\ str'[s].cmdq = str[s].cmdq /\ str'[s].disp = str[s].disp
  <2>1. str' = [str EXCEPT ![s].alive = FALSE, ![s].state = "REG"]
    BY <1>2 DEF Join
  <2>2. str \in [Streams -> StreamRec]
    BY <1>1 DEF TypeOK
  <2> QED BY <2>1, <2>2 DEF StreamRec
<1>5. /\ ctl' \in CtlRec /\ ctl'.phase # "starting"
      /\ (ctl'.step = "unreg" /\ ctl'.s = s) \/ (ctl'.step = "none" /\ ctl'.s = None)
  <2>1. ctl.phase \in {"stopped", "starting", "aborting", "active", "stopping", "putting"}
    BY <1>1 DEF CtlRec
  <2>2. CASE ctl.step = "join" /\ Goto(ctl.phase, "unreg", ctl.s)
    <3>1. ctl' \in CtlRec /\ ctl'.phase = ctl.phase /\ ctl'.step = "unreg" /\ ctl'.s = s
      BY <1>1, <1>2, <2>1, <2>2, GotoFacts
    <3> QED BY <1>1, <2>2, <3>1 DEF CtlOK
  <2>3. CASE ctl.step = "undo" /\ ~ctl.waiting /\ Goto("aborting", "none", None)
    <3>1. ctl' \in CtlRec /\ ctl'.phase = "aborting" /\ ctl'.step = "none" /\ ctl'.s = None
      BY <1>1, <2>3, GotoFacts
    <3> QED BY <3>1
  <2> QED BY <2>2, <2>3 DEF Join
<1>6. TypeOK'
  BY <1>1, <1>4, <1>5 DEF TypeOK, CtlRec
<1>7. CtlOK' /\ PollOK'
  BY <1>1, <1>5, SpFacts DEF CtlOK, PollOK, Synced
<1>8. ASSUME NEW t \in Streams, t # s PROVE StreamOK(t)'
  <2>1. Untouched(t)
    BY <1>1, <1>2, <1>4, <1>5, <1>8, SpFacts DEF Untouched
  <2> QED BY <1>6, <1>8, <2>1, Kept DEF Inv
<1>9. PlaceOK(s)'
  BY <1>3, <1>4, <1>5, SpFacts DEF PlaceOK
<1>10. ~Starting(s)' /\ Deq(s)' = Deq(s) /\ drv'[s] = drv[s]
  BY <1>1, <1>5 DEF Starting, Deq
<1>11. FreeOK(s)'
  BY <1>4, <1>5, <1>10 DEF FreeOK
<1>12. Cardinality(drv'[s].queued) + Len(drv'[s].done) + Deq(s)' <= str'[s].count
  BY <1>3, <1>4, <1>10 DEF StreamOK, CountOK
<1>13. StreamOK(s)'
  BY <1>3, <1>4, <1>9, <1>10, <1>11, <1>12, NotRunning
<1> QED BY <1>6, <1>7, <1>8, <1>13 DEF Inv

\* mm_stream_unreg_buf.
LEMMA UnregStep ==
  ASSUME Inv, ~crashed, NEW s \in Streams, Unreg(s)
  PROVE  Inv'
<1>1. /\ str[s].state = "REG" /\ Goto(ctl.phase, "none", None)
      /\ UNCHANGED <<pt, bundle, hold, returning, crashed>>
      /\ TypeOK /\ CtlOK /\ PollOK /\ StreamOK(s) /\ PlaceOK(s) /\ ctl \in CtlRec
  BY DEF Unreg, Inv, TypeOK, CtlRec, StreamOK
<1>2. ctl.s \in {s, None} /\ ctl.phase # "starting"
  BY <1>1 DEF Unreg, Idle, CtlOK
<1>3. /\ drv' \in [Streams -> [queued : SUBSET Bufs, done : Seq(Bufs), on : BOOLEAN]]
      /\ \A t \in Streams \ {s} : drv'[t] = drv[t]
      /\ drv'[s].done = <<>> /\ ~drv'[s].on
      /\ Cardinality(drv'[s].queued) = 0 /\ Len(drv'[s].done) = 0
  <2>1. drv' = [drv EXCEPT ![s] = Drained]
    BY DEF Unreg
  <2> QED BY <1>1, <2>1, DrainedFacts
<1>4. /\ str' \in [Streams -> StreamRec]
      /\ \A t \in Streams \ {s} : str'[t] = str[t]
      /\ str'[s].state = "BUFFED" /\ str'[s].alive = str[s].alive /\ str'[s].count = str[s].count
      /\ str'[s].cmdq = str[s].cmdq /\ str'[s].disp = str[s].disp
  <2>1. str' = [str EXCEPT ![s].state = "BUFFED", ![s].refcnt = NoRefs]
    BY DEF Unreg
  <2>2. str \in [Streams -> StreamRec] /\ NoRefs \in [Bufs -> Nat]
    BY <1>1 DEF TypeOK, NoRefs
  <2> QED BY <2>1, <2>2 DEF StreamRec
<1>5. ctl' \in CtlRec /\ ctl'.phase = ctl.phase /\ ctl'.step = "none" /\ ctl'.s = None
  <2>1. ctl.phase \in {"stopped", "starting", "aborting", "active", "stopping", "putting"}
    BY <1>1 DEF CtlRec
  <2> QED BY <1>1, <2>1, GotoFacts
<1>6. TypeOK'
  BY <1>1, <1>3, <1>4, <1>5 DEF TypeOK, CtlRec
<1>7. CtlOK' /\ PollOK'
  BY <1>1, <1>5 DEF CtlOK, PollOK, Synced
<1>8. ASSUME NEW t \in Streams, t # s PROVE StreamOK(t)'
  <2>1. Untouched(t)
    BY <1>1, <1>2, <1>3, <1>4, <1>5, <1>8, SpFacts DEF Untouched
  <2> QED BY <1>6, <1>8, <2>1, Kept DEF Inv
<1>9. PlaceOK(s)'
  BY <1>1, <1>2, <1>4, <1>5, SpFacts DEF PlaceOK
<1>10. ~Starting(s)' /\ Deq(s)' = Deq(s)
  BY <1>1, <1>5 DEF Starting, Deq
<1>11. FreeOK(s)'
  BY <1>4, <1>5, <1>10, SpFacts DEF FreeOK
<1>12. Cardinality(drv'[s].queued) + Len(drv'[s].done) + Deq(s)' <= str'[s].count
  BY <1>1, <1>3, <1>4, <1>10, DeqCounted
<1>13. StreamOK(s)'
  BY <1>3, <1>4, <1>9, <1>10, <1>11, <1>12, NotRunning
<1> QED BY <1>6, <1>7, <1>8, <1>13 DEF Inv

\* The HAL takes its memory back; no return of it is under way.
LEMMA PutBufStep ==
  ASSUME Inv, ~crashed, NEW s \in Streams, PutBuf(s)
  PROVE  Inv'
<1>1. /\ ctl.phase \in {"putting", "aborting"} /\ ctl.step = "none" /\ str[s].state = "BUFFED"
      /\ returning' = {h \in returning : h[1] # s}
      /\ hold' = {h \in hold : h[1] # s}
      /\ UNCHANGED <<pt, ctl, bundle, crashed>>
      /\ TypeOK /\ CtlOK /\ PollOK /\ StreamOK(s) /\ PlaceOK(s) /\ ctl.s = None
  BY DEF PutBuf, Idle, Inv, StreamOK, CtlOK
<1>2. /\ drv' \in [Streams -> [queued : SUBSET Bufs, done : Seq(Bufs), on : BOOLEAN]]
      /\ \A t \in Streams \ {s} : drv'[t] = drv[t]
      /\ drv'[s].done = <<>> /\ ~drv'[s].on
      /\ Cardinality(drv'[s].queued) = 0 /\ Len(drv'[s].done) = 0
  <2>1. drv' = [drv EXCEPT ![s] = Drained]
    BY DEF PutBuf
  <2> QED BY <1>1, <2>1, DrainedFacts
<1>3. /\ str' \in [Streams -> StreamRec]
      /\ \A t \in Streams \ {s} : str'[t] = str[t]
      /\ str'[s].state = "CFG" /\ str'[s].alive = str[s].alive /\ str'[s].count = str[s].count
      /\ str'[s].cmdq = str[s].cmdq /\ str'[s].disp = str[s].disp
  <2> DEFINE l == str[s].late \/ \E h \in returning : h[1] = s
  <2>1. str' = [str EXCEPT ![s].state = "CFG", ![s].late = l]
    BY DEF PutBuf
  <2>2. str \in [Streams -> StreamRec] /\ l \in BOOLEAN
    BY <1>1 DEF TypeOK, StreamRec
  <2> HIDE DEF l
  <2> QED BY <2>1, <2>2 DEF StreamRec
<1>4. TypeOK'
  BY <1>1, <1>2, <1>3 DEF TypeOK
<1>5. CtlOK' /\ PollOK'
  BY <1>1 DEF CtlOK, PollOK, Synced
<1>6. ASSUME NEW t \in Streams, t # s PROVE StreamOK(t)'
  <2>1. Untouched(t)
    BY <1>1, <1>2, <1>3, <1>6, SpFacts DEF Untouched
  <2> QED BY <1>4, <1>6, <2>1, Kept DEF Inv
<1>7. PlaceOK(s)'
  BY <1>1, <1>2, <1>3, SpFacts DEF PlaceOK
<1>8. ~Starting(s)' /\ Deq(s)' = Deq(s)
  BY <1>1 DEF Starting, Deq
<1>9. FreeOK(s)'
  BY <1>1, <1>3, <1>8 DEF FreeOK, NoneOf
<1>10. Cardinality(drv'[s].queued) + Len(drv'[s].done) + Deq(s)' <= str'[s].count
  BY <1>1, <1>2, <1>3, <1>8, DeqCounted
<1>11. StreamOK(s)'
  BY <1>2, <1>3, <1>7, <1>8, <1>9, <1>10, NotRunning
<1> QED BY <1>4, <1>5, <1>6, <1>11 DEF Inv

-----------------------------------------------------------------------------
(* The invariant. *)

\* Nothing runs, nothing is held.
LEMMA InitInv == Init => Inv
<1> SUFFICES ASSUME Init PROVE Inv
  OBVIOUS
<1>1. <<>> \in Seq(Bufs) /\ <<>> \in Seq(Cmds) /\ Len(<<>>) = 0 /\ NoRefs \in [Bufs -> Nat]
  BY EmptySeq DEF NoRefs
<1>2. /\ str \in [Streams -> StreamRec]
      /\ \A s \in Streams : /\ str[s].state = "CFG" /\ str[s].count = 0 /\ ~str[s].alive
                            /\ str[s].cmdq = <<>> /\ str[s].disp = None
  BY <1>1 DEF Init, StreamRec
<1>3. /\ drv \in [Streams -> [queued : SUBSET Bufs, done : Seq(Bufs), on : BOOLEAN]]
      /\ \A s \in Streams : drv[s].queued = {} /\ drv[s].done = <<>> /\ ~drv[s].on
  BY <1>1 DEF Init, Drained
<1>4. /\ pt \in PollRec /\ pt.entries = {} /\ pt.fds = {} /\ pt.pc = "poll"
      /\ pt.s = None /\ pt.b = None
  BY <1>1 DEF Init, PollRec
<1>5. ctl \in CtlRec /\ ctl.phase = "stopped" /\ ctl.step = "none" /\ ctl.s = None
  BY DEF Init, CtlRec
<1>6. bundle \in [alive : BOOLEAN, notify : BOOLEAN]
  BY DEF Init
<1>7. hold = {} /\ returning = {} /\ crashed = FALSE
  BY DEF Init
<1>8. TypeOK
  BY <1>2, <1>3, <1>4, <1>5, <1>6, <1>7 DEF TypeOK, CtlRec
<1>9. CtlOK /\ PollOK
  BY <1>4, <1>5 DEF CtlOK, PollOK, Synced
<1>10. ASSUME NEW s \in Streams PROVE StreamOK(s)
  <2>1. ~Live(s) /\ ~Starting(s) /\ Deq(s) = 0
    BY <1>2, <1>4, <1>5 DEF Live, Starting, Deq
  <2>2. PlaceOK(s)
    BY <1>2, <1>3, <1>5, SpFacts DEF PlaceOK
  <2>3. CountOK(s)
    <3>1. Cardinality(drv[s].queued) = 0 /\ Len(drv[s].done) = 0 /\ str[s].count = 0
      BY <1>1, <1>2, <1>3, FS_EmptySet
    <3> QED BY <1>3, <2>1, <3>1 DEF CountOK
  <2>4. FreeOK(s)
    BY <1>7 DEF FreeOK, NoneOf
  <2>5. ListOK(s) /\ RefsOK(s) /\ ExclOK(s) /\ ExactOK(s) /\ WhereOK(s)
    BY <1>3, <2>1 DEF ListOK, RefsOK, ExclOK, ExactOK, WhereOK
  <2> QED BY <2>2, <2>3, <2>4, <2>5 DEF StreamOK
<1> QED BY <1>8, <1>9, <1>10 DEF Inv

\* A step that changes nothing keeps the invariant.
LEMMA Stutter ==
  ASSUME Inv, UNCHANGED vars
  PROVE  Inv'
<1>1. UNCHANGED <<str, drv, pt, ctl, bundle, hold, returning, crashed>>
  BY DEF vars
<1>2. TypeOK' /\ CtlOK' /\ PollOK'
  BY <1>1 DEF Inv, TypeOK, CtlOK, PollOK, Synced
<1>3. ASSUME NEW s \in Streams PROVE StreamOK(s)'
  <2>1. StreamOK(s)
    BY DEF Inv
  <2>2. /\ \A b : Holders(s, b)' = Holders(s, b)
        /\ \A b : PollHas(s, b)' <=> PollHas(s, b)
        /\ InDriver(s)' = InDriver(s) /\ Filled(s)' = Filled(s)
        /\ Live(s)' <=> Live(s)
        /\ Starting(s)' <=> Starting(s)
        /\ NoneOf(s)' <=> NoneOf(s)
        /\ Deq(s)' = Deq(s)
    BY <1>1 DEF Holders, PollHas, InDriver, Filled, Live, Starting, NoneOf, Deq
  <2>3. (PlaceOK(s) => PlaceOK(s)') /\ (CountOK(s) => CountOK(s)')
    BY <1>1, <2>2 DEF PlaceOK, CountOK
  <2>4. (ListOK(s) => ListOK(s)') /\ (ExactOK(s) => ExactOK(s)')
    BY <1>1, <2>2 DEF ListOK, ExactOK
  <2>5. (RefsOK(s) => RefsOK(s)') /\ (FreeOK(s) => FreeOK(s)')
    BY <1>1, <2>2 DEF RefsOK, FreeOK
  <2>6. ExclOK(s) => ExclOK(s)'
    BY <1>1, <2>2 DEF ExclOK
  <2>7. WhereOK(s) => WhereOK(s)'
    BY <1>1, <2>2 DEF WhereOK
  <2> QED BY <1>1, <2>1, <2>3, <2>4, <2>5, <2>6, <2>7 DEF StreamOK, Polled, Exact, Steady
<1> QED BY <1>2, <1>3 DEF Inv

\* So does every step of the threads, the driver and the HAL.
LEMMA NextStep ==
  ASSUME Inv, [Next]_vars
  PROVE  Inv'
<1>1. CASE UNCHANGED vars
  BY <1>1, Stutter
<1>2. CASE Next
  <2>1. ~crashed
    BY <1>2 DEF Next
  <2>2. CASE StartChannel
    BY <2>1, <2>2, StartChannelStep
  <2>3. CASE Launch
    BY <2>1, <2>3, GetBufStep, RegBufStep, StartStep, StartedStep DEF Launch
  <2>4. CASE StopChannel
    BY <2>1, <2>4, StopChannelStep
  <2>5. CASE Teardown
    <3>1. CASE \E s \in Streams : StreamOff(s) \/ Unreg(s) \/ PutBuf(s)
      BY <2>1, <3>1, StreamOffStep, UnregStep, PutBufStep
    <3>2. CASE StreamedOff \/ Join \/ ReleaseBundle \/ Stopped
      BY <2>1, <3>2, StreamedOffStep, JoinStep, ReleaseBundleStep, StoppedStep
    <3> QED BY <2>5, <3>1, <3>2 DEF Teardown
  <2>6. CASE PollThread
    BY <2>1, <2>6, PollPipeStep, PollDataStep, PollAgainStep, CountDownStep, FileStep, NotifyStep
       DEF PollThread
  <2>7. CASE \E s \in Streams : CmdThread(s) \/ Fill(s) \/ StaleReturn(s)
    BY <2>1, <2>7, DispatchStep, DispatchedStep, FillStep, StaleReturnStep DEF CmdThread
  <2>8. CASE \E h \in hold : Return(h)
    BY <2>1, <2>8, ReturnStep
  <2>9. CASE \E h \in returning : ReturnDone(h)
    BY <2>1, <2>9, ReturnDoneStep
  <2> QED BY <1>2, <2>2, <2>3, <2>4, <2>5, <2>6, <2>7, <2>8, <2>9 DEF Next
<1> QED BY <1>1, <1>2

\* The invariant holds in every state the program reaches.
THEOREM Invariance == Spec => []Inv
<1>1. Init => Inv
  BY InitInv
<1>2. Inv /\ [Next]_vars => Inv'
  BY NextStep
<1> QED BY <1>1, <1>2, PTL DEF Spec

-----------------------------------------------------------------------------
(* What follows from it. *)

\* The types of the variables.
THEOREM TypeCorrect == Spec => []TypeOK
<1>1. Inv => TypeOK
  BY DEF Inv
<1> QED BY <1>1, Invariance, PTL

\* mm_stream_buf_done: whichever calls fail and however returns, callbacks, stops
\* and starts interleave, a buffer somebody holds is referenced at least that
\* often, in every state up to a stray access.
THEOREM RefsCoverHoldersAlways == Spec => []RefsCoverHolders
<1>1. Inv => RefsCoverHolders
  BY DEF Inv, StreamOK, RefsOK, Live, RefsCoverHolders, InState
<1> QED BY <1>1, Invariance, PTL

\* mm_stream_qbuf and the driver: up to a stray access the driver never has a
\* buffer that is referenced, held, or in the poll thread's hands, and none twice.
THEOREM DriverExclusiveAlways == Spec => []DriverExclusive
<1>1. Inv => DriverExclusive
  <2> SUFFICES ASSUME Inv, NEW s \in InState("ACTIVE"), NEW b \in InDriver(s)
               PROVE  /\ str[s].refcnt[b] = 0 /\ Holders(s, b) = 0 /\ ~PollHas(s, b)
                      /\ ~(b \in drv[s].queued /\ b \in Filled(s))
    BY DEF DriverExclusive
  <2>1. s \in Streams /\ TypeOK /\ StreamOK(s) /\ Live(s)
    BY DEF Inv, InState, Live
  <2>2. RefsOK(s) /\ ExclOK(s)
    BY <2>1 DEF StreamOK
  <2>3. b \in Bufs
    BY <2>1, DriverHasBufs
  <2>4. str[s].refcnt[b] = 0 /\ ~PollHas(s, b) /\ drv[s].queued \cap Filled(s) = {}
    BY <2>1, <2>2 DEF ExclOK
  <2>5. Holders(s, b) <= str[s].refcnt[b] /\ Holders(s, b) \in Nat
    BY <2>1, <2>2, <2>3, HolderTypes DEF RefsOK
  <2> QED BY <2>4, <2>5
<1> QED BY <1>1, Invariance, PTL

\* A queue without repetition has as many buffers as places.
LEMMA ItemsCounted ==
  ASSUME NEW d \in Seq(Bufs), Distinct(d)
  PROVE  IsFiniteSet(Items(d)) /\ Cardinality(Items(d)) = Len(d)
<1>1. DOMAIN d = 1..Len(d) /\ Len(d) \in Nat
  OBVIOUS
<1>2. IsFiniteSet(1..Len(d)) /\ Cardinality(1..Len(d)) = Len(d)
  BY <1>1, FS_Interval
<1> DEFINE f == [i \in 1..Len(d) |-> d[i]]
<1>3. f \in Bijection(1..Len(d), Items(d))
  <2>1. f \in [1..Len(d) -> Items(d)]
    BY <1>1 DEF Items
  <2>2. \A i, k \in 1..Len(d) : f[i] = f[k] => i = k
    BY <1>1 DEF Distinct
  <2>3. \A x \in Items(d) : \E i \in 1..Len(d) : f[i] = x
    BY <1>1 DEF Items
  <2> HIDE DEF f
  <2>4. f \in Injection(1..Len(d), Items(d))
    BY <2>1, <2>2 DEF Injection, IsInjective
  <2>5. f \in Surjection(1..Len(d), Items(d))
    BY <2>1, <2>3 DEF Surjection
  <2> QED BY <2>4, <2>5 DEF Bijection
<1>4. IsFiniteSet(Items(d))
  BY SpFacts, FS_Subset DEF Items
<1>5. Cardinality(1..Len(d)) = Cardinality(Items(d))
  BY <1>2, <1>3, <1>4, FS_Bijection DEF ExistsBijection
<1> QED BY <1>2, <1>4, <1>5

\* queued_buffer_count, if no QBUF fails: it is the number of buffers in the
\* driver, plus the one that is dequeued and not yet counted.
THEOREM CountExactAlways ==
  ASSUME "qbuf" \notin Failures
  PROVE  Spec => []CountExact
<1>1. Inv => CountExact
  <2> SUFFICES ASSUME Inv, NEW s \in Streams, drv[s].on
               PROVE  str[s].count = Cardinality(InDriver(s)) + Deq(s)
    BY DEF CountExact, Deq
  <2>1. TypeOK /\ StreamOK(s)
    BY DEF Inv
  <2>2. Live(s) /\ ExclOK(s) /\ ExactOK(s)
    BY <2>1 DEF StreamOK, CountOK, Live, Exact
  <2>3. Cardinality(drv[s].queued) + Len(drv[s].done) + Deq(s) = str[s].count
    BY <2>2 DEF ExactOK
  <2>4. drv[s].queued \cap Items(drv[s].done) = {} /\ Distinct(drv[s].done)
    BY <2>2, FilledAre DEF ExclOK
  <2>5. /\ IsFiniteSet(drv[s].queued) /\ drv[s].done \in Seq(Bufs) /\ Deq(s) \in {0, 1}
        /\ Cardinality(drv[s].queued) \in Nat /\ Len(drv[s].done) \in Nat
    BY <2>1, Types
  <2>6. IsFiniteSet(Items(drv[s].done)) /\ Cardinality(Items(drv[s].done)) = Len(drv[s].done)
    BY <2>4, <2>5, ItemsCounted
  <2>7. Cardinality(drv[s].queued \cap Items(drv[s].done)) = 0
    BY <2>4, FS_EmptySet
  <2>8. Cardinality(drv[s].queued \cup Items(drv[s].done))
          = Cardinality(drv[s].queued) + Cardinality(Items(drv[s].done))
              - Cardinality(drv[s].queued \cap Items(drv[s].done))
    BY <2>5, <2>6, FS_Union
  <2>9. Cardinality(InDriver(s)) = Cardinality(drv[s].queued \cup Items(drv[s].done))
    BY FilledAre
  <2>10. Cardinality(InDriver(s)) = Cardinality(drv[s].queued) + Len(drv[s].done)
    BY <2>5, <2>6, <2>7, <2>8, <2>9
  <2> QED BY <2>3, <2>5, <2>10
<1> QED BY <1>1, Invariance, PTL

\* mm_camera_poll_thread: if each stream starts with a buffer in the driver, a
\* running stream is on the list exactly while it is counted to have some, and
\* the list is polled when the pipe is empty.
THEOREM PollFollowsCountAlways ==
  ASSUME \A s \in Streams : Initial[s] # {}
  PROVE  Spec => []PollFollowsCount
<1>1. Inv => PollFollowsCount
  <2> SUFFICES ASSUME Inv PROVE PollFollowsCount
    OBVIOUS
  <2>1. \A s \in Streams : drv[s].on /\ ctl.s # s => (s \in pt.entries <=> str[s].count > 0)
    BY DEF Inv, StreamOK, ListOK, Polled
  <2>2. pt.pipe = <<>> => pt.fds = pt.entries
    <3>1. DOMAIN <<>> = {}
      OBVIOUS
    <3> QED BY <3>1 DEF Inv, PollOK, Synced
  <2> QED BY <2>1, <2>2 DEF PollFollowsCount
<1> QED BY <1>1, Invariance, PTL

\* Where no call on a registered buffer fails, no message is lost, all buffers
\* start in the driver and every frame goes to somebody: no buffer is stranded.
THEOREM NoBufferStrandedAlways ==
  ASSUME Steady
  PROVE  Spec => []NoBufferStranded
<1>1. Inv => NoBufferStranded
  BY DEF Inv, StreamOK, WhereOK, Live, NoBufferStranded, InState
<1> QED BY <1>1, Invariance, PTL

-----------------------------------------------------------------------------
(* The pipe of the poll thread. *)

\* The updates that may still be sent before the poll thread reads its pipe
\* again: one by each stream that it is about to visit, whose last buffer may
\* leave the driver, and one by each that has no buffer there, or will have
\* none, or has yet to be filled.
Visiting    == pt.ready \cup (IF pt.pc = "dequeued" THEN {pt.s} ELSE {})
Unfilled(s) == ctl.phase = "starting" /\ str[s].state \in {"CFG", "BUFFED"}
MayBeAdded  == {s \in Streams : str[s].count = 0 \/ s \in Visiting \/ Unfilled(s)}
Due  == Cardinality(Visiting) + Cardinality(MayBeAdded)
Room == IF MaxPending <= Cardinality(Streams)
        THEN 2 * Cardinality(Streams) ELSE Cardinality(Streams) + MaxPending

\* There is room for them; whoever stops a stream waits for its own update.
RoomOK == Len(pt.pipe) + Due <= Room + (IF ctl.waiting THEN 1 ELSE 0)

\* A stream about to be visited has a buffer in the driver, so it is not added
\* before it is visited; it is visited once.
VisitOK ==
  /\ pt.pc = "poll" => pt.ready = {}
  /\ pt.pc = "dequeued" => pt.s \notin pt.ready
  /\ ctl.waiting => ctl.step \in {"off", "undo"}
  /\ \A s \in pt.ready : str[s].count > 0

\* While the channel starts, a stream that does not run yet has no frames and is
\* not visited; nothing returned before its buffers are registered counts.
QuietOK(s) ==
  /\ ctl.phase = "stopped" => str[s].state = "CFG"
  /\ ctl.phase = "starting" /\ str[s].state # "ACTIVE" =>
       /\ drv[s].done = <<>> /\ s \notin pt.ready
       /\ str[s].state = "BUFFED" => \A b \in Bufs : str[s].refcnt[b] = 0

PipeInv == RoomOK /\ VisitOK /\ \A s \in Streams : QuietOK(s)

\* A smaller set of visits and additions to come is no more than a larger one,
\* and less if it lacks one of them.
LEMMA FewerDue ==
  ASSUME NEW V \in SUBSET Streams, NEW A \in SUBSET Streams, NEW W \in SUBSET V, NEW B \in SUBSET A
  PROVE  /\ Cardinality(V) \in Nat /\ Cardinality(A) \in Nat
         /\ Cardinality(W) \in Nat /\ Cardinality(B) \in Nat
         /\ Cardinality(W) + Cardinality(B) <= Cardinality(V) + Cardinality(A)
         /\ W # V \/ B # A => Cardinality(W) + Cardinality(B) + 1 <= Cardinality(V) + Cardinality(A)
<1>1. IsFiniteSet(V) /\ IsFiniteSet(A)
  BY StreamAssumption, FS_Subset
<1>2. IsFiniteSet(W) /\ IsFiniteSet(B) /\ Cardinality(V) \in Nat /\ Cardinality(A) \in Nat
  BY <1>1, FS_Subset, FS_CardinalityType
<1>3. Cardinality(W) \in Nat /\ Cardinality(B) \in Nat
  BY <1>2, FS_CardinalityType
<1>4. Cardinality(W) <= Cardinality(V) /\ (Cardinality(V) = Cardinality(W) => V = W)
  BY <1>1, FS_Subset
<1>5. Cardinality(B) <= Cardinality(A) /\ (Cardinality(A) = Cardinality(B) => A = B)
  BY <1>1, FS_Subset
<1> QED BY <1>2, <1>3, <1>4, <1>5

\* The numbers of the bound.
LEMMA RoomTypes ==
  /\ Cardinality(Streams) \in Nat /\ MaxPending \in Nat /\ Room \in Nat
  /\ 2 * Cardinality(Streams) <= Room /\ Cardinality(Streams) + MaxPending <= Room
BY StreamAssumption, FS_CardinalityType DEF Room

\* What is due belongs to streams of the channel.
LEMMA DueTypes ==
  ASSUME Inv
  PROVE  Visiting \subseteq Streams /\ MayBeAdded \subseteq Streams /\ Len(pt.pipe) \in Nat
<1>1. pt.ready \subseteq Streams /\ pt.s \in Streams \cup {None} /\ pt.pipe \in Seq(Cmds)
  BY DEF Inv, TypeOK, PollRec
<1>2. pt.pc = "dequeued" => pt.s \in Streams
  BY <1>1 DEF Inv, PollOK
<1>3. Visiting \subseteq Streams
  BY <1>1, <1>2 DEF Visiting
<1> QED BY <1>1, <1>3, LenProperties DEF MayBeAdded

\* Nothing is sent, or it is waited for.
LEMMA RoomKept ==
  ASSUME Inv, Inv', RoomOK, Visiting' \subseteq Visiting, MayBeAdded' \subseteq MayBeAdded,
         \/ pt'.pipe = pt.pipe /\ ctl'.waiting = ctl.waiting
         \/ Len(pt'.pipe) + 1 = Len(pt.pipe)
         \/ Len(pt'.pipe) = Len(pt.pipe) + 1 /\ ctl'.waiting /\ ~ctl.waiting
  PROVE  RoomOK'
<1>1. pt'.pipe \in Seq(Cmds)
  BY DEF Inv, TypeOK, PollRec
<1>2. Len(pt'.pipe) \in Nat /\ Len(pt.pipe) \in Nat
  BY <1>1, DueTypes, LenProperties
<1>3. /\ Cardinality(Visiting) \in Nat /\ Cardinality(MayBeAdded) \in Nat
      /\ Cardinality(Visiting') \in Nat /\ Cardinality(MayBeAdded') \in Nat
      /\ Cardinality(Visiting') + Cardinality(MayBeAdded')
           <= Cardinality(Visiting) + Cardinality(MayBeAdded)
  BY DueTypes, FewerDue
<1>4. Len(pt.pipe) + (Cardinality(Visiting) + Cardinality(MayBeAdded))
        <= Room + (IF ctl.waiting THEN 1 ELSE 0)
  BY DEF RoomOK, Due
<1>5. RoomOK' <=> Len(pt'.pipe) + (Cardinality(Visiting') + Cardinality(MayBeAdded'))
                    <= Room' + (IF ctl'.waiting THEN 1 ELSE 0)
  BY DEF RoomOK, Due
<1>6. Room' = Room
  BY DEF Room
<1> DEFINE d == Cardinality(Visiting) + Cardinality(MayBeAdded)
           e == Cardinality(Visiting') + Cardinality(MayBeAdded')
           v == IF ctl.waiting THEN 1 ELSE 0
           w == IF ctl'.waiting THEN 1 ELSE 0
           l == Len(pt.pipe)
           k == Len(pt'.pipe)
<1>7. d \in Nat /\ e \in Nat /\ v \in Nat /\ w \in Nat /\ l \in Nat /\ k \in Nat
  BY <1>2, <1>3
<1>8. e <= d
  BY <1>3
<1>10. k + v <= l + w
  <2>1. CASE pt'.pipe = pt.pipe /\ ctl'.waiting = ctl.waiting
    <3>1. k = l /\ v = w
      BY <2>1
    <3> QED BY <1>7, <3>1
  <2>2. CASE k + 1 = l
    <3>1. v <= 1
      OBVIOUS
    <3> HIDE DEF v, w, l, k
    <3> QED BY <1>7, <2>2, <3>1
  <2>3. CASE k = l + 1 /\ ctl'.waiting /\ ~ctl.waiting
    <3>1. v = 0 /\ w = 1
      BY <2>3
    <3> QED BY <1>7, <2>3, <3>1
  <2> QED BY <2>1, <2>2, <2>3
<1>9. l + d <= Room + v /\ (RoomOK' <=> k + e <= Room + w)
  BY <1>4, <1>5, <1>6
<1> HIDE DEF d, e, v, w, l, k
<1> QED BY <1>7, <1>8, <1>10, <1>9, RoomTypes

\* An update is sent that was due.
LEMMA RoomTaken ==
  ASSUME Inv, Inv', RoomOK, Visiting' \subseteq Visiting, MayBeAdded' \subseteq MayBeAdded,
         Visiting' # Visiting \/ MayBeAdded' # MayBeAdded,
         Len(pt'.pipe) = Len(pt.pipe) + 1, ctl'.waiting = ctl.waiting
  PROVE  RoomOK'
<1>1. pt'.pipe \in Seq(Cmds)
  BY DEF Inv, TypeOK, PollRec
<1>2. Len(pt'.pipe) \in Nat /\ Len(pt.pipe) \in Nat
  BY <1>1, DueTypes, LenProperties
<1>3. /\ Cardinality(Visiting) \in Nat /\ Cardinality(MayBeAdded) \in Nat
      /\ Cardinality(Visiting') \in Nat /\ Cardinality(MayBeAdded') \in Nat
      /\ Cardinality(Visiting') + Cardinality(MayBeAdded') + 1
           <= Cardinality(Visiting) + Cardinality(MayBeAdded)
  BY DueTypes, FewerDue
<1>4. Len(pt.pipe) + (Cardinality(Visiting) + Cardinality(MayBeAdded))
        <= Room + (IF ctl.waiting THEN 1 ELSE 0)
  BY DEF RoomOK, Due
<1>5. RoomOK' <=> Len(pt'.pipe) + (Cardinality(Visiting') + Cardinality(MayBeAdded'))
                    <= Room' + (IF ctl'.waiting THEN 1 ELSE 0)
  BY DEF RoomOK, Due
<1>6. Room' = Room
  BY DEF Room
<1> DEFINE d == Cardinality(Visiting) + Cardinality(MayBeAdded)
           e == Cardinality(Visiting') + Cardinality(MayBeAdded')
           v == IF ctl.waiting THEN 1 ELSE 0
           w == IF ctl'.waiting THEN 1 ELSE 0
           l == Len(pt.pipe)
           k == Len(pt'.pipe)
<1>7. d \in Nat /\ e \in Nat /\ v \in Nat /\ w \in Nat /\ l \in Nat /\ k \in Nat
  BY <1>2, <1>3
<1>8. k = l + 1 /\ v = w /\ e + 1 <= d
  BY <1>2, <1>3
<1>9. l + d <= Room + v /\ (RoomOK' <=> k + e <= Room + w)
  BY <1>4, <1>5, <1>6
<1> HIDE DEF d, e, v, w, l, k
<1> QED BY <1>7, <1>8, <1>9, RoomTypes

\* What is sent: one update, if the stream's entry changes hands.
LEMMA Sent ==
  ASSUME NEW p \in PollRec, NEW s \in Streams,
         NEW cmd \in {"ENTRIES_UPDATED", "ENTRIES_UPDATED_ASYNC"}
  PROVE  /\ Len(AddPollFd(p, s).pipe) = Len(p.pipe) + 1
         /\ Len(DelForStop(p, s).pipe) = Len(p.pipe) + 1 /\ DelForStop(p, s).pipe # p.pipe
         /\ s \in p.entries => Len(DelPollFd(p, s, cmd).pipe) = Len(p.pipe) + 1
         /\ s \notin p.entries => DelPollFd(p, s, cmd) = p
<1>1. p.pipe \in Seq(Cmds) /\ {"ENTRIES_UPDATED", "ENTRIES_UPDATED_ASYNC", "COMMIT"} = Cmds
  BY DEF PollRec, Cmds
<1>2. /\ \A c \in Cmds : Len(Append(p.pipe, c)) = Len(p.pipe) + 1
      /\ Len(p.pipe) \in Nat
  BY <1>1, AppendProperties, LenProperties
<1>3. AddPollFd(p, s).pipe = Append(p.pipe, "ENTRIES_UPDATED_ASYNC")
  BY DEF AddPollFd, PollRec
<1>4. /\ s \in p.entries => DelPollFd(p, s, cmd).pipe = Append(p.pipe, cmd)
      /\ s \notin p.entries => DelPollFd(p, s, cmd) = p
  BY DEF DelPollFd, PollRec
<1>5. DelForStop(p, s).pipe \in {Append(p.pipe, "ENTRIES_UPDATED"), Append(p.pipe, "COMMIT")}
  BY DEF DelForStop, DelPollFd, PollRec
<1>6. Len(DelForStop(p, s).pipe) = Len(p.pipe) + 1
  BY <1>1, <1>2, <1>5
<1>7. DelForStop(p, s).pipe # p.pipe
  BY <1>2, <1>6
<1> QED BY <1>1, <1>2, <1>3, <1>4, <1>6, <1>7

\* While the poll thread's place is the same, so is the set of visits.
LEMMA SameVisits ==
  ASSUME SamePlace(pt', pt)
  PROVE  Visiting' = Visiting
BY DEF SamePlace, Visiting

\* Nothing is sent, counts stay, nothing becomes unfilled.
LEMMA StillStep ==
  ASSUME Inv, Inv', PipeInv, pt' = pt, ctl'.waiting = ctl.waiting,
         ctl.waiting => ctl'.step \in {"off", "undo"},
         \A s \in Streams : str'[s].count = str[s].count,
         \A s \in Streams : Unfilled(s)' => Unfilled(s),
         \A s \in Streams : QuietOK(s)'
  PROVE  PipeInv'
<1>1. Visiting' = Visiting
  BY DEF Visiting
<1>2. MayBeAdded' \subseteq MayBeAdded
  BY <1>1 DEF MayBeAdded
<1>3. RoomOK'
  BY <1>1, <1>2, RoomKept DEF PipeInv
<1>4. pt.ready \subseteq Streams
  BY DEF Inv, TypeOK, PollRec
<1>5. VisitOK'
  BY <1>4 DEF PipeInv, VisitOK
<1> QED BY <1>3, <1>5 DEF PipeInv

\* What the driver, the HAL and the threads do to a stream's buffers.
LEMMA UseStep ==
  ASSUME Inv, Inv', PipeInv, pt' = pt, ctl' = ctl,
         \A s \in Streams : /\ str'[s].count = str[s].count /\ str'[s].state = str[s].state
                            /\ QuietOK(s)'
  PROVE  PipeInv'
<1>1. \A s \in Streams : Unfilled(s)' => Unfilled(s)
  BY DEF Unfilled
<1>2. ctl.waiting => ctl.step \in {"off", "undo"}
  BY DEF PipeInv, VisitOK
<1> QED BY <1>1, <1>2, StillStep

\* A return begins.
LEMMA PipeReturn ==
  ASSUME Inv, Inv', PipeInv, NEW h \in hold, Return(h)
  PROVE  PipeInv'
<1>1. UNCHANGED <<str, drv, pt, ctl>>
  BY DEF Return
<1>2. \A s \in Streams : QuietOK(s)'
  BY <1>1 DEF PipeInv, QuietOK
<1> QED BY <1>1, <1>2, UseStep

\* The driver fills a buffer of a stream that runs.
LEMMA PipeFill ==
  ASSUME Inv, Inv', PipeInv, NEW s \in Streams, Fill(s)
  PROVE  PipeInv'
<1>1. /\ UNCHANGED <<str, pt, ctl>> /\ str[s].state = "ACTIVE"
      /\ \A t \in Streams \ {s} : drv'[t] = drv[t]
  <2>1. drv[s].on /\ StreamOK(s)
    BY DEF Fill, Inv
  <2>2. PICK b : drv' = [drv EXCEPT ![s].queued = @ \ {b}, ![s].done = Append(@, b)]
    BY DEF Fill
  <2>3. \A t \in Streams \ {s} : drv'[t] = drv[t]
    BY <2>2 DEF Inv, TypeOK
  <2> QED BY <2>1, <2>3 DEF StreamOK, CountOK, Fill
<1>2. ASSUME NEW t \in Streams PROVE QuietOK(t)'
  <2>1. QuietOK(t)
    BY DEF PipeInv
  <2>2. CASE t = s
    BY <1>1, <2>1, <2>2 DEF QuietOK
  <2>3. CASE t # s
    BY <1>1, <2>1, <2>3 DEF QuietOK
  <2> QED BY <2>2, <2>3
<1> QED BY <1>1, <1>2, UseStep

\* A command thread calls back: its stream runs.
LEMMA PipeDispatch ==
  ASSUME Inv, ~crashed, Inv', PipeInv, NEW s \in Streams, Dispatch(s)
  PROVE  PipeInv'
<1>1. UNCHANGED <<drv, pt, ctl>> /\ str[s].cmdq # <<>> /\ str \in [Streams -> StreamRec]
  BY DEF Dispatch, Inv, TypeOK
<1>2. str[s].state = "ACTIVE"
  BY <1>1 DEF Inv, StreamOK, PlaceOK
<1>3. /\ \A t \in Streams \ {s} : str'[t] = str[t]
      /\ str'[s].state = str[s].state /\ str'[s].count = str[s].count
  <2>1. PICK b : str' = [str EXCEPT ![s].cmdq = Tail(@), ![s].disp = b, ![s].refcnt[b] = @ + 1]
    BY DEF Dispatch
  <2> QED BY <1>1, <2>1 DEF StreamRec
<1>4. ASSUME NEW t \in Streams PROVE QuietOK(t)'
  <2>1. QuietOK(t)
    BY DEF PipeInv
  <2>2. CASE t = s
    BY <1>1, <1>2, <1>3, <2>1, <2>2 DEF QuietOK
  <2>3. CASE t # s
    BY <1>1, <1>3, <2>1, <2>3 DEF QuietOK
  <2> QED BY <2>2, <2>3
<1>5. \A t \in Streams : str'[t].count = str[t].count /\ str'[t].state = str[t].state
  BY <1>3
<1> QED BY <1>1, <1>4, <1>5, UseStep

\* Stopping the channel, up to the end of its start: phases that are not
\* "starting" leave nothing unfilled.
LEMMA EndStep ==
  ASSUME Inv, Inv', PipeInv, pt' = pt, ctl'.waiting = ctl.waiting,
         ctl.waiting => ctl'.step \in {"off", "undo"},
         \A s \in Streams : str'[s].count = str[s].count,
         ctl'.phase # "starting",
         ctl'.phase = "stopped" => \A s \in Streams : str'[s].state = "CFG"
  PROVE  PipeInv'
<1>1. \A s \in Streams : (Unfilled(s)' => Unfilled(s)) /\ QuietOK(s)'
  BY DEF Unfilled, QuietOK
<1> QED BY <1>1, StillStep

\* Whoever holds ch_lock waits in the two steps that take a stream off the list.
LEMMA NotWaiting ==
  ASSUME Inv, PipeInv
  PROVE  /\ ctl.step \notin {"off", "undo"} => ctl.waiting = FALSE
         /\ ctl.step # "none" => ctl.s \in Streams
<1>1. ctl.waiting \in BOOLEAN /\ ctl.s \in Streams \cup {None}
  BY DEF Inv, TypeOK
<1> QED BY <1>1 DEF Inv, CtlOK, PipeInv, VisitOK

\* The start is over, the stop begins.
LEMMA PipeStarted ==
  ASSUME Inv, Inv', PipeInv, Started \/ StopChannel
  PROVE  PipeInv'
<1>1. /\ UNCHANGED <<str, pt>> /\ ctl.step = "none" /\ ctl \in CtlRec
      /\ Goto("active", "none", None) \/ Goto("stopping", "none", None)
  BY DEF Started, StopChannel, At, Inv, TypeOK, CtlRec
<1>2. ctl'.phase \in {"active", "stopping"} /\ ctl'.waiting = ctl.waiting /\ ~ctl.waiting
  BY <1>1, NotWaiting DEF Goto, CtlRec
<1> QED BY <1>1, <1>2, EndStep

\* The steps of a stop that leave the poll list alone.
LEMMA PipeTeardown ==
  ASSUME Inv, Inv', PipeInv, ~crashed,
         StreamedOff \/ Join \/ (\E s \in Streams : Unreg(s))
  PROVE  PipeInv'
<1>1. /\ UNCHANGED pt /\ ctl.step \in {"off", "join", "undo", "unreg", "none"} /\ ctl \in CtlRec
      /\ str \in [Streams -> StreamRec]
      /\ ctl.step = "none" => ctl.phase = "aborting"
  BY DEF StreamedOff, Join, Unreg, Idle, Inv, TypeOK, CtlRec
<1>2. ~ctl.waiting
  BY <1>1, NotWaiting DEF StreamedOff, Join, Unreg, Idle
<1>3. ctl'.waiting = ctl.waiting
  BY <1>1 DEF StreamedOff, Join, Unreg, Goto, CtlRec
<1>4. ctl'.phase # "starting"
  BY <1>1 DEF StreamedOff, Join, Unreg, Goto, CtlRec, Inv, CtlOK
<1>5. ctl.phase # "stopped"
  <2>1. CASE ctl.step = "none"
    BY <1>1, <2>1
  <2>2. CASE ctl.step # "none"
    <3>1. PICK s \in Streams : s = ctl.s
      BY <2>2, NotWaiting
    <3>2. str[s].state # "CFG"
      BY <1>1, <2>2, <3>1 DEF Inv, StreamOK, PlaceOK
    <3> QED BY <3>2 DEF PipeInv, QuietOK
  <2> QED BY <2>1, <2>2
<1>6. ctl'.phase # "stopped"
  BY <1>1, <1>5 DEF StreamedOff, Join, Unreg, Goto, CtlRec
<1>7. \A s \in Streams : str'[s].count = str[s].count
  <2>1. CASE StreamedOff
    BY <2>1 DEF StreamedOff
  <2>2. CASE Join
    BY <1>1, <2>2 DEF Join, StreamRec
  <2>3. CASE \E s \in Streams : Unreg(s)
    <3>1. PICK s \in Streams : str' = [str EXCEPT ![s].state = "BUFFED", ![s].refcnt = NoRefs]
      BY <2>3 DEF Unreg
    <3> QED BY <1>1, <3>1 DEF StreamRec
  <2> QED BY <2>1, <2>2, <2>3
<1> QED BY <1>1, <1>2, <1>3, <1>4, <1>6, <1>7, EndStep

\* The end of a stop.
LEMMA PipeEnd ==
  ASSUME Inv, Inv', PipeInv, ReleaseBundle \/ Stopped \/ (\E s \in Streams : PutBuf(s))
  PROVE  PipeInv'
<1>1. /\ UNCHANGED pt /\ ctl.step = "none" /\ ctl \in CtlRec /\ ctl' \in CtlRec
      /\ str \in [Streams -> StreamRec]
  BY DEF ReleaseBundle, Stopped, PutBuf, Idle, At, Inv, TypeOK, CtlRec
<1>2. ~ctl.waiting /\ ctl'.waiting = ctl.waiting /\ ctl'.phase # "starting"
  BY <1>1, NotWaiting DEF ReleaseBundle, Stopped, PutBuf, Goto, CtlRec
<1>3. \A s \in Streams : str'[s].count = str[s].count
  <2>1. CASE ReleaseBundle \/ Stopped
    BY <2>1 DEF ReleaseBundle, Stopped
  <2>2. CASE \E s \in Streams : PutBuf(s)
    <3>1. PICK s \in Streams : \E l \in BOOLEAN :
            str' = [str EXCEPT ![s].state = "CFG", ![s].late = l]
      BY <1>1, <2>2 DEF PutBuf, StreamRec
    <3> QED BY <1>1, <3>1 DEF StreamRec
  <2> QED BY <2>1, <2>2
<1>4. ctl'.phase = "stopped" => \A s \in Streams : str'[s].state = "CFG"
  <2>1. CASE Stopped
    BY <2>1 DEF Stopped, InState
  <2>2. CASE ReleaseBundle
    BY <1>1, <2>2 DEF ReleaseBundle, Goto, CtlRec
  <2>3. CASE \E s \in Streams : PutBuf(s)
    BY <1>1, <2>3 DEF PutBuf
  <2> QED BY <2>1, <2>2, <2>3
<1> QED BY <1>1, <1>2, <1>3, <1>4, EndStep

\* The buffers of a stream are allocated: it has no references and no frames.
LEMMA PipeGetBuf ==
  ASSUME Inv, Inv', PipeInv, NEW s \in Streams, GetBuf(s)
  PROVE  PipeInv'
<1>1. /\ UNCHANGED <<drv, pt>> /\ ctl.phase = "starting" /\ ctl.step = "none" /\ str[s].state = "CFG"
      /\ ctl \in CtlRec /\ str \in [Streams -> StreamRec]
  BY DEF GetBuf, At, Inv, TypeOK, CtlRec
<1>2. ~ctl.waiting
  BY <1>1, NotWaiting
<1>3. CASE Goto("aborting", "none", None) /\ UNCHANGED str
  <2>1. ctl'.phase = "aborting" /\ ctl'.waiting = ctl.waiting
    BY <1>1, <1>3 DEF Goto, CtlRec
  <2> QED BY <1>1, <1>2, <1>3, <2>1, EndStep
<1>4. CASE /\ str' = [str EXCEPT ![s].state = "BUFFED", ![s].refcnt = NoRefs]
           /\ Goto("starting", "reg", s)
  <2>1. ctl'.phase = "starting" /\ ctl'.waiting = ctl.waiting
    BY <1>1, <1>4 DEF Goto, CtlRec
  <2>2. /\ \A t \in Streams \ {s} : str'[t] = str[t]
        /\ str'[s].refcnt = NoRefs /\ str'[s].count = str[s].count /\ str'[s].state = "BUFFED"
    BY <1>1, <1>4 DEF StreamRec
  <2>3. ASSUME NEW t \in Streams PROVE QuietOK(t)'
    <3>1. QuietOK(t)
      BY DEF PipeInv
    <3>2. CASE t = s
      BY <1>1, <2>1, <2>2, <3>1, <3>2 DEF QuietOK, NoRefs
    <3>3. CASE t # s
      BY <1>1, <2>1, <2>2, <3>1, <3>3 DEF QuietOK
    <3> QED BY <3>2, <3>3
  <2>4. \A t \in Streams : Unfilled(t)' => Unfilled(t)
    BY <1>1, <2>2 DEF Unfilled
  <2>5. \A t \in Streams : str'[t].count = str[t].count
    BY <2>2
  <2> QED BY <1>1, <1>2, <2>1, <2>3, <2>4, <2>5, StillStep
<1> QED BY <1>3, <1>4 DEF GetBuf

\* STREAMON; if it fails, the thread waits until its stream is not polled.
LEMMA PipeStart ==
  ASSUME Inv, Inv', PipeInv, Start
  PROVE  PipeInv'
<1>1. /\ ctl.phase = "starting" /\ ctl.step = "start" /\ ctl \in CtlRec /\ pt \in PollRec
      /\ str \in [Streams -> StreamRec]
      /\ drv \in [Streams -> [queued : SUBSET Bufs, done : Seq(Bufs), on : BOOLEAN]]
  BY DEF Start, At, Inv, TypeOK, CtlRec
<1>2. ~ctl.waiting /\ ctl.s \in Streams
  BY <1>1, NotWaiting
<1>3. PICK s \in Streams : s = ctl.s
  BY <1>2
<1>4. str' = [str EXCEPT ![s].state = "ACTIVE", ![s].alive = s \in HasCb]
  BY <1>3 DEF Start
<1>5. /\ \A t \in Streams \ {s} : str'[t] = str[t]
      /\ str'[s].count = str[s].count /\ str'[s].state = "ACTIVE"
  BY <1>1, <1>4 DEF StreamRec
<1>6. ASSUME NEW t \in Streams, ctl'.phase = "starting", SamePlace(pt', pt), t # s => drv'[t] = drv[t]
      PROVE  QuietOK(t)'
  <2>1. QuietOK(t)
    BY DEF PipeInv
  <2>2. CASE t = s
    BY <1>5, <1>6, <2>2 DEF QuietOK
  <2>3. CASE t # s
    BY <1>1, <1>5, <1>6, <2>1, <2>3 DEF QuietOK, SamePlace
  <2> QED BY <2>2, <2>3
<1>7. ctl'.phase = "starting" => \A t \in Streams : Unfilled(t)' => Unfilled(t)
  BY <1>1, <1>5 DEF Unfilled
<1>8. \A t \in Streams : str'[t].count = str[t].count
  BY <1>5
<1>9. CASE /\ drv' = [drv EXCEPT ![s].on = TRUE] /\ Goto("starting", "none", None) /\ UNCHANGED pt
  <2>1. ctl'.phase = "starting" /\ ctl'.waiting = ctl.waiting
    BY <1>1, <1>9 DEF Goto, CtlRec
  <2>2. \A t \in Streams \ {s} : drv'[t] = drv[t]
    BY <1>1, <1>9
  <2>3. \A t \in Streams : QuietOK(t)'
    BY <1>6, <1>9, <2>1, <2>2 DEF SamePlace
  <2> QED BY <1>2, <1>7, <1>8, <1>9, <2>1, <2>3, StillStep
<1>10. CASE /\ pt' = DelPollFd(pt, s, "ENTRIES_UPDATED") /\ UNCHANGED drv
            /\ ctl' = [phase |-> "starting", step |-> "undo", s |-> s, waiting |-> s \in pt.entries]
  <2>1. ctl'.phase = "starting" /\ ctl'.step = "undo" /\ (ctl'.waiting <=> s \in pt.entries)
    BY <1>10
  <2>2. SamePlace(pt', pt)
    BY <1>1, <1>10, DelFacts
  <2>3. Visiting' = Visiting
    BY <2>2, SameVisits
  <2>4. MayBeAdded' \subseteq MayBeAdded
    BY <1>7, <1>8, <2>1, <2>3 DEF MayBeAdded
  <2>5. IF s \in pt.entries THEN Len(pt'.pipe) = Len(pt.pipe) + 1 ELSE pt' = pt
    BY <1>1, <1>10, Sent
  <2>6. ctl'.waiting \in BOOLEAN /\ ctl.waiting \in BOOLEAN
    BY DEF Inv, TypeOK
  <2>7. RoomOK'
    BY <1>2, <2>1, <2>3, <2>4, <2>5, <2>6, RoomKept DEF PipeInv
  <2>8. \A t \in Streams : QuietOK(t)'
    BY <1>6, <1>10, <2>1, <2>2
  <2>9. pt.ready \subseteq Streams
    BY <1>1 DEF PollRec
  <2>10. VisitOK'
    BY <1>8, <2>1, <2>2, <2>9 DEF PipeInv, VisitOK, SamePlace
  <2> QED BY <2>7, <2>8, <2>10 DEF PipeInv
<1> QED BY <1>3, <1>9, <1>10 DEF Start

\* STREAM STOP asks for an update and waits for it.
LEMMA PipeStreamOff ==
  ASSUME Inv, Inv', PipeInv, NEW s \in Streams, StreamOff(s)
  PROVE  PipeInv'
<1>1. /\ ctl.phase \in {"stopping", "aborting"} /\ ctl.step = "none" /\ ctl \in CtlRec /\ pt \in PollRec
      /\ UNCHANGED <<str, drv>> /\ pt' = DelForStop(pt, s)
  BY DEF StreamOff, Idle, Inv, TypeOK, CtlRec
<1>2. SamePlace(pt', pt) /\ Len(pt'.pipe) = Len(pt.pipe) + 1 /\ pt'.pipe # pt.pipe
  BY <1>1, StopFacts, Sent
<1>3. ctl'.phase = ctl.phase /\ ctl'.step = "off" /\ ctl'.waiting /\ ~ctl.waiting
  BY <1>1, <1>2, NotWaiting DEF StreamOff, CtlRec
<1>4. Visiting' = Visiting
  BY <1>2, SameVisits
<1>5. MayBeAdded' \subseteq MayBeAdded
  BY <1>1, <1>3, <1>4 DEF MayBeAdded, Unfilled
<1>6. RoomOK'
  BY <1>2, <1>3, <1>4, <1>5, RoomKept DEF PipeInv
<1>7. \A t \in Streams : QuietOK(t)'
  BY <1>1, <1>3 DEF QuietOK
<1>8. VisitOK'
  BY <1>1, <1>2, <1>3 DEF PipeInv, VisitOK, SamePlace
<1> QED BY <1>6, <1>7, <1>8 DEF PipeInv

\* Every stream has yet to be filled when the channel is started, and none is
\* visited.
LEMMA PipeStartChannel ==
  ASSUME Inv, ~crashed, Inv', PipeInv, StartChannel
  PROVE  PipeInv'
<1>1. /\ UNCHANGED <<str, drv, pt>> /\ ctl.phase = "stopped" /\ ctl.step = "none" /\ ctl \in CtlRec
      /\ Len(pt.pipe) <= MaxPending /\ pt.pc = "poll" /\ pt.ready = {}
  BY DEF StartChannel, At, Inv, TypeOK, CtlRec, PipeInv, VisitOK
<1>2. ctl'.phase = "starting" /\ ctl'.waiting = ctl.waiting /\ ~ctl.waiting
  BY <1>1, NotWaiting DEF StartChannel, Goto, CtlRec
<1>3. ASSUME NEW t \in Streams PROVE QuietOK(t)'
  <2>1. str[t].state = "CFG" /\ drv[t].done = <<>>
    BY <1>1 DEF PipeInv, QuietOK, Inv, StreamOK, PlaceOK, StartChannel
  <2> QED BY <1>1, <2>1 DEF QuietOK
<1>4. VisitOK'
  BY <1>1, <1>2 DEF VisitOK
<1>5. RoomOK'
  <2>1. Visiting' = {}
    BY <1>1 DEF Visiting
  <2>2. Cardinality(Visiting') = 0
    BY <2>1, FS_EmptySet
  <2>3. MayBeAdded' \subseteq Streams
    BY DEF MayBeAdded
  <2>4. Cardinality(MayBeAdded') <= Cardinality(Streams) /\ Cardinality(MayBeAdded') \in Nat
    BY <2>3, StreamAssumption, FS_Subset, FS_CardinalityType
  <2>5. Len(pt'.pipe) \in Nat /\ Len(pt'.pipe) <= MaxPending
    BY <1>1, DueTypes
  <2>6. Len(pt'.pipe) + (Cardinality(Visiting') + Cardinality(MayBeAdded')) <= Room
    BY <2>2, <2>4, <2>5, RoomTypes
  <2>7. Room' = Room
    BY DEF Room
  <2>8. RoomOK' <=> Len(pt'.pipe) + (Cardinality(Visiting') + Cardinality(MayBeAdded')) <= Room' + 0
    BY <1>2 DEF RoomOK, Due
  <2> QED BY <2>6, <2>7, <2>8, RoomTypes
<1> QED BY <1>3, <1>4, <1>5 DEF PipeInv

\* A stream that had no buffer in the driver has one, and is added.
LEMMA AddStep ==
  ASSUME Inv, Inv', RoomOK, NEW s \in Streams, pt' = AddPollFd(pt, s), ctl'.waiting = ctl.waiting,
         s \in MayBeAdded, s \notin Visiting, str'[s].count # 0, ~Unfilled(s)',
         \A t \in Streams \ {s} : str'[t].count = str[t].count /\ (Unfilled(t)' => Unfilled(t))
  PROVE  RoomOK'
<1>1. pt \in PollRec
  BY DEF Inv, TypeOK
<1>2. SamePlace(pt', pt) /\ Len(pt'.pipe) = Len(pt.pipe) + 1
  BY <1>1, AddFacts, Sent
<1>3. Visiting' = Visiting
  BY <1>2, SameVisits
<1>4. MayBeAdded' \subseteq MayBeAdded
  <2>1. ASSUME NEW t \in MayBeAdded' PROVE t \in MayBeAdded
    <3>1. t \in Streams /\ (str'[t].count = 0 \/ t \in Visiting \/ Unfilled(t)')
      BY <1>3 DEF MayBeAdded
    <3> QED BY <3>1 DEF MayBeAdded
  <2> QED BY <2>1
<1>5. s \notin MayBeAdded'
  BY <1>3 DEF MayBeAdded
<1> QED BY <1>2, <1>3, <1>4, <1>5, RoomTaken

\* What registering the buffers of s comes to, with n of them in the driver.
Filling(s, n) ==
  /\ \A t \in Streams \ {s} : str'[t] = str[t] /\ drv'[t] = drv[t]
  /\ str'[s].count = n /\ drv'[s].done = drv[s].done
  /\ pt' = IF n > 0 THEN AddPollFd(pt, s) ELSE pt
  /\ \/ ctl'.phase = "starting" /\ str'[s].state = "REG"
     \/ ctl'.phase = "aborting"
  /\ ctl'.waiting = ctl.waiting

\* It is one of the streams not filled yet, and is no longer.
LEMMA PipeFilling ==
  ASSUME Inv, Inv', PipeInv, ~crashed, NEW s \in Streams, s = ctl.s, ctl.phase = "starting",
         ctl.step = "reg", NEW n \in Nat, Filling(s, n)
  PROVE  PipeInv'
<1>1. /\ ~ctl.waiting /\ pt \in PollRec /\ StreamOK(s) /\ QuietOK(s)
      /\ pt.ready \subseteq Streams
  BY NotWaiting DEF Inv, TypeOK, PollRec, PipeInv
<1>2. str[s].state = "BUFFED" /\ pt.s # s /\ s \notin pt.ready
  BY <1>1 DEF StreamOK, PlaceOK, QuietOK
<1>3. s \notin Visiting /\ s \in MayBeAdded
  BY <1>2 DEF Visiting, MayBeAdded, Unfilled
<1>4. SamePlace(pt', pt)
  BY <1>1, AddFacts DEF Filling, SamePlace
<1>5. ASSUME NEW t \in Streams PROVE QuietOK(t)'
  <2>1. QuietOK(t)
    BY DEF PipeInv
  <2>2. CASE t = s
    BY <1>1, <1>2, <1>4, <2>2 DEF QuietOK, Filling, SamePlace
  <2>3. CASE t # s
    BY <1>4, <2>1, <2>3 DEF QuietOK, Filling, SamePlace
  <2> QED BY <2>2, <2>3
<1>6. \A t \in pt.ready : str'[t].count > 0
  BY <1>1, <1>2 DEF Filling, PipeInv, VisitOK
<1>7. VisitOK'
  BY <1>1, <1>4, <1>6 DEF PipeInv, VisitOK, SamePlace, Filling
<1>8. ~Unfilled(s)'
  BY DEF Unfilled, Filling
<1>9. \A t \in Streams \ {s} : str'[t].count = str[t].count /\ (Unfilled(t)' => Unfilled(t))
  BY DEF Unfilled, Filling
<1>10. CASE n > 0
  <2>1. pt' = AddPollFd(pt, s) /\ str'[s].count # 0 /\ ctl'.waiting = ctl.waiting
    BY <1>10 DEF Filling
  <2>2. RoomOK'
    BY <1>3, <1>8, <1>9, <2>1, AddStep DEF PipeInv
  <2> QED BY <1>5, <1>7, <2>2 DEF PipeInv
<1>11. CASE n = 0
  <2>1. pt' = pt /\ ctl'.waiting = ctl.waiting
    BY <1>11 DEF Filling
  <2>2. Visiting' = Visiting
    BY <1>4, SameVisits
  <2>3. MayBeAdded' \subseteq MayBeAdded
    BY <1>3, <1>9, <2>2 DEF MayBeAdded
  <2>4. RoomOK'
    BY <2>1, <2>2, <2>3, RoomKept DEF PipeInv
  <2> QED BY <1>5, <1>7, <2>4 DEF PipeInv
<1> QED BY <1>10, <1>11

\* The buffers are registered, or some are and a call fails.
LEMMA PipeRegBuf ==
  ASSUME Inv, Inv', PipeInv, ~crashed, RegBuf
  PROVE  PipeInv'
<1>1. /\ ctl.phase = "starting" /\ ctl.step = "reg" /\ ctl \in CtlRec
      /\ str \in [Streams -> StreamRec]
      /\ drv \in [Streams -> [queued : SUBSET Bufs, done : Seq(Bufs), on : BOOLEAN]]
  BY DEF RegBuf, At, Inv, TypeOK, CtlRec
<1>2. PICK s \in Streams : s = ctl.s
  BY <1>1, NotWaiting
<1>3. \A Q \in SUBSET Initial[s] :
        Cardinality(Q) \in Nat /\ (Cardinality(Q) > 0 <=> Q # {})
  <2>1. \A Q \in SUBSET Initial[s] : IsFiniteSet(Q)
    BY SpFacts, FS_Subset
  <2> QED BY <2>1, FS_CardinalityType, FS_EmptySet
<1>4. CASE /\ drv' = [drv EXCEPT ![s].queued = Initial[s]]
           /\ str' = [str EXCEPT
                        ![s].state = "REG", ![s].count = Cardinality(Initial[s]),
                        ![s].refcnt = [b \in Bufs |-> IF b \in Initial[s] THEN 0 ELSE 1]]
           /\ pt' = IF Initial[s] # {} THEN AddPollFd(pt, s) ELSE pt
           /\ Goto("starting", "start", s)
  <2>1. PICK n \in Nat : n = Cardinality(Initial[s]) /\ (n > 0 <=> Initial[s] # {})
    BY <1>3
  <2>2. PICK r : r = [b \in Bufs |-> IF b \in Initial[s] THEN 0 ELSE 1]
    OBVIOUS
  <2>3. str' = [str EXCEPT ![s].state = "REG", ![s].count = n, ![s].refcnt = r]
    BY <1>4, <2>1, <2>2
  <2>4. /\ \A t \in Streams \ {s} : str'[t] = str[t]
        /\ str'[s].state = "REG" /\ str'[s].count = n
    BY <1>1, <2>3 DEF StreamRec
  <2>5. (\A t \in Streams \ {s} : drv'[t] = drv[t]) /\ drv'[s].done = drv[s].done
    BY <1>1, <1>4
  <2>6. ctl'.phase = "starting" /\ ctl'.waiting = ctl.waiting
    BY <1>1, <1>4 DEF Goto, CtlRec
  <2>7. pt' = IF n > 0 THEN AddPollFd(pt, s) ELSE pt
    BY <1>4, <2>1
  <2>8. Filling(s, n)
    BY <2>4, <2>5, <2>6, <2>7 DEF Filling
  <2> QED BY <1>1, <1>2, <2>8, PipeFilling
<1>5. ASSUME NEW Q \in SUBSET Initial[s], NEW n \in Nat,
             str' = [str EXCEPT ![s].count = n], pt' = IF n > 0 THEN AddPollFd(pt, s) ELSE pt,
             drv' = [drv EXCEPT ![s].queued = Q], Goto("aborting", "none", None)
      PROVE  PipeInv'
  <2>1. /\ \A t \in Streams \ {s} : str'[t] = str[t]
        /\ str'[s].count = n
    BY <1>1, <1>5 DEF StreamRec
  <2>2. (\A t \in Streams \ {s} : drv'[t] = drv[t]) /\ drv'[s].done = drv[s].done
    BY <1>1, <1>5
  <2>3. ctl'.phase = "aborting" /\ ctl'.waiting = ctl.waiting
    BY <1>1, <1>5 DEF Goto, CtlRec
  <2>4. Filling(s, n)
    BY <1>5, <2>1, <2>2, <2>3 DEF Filling
  <2> QED BY <1>1, <1>2, <2>4, PipeFilling
<1>6. CASE \E Q \in SUBSET Initial[s], n \in Nat :
             /\ str' = [str EXCEPT ![s].count = n]
             /\ pt' = IF n > 0 THEN AddPollFd(pt, s) ELSE pt
             /\ drv' = [drv EXCEPT ![s].queued = Q]
             /\ Goto("aborting", "none", None)
  BY <1>5, <1>6
<1>7. \A Q \in SUBSET Initial[s] : Cardinality(Q) + 1 \in Nat
  BY <1>3
<1> QED BY <1>2, <1>3, <1>4, <1>6, <1>7 DEF RegBuf

\* A buffer comes back; if it is the first in the driver its stream is added.
LEMMA PipeBufDone ==
  ASSUME Inv, Inv', PipeInv, ~crashed, NEW s \in Streams, NEW b \in Bufs, NEW x \in StreamRec,
         x.state = str[s].state, x.refcnt = str[s].refcnt, x.count = str[s].count,
         x.state # "CFG", BufDone(s, b, x), ctl' = ctl
  PROVE  PipeInv'
<1>1. /\ TypeOK /\ QuietOK(s) /\ StreamOK(s) /\ pt \in PollRec /\ str[s].count \in Nat
      /\ pt.ready \subseteq Streams /\ x.refcnt[b] \in Nat
  BY Types DEF Inv, TypeOK, PipeInv, PollRec, StreamRec
<1>2. /\ \A t \in Streams \ {s} : str'[t] = str[t] /\ drv'[t] = drv[t]
      /\ str'[s].state = str[s].state /\ drv'[s].done = drv[s].done
  BY <1>1, BufDoneFacts
<1>3. /\ \A a \in Bufs \ {b} : str'[s].refcnt[a] = str[s].refcnt[a]
      /\ str'[s].refcnt[b] = IF str[s].refcnt[b] = 0 THEN 0 ELSE str[s].refcnt[b] - 1
  BY <1>1, BufDoneFacts
<1>4. \/ str'[s].count = str[s].count /\ pt' = pt
      \/ /\ str'[s].count = str[s].count + 1 /\ str[s].refcnt[b] = 1
         /\ str[s].count = 0 => pt' = AddPollFd(pt, s)
         /\ str[s].count # 0 => pt' = pt
  BY <1>1, BufDoneFacts
<1>5. SamePlace(pt', pt)
  BY <1>1, <1>4, AddFacts DEF SamePlace
<1>6. ASSUME NEW t \in Streams PROVE QuietOK(t)'
  <2>1. QuietOK(t)
    BY DEF PipeInv
  <2>2. CASE t = s
    <3>1. (\A a \in Bufs : str[s].refcnt[a] = 0) => \A a \in Bufs : str'[s].refcnt[a] = 0
      BY <1>3
    <3> QED BY <1>2, <1>5, <2>1, <2>2, <3>1 DEF QuietOK, SamePlace
  <2>3. CASE t # s
    BY <1>2, <1>5, <2>1, <2>3 DEF QuietOK, SamePlace
  <2> QED BY <2>2, <2>3
<1>7. \A t \in pt.ready : str'[t].count > 0
  <2>1. \A t \in pt.ready : str[t].count > 0
    BY DEF PipeInv, VisitOK
  <2> QED BY <1>1, <1>2, <1>4, <2>1
<1>8. VisitOK'
  BY <1>5, <1>7 DEF PipeInv, VisitOK, SamePlace
<1>9. \A t \in Streams : Unfilled(t)' => Unfilled(t)
  BY <1>2 DEF Unfilled
<1>10. Visiting' = Visiting
  BY <1>5, SameVisits
<1>11. CASE str[s].count # 0 \/ str'[s].count = str[s].count
  <2>1. pt' = pt
    BY <1>1, <1>4, <1>11
  <2>2. str'[s].count = 0 => str[s].count = 0
    BY <1>1, <1>4, <1>11
  <2>3. ASSUME NEW t \in MayBeAdded' PROVE t \in MayBeAdded
    <3>1. t \in Streams /\ (str'[t].count = 0 \/ t \in Visiting \/ Unfilled(t)')
      BY <1>10 DEF MayBeAdded
    <3>2. str'[t].count = 0 => str[t].count = 0
      BY <1>2, <2>2, <3>1
    <3> QED BY <1>9, <3>1, <3>2 DEF MayBeAdded
  <2>4. RoomOK'
    BY <1>10, <2>1, <2>3, RoomKept DEF PipeInv
  <2> QED BY <1>6, <1>8, <2>4 DEF PipeInv
<1>12. CASE str[s].count = 0 /\ str'[s].count # str[s].count
  <2>1. pt' = AddPollFd(pt, s) /\ str'[s].count # 0 /\ str[s].refcnt[b] = 1
    BY <1>4, <1>12
  <2>2. ~Unfilled(s)
    BY <1>1, <2>1 DEF Unfilled, QuietOK
  <2>3. s \notin Visiting
    <3>1. s \notin pt.ready
      BY <1>12 DEF PipeInv, VisitOK
    <3>2. Deq(s) = 0
      <4>1. Deq(s) \in {0, 1} /\ Cardinality(drv[s].queued) \in Nat /\ Len(drv[s].done) \in Nat
        BY <1>1, Types
      <4>2. Cardinality(drv[s].queued) + Len(drv[s].done) + Deq(s) <= 0
        BY <1>1, <1>12 DEF StreamOK, CountOK
      <4> QED BY <4>1, <4>2
    <3> QED BY <3>1, <3>2 DEF Visiting, Deq
  <2>4. s \in MayBeAdded
    BY <1>12 DEF MayBeAdded
  <2>5. RoomOK'
    BY <1>2, <1>9, <2>1, <2>2, <2>3, <2>4, AddStep DEF PipeInv
  <2> QED BY <1>6, <1>8, <2>5 DEF PipeInv
<1> QED BY <1>11, <1>12

\* The end of a return.
LEMMA PipeReturnDone ==
  ASSUME Inv, Inv', PipeInv, ~crashed, NEW h \in returning, ReturnDone(h)
  PROVE  PipeInv'
<1>1. h \in Ref /\ h[1] \in Streams /\ h[2] \in Bufs /\ ctl' = ctl
  BY DEF Inv, TypeOK, Ref, ReturnDone
<1>2. PICK s \in Streams, b \in Bufs : s = h[1] /\ b = h[2]
  BY <1>1
<1>3. BufDone(s, b, str[s]) /\ str[s] \in StreamRec
  BY <1>2 DEF ReturnDone, Inv, TypeOK
<1>4. str[s].state # "CFG"
  <2>1. ~NoneOf(s)
    BY <1>2 DEF NoneOf
  <2> QED BY <2>1 DEF Inv, StreamOK, FreeOK
<1> QED BY <1>1, <1>3, <1>4, PipeBufDone

\* A return that is too late.
LEMMA PipeStaleReturn ==
  ASSUME Inv, Inv', PipeInv, NEW s \in Streams, StaleReturn(s)
  PROVE  PipeInv'
<1>1. UNCHANGED <<str, drv, pt, ctl>>
  BY DEF StaleReturn
<1>2. \A t \in Streams : QuietOK(t)'
  BY <1>1 DEF PipeInv, QuietOK
<1> QED BY <1>1, <1>2, UseStep

\* The end of a call back.
LEMMA PipeDispatched ==
  ASSUME Inv, Inv', PipeInv, ~crashed, NEW s \in Streams, Dispatched(s)
  PROVE  PipeInv'
<1>1. str[s] \in StreamRec /\ str[s].disp \in Bufs \cup {None} /\ str[s].disp # None
  BY Types DEF Dispatched, Inv
<1>2. PICK b \in Bufs : b = str[s].disp
  BY <1>1
<1>3. str[s].state = "ACTIVE"
  BY <1>1 DEF Inv, StreamOK, PlaceOK
<1>4. PICK x : x = [str[s] EXCEPT !.disp = None]
  OBVIOUS
<1>5. x \in StreamRec /\ x.state = str[s].state /\ x.refcnt = str[s].refcnt /\ x.count = str[s].count
  BY <1>1, <1>4 DEF StreamRec
<1>6. BufDone(s, b, x) /\ ctl' = ctl
  BY <1>2, <1>4 DEF Dispatched
<1> QED BY <1>3, <1>5, <1>6, PipeBufDone

\* The poll thread reads a command.
LEMMA PipePollPipe ==
  ASSUME Inv, Inv', PipeInv, PollPipe
  PROVE  PipeInv'
<1>1. /\ pt \in PollRec /\ pt.pipe \in Seq(Cmds) /\ pt.pipe # <<>> /\ ctl \in CtlRec
      /\ pt.pc = "poll" /\ UNCHANGED <<str, drv>> /\ pt.ready = {}
  BY DEF Inv, TypeOK, PollRec, CtlRec, PollPipe, PipeInv, VisitOK
<1>2. PICK fds, w : /\ pt' = [pt EXCEPT !.pipe = Tail(@), !.fds = fds]
                    /\ ctl' = [ctl EXCEPT !.waiting = w] /\ (w => ctl.waiting)
  <2>1. PICK w : w = (ctl.waiting /\ Head(pt.pipe) = "ENTRIES_UPDATED_ASYNC")
    OBVIOUS
  <2>2. PICK fds : fds = IF Head(pt.pipe) = "COMMIT" THEN pt.fds ELSE pt.entries
    OBVIOUS
  <2> QED BY <2>1, <2>2 DEF PollPipe
<1>3. /\ pt'.pipe = Tail(pt.pipe) /\ SamePlace(pt', pt)
      /\ ctl'.waiting = w /\ ctl'.phase = ctl.phase /\ ctl'.step = ctl.step
  BY <1>1, <1>2 DEF PollRec, CtlRec, SamePlace
<1>4. Len(pt'.pipe) + 1 = Len(pt.pipe)
  <2>1. Len(pt.pipe) \in Nat /\ Len(Tail(pt.pipe)) = Len(pt.pipe) - 1
    BY <1>1, HeadTailProperties, LenProperties
  <2> QED BY <1>3, <2>1
<1>5. Visiting' = Visiting
  BY <1>3, SameVisits
<1>6. MayBeAdded' \subseteq MayBeAdded
  BY <1>1, <1>3, <1>5 DEF MayBeAdded, Unfilled
<1>7. RoomOK'
  BY <1>4, <1>5, <1>6, RoomKept DEF PipeInv
<1>8. VisitOK'
  BY <1>1, <1>2, <1>3 DEF PipeInv, VisitOK, SamePlace
<1>9. \A t \in Streams : QuietOK(t)'
  BY <1>1, <1>3 DEF PipeInv, QuietOK, SamePlace
<1> QED BY <1>7, <1>8, <1>9 DEF PipeInv

\* With the pipe empty it finds streams that have a frame: these it will visit.
LEMMA PipePollData ==
  ASSUME Inv, Inv', PipeInv, PollData
  PROVE  PipeInv'
<1>1. /\ pt \in PollRec /\ pt.pipe = <<>> /\ UNCHANGED <<str, drv, ctl>>
      /\ pt.fds \subseteq Streams
  BY DEF Inv, TypeOK, PollRec, PollData
<1>2. PICK ready : /\ ready = {s \in pt.fds : drv[s].done # <<>>}
                   /\ pt' = [pt EXCEPT !.pc = "notify", !.ready = ready]
  BY DEF PollData
<1>3. pt'.pc = "notify" /\ pt'.ready = ready /\ pt'.pipe = <<>>
  BY <1>1, <1>2 DEF PollRec
<1>4. ASSUME NEW t \in ready PROVE str[t].count > 0
  <2>1. t \in Streams /\ drv[t].done # <<>>
    BY <1>1, <1>2
  <2>2. /\ StreamOK(t) /\ drv[t].done \in Seq(Bufs) /\ Deq(t) \in {0, 1}
        /\ Cardinality(drv[t].queued) \in Nat /\ str[t].count \in Nat
    BY <2>1, Types DEF Inv
  <2>3. Len(drv[t].done) \in Nat /\ Len(drv[t].done) # 0
    BY <2>1, <2>2, EmptySeq, LenProperties
  <2>4. Cardinality(drv[t].queued) + Len(drv[t].done) + Deq(t) <= str[t].count
    BY <2>2 DEF StreamOK, CountOK
  <2> QED BY <2>2, <2>3, <2>4
<1>5. VisitOK'
  BY <1>1, <1>3, <1>4 DEF PipeInv, VisitOK
<1>6. \A t \in Streams : QuietOK(t)'
  BY <1>1, <1>2, <1>3 DEF PipeInv, QuietOK
<1>7. RoomOK'
  <2>1. Visiting' = ready /\ ready \subseteq Streams /\ MayBeAdded' \subseteq Streams
    BY <1>1, <1>2, <1>3 DEF Visiting, MayBeAdded
  <2>2. /\ Cardinality(Visiting') \in Nat /\ Cardinality(MayBeAdded') \in Nat
        /\ Cardinality(Visiting') <= Cardinality(Streams)
        /\ Cardinality(MayBeAdded') <= Cardinality(Streams)
    BY <2>1, StreamAssumption, FS_Subset, FS_CardinalityType
  <2>3. Len(pt'.pipe) = 0
    BY <1>3
  <2>4. Cardinality(Visiting') + Cardinality(MayBeAdded') <= Room
    BY <2>2, RoomTypes
  <2>5. Room' = Room
    BY DEF Room
  <2>6. RoomOK' <=> 0 + (Cardinality(Visiting') + Cardinality(MayBeAdded'))
                      <= Room' + (IF ctl'.waiting THEN 1 ELSE 0)
    BY <2>3 DEF RoomOK, Due
  <2> QED BY <2>2, <2>4, <2>5, <2>6, RoomTypes
<1> QED BY <1>5, <1>6, <1>7 DEF PipeInv

\* A step of the poll thread that sends nothing: it visits no more streams than
\* before, and changes no count or state.
LEMMA VisitStep ==
  ASSUME Inv, Inv', PipeInv, pt'.pipe = pt.pipe, ctl' = ctl,
         \A s \in Streams : str'[s].count = str[s].count /\ str'[s].state = str[s].state,
         \A s \in Streams : QuietOK(s)',
         Visiting' \subseteq Visiting, pt'.ready \subseteq pt.ready,
         pt'.pc = "poll" => pt'.ready = {},
         pt'.pc = "dequeued" => pt'.s \notin pt'.ready
  PROVE  PipeInv'
<1>1. MayBeAdded' \subseteq MayBeAdded
  BY DEF MayBeAdded, Unfilled
<1>2. RoomOK'
  BY <1>1, RoomKept DEF PipeInv
<1>3. pt.ready \subseteq Streams
  BY DEF Inv, TypeOK, PollRec
<1>4. VisitOK'
  BY <1>3 DEF PipeInv, VisitOK
<1> QED BY <1>2, <1>4 DEF PipeInv

\* All streams visited.
LEMMA PipePollAgain ==
  ASSUME Inv, Inv', PipeInv, PollAgain
  PROVE  PipeInv'
<1>1. pt \in PollRec /\ UNCHANGED <<str, drv, ctl>> /\ pt.ready = {} /\ pt.pc = "notify"
  BY DEF Inv, TypeOK, PollAgain
<1>2. pt' = [pt EXCEPT !.pc = "poll"]
  BY DEF PollAgain
<1>3. pt'.pc = "poll" /\ pt'.ready = {} /\ pt'.pipe = pt.pipe
  BY <1>1, <1>2 DEF PollRec
<1>4. Visiting' \subseteq Visiting
  BY <1>3 DEF Visiting
<1>5. \A t \in Streams : QuietOK(t)'
  BY <1>1, <1>3 DEF PipeInv, QuietOK
<1> QED BY <1>1, <1>3, <1>4, <1>5, VisitStep

\* A visit dequeues the frame of a stream that runs, or does nothing.
LEMMA PipeNotify ==
  ASSUME Inv, Inv', PipeInv, NEW s \in Streams, Notify(s)
  PROVE  PipeInv'
<1>1. /\ pt \in PollRec /\ UNCHANGED <<str, ctl>> /\ pt.pc = "notify" /\ s \in pt.ready
      /\ drv \in [Streams -> [queued : SUBSET Bufs, done : Seq(Bufs), on : BOOLEAN]]
      /\ \A t \in Streams : QuietOK(t)
  BY DEF Inv, TypeOK, Notify, PipeInv
<1>2. CASE pt' = [pt EXCEPT !.ready = @ \ {s}] /\ UNCHANGED drv
  <2>1. pt'.pc = "notify" /\ pt'.ready = pt.ready \ {s} /\ pt'.pipe = pt.pipe
    BY <1>1, <1>2 DEF PollRec
  <2>2. Visiting' \subseteq Visiting
    BY <1>1, <2>1 DEF Visiting
  <2>3. \A t \in Streams : QuietOK(t)'
    BY <1>1, <1>2, <2>1 DEF QuietOK
  <2> QED BY <1>1, <2>1, <2>2, <2>3, VisitStep
<1>3. CASE /\ str[s].state = "ACTIVE"
           /\ drv' = [drv EXCEPT ![s].done = Tail(@)]
           /\ pt' = [pt EXCEPT !.ready = @ \ {s}, !.pc = "dequeued", !.s = s, !.b = Head(drv[s].done)]
  <2>1. PICK b : b = Head(drv[s].done)
    OBVIOUS
  <2>2. pt' = [pt EXCEPT !.ready = @ \ {s}, !.pc = "dequeued", !.s = s, !.b = b]
    BY <1>3, <2>1
  <2>3. pt'.pc = "dequeued" /\ pt'.ready = pt.ready \ {s} /\ pt'.pipe = pt.pipe /\ pt'.s = s
    BY <1>1, <2>2 DEF PollRec
  <2>4. Visiting' \subseteq Visiting
    BY <1>1, <2>3 DEF Visiting
  <2>5. \A t \in Streams \ {s} : drv'[t] = drv[t]
    BY <1>1, <1>3
  <2>6. ASSUME NEW t \in Streams PROVE QuietOK(t)'
    <3>1. CASE t = s
      BY <1>1, <1>3, <3>1 DEF QuietOK
    <3>2. CASE t # s
      BY <1>1, <2>3, <2>5, <3>2 DEF QuietOK
    <3> QED BY <3>1, <3>2
  <2> QED BY <1>1, <2>3, <2>4, <2>6, VisitStep
<1> QED BY <1>2, <1>3 DEF Notify

\* The last buffer to leave the driver takes its stream off the list; the visit
\* is over.
LEMMA PipeCountDown ==
  ASSUME Inv, Inv', PipeInv, CountDown
  PROVE  PipeInv'
<1>1. /\ pt.pc = "dequeued" /\ pt \in PollRec /\ TypeOK /\ UNCHANGED <<drv, ctl>>
      /\ str \in [Streams -> StreamRec] /\ pt.ready \subseteq Streams
  BY DEF CountDown, Inv, TypeOK, PollRec
<1>2. PICK s \in Streams : s = pt.s
  BY <1>1 DEF Inv, PollOK, PollRec
<1>3. s \notin pt.ready
  BY <1>1, <1>2 DEF PipeInv, VisitOK
<1>4. str' = [str EXCEPT ![s].count = @ - 1]
  BY <1>2 DEF CountDown
<1>5. /\ \A t \in Streams \ {s} : str'[t] = str[t]
      /\ str'[s].state = str[s].state /\ str'[s].refcnt = str[s].refcnt
  BY <1>1, <1>4 DEF StreamRec
<1>6. PICK p : /\ p = IF str[s].count = 1 THEN DelPollFd(pt, s, "ENTRIES_UPDATED_ASYNC") ELSE pt
               /\ pt' = [p EXCEPT !.pc = "file"]
  BY <1>2 DEF CountDown
<1>7. /\ p \in PollRec /\ SamePlace(p, pt)
      /\ Len(p.pipe) = Len(pt.pipe) + 1 \/ p.pipe = pt.pipe
  BY <1>1, <1>6, DelFacts, Sent DEF SamePlace
<1>8. pt'.pc = "file" /\ pt'.ready = pt.ready /\ pt'.pipe = p.pipe
  BY <1>6, <1>7 DEF PollRec, SamePlace
<1>9. Visiting' = pt.ready /\ Visiting = pt.ready \cup {s}
  BY <1>1, <1>2, <1>8 DEF Visiting
<1>10. MayBeAdded' \subseteq MayBeAdded
  <2>1. ASSUME NEW t \in MayBeAdded' PROVE t \in MayBeAdded
    <3>1. t \in Streams /\ (str'[t].count = 0 \/ t \in pt.ready \/ Unfilled(t)')
      BY <1>9 DEF MayBeAdded
    <3>2. CASE t = s
      BY <1>9, <3>1, <3>2 DEF MayBeAdded
    <3>3. CASE t # s
      <4>1. str'[t] = str[t]
        BY <1>5, <3>1, <3>3
      <4> QED BY <1>1, <1>9, <3>1, <4>1 DEF MayBeAdded, Unfilled
    <3> QED BY <3>2, <3>3
  <2> QED BY <2>1
<1>11. RoomOK'
  <2>1. Visiting' \subseteq Visiting /\ Visiting' # Visiting
    BY <1>3, <1>9
  <2>2. CASE p.pipe = pt.pipe
    BY <1>1, <1>8, <1>10, <2>1, <2>2, RoomKept DEF PipeInv
  <2>3. CASE Len(p.pipe) = Len(pt.pipe) + 1
    BY <1>1, <1>8, <1>10, <2>1, <2>3, RoomTaken DEF PipeInv
  <2> QED BY <1>7, <2>2, <2>3
<1>12. \A t \in pt.ready : str'[t].count > 0
  BY <1>1, <1>3, <1>5 DEF PipeInv, VisitOK
<1>13. VisitOK'
  BY <1>1, <1>8, <1>12 DEF PipeInv, VisitOK
<1>14. ASSUME NEW t \in Streams PROVE QuietOK(t)'
  <2>1. QuietOK(t)
    BY DEF PipeInv
  <2>2. str'[t].state = str[t].state /\ str'[t].refcnt = str[t].refcnt
    BY <1>5
  <2> QED BY <1>1, <1>8, <2>1, <2>2 DEF QuietOK
<1> QED BY <1>11, <1>13, <1>14 DEF PipeInv

\* The frame is filed: references, but no count, change.
LEMMA PipeFile ==
  ASSUME Inv, Inv', PipeInv, ~crashed, File
  PROVE  PipeInv'
<1>1. /\ pt.pc = "file" /\ pt \in PollRec /\ UNCHANGED <<drv, ctl>> /\ str \in [Streams -> StreamRec]
      /\ pt' = [pt EXCEPT !.pc = "notify", !.s = None, !.b = None]
  BY DEF File, Inv, TypeOK
<1>2. PICK s \in Streams : s = pt.s
  BY <1>1 DEF Inv, PollOK, PollRec
<1>3. pt'.pc = "notify" /\ pt'.ready = pt.ready /\ pt'.pipe = pt.pipe
  BY <1>1 DEF PollRec
<1>4. Visiting' = Visiting
  BY <1>1, <1>3 DEF Visiting
<1>5. \/ str' = str
      \/ \E r, q : str' = [str EXCEPT ![s].refcnt = r, ![s].cmdq = q]
  <2>1. CASE UNCHANGED str
    BY <2>1
  <2>2. CASE ~UNCHANGED str
    <3> DEFINE b == pt.b
               n == (IF s \in Bundled THEN 1 ELSE 0) + (IF s \in HasCb THEN 1 ELSE 0)
    <3>0. PICK toOwn \in Ok("malloc") :
            str' = [str EXCEPT ![s].refcnt[b] = @ + n,
                               ![s].cmdq = IF s \in HasCb /\ toOwn THEN Append(@, b) ELSE @]
      BY <1>2, <2>2 DEF File
    <3>1. PICK q : str' = [str EXCEPT ![s].refcnt[b] = @ + n, ![s].cmdq = q]
      <4>1. PICK q : q = IF s \in HasCb /\ toOwn THEN Append(str[s].cmdq, b) ELSE str[s].cmdq
        OBVIOUS
      <4> QED BY <1>1, <3>0, <4>1 DEF StreamRec
    <3> HIDE DEF b, n
    <3>2. PICK r : r = [str[s].refcnt EXCEPT ![b] = @ + n]
      OBVIOUS
    <3>3. str' = [str EXCEPT ![s].refcnt = r, ![s].cmdq = q]
      BY <1>1, <3>1, <3>2 DEF StreamRec
    <3> QED BY <3>3
  <2> QED BY <2>1, <2>2
<1>6. /\ \A t \in Streams \ {s} : str'[t] = str[t]
      /\ str'[s].count = str[s].count /\ str'[s].state = str[s].state
  BY <1>1, <1>5 DEF StreamRec
<1>7. ctl.phase = "starting" => str[s].state = "ACTIVE"
  BY <1>2 DEF Inv, StreamOK, PlaceOK
<1>8. ASSUME NEW t \in Streams PROVE QuietOK(t)'
  <2>1. QuietOK(t)
    BY DEF PipeInv
  <2>2. CASE t = s
    BY <1>1, <1>6, <1>7, <2>1, <2>2 DEF QuietOK
  <2>3. CASE t # s
    BY <1>1, <1>3, <1>6, <2>1, <2>3 DEF QuietOK
  <2> QED BY <2>2, <2>3
<1>9. \A t \in Streams : str'[t].count = str[t].count /\ str'[t].state = str[t].state
  BY <1>6
<1> QED BY <1>1, <1>3, <1>4, <1>8, <1>9, VisitStep

\* At first the pipe is empty, and a stream has at most one update to send: its first.
LEMMA PipeInit == Init => PipeInv
<1> SUFFICES ASSUME Init PROVE PipeInv
  OBVIOUS
<1>1. /\ pt.pipe = <<>> /\ pt.pc = "poll" /\ pt.ready = {} /\ ctl.phase = "stopped" /\ ctl.waiting = FALSE
      /\ \A s \in Streams : str[s].state = "CFG"
  BY DEF Init
<1>2. VisitOK /\ \A s \in Streams : QuietOK(s)
  BY <1>1 DEF VisitOK, QuietOK
<1>3. Visiting = {} /\ MayBeAdded \subseteq Streams
  BY <1>1 DEF Visiting, MayBeAdded
<1>4. /\ Cardinality(Visiting) = 0 /\ Cardinality(MayBeAdded) \in Nat
      /\ Cardinality(MayBeAdded) <= Cardinality(Streams)
  BY <1>3, StreamAssumption, FS_EmptySet, FS_Subset, FS_CardinalityType
<1>5. Len(pt.pipe) = 0
  BY <1>1
<1>6. RoomOK
  BY <1>1, <1>4, <1>5, RoomTypes DEF RoomOK, Due
<1> QED BY <1>2, <1>6 DEF PipeInv

\* Every step leaves room for what is due.
LEMMA PipeStep ==
  ASSUME Inv, Inv', PipeInv, [Next]_vars
  PROVE  PipeInv'
<1>1. CASE UNCHANGED vars
  <2>1. UNCHANGED <<str, drv, pt, ctl>>
    BY <1>1 DEF vars
  <2>2. \A s \in Streams : QuietOK(s)'
    BY <2>1 DEF PipeInv, QuietOK
  <2> QED BY <2>1, <2>2, UseStep
<1>2. CASE Next
  <2>1. ~crashed
    BY <1>2 DEF Next
  <2>2. CASE StartChannel \/ StopChannel
    BY <2>1, <2>2, PipeStartChannel, PipeStarted
  <2>3. CASE Launch
    BY <2>1, <2>3, PipeGetBuf, PipeRegBuf, PipeStart, PipeStarted DEF Launch
  <2>4. CASE Teardown
    BY <2>1, <2>4, PipeStreamOff, PipeTeardown, PipeEnd DEF Teardown
  <2>5. CASE PollThread
    BY <2>1, <2>5, PipePollPipe, PipePollData, PipePollAgain, PipeCountDown, PipeFile, PipeNotify
       DEF PollThread
  <2>6. CASE \E s \in Streams : CmdThread(s) \/ Fill(s) \/ StaleReturn(s)
    BY <2>1, <2>6, PipeDispatch, PipeDispatched, PipeFill, PipeStaleReturn DEF CmdThread
  <2>7. CASE \E h \in hold : Return(h)
    BY <2>7, PipeReturn
  <2>8. CASE \E h \in returning : ReturnDone(h)
    BY <2>1, <2>8, PipeReturnDone
  <2> QED BY <1>2, <2>2, <2>3, <2>4, <2>5, <2>6, <2>7, <2>8 DEF Next
<1> QED BY <1>1, <1>2

\* mm_camera_poll_thread, mm_camera_channel.c: however frames, returns, starts
\* and stops follow each other, few commands wait in the pipe.
THEOREM PipeShortAlways == Spec => []PipeShort
<1>1. Init => Inv /\ PipeInv
  BY InitInv, PipeInit
<1>2. Inv /\ PipeInv /\ [Next]_vars => (Inv /\ PipeInv)'
  <2> SUFFICES ASSUME Inv, PipeInv, [Next]_vars PROVE Inv' /\ PipeInv'
    OBVIOUS
  <2>1. Inv'
    BY NextStep
  <2> QED BY <2>1, PipeStep
<1>3. Inv /\ PipeInv => PipeShort
  <2> SUFFICES ASSUME Inv, PipeInv PROVE PipeShort
    OBVIOUS
  <2>1. /\ Len(pt.pipe) \in Nat /\ Cardinality(Visiting) \in Nat /\ Cardinality(MayBeAdded) \in Nat
    BY DueTypes, FewerDue
  <2>2. Len(pt.pipe) + (Cardinality(Visiting) + Cardinality(MayBeAdded))
          <= Room + (IF ctl.waiting THEN 1 ELSE 0)
    BY DEF PipeInv, RoomOK, Due
  <2>3. Len(pt.pipe) <= Room + 1
    BY <2>1, <2>2, RoomTypes
  <2> QED BY <2>1, <2>3, RoomTypes DEF PipeShort, Room
<1> QED BY <1>1, <1>2, <1>3, PTL DEF Spec
=============================================================================
