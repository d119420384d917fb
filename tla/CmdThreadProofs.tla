-------------------------- MODULE CmdThreadProofs --------------------------
(***************************************************************************)
(* Proofs about CmdThread for any senders and messages: its types, that a  *)
(* thread never sleeps over a command, and that the two threads implement  *)
(* mailboxes that are closed only when they are empty.                     *)
(*                                                                         *)
(* The inductive invariant says, besides the types, who may still send to  *)
(* a thread: nobody once its EXIT is in the queue, so that EXIT is the     *)
(* last command and the thread ends with an empty queue.                   *)
(***************************************************************************)
EXTENDS CmdThread, SequenceTheorems, TLAPS

Cmds == Msgs \cup {EXIT}

\* EXIT has been sent to t.
Exiting(t) == rel.thread = t /\ rel.step \in {"post", "join"}

\* Which threads exist at each step of the release.
AliveInv ==
  /\ rel.step = "stopped" => alive = {} /\ rel.thread = "cb_thread"
  /\ rel.step = "open" => alive = Threads
  /\ rel.step \in {"enq", "post", "join"} =>
       alive = IF rel.thread = "cmd_thread" THEN Threads ELSE {"cb_thread"}
  /\ rel.step # "open" => posting = {}
  /\ \A t \in Threads : t \notin alive => pc[t] = "none" /\ queue[t] = <<>>
  /\ \A t \in alive : pc[t] # "none"

\* What thread t holds, and what is in its queue, before and after EXIT.
ExitInv(t) ==
  /\ pc[t] \in {"forward", "forward_post"} => t = "cmd_thread" /\ node[t] # EXIT
  /\ pc[t] = "exited" => ~running[t]
  /\ ~Exiting(t) => /\ \A i \in 1..Len(queue[t]) : queue[t][i] # EXIT
                    /\ pc[t] = "handle" => node[t] # EXIT
                    /\ t \in alive => running[t]
  /\ Exiting(t) => /\ \A i \in 1..(Len(queue[t]) - 1) : queue[t][i] # EXIT
                   /\ pc[t] = "handle" /\ node[t] = EXIT => queue[t] = <<>>
                   /\ ~running[t] => queue[t] = <<>> /\ ~(pc[t] = "handle" /\ node[t] # EXIT)

\* A thread that sleeps, or is about to, has nothing to do unless it is owed a
\* post.
WakeInv(t) ==
  pc[t] = "asleep" \/ (pc[t] = "wait" /\ sem[t] = 0) => queue[t] = <<>> \/ Owed(t)

Inv == TypeOK /\ AliveInv /\ \A t \in Threads : ExitInv(t) /\ WakeInv(t)

-----------------------------------------------------------------------------
(* Sequences. *)

\* A queue after a command is appended, and after one is taken.
LEMMA QueueFacts ==
  ASSUME NEW q \in Seq(Cmds)
  PROVE  /\ Len(q) \in Nat
         /\ q = <<>> <=> Len(q) = 0
         /\ \A i \in 1..Len(q) : q[i] \in Cmds
         /\ \A c \in Cmds : /\ Append(q, c) \in Seq(Cmds)
                            /\ Len(Append(q, c)) = Len(q) + 1
                            /\ Append(q, c)[Len(q) + 1] = c
                            /\ \A i \in 1..Len(q) : Append(q, c)[i] = q[i]
         /\ q # <<>> => /\ Head(q) = q[1] /\ Head(q) \in Cmds
                        /\ Tail(q) \in Seq(Cmds) /\ Len(Tail(q)) = Len(q) - 1
                        /\ \A i \in 1..Len(Tail(q)) : Tail(q)[i] = q[i + 1]
<1>1. Len(q) \in Nat /\ (q = <<>> <=> Len(q) = 0) /\ \A i \in 1..Len(q) : q[i] \in Cmds
  BY ElementOfSeq, LenProperties, EmptySeq
<1>2. \A c \in Cmds : /\ Append(q, c) \in Seq(Cmds)
                      /\ Len(Append(q, c)) = Len(q) + 1
                      /\ Append(q, c)[Len(q) + 1] = c
                      /\ \A i \in 1..Len(q) : Append(q, c)[i] = q[i]
  BY AppendProperties
<1>3. ASSUME q # <<>>
      PROVE  /\ Head(q) = q[1] /\ Head(q) \in Cmds
             /\ Tail(q) \in Seq(Cmds) /\ Len(Tail(q)) = Len(q) - 1
             /\ \A i \in 1..Len(Tail(q)) : Tail(q)[i] = q[i + 1]
  BY <1>1, <1>3, HeadTailProperties
<1> QED BY <1>1, <1>2, <1>3

-----------------------------------------------------------------------------
(* The invariant. *)

LEMMA InitInv == Init => Inv
<1> SUFFICES ASSUME Init PROVE Inv
  OBVIOUS
<1>1. TypeOK
  BY EmptySeq, CmdThreadAssumption DEF Init, TypeOK, Threads, EXIT
<1>2. AliveInv
  BY DEF Init, AliveInv
<1>3. \A t \in Threads : ExitInv(t) /\ WakeInv(t)
  BY EmptySeq DEF Init, ExitInv, WakeInv, Exiting
<1> QED BY <1>1, <1>2, <1>3 DEF Inv

LEMMA Order == FirstReleased = "cmd_thread" /\ SecondReleased = "cb_thread"
BY DEF FirstReleased, SecondReleased, Threads

Places == {"none", "wait", "asleep", "deq", "handle", "forward", "forward_post", "exited"}

\* A post wakes the thread and is counted.
LEMMA PostFacts ==
  ASSUME TypeOK, NEW t \in Threads, Post(t)
  PROVE  /\ sem' \in [Threads -> Nat] /\ pc' \in [Threads -> Places]
         /\ sem'[t] > 0
         /\ pc'[t] = IF pc[t] = "asleep" THEN "wait" ELSE pc[t]
         /\ \A u \in Threads \ {t} : sem'[u] = sem[u] /\ pc'[u] = pc[u]
<1>1. sem \in [Threads -> Nat] /\ pc \in [Threads -> Places]
  BY DEF TypeOK, Places
<1>2. sem' = [sem EXCEPT ![t] = sem[t] + 1]
  BY DEF Post
<1>3. pc' = [pc EXCEPT ![t] = IF pc[t] = "asleep" THEN "wait" ELSE pc[t]]
  BY DEF Post
<1>4. sem[t] + 1 \in Nat /\ sem[t] + 1 > 0
  BY <1>1
<1>5. (IF pc[t] = "asleep" THEN "wait" ELSE pc[t]) \in Places
  BY <1>1 DEF Places
<1>6. sem' \in [Threads -> Nat] /\ sem'[t] > 0 /\ \A u \in Threads \ {t} : sem'[u] = sem[u]
  BY <1>1, <1>2, <1>4
<1> QED BY <1>1, <1>3, <1>5, <1>6

\* A command is appended, or lost.
LEMMA EnqueuedFacts ==
  ASSUME TypeOK, NEW t \in Threads, NEW c \in Cmds, Enqueued(t, c)
  PROVE  /\ queue' \in [Threads -> Seq(Cmds)]
         /\ queue'[t] \in {queue[t], Append(queue[t], c)}
         /\ \A u \in Threads \ {t} : queue'[u] = queue[u]
<1>1. queue \in [Threads -> Seq(Cmds)]
  BY DEF TypeOK, Cmds
<1>2. Append(queue[t], c) \in Seq(Cmds)
  BY <1>1, AppendProperties
<1> QED BY <1>1, <1>2 DEF Enqueued

LEMMA StepTypeOK == TypeOK /\ [Next]_vars => TypeOK'
<1> SUFFICES ASSUME TypeOK, [Next]_vars PROVE TypeOK'
  OBVIOUS
<1> USE DEF TypeOK, Cmds
<1>1. CASE Launch
  BY <1>1, EmptySeq DEF Launch
<1>2. CASE StopBundle
  BY <1>2, Order DEF StopBundle, Threads
<1>3. CASE StopEnq
  BY <1>3, QueueFacts DEF StopEnq
<1>4. CASE StopPost
  BY <1>4, PostFacts DEF StopPost, Places
<1>5. CASE Destroy
  BY <1>5, Order, EmptySeq DEF Destroy, Threads
<1>6. ASSUME NEW s \in Senders, SendPost(s) PROVE TypeOK'
  BY <1>6, PostFacts DEF SendPost, Places, Threads
<1>7. ASSUME NEW s \in Senders, NEW m \in Msgs, Send(s, m) PROVE TypeOK'
  BY <1>7, EnqueuedFacts DEF Send, Threads
<1>8. ASSUME NEW t \in Threads, Thread(t) PROVE TypeOK'
  <2>1. CASE SemWait(t)
    <3>1. CASE sem[t] = 0
      BY <2>1, <3>1 DEF SemWait
    <3>2. CASE sem[t] # 0
      <4>1. sem[t] - 1 \in Nat
        BY <3>2
      <4> QED BY <2>1, <3>2, <4>1 DEF SemWait
    <3> QED BY <3>1, <3>2
  <2>2. CASE Dequeue(t)
    BY <2>2, QueueFacts DEF Dequeue
  <2>3. CASE DequeueNothing(t)
    BY <2>3 DEF DequeueNothing
  <2>4. CASE HandleExit(t)
    BY <2>4 DEF HandleExit
  <2>5. CASE Handle(t)
    <3>1. PICK p \in {"deq", "forward"} : pc' = [pc EXCEPT ![t] = p]
      BY <2>5 DEF Handle
    <3>2. toSend' \in 0..MaxSupers
      BY <2>5, CmdThreadAssumption DEF Handle
    <3> QED BY <2>5, <3>1, <3>2 DEF Handle
  <2>6. CASE Forward
    BY <2>6, EnqueuedFacts DEF Forward, Threads
  <2>7. CASE ForwardPost
    <3>1. toSend' \in 0..MaxSupers
      BY <2>7, CmdThreadAssumption DEF ForwardPost
    <3> QED BY <2>7, <3>1 DEF ForwardPost, Threads
  <2> QED BY <1>8, <2>1, <2>2, <2>3, <2>4, <2>5, <2>6, <2>7 DEF Thread
<1>9. CASE UNCHANGED vars
  BY <1>9 DEF vars
<1> QED
  BY <1>1, <1>2, <1>3, <1>4, <1>5, <1>6, <1>7, <1>8, <1>9 DEF Next, Release

\* Which threads exist, and what is left when they do not.
LEMMA StepAliveInv == Inv /\ [Next]_vars => AliveInv'
<1> SUFFICES ASSUME Inv, [Next]_vars PROVE AliveInv'
  OBVIOUS
<1> USE DEF Inv, AliveInv, Threads
<1>0. pc \in [Threads -> Places] /\ queue \in [Threads -> Seq(Cmds)] /\ rel.thread \in Threads
  BY DEF TypeOK, Places, Cmds
<1>1. CASE Launch
  BY <1>1 DEF Launch
<1>2. CASE StopBundle
  BY <1>2, Order DEF StopBundle
<1>3. CASE StopEnq
  BY <1>3, <1>0 DEF StopEnq, TypeOK
<1>4. CASE StopPost
  <2>1. rel.thread \in alive
    BY <1>4, <1>0 DEF StopPost
  <2>2. pc'[rel.thread] # "none" /\ \A u \in Threads \ {rel.thread} : pc'[u] = pc[u]
    BY <1>4, <1>0, <2>1, PostFacts DEF StopPost
  <2> QED BY <1>4, <1>0, <2>1, <2>2 DEF StopPost, TypeOK
<1>5. CASE Destroy
  BY <1>5, <1>0, Order DEF Destroy, TypeOK
<1>6. ASSUME NEW s \in Senders, SendPost(s) PROVE AliveInv'
  <2>1. "cmd_thread" \in alive /\ rel.step = "open"
    BY <1>6 DEF SendPost, TypeOK
  <2>2. pc'["cmd_thread"] # "none" /\ pc'["cb_thread"] = pc["cb_thread"]
    BY <1>6, <2>1, PostFacts DEF SendPost
  <2> QED BY <1>6, <2>1, <2>2 DEF SendPost
<1>7. ASSUME NEW s \in Senders, NEW m \in Msgs, Send(s, m) PROVE AliveInv'
  BY <1>7 DEF Send
<1>8. ASSUME NEW t \in Threads, Thread(t) PROVE AliveInv'
  <2>0. t \in alive
    BY <1>8 DEF Thread, SemWait, Dequeue, DequeueNothing, HandleExit, Handle, Forward, ForwardPost
  <2>1. CASE SemWait(t)
    <3>1. PICK p \in {"asleep", "deq"} : pc' = [pc EXCEPT ![t] = p]
      BY <2>1 DEF SemWait
    <3> QED BY <2>0, <2>1, <3>1, <1>0 DEF SemWait
  <2>2. CASE Dequeue(t)
    BY <2>0, <2>2, <1>0 DEF Dequeue
  <2>3. CASE DequeueNothing(t)
    BY <2>0, <2>3, <1>0 DEF DequeueNothing
  <2>4. CASE HandleExit(t)
    BY <2>0, <2>4, <1>0 DEF HandleExit
  <2>5. CASE Handle(t)
    <3>1. PICK p \in {"deq", "forward"} : pc' = [pc EXCEPT ![t] = p]
      BY <2>5 DEF Handle
    <3> QED BY <2>0, <2>5, <3>1, <1>0 DEF Handle
  <2>6. CASE t = "cmd_thread" /\ Forward
    <3>1. alive = Threads
      BY <2>0, <2>6 DEF TypeOK
    <3> QED BY <2>0, <2>6, <3>1, <1>0 DEF Forward
  <2>7. CASE t = "cmd_thread" /\ ForwardPost
    <3>1. alive = Threads
      BY <2>0, <2>7 DEF TypeOK
    <3> QED BY <2>0, <2>7, <3>1, <1>0 DEF ForwardPost
  <2> QED BY <1>8, <2>1, <2>2, <2>3, <2>4, <2>5, <2>6, <2>7 DEF Thread
<1>9. CASE UNCHANGED vars
  BY <1>9 DEF vars
<1> QED
  BY <1>1, <1>2, <1>3, <1>4, <1>5, <1>6, <1>7, <1>8, <1>9 DEF Next, Release

\* Once EXIT is sent nobody sends to the thread, so it ends with nothing left.
LEMMA StepExitInv == Inv /\ [Next]_vars => \A u \in Threads : ExitInv(u)'
<1> SUFFICES ASSUME Inv, [Next]_vars, NEW u \in Threads PROVE ExitInv(u)'
  OBVIOUS
<1> USE DEF ExitInv, Exiting
<1>0. /\ pc \in [Threads -> Places] /\ queue \in [Threads -> Seq(Cmds)]
      /\ node \in [Threads -> Cmds] /\ running \in [Threads -> BOOLEAN]
      /\ rel \in [thread : Threads, step : {"stopped", "open", "enq", "post", "join"}]
      /\ ExitInv(u) /\ AliveInv /\ TypeOK
  BY DEF Inv, TypeOK, Places, Cmds
<1>q. queue[u] \in Seq(Cmds) /\ Len(queue[u]) \in Nat
  BY <1>0, LenProperties
<1>a. ASSUME NEW c \in Cmds, c # EXIT, \A i \in 1..Len(queue[u]) : queue[u][i] # EXIT,
             queue'[u] = queue[u] \/ queue'[u] = Append(queue[u], c)
      PROVE  \A i \in 1..Len(queue'[u]) : queue'[u][i] # EXIT
  <2>1. CASE queue'[u] = Append(queue[u], c)
    <3>1. /\ Len(queue'[u]) = Len(queue[u]) + 1 /\ queue'[u][Len(queue[u]) + 1] = c
          /\ \A i \in 1..Len(queue[u]) : queue'[u][i] = queue[u][i]
      BY <1>q, <2>1, QueueFacts
    <3> QED BY <1>a, <1>q, <3>1
  <2> QED BY <1>a, <2>1
<1>1. CASE Launch
  BY <1>1, <1>0, EmptySeq DEF Launch
<1>2. CASE StopBundle
  BY <1>2, <1>0 DEF StopBundle
<1>3. CASE StopEnq
  <2>1. CASE u = rel.thread
    <3>1. u \in alive /\ running[u]
      BY <1>3, <2>1, <1>0 DEF StopEnq, AliveInv, Threads
    <3>2. queue'[u] = Append(queue[u], EXIT) /\ EXIT \in Cmds
      BY <1>3, <2>1, <1>0 DEF StopEnq, Cmds
    <3>3. Len(queue'[u]) = Len(queue[u]) + 1 /\ \A i \in 1..Len(queue[u]) : queue'[u][i] # EXIT
      BY <3>2, <1>3, <2>1, <1>0, QueueFacts DEF StopEnq
    <3> QED BY <1>3, <2>1, <3>1, <3>3, <1>0, <1>q DEF StopEnq
  <2>2. CASE u # rel.thread
    BY <1>3, <2>2, <1>0 DEF StopEnq
  <2> QED BY <2>1, <2>2
<1>4. CASE StopPost
  <2>1. pc'[u] = pc[u] \/ pc'[u] = "wait"
    BY <1>4, <1>0, PostFacts DEF StopPost
  <2> QED BY <1>4, <2>1, <1>0 DEF StopPost
<1>5. CASE Destroy
  <2>1. CASE u = rel.thread
    BY <1>5, <2>1, <1>0, Order, EmptySeq DEF Destroy, Threads, AliveInv
  <2>2. CASE u # rel.thread
    BY <1>5, <2>2, <1>0, Order DEF Destroy, Threads, AliveInv
  <2> QED BY <2>1, <2>2
<1>6. ASSUME NEW s \in Senders, SendPost(s) PROVE ExitInv(u)'
  <2>1. pc'[u] = pc[u] \/ pc'[u] = "wait"
    BY <1>6, <1>0, PostFacts DEF SendPost, Threads
  <2> QED BY <1>6, <2>1, <1>0 DEF SendPost
<1>7. ASSUME NEW s \in Senders, NEW m \in Msgs, Send(s, m) PROVE ExitInv(u)'
  <2>1. m \in Cmds /\ m # EXIT
    BY CmdThreadAssumption DEF Cmds
  <2>2. queue'[u] = queue[u] \/ queue'[u] = Append(queue[u], m)
    BY <1>7, <2>1, <1>0, EnqueuedFacts DEF Send, Threads
  <2>3. \A i \in 1..Len(queue'[u]) : queue'[u][i] # EXIT
    <3>1. \A i \in 1..Len(queue[u]) : queue[u][i] # EXIT
      BY <1>7, <1>0 DEF Send
    <3> QED BY <2>1, <2>2, <3>1, <1>a
  <2> QED BY <1>7, <2>3, <1>0 DEF Send
<1>8. ASSUME NEW t \in Threads, Thread(t) PROVE ExitInv(u)'
  <2>0. t \in alive
    BY <1>8, <1>0 DEF Thread, SemWait, Dequeue, DequeueNothing, HandleExit, Handle, Forward, ForwardPost, AliveInv
  <2>1. CASE SemWait(t)
    <3>1. PICK p \in {"asleep", "deq"} : pc' = [pc EXCEPT ![t] = p]
      BY <2>1 DEF SemWait
    <3> QED BY <2>1, <3>1, <1>0 DEF SemWait
  <2>2. CASE Dequeue(t)
    <3>1. CASE t = u
      <4>1. /\ queue'[u] = Tail(queue[u]) /\ node'[u] = queue[u][1] /\ pc'[u] = "handle"
            /\ Len(queue'[u]) = Len(queue[u]) - 1 /\ Len(queue[u]) # 0
            /\ \A i \in 1..Len(queue'[u]) : queue'[u][i] = queue[u][i + 1]
            /\ queue'[u] = <<>> <=> Len(queue'[u]) = 0
        BY <2>2, <3>1, <1>0, <1>q, QueueFacts DEF Dequeue
      <4>2. rel' = rel /\ running' = running /\ alive' = alive
        BY <2>2 DEF Dequeue
      <4>3. CASE ~Exiting(u)
        BY <4>1, <4>2, <4>3, <1>0, <1>q
      <4>4. CASE Exiting(u)
        <5>0. \A i \in 1..(Len(queue[u]) - 1) : queue[u][i] # EXIT
          BY <4>4, <1>0
        <5>1. \A i \in 1..(Len(queue'[u]) - 1) : queue'[u][i] # EXIT
          <6>1. TAKE i \in 1..(Len(queue'[u]) - 1)
          <6>2. i \in 1..Len(queue'[u]) /\ i + 1 \in 1..(Len(queue[u]) - 1)
            BY <4>1, <1>q
          <6> QED BY <4>1, <5>0, <6>2
        <5>2. node'[u] = EXIT => queue'[u] = <<>>
          <6>1. Len(queue[u]) > 1 => queue[u][1] # EXIT
            BY <5>0, <1>q
          <6> QED BY <4>1, <6>1, <1>q
        <5>3. running[u]
          BY <2>2, <3>1, <4>4, <1>0 DEF Dequeue
        <5> QED BY <4>1, <4>2, <4>4, <5>1, <5>2, <5>3, <1>0
      <4> QED BY <4>3, <4>4
    <3>2. CASE t # u
      BY <2>2, <3>2, <1>0 DEF Dequeue
    <3> QED BY <3>1, <3>2
  <2>3. CASE DequeueNothing(t)
    BY <2>3, <1>0 DEF DequeueNothing
  <2>4. CASE HandleExit(t)
    BY <2>4, <2>0, <1>0 DEF HandleExit
  <2>5. CASE Handle(t)
    <3>1. CASE pc' = [pc EXCEPT ![t] = "deq"]
      BY <2>5, <3>1, <1>0 DEF Handle
    <3>2. CASE t = "cmd_thread" /\ pc' = [pc EXCEPT ![t] = "forward"]
      BY <2>5, <3>2, <1>0 DEF Handle
    <3> QED BY <2>5, <3>1, <3>2 DEF Handle
  <2>6. CASE t = "cmd_thread" /\ Forward
    <3>1. alive = Threads /\ ~Exiting("cb_thread")
      BY <2>0, <2>6, <1>0 DEF AliveInv, Threads
    <3>2. node["cmd_thread"] \in Cmds /\ node["cmd_thread"] # EXIT
      BY <2>6, <1>0 DEF Forward, Inv, Threads
    <3>3. CASE u = "cmd_thread"
      <4>1. queue'[u] = queue[u]
        BY <2>6, <3>2, <3>3, <1>0, EnqueuedFacts DEF Forward, Threads
      <4> QED BY <2>6, <3>3, <4>1, <1>0 DEF Forward
    <3>4. CASE u = "cb_thread"
      <4>1. queue'[u] = queue[u] \/ queue'[u] = Append(queue[u], node["cmd_thread"])
        BY <2>6, <3>2, <3>4, <1>0, EnqueuedFacts DEF Forward, Threads
      <4>2. \A i \in 1..Len(queue'[u]) : queue'[u][i] # EXIT
        <5>1. \A i \in 1..Len(queue[u]) : queue[u][i] # EXIT
          BY <3>1, <3>4, <1>0
        <5> QED BY <3>2, <4>1, <5>1, <1>a
      <4> QED BY <2>6, <3>1, <3>4, <4>2, <1>0 DEF Forward
    <3> QED BY <3>3, <3>4 DEF Threads
  <2>7. CASE t = "cmd_thread" /\ ForwardPost
    BY <2>7, <1>0 DEF ForwardPost, Threads
  <2> QED BY <1>8, <2>1, <2>2, <2>3, <2>4, <2>5, <2>6, <2>7 DEF Thread
<1>9. CASE UNCHANGED vars
  BY <1>9, <1>0 DEF vars
<1> QED
  BY <1>1, <1>2, <1>3, <1>4, <1>5, <1>6, <1>7, <1>8, <1>9 DEF Next, Release

\* A queue that is not empty has a post to come, or a thread awake.
LEMMA StepWakeInv == Inv /\ [Next]_vars => \A u \in Threads : WakeInv(u)'
<1> SUFFICES ASSUME Inv, [Next]_vars, NEW u \in Threads PROVE WakeInv(u)'
  OBVIOUS
<1> USE DEF WakeInv, Owed
<1>0. /\ pc \in [Threads -> Places] /\ queue \in [Threads -> Seq(Cmds)]
      /\ sem \in [Threads -> Nat] /\ TypeOK /\ WakeInv(u) /\ ExitInv(u)
      /\ rel \in [thread : Threads, step : {"stopped", "open", "enq", "post", "join"}]
      /\ \A t \in Threads : pc[t] = "forward_post" => t = "cmd_thread"
  BY DEF Inv, TypeOK, Places, Cmds, ExitInv
<1>1. CASE Launch
  BY <1>1 DEF Launch
<1>2. CASE StopBundle
  BY <1>2, <1>0 DEF StopBundle
<1>3. CASE StopEnq
  <2>1. u # rel.thread => queue'[u] = queue[u]
    BY <1>3, <1>0 DEF StopEnq
  <2> QED BY <1>3, <2>1, <1>0 DEF StopEnq
<1>4. CASE StopPost
  <2>1. CASE u = rel.thread
    <3>1. Post(u)
      BY <1>4, <2>1 DEF StopPost
    <3>2. sem'[u] > 0 /\ pc'[u] # "asleep"
      BY <3>1, <1>0, PostFacts
    <3> QED BY <3>2
  <2>2. CASE u # rel.thread
    <3>1. sem'[u] = sem[u] /\ pc'[u] = pc[u]
      BY <1>4, <2>2, <1>0, PostFacts DEF StopPost
    <3>2. pc["cmd_thread"] = "forward_post" => pc'["cmd_thread"] = "forward_post"
      BY <1>4, <1>0, PostFacts DEF StopPost, Threads
    <3> QED BY <1>4, <2>2, <3>1, <3>2, <1>0 DEF StopPost
  <2> QED BY <2>1, <2>2
<1>5. CASE Destroy
  BY <1>5, <1>0, Order DEF Destroy, Threads
<1>6. ASSUME NEW s \in Senders, SendPost(s) PROVE WakeInv(u)'
  <2>1. CASE u = "cmd_thread"
    BY <1>6, <2>1, <1>0, PostFacts DEF SendPost
  <2>2. CASE u = "cb_thread"
    <3>1. sem'[u] = sem[u] /\ pc'[u] = pc[u]
      BY <1>6, <2>2, <1>0, PostFacts DEF SendPost, Threads
    <3>2. pc["cmd_thread"] = "forward_post" => pc'["cmd_thread"] = "forward_post"
      BY <1>6, <1>0, PostFacts DEF SendPost, Threads
    <3> QED BY <1>6, <2>2, <3>1, <3>2, <1>0 DEF SendPost
  <2> QED BY <2>1, <2>2 DEF Threads
<1>7. ASSUME NEW s \in Senders, NEW m \in Msgs, Send(s, m) PROVE WakeInv(u)'
  <2>1. CASE u = "cmd_thread"
    BY <1>7, <2>1, <1>0 DEF Send
  <2>2. CASE u = "cb_thread"
    <3>1. queue'[u] = queue[u]
      BY <1>7, <2>2, <1>0, EnqueuedFacts DEF Send, Threads, Cmds
    <3> QED BY <1>7, <2>2, <3>1, <1>0 DEF Send
  <2> QED BY <2>1, <2>2 DEF Threads
<1>8. ASSUME NEW t \in Threads, Thread(t) PROVE WakeInv(u)'
  <2>1. CASE SemWait(t)
    <3>1. CASE sem[t] = 0
      BY <2>1, <3>1, <1>0 DEF SemWait, Threads
    <3>2. CASE sem[t] # 0
      BY <2>1, <3>2, <1>0 DEF SemWait, Threads
    <3> QED BY <3>1, <3>2
  <2>2. CASE Dequeue(t)
    BY <2>2, <1>0 DEF Dequeue, Threads
  <2>3. CASE DequeueNothing(t)
    BY <2>3, <1>0 DEF DequeueNothing, Threads
  <2>4. CASE HandleExit(t)
    BY <2>4, <1>0 DEF HandleExit, Threads
  <2>5. CASE Handle(t)
    <3>1. PICK p \in {"deq", "forward"} : pc' = [pc EXCEPT ![t] = p]
      BY <2>5 DEF Handle
    <3> QED BY <2>5, <3>1, <1>0 DEF Handle, Threads
  <2>6. CASE t = "cmd_thread" /\ Forward
    BY <2>6, <1>0 DEF Forward, Threads
  <2>7. CASE t = "cmd_thread" /\ ForwardPost
    BY <2>7, <1>0 DEF ForwardPost, Threads
  <2> QED BY <1>8, <2>1, <2>2, <2>3, <2>4, <2>5, <2>6, <2>7 DEF Thread
<1>9. CASE UNCHANGED vars
  BY <1>9, <1>0 DEF vars
<1> QED
  BY <1>1, <1>2, <1>3, <1>4, <1>5, <1>6, <1>7, <1>8, <1>9 DEF Next, Release

-----------------------------------------------------------------------------
(* The theorems. *)

LEMMA Invariant == Spec => []Inv
<1>1. Inv /\ [Next]_vars => Inv'
  BY StepTypeOK, StepAliveInv, StepExitInv, StepWakeInv DEF Inv
<1> QED BY InitInv, <1>1, PTL DEF Spec

\* The variables keep their types: in particular a semaphore never goes below
\* zero, and a thread's place is one of mm_camera_cmd_thread's.
THEOREM TypeCorrect == Spec => []TypeOK
BY Invariant, PTL DEF Inv

\* A command thread never sleeps on its semaphore while a command is in its
\* queue, unless the sender of one is about to post.
THEOREM NoLostWakeupAlways == Spec => []NoLostWakeup
<1>1. Inv => NoLostWakeup
  BY DEF Inv, WakeInv, NoLostWakeup
<1> QED BY Invariant, <1>1, PTL

-----------------------------------------------------------------------------
(* The threads are mailboxes. *)

\* The messages of a queue: a queue without EXIT, or all but its last command.
LEMMA MessagesFacts ==
  ASSUME NEW q \in Seq(Cmds)
  PROVE  /\ Messages(q) \in Seq(Cmds)
         /\ (q = <<>> \/ q[Len(q)] # EXIT) => Messages(q) = q
         /\ (q # <<>> /\ q[Len(q)] = EXIT) => Messages(q) = SubSeq(q, 1, Len(q) - 1)
<1>1. Len(q) \in Nat /\ \A i \in 1..(Len(q) - 1) : q[i] \in Cmds
  BY QueueFacts
<1>2. SubSeq(q, 1, Len(q) - 1) \in Seq(Cmds)
  BY <1>1, SubSeqProperties
<1> QED BY <1>2 DEF Messages

\* EXIT is no message.
LEMMA MessagesExit ==
  ASSUME NEW q \in Seq(Cmds), \A i \in 1..Len(q) : q[i] # EXIT
  PROVE  Messages(q) = q /\ Messages(Append(q, EXIT)) = q
<1>1. Len(q) \in Nat /\ EXIT \in Cmds
  BY QueueFacts DEF Cmds
<1>2. /\ Append(q, EXIT) \in Seq(Cmds) /\ Len(Append(q, EXIT)) = Len(q) + 1
      /\ Append(q, EXIT)[Len(q) + 1] = EXIT
      /\ \A i \in 1..Len(q) : Append(q, EXIT)[i] = q[i]
  BY <1>1, QueueFacts
<1>3. Messages(q) = q
  BY <1>1, MessagesFacts, QueueFacts
<1>4. Messages(Append(q, EXIT)) = SubSeq(Append(q, EXIT), 1, Len(q))
  <2>1. /\ Append(q, EXIT) # <<>> /\ Len(Append(q, EXIT)) - 1 = Len(q)
        /\ Append(q, EXIT)[Len(Append(q, EXIT))] = EXIT
    BY <1>1, <1>2, QueueFacts
  <2> QED BY <1>2, <2>1, MessagesFacts
<1>5. SubSeq(Append(q, EXIT), 1, Len(q)) = q
  <2>1. \A i \in 1..Len(q) : Append(q, EXIT)[i] \in Cmds
    BY <1>2, QueueFacts
  <2>2. /\ SubSeq(Append(q, EXIT), 1, Len(q)) \in Seq(Cmds)
        /\ Len(SubSeq(Append(q, EXIT), 1, Len(q))) = Len(q)
        /\ \A i \in 1..Len(q) : SubSeq(Append(q, EXIT), 1, Len(q))[i] = q[i]
    BY <1>1, <1>2, <2>1, SubSeqProperties
  <2> QED BY <2>2, SeqEqual
<1> QED BY <1>3, <1>4, <1>5

\* Taking the first command takes the first message, or EXIT.
LEMMA MessagesTail ==
  ASSUME NEW q \in Seq(Cmds), q # <<>>,
         \A i \in 1..(Len(q) - 1) : q[i] # EXIT
  PROVE  /\ Head(q) # EXIT => Messages(q) = <<Head(q)>> \o Messages(Tail(q))
         /\ Head(q) = EXIT => Messages(q) = <<>> /\ Tail(q) = <<>>
<1> DEFINE n == Len(q)
           r == Tail(q)
<1>1. /\ n \in Nat /\ n > 0 /\ Head(q) = q[1] /\ Head(q) \in Cmds
      /\ r \in Seq(Cmds) /\ Len(r) = n - 1 /\ \A i \in 1..(n - 1) : r[i] = q[i + 1]
      /\ \A i \in 1..n : q[i] \in Cmds
  BY QueueFacts
<1>2. ASSUME Head(q) = EXIT PROVE Messages(q) = <<>> /\ r = <<>>
  <2>1. n = 1
    BY <1>1, <1>2
  <2>2. r = <<>>
    BY <1>1, <2>1, QueueFacts
  <2>3. Messages(q) = SubSeq(q, 1, 0)
    BY <1>1, <1>2, <2>1, MessagesFacts
  <2> QED BY <2>2, <2>3, SubSeqEmpty
<1>3. ASSUME Head(q) # EXIT PROVE Messages(q) = <<Head(q)>> \o Messages(r)
  <2>0. <<Head(q)>> \in Seq(Cmds) /\ Len(<<Head(q)>>) = 1 /\ <<Head(q)>>[1] = q[1]
    BY <1>1
  <2>1. CASE q[n] # EXIT
    <3>1. Messages(q) = q
      BY <1>1, <2>1, MessagesFacts
    <3>2. Messages(r) = r
      <4>1. r = <<>> \/ r[Len(r)] # EXIT
        <5>1. n - 1 = 0 => r = <<>>
          BY <1>1, QueueFacts
        <5>2. n - 1 > 0 => r[Len(r)] = q[n]
          BY <1>1
        <5> QED BY <1>1, <2>1, <5>1, <5>2
      <4> QED BY <1>1, <4>1, MessagesFacts
    <3>3. /\ <<Head(q)>> \o r \in Seq(Cmds) /\ Len(<<Head(q)>> \o r) = n
          /\ \A i \in 1..n : (<<Head(q)>> \o r)[i] = q[i]
      BY <1>1, <2>0, ConcatProperties
    <3> QED BY <3>1, <3>2, <3>3, SeqEqual
  <2>2. CASE q[n] = EXIT
    <3>1. n > 1
      BY <1>1, <1>3, <2>2
    <3>2. Messages(q) = SubSeq(q, 1, n - 1)
      BY <1>1, <2>2, MessagesFacts
    <3>3. Messages(r) = SubSeq(r, 1, n - 2)
      <4>1. Len(r) = n - 1 /\ Len(r) # 0 /\ Len(r) - 1 = n - 2
        BY <1>1, <3>1
      <4>2. r # <<>>
        BY <1>1, <4>1, QueueFacts
      <4>3. r[Len(r)] = EXIT
        BY <1>1, <2>2, <4>1
      <4> QED BY <1>1, <4>1, <4>2, <4>3, MessagesFacts
    <3>4. /\ SubSeq(q, 1, n - 1) \in Seq(Cmds) /\ Len(SubSeq(q, 1, n - 1)) = n - 1
          /\ \A i \in 1..(n - 1) : SubSeq(q, 1, n - 1)[i] = q[i]
      BY <1>1, <3>1, SubSeqProperties
    <3>5. /\ SubSeq(r, 1, n - 2) \in Seq(Cmds) /\ Len(SubSeq(r, 1, n - 2)) = n - 2
          /\ \A i \in 1..(n - 2) : SubSeq(r, 1, n - 2)[i] = q[i + 1]
      BY <1>1, <3>1, SubSeqProperties
    <3>6. /\ <<Head(q)>> \o Messages(r) \in Seq(Cmds)
          /\ Len(<<Head(q)>> \o Messages(r)) = n - 1
          /\ \A i \in 1..(n - 1) : (<<Head(q)>> \o Messages(r))[i] = q[i]
      <4>1. Messages(r) \in Seq(Cmds) /\ Len(Messages(r)) = n - 2
        BY <3>3, <3>5
      <4>2. \A i \in 1..(n - 2) : Messages(r)[i] = q[i + 1]
        BY <3>3, <3>5
      <4>3. /\ <<Head(q)>> \o Messages(r) \in Seq(Cmds)
            /\ Len(<<Head(q)>> \o Messages(r)) = 1 + (n - 2)
            /\ \A i \in 1..(1 + (n - 2)) : (<<Head(q)>> \o Messages(r))[i] =
                 IF i <= 1 THEN <<Head(q)>>[i] ELSE Messages(r)[i - 1]
        BY <2>0, <4>1, ConcatProperties
      <4>0. 1 + (n - 2) = n - 1 /\ \A i \in 1..(n - 1) : i = 1 \/ i > 1
        BY <1>1
      <4>4. ASSUME NEW i \in 1..(n - 1) PROVE (<<Head(q)>> \o Messages(r))[i] = q[i]
        <5>1. CASE i = 1
          BY <1>1, <2>0, <3>1, <4>3, <5>1
        <5>2. CASE i > 1
          <6>1. i - 1 \in 1..(n - 2) /\ (i - 1) + 1 = i
            BY <1>1, <5>2
          <6>2. (<<Head(q)>> \o Messages(r))[i] = Messages(r)[i - 1]
            BY <1>1, <4>3, <5>2
          <6> QED BY <4>2, <6>1, <6>2
        <5> QED BY <4>0, <5>1, <5>2
      <4>5. Len(<<Head(q)>> \o Messages(r)) = n - 1
        BY <4>0, <4>3
      <4> QED BY <4>3, <4>4, <4>5
    <3> QED BY <3>2, <3>4, <3>6, SeqEqual
  <2> QED BY <2>1, <2>2
<1> QED BY <1>2, <1>3

\* What each thread has still to handle.
Box == [t \in Threads |-> InHand(t) \o Messages(queue[t])]

LEMMA BoxFacts ==
  ASSUME TypeOK, NEW t \in Threads
  PROVE  /\ queue[t] \in Seq(Cmds) /\ Messages(queue[t]) \in Seq(Cmds)
         /\ InHand(t) \in Seq(Cmds)
         /\ Box[t] = InHand(t) \o Messages(queue[t])
<1>1. queue[t] \in Seq(Cmds) /\ node[t] \in Cmds
  BY DEF TypeOK, Cmds
<1>2. Messages(queue[t]) \in Seq(Cmds)
  BY <1>1, MessagesFacts
<1>3. InHand(t) \in Seq(Cmds)
  BY <1>1, EmptySeq DEF InHand
<1> QED BY <1>1, <1>2, <1>3 DEF Box

\* A thread that has a message in its hand, and the queue behind it.
LEMMA TakeFirst ==
  ASSUME NEW c \in Cmds, NEW q \in Seq(Cmds)
  PROVE  <<c>> \o q # <<>> /\ Tail(<<c>> \o q) = q
<1>1. <<c>> \in Seq(Cmds) /\ <<c>> # <<>> /\ <<c>> = Append(<<>>, c) /\ Len(<<c>>) = 1
  OBVIOUS
<1>2. <<c>> \o q # <<>> /\ <<c>> \o q \in Seq(Cmds)
  BY <1>1, ConcatEqualIffEmpty, ConcatProperties
<1>3. /\ Len(q) \in Nat /\ Len(<<c>> \o q) = 1 + Len(q)
      /\ \A i \in 1..(1 + Len(q)) : (<<c>> \o q)[i] = IF i <= 1 THEN <<c>>[i] ELSE q[i - 1]
  BY <1>1, ConcatProperties, LenProperties
<1>4. /\ Tail(<<c>> \o q) \in Seq(Cmds) /\ Len(Tail(<<c>> \o q)) = Len(q)
      /\ \A i \in 1..Len(q) : Tail(<<c>> \o q)[i] = (<<c>> \o q)[i + 1]
  BY <1>2, <1>3, HeadTailProperties
<1>5. ASSUME NEW i \in 1..Len(q) PROVE Tail(<<c>> \o q)[i] = q[i]
  <2>1. i + 1 \in 1..(1 + Len(q)) /\ i + 1 > 1 /\ (i + 1) - 1 = i
    BY <1>3
  <2> QED BY <1>3, <1>4, <2>1
<1> QED BY <1>2, <1>4, <1>5, SeqEqual

LEMMA AppendBehind ==
  ASSUME NEW q \in Seq(Cmds), NEW r \in Seq(Cmds), NEW c \in Cmds
  PROVE  q \o Append(r, c) = Append(q \o r, c)
<1>1. <<c>> \in Seq(Cmds) /\ q \o r \in Seq(Cmds)
  BY ConcatProperties
<1>2. Append(r, c) = r \o <<c>> /\ Append(q \o r, c) = (q \o r) \o <<c>>
  BY <1>1, AppendIsConcat
<1>3. ASSUME NEW u \in Seq(Cmds) PROVE (q \o r) \o u = q \o (r \o u)
  BY ConcatAssociative
<1>4. (q \o r) \o <<c>> = q \o (r \o <<c>>)
  BY <1>1, <1>3
<1> QED BY <1>2, <1>4

\* A command appended before EXIT is sent is one more message.
LEMMA BoxAppend ==
  ASSUME TypeOK, NEW t \in Threads, NEW c \in Cmds, c # EXIT,
         \A i \in 1..Len(queue[t]) : queue[t][i] # EXIT,
         queue'[t] = Append(queue[t], c),
         \A u \in Threads \ {t} : queue'[u] = queue[u],
         \A u \in Threads : InHand(u)' = InHand(u)
  PROVE  Box' = [Box EXCEPT ![t] = Append(Box[t], c)]
<1>1. /\ queue[t] \in Seq(Cmds) /\ InHand(t) \in Seq(Cmds)
      /\ Box[t] = InHand(t) \o Messages(queue[t])
  BY BoxFacts
<1>2. Messages(queue[t]) = queue[t]
  BY <1>1, MessagesExit
<1>3. Messages(queue'[t]) = Append(queue[t], c)
  <2>1. /\ Append(queue[t], c) \in Seq(Cmds)
        /\ Append(queue[t], c)[Len(Append(queue[t], c))] = c
    BY <1>1, QueueFacts
  <2> QED BY <2>1, MessagesFacts
<1>4. InHand(t) \o Append(queue[t], c) = Append(InHand(t) \o queue[t], c)
  BY <1>1, AppendBehind
<1>5. Box' = [u \in Threads |-> InHand(u)' \o Messages(queue'[u])]
  BY DEF Box, Messages
<1>6. \A u \in Threads : Box'[u] = IF u = t THEN Append(Box[t], c) ELSE Box[u]
  BY <1>1, <1>2, <1>3, <1>4, <1>5 DEF Box
<1>7. Box = [u \in Threads |-> Box[u]] /\ Box' = [u \in Threads |-> Box'[u]]
  BY <1>5 DEF Box
<1> QED BY <1>6, <1>7

LEMMA BoxSame ==
  ASSUME \A u \in Threads : InHand(u)' \o Messages(queue'[u]) = InHand(u) \o Messages(queue[u])
  PROVE  Box' = Box
BY DEF Box, Messages

LEMMA MailInitial == Init => Mail!MailInit
<1> SUFFICES ASSUME Init PROVE Box = [t \in Threads |-> <<>>] /\ alive = {}
  BY DEF Mail!MailInit, Box
<1>1. ASSUME NEW t \in Threads PROVE InHand(t) \o Messages(queue[t]) = <<>>
  <2>1. InHand(t) = <<>> /\ Messages(queue[t]) = <<>>
    BY DEF Init, InHand, Messages
  <2> QED BY <2>1, EmptySeq, ConcatEmptySeq
<1> QED BY <1>1 DEF Init, Box

\* Every step of the threads is a step of the mailboxes, or none.
LEMMA MailStep == Inv /\ [Next]_vars => [Mail!MailNext]_(Mail!mailVars)
<1> SUFFICES ASSUME Inv, [Next]_vars
             PROVE  \/ Box' = Box /\ alive' = alive
                    \/ Mail!Open
                    \/ \E t \in Threads : Mail!Take(t) \/ Mail!Close(t) \/ \E m \in Msgs : Mail!Send(t, m)
  BY DEF Mail!MailNext, Mail!mailVars, Box
<1> DEFINE Stutter == Box' = Box /\ alive' = alive
           Goal == \/ Stutter \/ Mail!Open
                   \/ \E t \in Threads : Mail!Take(t) \/ Mail!Close(t) \/ \E m \in Msgs : Mail!Send(t, m)
<1>0. /\ TypeOK /\ AliveInv /\ \A t \in Threads : ExitInv(t)
      /\ pc \in [Threads -> Places] /\ queue \in [Threads -> Seq(Cmds)]
      /\ node \in [Threads -> Cmds]
      /\ rel \in [thread : Threads, step : {"stopped", "open", "enq", "post", "join"}]
      /\ \A m \in Msgs : m \in Cmds /\ m # EXIT
  BY CmdThreadAssumption DEF Inv, TypeOK, Places, Cmds
<1>1. CASE Launch
  <2>1. alive = {} /\ alive' = Threads
    BY <1>1, <1>0 DEF Launch, AliveInv
  <2>2. ASSUME NEW t \in Threads
        PROVE  InHand(t)' \o Messages(queue'[t]) = InHand(t) \o Messages(queue[t])
    <3>1. pc[t] = "none" /\ queue[t] = <<>> /\ pc'[t] = "wait" /\ queue'[t] = <<>>
      BY <1>1, <2>1, <1>0 DEF Launch, AliveInv
    <3> QED BY <3>1 DEF InHand, Messages
  <2>3. Box' = Box
    BY <2>2, BoxSame
  <2> QED BY <2>1, <2>3 DEF Mail!Open, Box
<1>2. CASE StopBundle
  BY <1>2, BoxSame DEF StopBundle, InHand
<1>3. CASE StopEnq
  <2>1. ASSUME NEW t \in Threads
        PROVE  InHand(t)' \o Messages(queue'[t]) = InHand(t) \o Messages(queue[t])
    <3>1. InHand(t)' = InHand(t)
      BY <1>3 DEF StopEnq, InHand
    <3>2. Messages(queue'[t]) = Messages(queue[t])
      <4>1. CASE t = rel.thread
        <5>1. \A i \in 1..Len(queue[t]) : queue[t][i] # EXIT
          BY <1>3, <4>1, <1>0 DEF StopEnq, ExitInv, Exiting
        <5>2. queue'[t] = Append(queue[t], EXIT)
          BY <1>3, <4>1, <1>0 DEF StopEnq
        <5> QED BY <5>1, <5>2, <1>0, MessagesExit
      <4>2. CASE t # rel.thread
        BY <1>3, <4>2, <1>0 DEF StopEnq
      <4> QED BY <4>1, <4>2
    <3> QED BY <3>1, <3>2
  <2> QED BY <1>3, <2>1, BoxSame DEF StopEnq
<1>4. CASE StopPost
  <2>1. ASSUME NEW t \in Threads PROVE InHand(t)' = InHand(t) /\ queue'[t] = queue[t]
    <3>1. pc'[t] = pc[t] \/ (pc[t] = "asleep" /\ pc'[t] = "wait")
      BY <1>4, <1>0, PostFacts DEF StopPost
    <3> QED BY <1>4, <3>1 DEF StopPost, InHand
  <2> QED BY <1>4, <2>1, BoxSame DEF StopPost
<1>5. CASE Destroy
  <2>0. PICK t \in Threads : t = rel.thread
    BY <1>0
  <2>1. t \in alive /\ alive' = alive \ {t}
    BY <1>5, <2>0, <1>0 DEF Destroy, AliveInv, Threads
  <2>2. queue[t] = <<>> /\ InHand(t) = <<>> /\ queue'[t] = <<>> /\ InHand(t)' = <<>>
    BY <1>5, <2>0, <1>0 DEF Destroy, ExitInv, Exiting, InHand
  <2>3. Box[t] = <<>>
    BY <2>1, <2>2, <1>0, EmptySeq, ConcatEmptySeq DEF Box, Messages
  <2>4. ASSUME NEW u \in Threads
        PROVE  InHand(u)' \o Messages(queue'[u]) = InHand(u) \o Messages(queue[u])
    <3>1. CASE u = t
      BY <2>2, <3>1
    <3>2. CASE u # t
      BY <1>5, <2>0, <3>2, <1>0 DEF Destroy, InHand
    <3> QED BY <3>1, <3>2
  <2>5. Box' = Box
    BY <2>4, BoxSame
  <2>6. Mail!Close(t)
    BY <2>1, <2>3, <2>5 DEF Mail!Close, Box
  <2> QED BY <2>1, <2>6
<1>6. ASSUME NEW s \in Senders, SendPost(s) PROVE Goal
  <2>1. ASSUME NEW t \in Threads PROVE InHand(t)' = InHand(t) /\ queue'[t] = queue[t]
    <3>1. pc'[t] = pc[t] \/ (pc[t] = "asleep" /\ pc'[t] = "wait")
      BY <1>6, <1>0, PostFacts DEF SendPost, Threads
    <3> QED BY <1>6, <3>1 DEF SendPost, InHand
  <2> QED BY <1>6, <2>1, BoxSame DEF SendPost
<1>7. ASSUME NEW s \in Senders, NEW m \in Msgs, Send(s, m) PROVE Goal
  <2>1. /\ "cmd_thread" \in Threads /\ "cmd_thread" \in alive /\ alive' = alive
        /\ \A i \in 1..Len(queue["cmd_thread"]) : queue["cmd_thread"][i] # EXIT
    BY <1>7, <1>0 DEF Send, AliveInv, Threads, ExitInv, Exiting
  <2>2. \A u \in Threads : InHand(u)' = InHand(u)
    BY <1>7 DEF Send, InHand
  <2>3. CASE queue' = [queue EXCEPT !["cmd_thread"] = Append(@, m)]
    <3>1. Box' = [Box EXCEPT !["cmd_thread"] = Append(Box["cmd_thread"], m)]
      BY <2>1, <2>2, <2>3, <1>0, BoxAppend
    <3>2. Mail!Send("cmd_thread", m)
      BY <2>1, <3>1 DEF Mail!Send, Box
    <3> QED BY <2>1, <3>2
  <2>4. CASE UNCHANGED queue
    BY <2>1, <2>2, <2>4, BoxSame
  <2> QED BY <1>7, <2>3, <2>4 DEF Send, Enqueued
<1>8. ASSUME NEW t \in Threads, Thread(t) PROVE Goal
  <2>1. CASE SemWait(t)
    <3>1. PICK p \in {"asleep", "deq"} : pc' = [pc EXCEPT ![t] = p]
      BY <2>1 DEF SemWait
    <3>2. pc[t] = "wait" /\ UNCHANGED <<queue, node, alive>>
      BY <2>1 DEF SemWait
    <3>3. \A u \in Threads : InHand(u)' = InHand(u)
      BY <3>1, <3>2, <1>0 DEF InHand
    <3> QED BY <3>2, <3>3, BoxSame
  <2>2. CASE Dequeue(t)
    <3>1. ASSUME NEW u \in Threads
          PROVE  InHand(u)' \o Messages(queue'[u]) = InHand(u) \o Messages(queue[u])
      <4>1. CASE u = t
        <5>1. /\ InHand(u) = <<>> /\ queue[u] # <<>> /\ queue[u] \in Seq(Cmds)
              /\ queue'[u] = Tail(queue[u])
              /\ InHand(u)' = IF Head(queue[u]) # EXIT THEN <<Head(queue[u])>> ELSE <<>>
          BY <2>2, <4>1, <1>0 DEF Dequeue, InHand
        <5>2. \A i \in 1..(Len(queue[u]) - 1) : queue[u][i] # EXIT
          BY <5>1, <1>0, QueueFacts DEF ExitInv
        <5>3. Messages(queue[u]) \in Seq(Cmds)
          BY <5>1, MessagesFacts
        <5>4. InHand(u) \o Messages(queue[u]) = Messages(queue[u])
          BY <5>1, <5>3, ConcatEmptySeq
        <5>5. CASE Head(queue[u]) # EXIT
          BY <5>1, <5>2, <5>4, <5>5, MessagesTail
        <5>6. CASE Head(queue[u]) = EXIT
          <6>1. Messages(queue[u]) = <<>> /\ Tail(queue[u]) = <<>> /\ Messages(<<>>) = <<>>
            BY <5>1, <5>2, <5>6, MessagesTail DEF Messages
          <6> QED BY <5>1, <5>4, <5>6, <6>1, <5>3, ConcatEmptySeq
        <5> QED BY <5>5, <5>6
      <4>2. CASE u # t
        BY <2>2, <4>2, <1>0 DEF Dequeue, InHand
      <4> QED BY <4>1, <4>2
    <3> QED BY <2>2, <3>1, BoxSame DEF Dequeue
  <2>3. CASE DequeueNothing(t)
    <3>1. \A u \in Threads : InHand(u)' = InHand(u)
      BY <2>3, <1>0 DEF DequeueNothing, InHand
    <3> QED BY <2>3, <3>1, BoxSame DEF DequeueNothing
  <2>4. CASE HandleExit(t)
    <3>1. \A u \in Threads : InHand(u)' = InHand(u)
      BY <2>4, <1>0 DEF HandleExit, InHand
    <3> QED BY <2>4, <3>1, BoxSame DEF HandleExit
  <2>5. CASE Handle(t)
    <3>1. PICK p \in {"deq", "forward"} : pc' = [pc EXCEPT ![t] = p]
      BY <2>5 DEF Handle
    <3>2. /\ InHand(t) = <<node[t]>> /\ InHand(t)' = <<>>
          /\ \A u \in Threads \ {t} : InHand(u)' = InHand(u)
          /\ UNCHANGED <<queue, alive>>
      BY <2>5, <3>1, <1>0 DEF Handle, InHand
    <3>3. /\ Messages(queue[t]) \in Seq(Cmds) /\ node[t] \in Cmds
          /\ Box[t] = <<node[t]>> \o Messages(queue[t])
      BY <3>2, <1>0, MessagesFacts DEF Box
    <3>4. Box[t] # <<>> /\ Tail(Box[t]) = Messages(queue[t])
      BY <3>3, TakeFirst
    <3>5. InHand(t)' \o Messages(queue'[t]) = Messages(queue[t])
      BY <3>2, <3>3, ConcatEmptySeq
    <3>6. Box' = [u \in Threads |-> InHand(u)' \o Messages(queue'[u])]
      BY DEF Box, Messages
    <3>7. \A u \in Threads : Box'[u] = IF u = t THEN Tail(Box[t]) ELSE Box[u]
      BY <3>2, <3>4, <3>5, <3>6 DEF Box
    <3>8. Box' = [Box EXCEPT ![t] = Tail(Box[t])]
      <4>1. Box = [u \in Threads |-> Box[u]] /\ Box' = [u \in Threads |-> Box'[u]]
        BY <3>6 DEF Box
      <4> QED BY <3>7, <4>1
    <3>9. Mail!Take(t)
      BY <3>2, <3>4, <3>8 DEF Mail!Take, Box
    <3> QED BY <3>9
  <2>6. CASE t = "cmd_thread" /\ Forward
    <3>1. \A u \in Threads : InHand(u)' = InHand(u)
      BY <2>6, <1>0 DEF Forward, InHand
    <3>2. /\ "cb_thread" \in Threads /\ "cb_thread" \in alive /\ alive' = alive
          /\ ~Exiting("cb_thread")
      BY <2>6, <1>0 DEF Forward, AliveInv, Threads, Exiting
    <3>3. \A i \in 1..Len(queue["cb_thread"]) : queue["cb_thread"][i] # EXIT
      BY <3>2, <1>0 DEF ExitInv
    <3>4. node["cmd_thread"] \in Msgs
      BY <2>6, <1>0 DEF Forward, ExitInv, Cmds, Threads
    <3>5. CASE queue' = [queue EXCEPT !["cb_thread"] = Append(@, node["cmd_thread"])]
      <4>1. Box' = [Box EXCEPT !["cb_thread"] = Append(Box["cb_thread"], node["cmd_thread"])]
        BY <3>1, <3>2, <3>3, <3>4, <3>5, <1>0, BoxAppend
      <4>2. Mail!Send("cb_thread", node["cmd_thread"])
        BY <3>2, <4>1 DEF Mail!Send, Box
      <4> QED BY <3>2, <3>4, <4>2
    <3>6. CASE UNCHANGED queue
      BY <3>1, <3>2, <3>6, BoxSame
    <3> QED BY <2>6, <3>5, <3>6 DEF Forward, Enqueued
  <2>7. CASE t = "cmd_thread" /\ ForwardPost
    <3>1. \A u \in Threads : InHand(u)' = InHand(u)
      BY <2>7, <1>0 DEF ForwardPost, InHand, Threads
    <3> QED BY <2>7, <3>1, BoxSame DEF ForwardPost
  <2> QED BY <1>8, <2>1, <2>2, <2>3, <2>4, <2>5, <2>6, <2>7 DEF Thread
<1>9. CASE UNCHANGED vars
  BY <1>9, BoxSame DEF vars, InHand
<1> QED
  BY <1>1, <1>2, <1>3, <1>4, <1>5, <1>6, <1>7, <1>8, <1>9 DEF Next, Release

\* The threads are mailboxes (the safety part of IsMailbox): each message is
\* handled once and in order, and a thread is destroyed only when it has handled
\* everything, so mm_camera_cmd_thread_destroy has nothing left to free.
THEOREM ImplementsMailbox == Spec => Mail!MailSafety
<1>1. Init => Mail!MailInit
  BY MailInitial
<1>2. Inv /\ [Next]_vars => [Mail!MailNext]_(Mail!mailVars)
  BY MailStep
<1> QED BY <1>1, <1>2, Invariant, PTL DEF Spec, Mail!MailSafety

=============================================================================
