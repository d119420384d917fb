----------------------------- MODULE CmdThread -----------------------------
(***************************************************************************)
(* The two command threads of a channel's bundle (mm_camera_thread.c,      *)
(* cam_queue.h, cam_semaphore.h): cmd_thread, which builds super buffers   *)
(* from the frames it is sent, and cb_thread, which it sends the finished  *)
(* ones to.                                                                *)
(*                                                                         *)
(* A sender appends to the queue, then posts the semaphore: two steps.     *)
(* The thread waits for the semaphore once and then takes commands until   *)
(* the queue is empty, so it may find a queue that is empty already.  To   *)
(* release a thread an EXIT command is sent, the thread is joined and its  *)
(* queue and semaphore are destroyed.                                      *)
(***************************************************************************)
EXTENDS Integers, Sequences, FiniteSets

CONSTANTS
  Senders,   \* threads that send to cmd_thread: the poll thread, API callers
  Msgs,      \* messages; each is sent at most once (a bound)
  MaxSupers, \* super buffers one command completes (a bound)
  Failures   \* "enq": cam_queue_enq may fail to allocate a list node

EXIT    == "EXIT"
Threads == {"cmd_thread", "cb_thread"}

ASSUME CmdThreadAssumption ==
  /\ IsFiniteSet(Msgs) /\ EXIT \notin Msgs
  /\ MaxSupers \in Nat /\ Failures \subseteq {"enq"}

VARIABLES
  queue,     \* cmd_queue of each thread
  sem,       \* value of its cmd_sem
  pc,        \* where it is in mm_camera_cmd_thread
  node,      \* the command it is handling
  toSend,    \* super buffers cmd_thread has still to send for that command
  running,   \* its local variable of that name
  alive,     \* the threads that are launched and not destroyed
  posting,   \* senders that have appended to cmd_thread's queue and not posted
  unsent,    \* messages nobody has sent yet
  rel        \* release of the threads: the one it is at, and its next step

vars == <<queue, sem, pc, node, toSend, running, alive, posting, unsent, rel>>

Init ==
  /\ queue = [t \in Threads |-> <<>>] /\ sem = [t \in Threads |-> 0]
  /\ pc = [t \in Threads |-> "none"] /\ node = [t \in Threads |-> EXIT]
  /\ running = [t \in Threads |-> FALSE]
  /\ toSend = 0 /\ alive = {} /\ posting = {} /\ unsent = Msgs
  /\ rel = [thread |-> "cb_thread", step |-> "stopped"]

\* mm_channel_start launches both; the semaphore starts at 0.
Launch ==
  /\ rel.step = "stopped"
  /\ queue' = [t \in Threads |-> <<>>] /\ sem' = [t \in Threads |-> 0]
  /\ pc' = [t \in Threads |-> "wait"] /\ running' = [t \in Threads |-> TRUE]
  /\ alive' = Threads
  /\ rel' = [rel EXCEPT !.step = "open"]
  /\ UNCHANGED <<node, toSend, posting, unsent>>

-----------------------------------------------------------------------------
(* Sending. *)

\* A failed allocation loses the command; callers do not look at the result,
\* and post all the same.
Enqueued(t, c) ==
  \/ queue' = [queue EXCEPT ![t] = Append(@, c)]
  \/ "enq" \in Failures /\ UNCHANGED queue

\* cam_sem_post: the value first, then the signal; a signal alone is lost on a
\* thread that is not asleep yet.
PostSignalOnly(t) ==   \* mutant: the value is not counted
  /\ sem' = sem
  /\ pc' = [pc EXCEPT ![t] = IF @ = "asleep" THEN "deq" ELSE @]
Post(t) ==
  /\ sem' = [sem EXCEPT ![t] = @ + 1]
  /\ pc' = [pc EXCEPT ![t] = IF @ = "asleep" THEN "wait" ELSE @]

Send(s, m) ==
  /\ rel.step = "open" /\ s \notin posting /\ m \in unsent
  /\ Enqueued("cmd_thread", m)
  /\ posting' = posting \cup {s}
  /\ unsent' = unsent \ {m}
  /\ UNCHANGED <<sem, pc, node, toSend, running, alive, rel>>

SendPost(s) ==
  /\ s \in posting
  /\ Post("cmd_thread")
  /\ posting' = posting \ {s}
  /\ UNCHANGED <<queue, node, toSend, running, alive, unsent, rel>>

-----------------------------------------------------------------------------
(* The thread: mm_camera_cmd_thread. *)

\* cam_sem_wait.
SemWaitUnchecked(t) ==   \* mutant: counts down without waiting for a post
  /\ pc[t] = "wait"
  /\ pc' = [pc EXCEPT ![t] = "deq"] /\ sem' = [sem EXCEPT ![t] = @ - 1]
  /\ UNCHANGED <<queue, node, toSend, running, alive, posting, unsent, rel>>
SemWait(t) ==
  /\ pc[t] = "wait"
  /\ IF sem[t] = 0
     THEN pc' = [pc EXCEPT ![t] = "asleep"] /\ UNCHANGED sem
     ELSE pc' = [pc EXCEPT ![t] = "deq"] /\ sem' = [sem EXCEPT ![t] = @ - 1]
  /\ UNCHANGED <<queue, node, toSend, running, alive, posting, unsent, rel>>

\* cam_queue_deq; with nothing left the inner loop ends, and after EXIT the
\* outer one too.
Dequeue(t) ==
  /\ pc[t] = "deq" /\ queue[t] # <<>>
  /\ queue' = [queue EXCEPT ![t] = Tail(@)]
  /\ node' = [node EXCEPT ![t] = Head(queue[t])]
  /\ pc' = [pc EXCEPT ![t] = "handle"]
  /\ UNCHANGED <<sem, toSend, running, alive, posting, unsent, rel>>

DequeueNothing(t) ==
  /\ pc[t] = "deq" /\ queue[t] = <<>>
  /\ pc' = [pc EXCEPT ![t] = IF running[t] THEN "wait" ELSE "exited"]
  /\ UNCHANGED <<queue, sem, node, toSend, running, alive, posting, unsent, rel>>

HandleExit(t) ==
  /\ pc[t] = "handle" /\ node[t] = EXIT
  /\ running' = [running EXCEPT ![t] = FALSE]
  /\ pc' = [pc EXCEPT ![t] = "deq"]
  /\ UNCHANGED <<queue, sem, node, toSend, alive, posting, unsent, rel>>

\* The callback.  A command makes cmd_thread take any number of super buffers from
\* its queue, which it sends to cb_thread one by one.
Handle(t) ==
  /\ pc[t] = "handle" /\ node[t] # EXIT
  /\ \/ pc' = [pc EXCEPT ![t] = "deq"] /\ UNCHANGED toSend
     \/ /\ t = "cmd_thread" /\ pc' = [pc EXCEPT ![t] = "forward"]
        /\ toSend' \in 1..MaxSupers
  /\ UNCHANGED <<queue, sem, node, running, alive, posting, unsent, rel>>

Forward ==
  /\ pc["cmd_thread"] = "forward"
  /\ Enqueued("cb_thread", node["cmd_thread"])
  /\ pc' = [pc EXCEPT !["cmd_thread"] = "forward_post"]
  /\ UNCHANGED <<sem, node, toSend, running, alive, posting, unsent, rel>>

ForwardPost ==
  /\ pc["cmd_thread"] = "forward_post"
  /\ sem' = [sem EXCEPT !["cb_thread"] = @ + 1]
  /\ toSend' = IF toSend > 1 THEN toSend - 1 ELSE 0
  /\ pc' = [pc EXCEPT !["cmd_thread"] = IF toSend > 1 THEN "forward" ELSE "deq",
                      !["cb_thread"] = IF @ = "asleep" THEN "wait" ELSE @]
  /\ UNCHANGED <<queue, node, running, alive, posting, unsent, rel>>

-----------------------------------------------------------------------------
(* mm_channel_stop releases cmd_thread, which feeds cb_thread, first.        *)

FirstReversed  == "cb_thread"    \* mutant: cb_thread is released first
FirstReleased  == "cmd_thread"
SecondReleased == CHOOSE t \in Threads : t # FirstReleased

\* Every stream is off, so the poll thread sends nothing any more, and API
\* calls are kept out by ch_lock.
StopBundle ==
  /\ rel.step = "open" /\ posting = {}
  /\ rel' = [thread |-> FirstReleased, step |-> "enq"]
  /\ UNCHANGED <<queue, sem, pc, node, toSend, running, alive, posting, unsent>>

\* The allocations for EXIT succeed: without the message the thread would be left
\* running, without the list node the caller would join it for ever.
StopEnq ==
  /\ rel.step = "enq"
  /\ queue' = [queue EXCEPT ![rel.thread] = Append(@, EXIT)]
  /\ rel' = [rel EXCEPT !.step = "post"]
  /\ UNCHANGED <<sem, pc, node, toSend, running, alive, posting, unsent>>

StopPost ==
  /\ rel.step = "post"
  /\ Post(rel.thread)
  /\ rel' = [rel EXCEPT !.step = "join"]
  /\ UNCHANGED <<queue, node, toSend, running, alive, posting, unsent>>

\* pthread_join, then mm_camera_cmd_thread_destroy flushes what is left.
Destroy ==
  /\ rel.step = "join" /\ pc[rel.thread] = "exited"
  /\ queue' = [queue EXCEPT ![rel.thread] = <<>>]
  /\ sem' = [sem EXCEPT ![rel.thread] = 0]
  /\ pc' = [pc EXCEPT ![rel.thread] = "none"]
  /\ alive' = alive \ {rel.thread}
  /\ rel' = IF rel.thread = FirstReleased
            THEN [thread |-> SecondReleased, step |-> "enq"]
            ELSE [rel EXCEPT !.step = "stopped"]
  /\ UNCHANGED <<node, toSend, running, posting, unsent>>

-----------------------------------------------------------------------------
Thread(t) == \/ SemWait(t) \/ Dequeue(t) \/ DequeueNothing(t)
             \/ HandleExit(t) \/ Handle(t)
             \/ t = "cmd_thread" /\ (Forward \/ ForwardPost)
Release   == StopEnq \/ StopPost \/ Destroy

Next == \/ Launch \/ StopBundle \/ Release
        \/ \E s \in Senders : SendPost(s) \/ \E m \in Msgs : Send(s, m)
        \/ \E t \in Threads : Thread(t)

Spec == Init /\ [][Next]_vars

\* The threads, a sender that has begun, and the caller of the release go on.
FairSpec == /\ Spec
            /\ \A t \in Threads : WF_vars(Thread(t))
            /\ \A s \in Senders : WF_vars(SendPost(s))
            /\ WF_vars(Release)

-----------------------------------------------------------------------------
(* Properties. *)

\* The types of the variables.
TypeOK ==
  /\ queue \in [Threads -> Seq(Msgs \cup {EXIT})]
  /\ sem \in [Threads -> Nat]
  /\ pc \in [Threads -> {"none", "wait", "asleep", "deq", "handle", "forward",
                         "forward_post", "exited"}]
  /\ node \in [Threads -> Msgs \cup {EXIT}]
  /\ toSend \in 0..MaxSupers /\ running \in [Threads -> BOOLEAN]
  /\ alive \subseteq Threads /\ posting \subseteq Senders /\ unsent \subseteq Msgs
  /\ rel \in [thread : Threads,
              step : {"stopped", "open", "enq", "post", "join"}]

\* Somebody has appended to t's queue and will post its semaphore.
Owed(t) ==
  \/ t = "cmd_thread" /\ posting # {}
  \/ t = "cb_thread" /\ pc["cmd_thread"] = "forward_post"
  \/ rel.thread = t /\ rel.step = "post"

\* A thread never sleeps over a command: if there is one, its sender is about to
\* post.  The thread takes more commands than it waits for, so neither the queue
\* nor the semaphore counts the other.
NoLostWakeup ==
  \A t \in Threads : pc[t] = "asleep" /\ queue[t] # <<>> => Owed(t)

\* The threads implement mailboxes.  A message is handled when its callback is
\* done or goes on to forward it; EXIT, the last command, is not a message.
Messages(q) == IF q # <<>> /\ q[Len(q)] = EXIT THEN SubSeq(q, 1, Len(q) - 1) ELSE q
InHand(t)   == IF pc[t] = "handle" /\ node[t] # EXIT THEN <<node[t]>> ELSE <<>>

Mail == INSTANCE Mailbox
          WITH box  <- [t \in Threads |-> InHand(t) \o Messages(queue[t])],
               open <- alive
IsMailbox == Mail!MailSpec

=============================================================================
