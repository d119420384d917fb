------------------------------ MODULE Mailbox ------------------------------
(***************************************************************************)
(* What a command thread promises to the code that uses it: a message sent *)
(* while the thread is open is handled once, in the order of sending, and  *)
(* the thread is closed only when it has handled everything.               *)
(*                                                                         *)
(* SuperBufQueue and StreamPoll are written over such mailboxes; CmdThread *)
(* shows that mm_camera_cmd_thread_* is one.                               *)
(***************************************************************************)
EXTENDS Sequences

CONSTANTS Threads, Msgs

VARIABLES
  box,   \* box[t]: messages thread t has still to handle, the oldest first
  open   \* the threads messages may be sent to

mailVars == <<box, open>>

MailInit == box = [t \in Threads |-> <<>>] /\ open = {}

Open ==
  /\ open = {}
  /\ open' = Threads
  /\ UNCHANGED box

Send(t, m) ==
  /\ t \in open
  /\ box' = [box EXCEPT ![t] = Append(@, m)]
  /\ UNCHANGED open

Take(t) ==
  /\ box[t] # <<>>
  /\ box' = [box EXCEPT ![t] = Tail(@)]
  /\ UNCHANGED open

Close(t) ==
  /\ t \in open /\ box[t] = <<>>
  /\ open' = open \ {t}
  /\ UNCHANGED box

MailNext ==
  \/ Open
  \/ \E t \in Threads : Take(t) \/ Close(t) \/ \E m \in Msgs : Send(t, m)

MailSafety == MailInit /\ [][MailNext]_mailVars

\* Every message is handled in the end.
MailSpec == MailSafety /\ \A t \in Threads : WF_mailVars(Take(t))

=============================================================================
