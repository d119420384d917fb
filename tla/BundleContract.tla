--------------------------- MODULE BundleContract ---------------------------
(***************************************************************************)
(* What a bundled channel promises the HAL, whatever its queue does: it    *)
(* borrows a buffer from the driver with every frame; it gives frames back *)
(* only while it holds them; it calls back with one frame of every bundled *)
(* stream, all of the same number, in increasing order of number; and what *)
(* it has promised to the HAL only the HAL gives back.                     *)
(***************************************************************************)
EXTENDS Integers, Sequences

CONSTANTS Streams, MaxFrame

VARIABLES
  last,    \* last[s]: number of the last frame borrowed on stream s
  taken,   \* frames borrowed from the driver and not given back
  owed,    \* numbers of the super buffers promised to the HAL
  latest,  \* number of the last super buffer promised
  client   \* frames the HAL holds

vars == <<last, taken, owed, latest, client>>

SuperBuf(n) == Streams \X {n}
Promised    == UNION {SuperBuf(owed[i]) : i \in DOMAIN owed}
Held        == taken \ (Promised \cup client)

Init == /\ last = [s \in Streams |-> 0]
        /\ taken = {} /\ owed = <<>> /\ latest = 0 /\ client = {}

Borrow(s, n) ==
  /\ n > last[s]
  /\ last' = [last EXCEPT ![s] = n]
  /\ taken' = taken \cup {<<s, n>>}
  /\ UNCHANGED <<owed, latest, client>>

\* The channel gives some of the frames it holds back and promises some whole
\* super buffers, newer than all before.
Sort ==
  /\ taken' \subseteq taken
  /\ taken \ taken' \subseteq Held
  /\ Len(owed') >= Len(owed)
  /\ SubSeq(owed', 1, Len(owed)) = owed
  /\ \A i \in (Len(owed) + 1)..Len(owed') :
       /\ owed'[i] > (IF i = Len(owed) + 1 THEN latest ELSE owed'[i - 1])
       /\ SuperBuf(owed'[i]) \subseteq Held \cap taken'
  /\ latest' = IF Len(owed') > Len(owed) THEN owed'[Len(owed')] ELSE latest
  /\ UNCHANGED <<last, client>>

CallBack ==
  /\ owed # <<>>
  /\ owed' = Tail(owed)
  /\ client' = client \cup SuperBuf(Head(owed))
  /\ UNCHANGED <<last, taken, latest>>

Return(f) ==
  /\ f \in client
  /\ client' = client \ {f}
  /\ taken' = taken \ {f}
  /\ UNCHANGED <<last, owed, latest>>

Next == \/ \E s \in Streams, n \in 1..MaxFrame : Borrow(s, n)
        \/ Sort
        \/ CallBack
        \/ \E f \in client : Return(f)

Spec == Init /\ [][Next]_vars
=============================================================================
