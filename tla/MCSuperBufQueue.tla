-------------------------- MODULE MCSuperBufQueue --------------------------
(* SuperBufQueue on a metadata stream and two image streams.               *)
EXTENDS SuperBufQueue

CONSTANTS meta, preview, snapshot

\* What the daemon may write in a metadata frame.
Future      == [prep |-> "NEED_FUTURE_FRAME", range |-> NoRange]
GoodFrom(n) == [prep |-> "INVALID", range |-> n]
ZslMetadata == {NoMeta, Future, GoodFrom(1)}

EitherMode == {BURST, CONTINUOUS}

\* The image streams have three buffers and two.
Buffers == [s \in Streams |-> IF s = snapshot THEN 2 ELSE 3]
=============================================================================
