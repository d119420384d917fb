---------------------------- MODULE MCStreamPoll ----------------------------
(* StreamPoll on one or two streams.                                       *)
EXTENDS StreamPoll, TLC

CONSTANTS preview, video, b1, b2

\* All buffers in the driver at the start, or preview's with the upper layer, as
\* a display keeps some.
AllInitial  == [s \in Streams |-> Bufs]
SomeInitial == [s \in Streams |-> IF s = preview THEN {} ELSE Bufs]

\* Sound where every buffer of a stream starts alike, and not for liveness.
BufSymmetry == Permutations(Bufs)

NoFailures == {}
AnyFailure == FailureKinds
=============================================================================
