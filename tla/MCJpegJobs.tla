----------------------------- MODULE MCJpegJobs -----------------------------
(* Instances of JpegJobs for TLC. *)
EXTENDS JpegJobs, TLC
CONSTANTS c1, c2
TwoAndOne == (c1 :> 2) @@ (c2 :> 1)
AllFailures == {"encode", "omx"}
=============================================================================
