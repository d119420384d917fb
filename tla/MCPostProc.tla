----------------------------- MODULE MCPostProc -----------------------------
(* Instances of PostProc for TLC. *)
EXTENDS PostProc
AllRoutes   == {"jpeg", "raw", "reprocess"}
AllFailures == {"encode", "answer", "raw", "reprocess", "unsent"}
TwoThenOne  == <<2, 1>>
=============================================================================
