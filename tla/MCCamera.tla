------------------------------ MODULE MCCamera ------------------------------
(* Instances of Camera for TLC. *)
EXTENDS Camera
CONSTANTS m1, o1, r1
=============================================================================
