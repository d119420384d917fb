---------------------------- MODULE MCCmdThread ----------------------------
(* CmdThread with the poll thread and one caller of the API.               *)
EXTENDS CmdThread

CONSTANTS poll_thread, caller, m1, m2, m3

MayFail == {"enq"}
=============================================================================
