-------------------------- MODULE MCHalStateMachine --------------------------
(* Instances of HalStateMachine for TLC. *)
EXTENDS HalStateMachine

Call(evts) == [evt : evts, arg : {FALSE}]
SetParamsCalls(z, h, o) == [evt : {"SET_PARAMS"}, arg : [zsl : z, hint : h, other : o]]
WindowCalls == [evt : {"SET_PREVIEW_WINDOW"}, arg : BOOLEAN]

Always == {"STOP_PREVIEW", "START_RECORDING", "STOP_RECORDING", "PREPARE_SNAPSHOT",
           "CANCEL_PICTURE"}

\* An application that switches ZSL mode and recording hint, one at a time.
ModeCalls == Call(Always \cup {"START_NODISPLAY_PREVIEW", "QUERY"})
             \cup SetParamsCalls(BOOLEAN, {FALSE}, {"none"})
             \cup SetParamsCalls({FALSE}, {TRUE}, {"none"})

\* An application without ZSL: the window comes and goes, parameters may be bad.
WindowedCalls == Call(Always \cup {"START_PREVIEW", "RELEASE"}) \cup WindowCalls
                 \cup SetParamsCalls({FALSE}, BOOLEAN, {"none"})
                 \cup SetParamsCalls({FALSE}, {FALSE}, {"restart", "bad"})

FewFailures == {"prepare", "take"}
AnyFailure  == FailureKinds
==============================================================================
