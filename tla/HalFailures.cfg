CONSTANTS
  Requests <- WindowedCalls
  Failures <- AnyFailure
  MaxEvents = 1
SPECIFICATION FairSpec
CHECK_DEADLOCK FALSE
INVARIANT NoHiddenRecording
PROPERTY EveryCallAnswered
