CONSTANTS
  Requests <- ModeCalls
  Failures <- FewFailures
  MaxEvents = 1
SPECIFICATION FairSpec
CHECK_DEADLOCK FALSE
INVARIANT TypeOK
INVARIANT PreviewRuns
INVARIANT PicturesOnly
INVARIANT CaptureAlone
