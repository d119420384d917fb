CONSTANTS
  preview = preview
  video = video
  b1 = b1
  b2 = b2
  Streams = {preview}
  Bufs = {b1}
  Initial <- AllInitial
  Bundled = {}
  HasCb = {preview}
  Failures <- NoFailures
  Orderly = FALSE
  MaxPending = 1
SPECIFICATION Spec
CHECK_DEADLOCK FALSE
INVARIANT NoStrayAccess
