CONSTANTS
  preview = preview
  video = video
  b1 = b1
  b2 = b2
  Streams = {preview, video}
  Bufs = {b1, b2}
  Initial <- AllInitial
  Bundled = {preview, video}
  HasCb = {preview}
  Failures <- NoFailures
  Orderly = FALSE
  MaxPending = 1
SPECIFICATION Spec
SYMMETRY BufSymmetry
CHECK_DEADLOCK FALSE
INVARIANT TypeOK
INVARIANT DriverExclusive
INVARIANT NoBufferStranded
INVARIANT CountExact
INVARIANT PollFollowsCount
INVARIANT PipeShort
