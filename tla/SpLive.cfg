CONSTANTS
  preview = preview
  video = video
  b1 = b1
  b2 = b2
  Streams = {preview, video}
  Bufs = {b1}
  Initial <- SomeInitial
  Bundled = {}
  HasCb = {preview, video}
  Failures <- AnyFailure
  Orderly = TRUE
  MaxPending = 1
SPECIFICATION FairSpec
CHECK_DEADLOCK FALSE
INVARIANT RefsCoverHolders
PROPERTY FrameTaken
PROPERTY StopEnds
