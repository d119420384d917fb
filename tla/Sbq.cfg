CONSTANTS
  meta = meta
  preview = preview
  snapshot = snapshot
  Streams = {meta, preview, snapshot}
  MetaStream = meta
  NumBufs <- Buffers
  WaterMark = 1
  LookBack = 1
  PostFrameSkip = 2
  MaxUnmatchedFrames = 1
  MaxFutureFrameOffset = 2
  FrameIdxLimit = 10
  MaxFrame = 3
  MaxRequest = 1
  MaxCmds = 1
  MaxLeaked = 1
  InitModes <- EitherMode
  NotifyModes <- EitherMode
  FlushTargets = {3}
  Metadata <- ZslMetadata
  MallocOutcomes = {TRUE, FALSE}
SPECIFICATION FairSpec
INVARIANT TypeOK
INVARIANT MatchedFirst
INVARIANT OwnedOnce
INVARIANT NoBufferLost
INVARIANT WaterMarkKept
INVARIANT NoMatchWaits
INVARIANT NoStall
PROPERTY KeepsContract
PROPERTY BuffersSettle
