CONSTANTS
  NumBuf = 2
  Readers = {r1, r2}
  FifoKind = "data"
  EnClearBuf = TRUE
  MaxFrames = 4
  MaxKills = 1
SPECIFICATION FairSpec
INVARIANT OneOwner
INVARIANT LeakBounded
INVARIANT PoolNeverSpins
PROPERTY FrameQueueSpec
PROPERTY FramesTaken
CHECK_DEADLOCK FALSE
