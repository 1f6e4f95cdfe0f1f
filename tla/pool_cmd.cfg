CONSTANTS
  NumBuf = 2
  Readers = {r1}
  FifoKind = "cmd"
  EnClearBuf = FALSE
  MaxFrames = 4
  MaxKills = 2
SPECIFICATION FairSpec
INVARIANT ReaderNeverSpins
PROPERTY WorkerFinishes
CHECK_DEADLOCK FALSE
