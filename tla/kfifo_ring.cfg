\* Four buffers, counters modulo twice that, and enough lines for both to wrap.
SPECIFICATION FairSpec
CONSTANTS
  Size = 4
  Wrap = 8
  MaxLines = 10
INVARIANTS StillRoom EachOnce AwakeForBuffers
PROPERTIES FrameQueueSpec LinesTaken ExitEnds
CHECK_DEADLOCK FALSE
