CONSTANTS
  EPs = {1, 2}
  Modes = {"one"}
  Faults = {"dmaerr"}
  Concurrent = FALSE
  DataBufs = 1
  CmdBufs = 1
  MaxFrames = 3
  MaxCmds = 1
SPECIFICATION FairSpec
INVARIANT AreaExclusive
INVARIANT OkMeansHandled
PROPERTY SendReturns
CHECK_DEADLOCK FALSE
