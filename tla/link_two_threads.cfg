CONSTANTS
  EPs = {1}
  Modes = {"all", "one"}
  Faults = {}
  Concurrent = TRUE
  DataBufs = 1
  CmdBufs = 1
  MaxFrames = 2
  MaxCmds = 2
SPECIFICATION FairSpec
PROPERTY SendReturns
CHECK_DEADLOCK FALSE
