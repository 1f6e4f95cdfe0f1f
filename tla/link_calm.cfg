CONSTANTS
  EPs = {1, 2}
  Modes = {"all", "one"}
  Faults = {}
  Concurrent = FALSE
  DataBufs = 1
  CmdBufs = 1
  MaxFrames = 2
  MaxCmds = 2
SPECIFICATION Spec
INVARIANT AreaExclusive
INVARIANT Intact
INVARIANT OkMeansHandled
INVARIANT CmdsInOrder
CHECK_DEADLOCK FALSE
