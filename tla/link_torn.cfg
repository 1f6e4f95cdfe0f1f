CONSTANTS
  EPs = {1, 2}
  Modes = {"all"}
  Faults = {"timeout"}
  Concurrent = FALSE
  DataBufs = 1
  CmdBufs = 1
  MaxFrames = 2
  MaxCmds = 2
SPECIFICATION Spec
INVARIANT Intact
CHECK_DEADLOCK FALSE
