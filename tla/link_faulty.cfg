CONSTANTS
  EPs = {1}
  Modes = {"one"}
  Faults = {"timeout", "sendfail", "dmaerr", "restart"}
  Concurrent = TRUE
  DataBufs = 1
  CmdBufs = 1
  MaxFrames = 2
  MaxCmds = 1
SPECIFICATION Spec
INVARIANT NeverOlder
INVARIANT AwakeForBits
CHECK_DEADLOCK FALSE
