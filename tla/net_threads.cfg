\* Two endpoints, the least for which a thread can be late and another be early;
\* two batches let main come round while a thread has not yet sent the first.
SPECIFICATION FairSpec
CONSTANTS
  EPs = {1, 2}
  Modes = {"threads", "each", "all", "one"}
  Faults = {"senderr", "signal"}
  FifoSize = 1
  MaxLoops = 2
INVARIANTS Lockstep  
PROPERTIES Returns
CHECK_DEADLOCK FALSE
