CONSTANTS
  Threads = {t1}
  t1 = t1
  MaxOpens = 1
  NumWindows = 4
  Bases = {0, 7}
  Sizes = {0, 2, 9}
  ObSizes = {0, 3}
  LoRange = 8
SPECIFICATION Spec
INVARIANT NoShare
INVARIANT StatusHonest
INVARIANT Translates
INVARIANT RefusedWhenFull
CHECK_DEADLOCK FALSE
