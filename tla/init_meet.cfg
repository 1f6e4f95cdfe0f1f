SPECIFICATION FairSpec
CONSTANTS
  EPs = {1, 2}
  Modes = {"all", "some"}
  MaxRetries = 2
  MaxCrashes = 1
INVARIANTS RightId AcceptedIsReady DoneMeansAll
PROPERTIES Meet
CHECK_DEADLOCK FALSE
