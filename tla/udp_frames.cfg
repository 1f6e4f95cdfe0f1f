\* Frames of 0 to 5 bytes in packets of 2: nothing, less than a packet, exactly
\* one, and several with and without a remainder.
SPECIFICATION FairSpec
CONSTANTS
  PacketSize = 2
  Sizes = {0, 1, 2, 3, 4, 5}
  Faults = {"loss", "readfail", "sendfail", "diskfull"}
  MaxFrames = 3
INVARIANTS OneAhead AckMatches Whole NoStall
PROPERTIES Delivery ServerLeaves
CHECK_DEADLOCK FALSE
