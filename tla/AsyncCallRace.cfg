SPECIFICATION FairSpec
CHECK_DEADLOCK FALSE
CONSTANTS
  Calls = {c1, c2}
  OutOfMemory = FALSE
  Disconnects = FALSE
PROPERTIES Delivered
