SPECIFICATION FairSpec
CHECK_DEADLOCK FALSE
CONSTANTS
  Clients = {main}
  NoOne = none
  Calls = {c1}
  OutOfMemory = TRUE
  Disconnects = TRUE
  MaxStarts = 2
  MaxRestarts = 1
INVARIANTS TypeOK RunningIsHeard StoppedLeavesNothing AgentHasPath StaleAgentBlocks CallbackHasItsMemory CallbackReleases
PROPERTIES DeliveredInTime StartAndStopReturn
