SPECIFICATION FairSpec
CHECK_DEADLOCK FALSE
CONSTANTS
  SpeedArgs = {115200}
  InitSpeedArgs = {}
  Failures = {}
  QueueCap = 3
  MaxIgnored = 0
PROPERTIES TermEnds
