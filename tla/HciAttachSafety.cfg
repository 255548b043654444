SPECIFICATION FairSpec
CHECK_DEADLOCK FALSE
CONSTANTS
  SpeedArgs = {115200, 3000000, 14400}
  InitSpeedArgs = {9600}
  Failures = {"tty", "write", "gpio"}
  QueueCap = 3
  MaxIgnored = 1
INVARIANTS TypeOK SpeedsAgree ConfiguredOnAttach
PROPERTIES HangUpEnds SetupEnds RepeatedTermEnds
