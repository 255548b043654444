SPECIFICATION Spec
CHECK_DEADLOCK FALSE
CONSTANTS
  Options = {"baudrate"}
  Records = 1
  Refused = {}
  MaxRetries = 1
INVARIANTS SpeedInEffect
