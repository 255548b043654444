SPECIFICATION Spec
CHECK_DEADLOCK FALSE
CONSTANTS
  Base = 4
  Buffer = 2
  Inputs <- MCInputs
  Earlier <- MCEarlier
INVARIANTS TraceReadsBack
