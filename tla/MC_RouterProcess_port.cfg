SPECIFICATION Spec
CONSTANTS
  MaxAttempts = 3
  MaxSignals = 1
INVARIANT PortOnAccept
CHECK_DEADLOCK FALSE
