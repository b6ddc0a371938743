CONSTANTS
  SignalTargets = {"main", "other"}
  Events = {e1, e2}
SPECIFICATION Spec
PROPERTY ShutdownCompletes
CHECK_DEADLOCK FALSE
