CONSTANTS
  SignalTargets = {"other"}
  Events = {e1, e2}
SPECIFICATION Spec
INVARIANT EventsDelivered
\* mainloop returns and the agent process exits: the one state with no successor.
CHECK_DEADLOCK FALSE
