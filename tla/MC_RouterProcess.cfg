SPECIFICATION Spec
CONSTANTS
  MaxAttempts = 3
  MaxSignals = 1
INVARIANT TypeOK
PROPERTY ExitAfterAgentCloses
\* Both processes end: the router after its service connection, the agent
\* when the node exits.
CHECK_DEADLOCK FALSE
