CONSTANTS
  h1 = h1
  h2 = h2
  Handlers <- MCHandlers
  Requests <- MCRequests
  InitialTags = {}
  MaxTagRequests = 3
  EarlyRequests = FALSE
  GetCoordRetries = 2
SPECIFICATION Spec
INVARIANT NoDanglingRegistration
