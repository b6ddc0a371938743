CONSTANTS
  h1 = h1
  h2 = h2
  Handlers <- MCHandlers
  Requests <- MCRequests
  InitialTags = {"exclusive_user"}
  MaxTagRequests = 3
  EarlyRequests = TRUE
  GetCoordRetries = 2
SPECIFICATION Spec
INVARIANT TagsApplied
