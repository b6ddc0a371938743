CONSTANTS
  a = a
  b = b
  c = c
  Client = Client
  NoComp = NoComp
  Nodes <- MCNodes
  Comps <- MCComps
  Host <- MCHost
  Entry = 2
  InitComps = {a, b}
  MaxEnvs = 2
  MaxBreaks = 1
SPECIFICATION Spec
INVARIANT TypeOK
PROPERTY DeliveryRefined
INVARIANT DeliveredAsAddressed
INVARIANT QueuedOnTracked
