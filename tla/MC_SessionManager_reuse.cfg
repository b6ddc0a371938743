CONSTANTS
  s1 = s1
  o1 = o1
  o2 = o2
  c1 = c1
  c2 = c2
  h1 = h1
  h2 = h2
  NoObj = NoObj
  SessionIds <- MCSessionIds
  Objs <- MCObjs
  Comps <- MCComps
  Configs <- MCConfigs
  Handlers <- MCHandlers
  MaxRequests = 3
SPECIFICATION Spec
PROPERTY DeletedIdReusable

