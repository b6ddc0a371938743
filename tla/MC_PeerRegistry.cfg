CONSTANTS
  c1 = c1
  c2 = c2
  Sources <- MCSources
  MaxMsgs = 2
  MaxConns = 2
  MaxKicks = 1
SPECIFICATION Spec
INVARIANT TypeOK
INVARIANT NothingStranded
INVARIANT SourceOrderKept
