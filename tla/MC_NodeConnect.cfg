CONSTANTS
  Nodes <- MCNodes
  MaxConns = 4
SPECIFICATION Spec
INVARIANT TypeOK
INVARIANT NodeSettled
