CONSTANTS
  Nodes <- MCNodes
  MaxConns = 4
SPECIFICATION Spec
PROPERTY SetPeerOnNull
