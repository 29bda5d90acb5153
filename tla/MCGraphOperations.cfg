SPECIFICATION Spec
SYMMETRY NodeSymmetry
CONSTANTS
  NodeId = {n1, n2, n3, n4}
  MaxNodes = 4
  MaxConnections = 6
  MaxConnected = 3
INVARIANTS
  IndexesAgree
  ListsMirrored
  CountsAgree
PROPERTIES
  CopyReversesLists
  ExpansionIsABlock
