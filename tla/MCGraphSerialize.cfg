SPECIFICATION Spec
CONSTANTS
  NodeId = {n1, n2, n3}
  MaxNodes = 3
  MaxConnections = 3
  MaxConnected = 3
INVARIANTS
  RoundTripKeepsConnections
