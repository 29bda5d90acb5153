SPECIFICATION Spec
CONSTANTS
  NodeId = {0, 1, 2, 3}
  Bucket = {0, 1}
  MaxNodes = 4
  MaxLines = 5
INVARIANTS
  NamesAreNodes
  OnlyCyclesGoBack
  ReachedNodesArePlaced
