SPECIFICATION CRSpec
CONSTANTS
  NumBits = 1
  MaxRemoved = 0
  MaxNode = 7
  MaxBlocks = 0
  MaxLength = 0
  MaxExpansions = 1
  MaxCases = 6
INVARIANTS
  CodeIsReadBack
