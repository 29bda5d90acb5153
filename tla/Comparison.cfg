SPECIFICATION Spec
CONSTANTS
  NumIdentifiers = 3
  WatermarkBlocks = 1
  FunctionBlocks = 2
  MaxLength = 14
  MaxFiles = 2
INVARIANTS
  ScoreIsTheBest
  TheFunctionItselfIsFound
  BracesEncloseParts
  UndeclaredOnlyAfterWrap
