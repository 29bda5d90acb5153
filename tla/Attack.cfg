\* Keys of up to 3 bits, or of one symbol of 2 bits with two of parity or with
\* three, which is one too many, by 2 threads, without 1 or 2 of up to 3
\* connections.
SPECIFICATION Spec
CONSTANTS
  Thread = {t1, t2}
  MaxBits = 3
  MaxSymbols = 1
  SymSize = 2
  ParityCounts = {2, 3}
  MaxRemovals = 2
  MaxEdges = 3
INVARIANTS
  EveryKeyIsCounted
  EverySetIsRemoved
  OnlyFailedCorrectionsOverrun
PROPERTIES
  OnlyTheReturnHangs
