\* Every key of 8 bits, compared with every key that differs in up to two bits,
\* after every loss of up to 2 connections; then the analysis, and the
\* correction of its marks by two parity bytes of two bits each.
SPECIFICATION KCSpec
CONSTANTS
  NumBits = 8
  ByteBits = 2
  ParityBytes = 2
  MaxRemoved = 2
  MaxFlipped = 2
INVARIANTS
  RefusalNeedsALostOne
  WrongKeyAddsOneBit
  CheckerRewindsOnlyPop
  CheckerMemorySafe
  AnalysisAgreesWithVerdict
  AnalysisKeepsBounds
  EachFaultCostsOneMark
  RsForgivesLostBackedges
