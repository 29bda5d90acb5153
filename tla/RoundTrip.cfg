\* Every key of up to 11 bits: the all-zero data stand for an 11-bit one.
\* Every choice of rand().
SPECIFICATION RTSpec
CONSTANT NumBits = 10
INVARIANTS
  TypeOK
  MemorySafe
  BlocksNest
  DecodedKey
PROPERTIES
  RewindsOnlyPop
  ImplementsGrammar
  ImplementsChannel
