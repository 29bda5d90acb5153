\* Intact graphs only: what the decoder does to its stacks.
SPECIFICATION KDSpec
CONSTANTS
  ByteBits = 8
  NumBits = 8
  MaxRemoved = 0
  SymbolBits = 1
  ParitySymbols = 0
PROPERTY DecoderRewindsOnlyPop
