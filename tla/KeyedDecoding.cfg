\* Every key of up to 10 bits, every loss of up to 3 connections.  Read with
\* its parity, a key is one symbol of 2 bits and four parity symbols.
SPECIFICATION KDSpec
CONSTANTS
  ByteBits = 8
  NumBits = 10
  MaxRemoved = 3
  SymbolBits = 2
  ParitySymbols = 4
INVARIANTS
  LostForwardEdgesAreRecovered
  OneLossCostsOneBit
  DecoderKeepsBounds
  LossesAreRepaired
