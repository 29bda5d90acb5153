\* An intact graph compared with a key that differs in one bit.
SPECIFICATION KCSpec
CONSTANTS
  NumBits = 4
  ByteBits = 1
  ParityBytes = 0
  MaxRemoved = 0
  MaxFlipped = 1
INVARIANT AcceptedKeyMatches
