\* Watermarks of 8 bits that lost up to 2 connections; codes of up to 3 blocks,
\* strings of up to 5 digits, graphs made by up to 3 expansions.
SPECIFICATION CRSpec
CONSTANTS
  NumBits = 8
  MaxRemoved = 2
  MaxNode = 35
  MaxBlocks = 3
  MaxLength = 5
  MaxExpansions = 3
  MaxCases = 5
INVARIANTS
  CodeIsReadBack
  WatermarksAreRecognised
  CodeIsTheGraph
PROPERTIES
  SinksMoveOn
  CodesAreLive
