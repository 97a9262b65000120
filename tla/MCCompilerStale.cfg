CONSTANTS
  WordBits = 14
  Scaled <- MCScaled
  Sources <- MCSources
  Samples <- MCSamples
  MaxBlocks = 30
SPECIFICATION Spec
CHECK_DEADLOCK FALSE
INVARIANT
  AcceptedLowers
