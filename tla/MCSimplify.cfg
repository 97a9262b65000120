CONSTANTS
  WordBits = 14
  Functions <- MCFunctions
  Samples <- MCSamples
  MaxBlocks = 12
SPECIFICATION SoundSpec
CHECK_DEADLOCK FALSE
INVARIANTS
  TypeOK
  StaysLinked
  PhisStayComplete
  NothingDangles
  NothingLeft
  BehaviourPreserved
PROPERTIES
  Terminates
