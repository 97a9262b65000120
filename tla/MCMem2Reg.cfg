CONSTANTS
  WordBits = 14
  Functions <- MCFunctions
  Samples <- MCSamples
  MaxBlocks = 5
SPECIFICATION SoundSpec
CHECK_DEADLOCK FALSE
INVARIANTS
  TypeOK
  DominatorsNeverLost
  DominatorsExact
  FrontiersExact
  PhisExact
  NoAccessLeft
  LeavesSsa
  BehaviourPreserved
PROPERTIES
  Terminates
