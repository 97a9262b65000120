CONSTANTS
  WordBits = 14
  Jobs <- MCJobs
  Samples <- MCSamples
  MaxBlocks = 10
SPECIFICATION Spec
CHECK_DEADLOCK FALSE
INVARIANTS
  Preconditions
  BehaviourPreserved
