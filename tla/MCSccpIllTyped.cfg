CONSTANTS
  WordBits = 14
  Functions <- MCFunctions
SPECIFICATION Spec
CHECK_DEADLOCK FALSE
INVARIANTS
  AssertionsHold
