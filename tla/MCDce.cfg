CONSTANTS
  WordBits = 14
  Functions <- MCFunctions
SPECIFICATION Spec
INVARIANTS
  TypeOK
  NothingLost
  NoDanglingOperand
PROPERTIES
  MarksClosure
