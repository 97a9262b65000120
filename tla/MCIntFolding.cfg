CONSTANTS
  WordBits = 5
  Types <- MCTypes
SPECIFICATION Spec
INVARIANTS
  Canonical
  LiteralExact
  FoldExact
  CompareExact
