SPECIFICATION Spec
CONSTANTS
  SECURITY = 2
  Keys = {"a", "b"}
  Sizes = {0, 2, 3, 5, 8}
  MaxPairs = 3
  KeyLen <- MCKeyLen
  Images <- MCImages
INVARIANTS
  GetOwn
  ListOwn
  OnlyTheTable
