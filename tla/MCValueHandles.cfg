SPECIFICATION Spec
CONSTANTS
  A = A
  B = B
  Wk = Wk
  Tr = Tr
  K1 = K1
  K2 = K2
  I1 = I1
  I2 = I2
  Null = Null
  Tombstone = Tombstone
  Values = {A, B}
  Handles <- MCHandles
  Kind <- MCKind
  Iterators <- MCIterators
  MaxOps = 1
SYMMETRY MCSymmetry
INVARIANTS
  ListsWellLinked
  NoHandleIsLost
  LoopStaysOnItsList
PROPERTIES
  LoopLeavesNothingBehind
  EachHandleVisited
