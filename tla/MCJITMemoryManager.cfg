SPECIFICATION Spec
CONSTANTS
  SlabWords = 17
  Requests = {0,18}
  Sizes = {2,5}
  Alignments = {4}
  MaxSlabs = 2
INVARIANTS
  HeadersAgree
  FreeNeighboursAreMerged
  FreeListIsExact
  ClientsHaveTheirMemory
CHECK_DEADLOCK FALSE
