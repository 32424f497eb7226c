SPECIFICATION FairSpec
CONSTANTS
  ShortSize = 2
  LongSize = 5
  NoSymbol = NoSymbol
  Programs <- MCPrograms
  InReach <- MCInReach
  Width <- MCWidth
INVARIANTS
  OffsetsAreCurrent
  EverythingFits
PROPERTIES
  LayoutEnds
CHECK_DEADLOCK FALSE
