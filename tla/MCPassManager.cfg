SPECIFICATION FairSpec
CONSTANTS
  CallGraph = CallGraph
  Dom = Dom
  Loops = Loops
  Evolution = Evolution
  Users = Users
  Split = Split
  Transforms = {Split}
  Alias = Alias
  FPManager = FPManager
  Analyses <- MCAnalyses
  Usage <- MCUsage
  ClientUsages <- MCClientUsages
  MaxAdds = 3
  MaxRuns = 2
  MaxFunctions = 2
INVARIANTS
  RequiredAreReady
  AliveWhenUsed
  NothingIsLeaked
  NoWorkIsRepeated
PROPERTIES
  CallsReturn
CHECK_DEADLOCK FALSE
