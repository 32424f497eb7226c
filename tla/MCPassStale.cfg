SPECIFICATION Spec
CONSTANTS
  CallGraph = CallGraph
  Dom = Dom
  Loops = Loops
  Evolution = Evolution
  Users = Users
  Split = Split
  Transforms = {Split}
  Alias = Alias
  FPManager = FPManager
  Analyses <- MCAnalyses
  Usage <- MCUsage
  ClientUsages <- MCClientUsages
  MaxAdds = 2
  MaxRuns = 1
  MaxFunctions = 2
INVARIANTS
  AllRequiredAreReady
CHECK_DEADLOCK FALSE
