SPECIFICATION Spec
CONSTANTS
  P1 = P1
  P2 = P2
  P3 = P3
  F1 = F1
  F2 = F2
  F3 = F3
  NoFile = NoFile
  Procs <- TwoProcs
  Inodes <- ThreeInodes
  Host <- OneHost
  MaxRounds = 2
  FsErrors = TRUE
  MaxCrashes = 1
INVARIANTS
  AtMostOneUnrobbedOwner
  LockNamesItsOwner
PROPERTIES
  WaitEnds
  StaleLockIsRemoved
