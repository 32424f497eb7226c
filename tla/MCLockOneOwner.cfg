SPECIFICATION Spec
CONSTANTS
  P1 = P1
  P2 = P2
  P3 = P3
  F1 = F1
  F2 = F2
  F3 = F3
  NoFile = NoFile
  Procs <- ThreeProcs
  Inodes <- ThreeInodes
  Host <- OneHost
  MaxRounds = 1
  FsErrors = FALSE
  MaxCrashes = 0
SYMMETRY InodeSymmetry
INVARIANTS
  OneOwner
