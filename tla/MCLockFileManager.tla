--------------------------- MODULE MCLockFileManager --------------------------
(* Two or three processes of one machine. *)
EXTENDS LockFileManager, TLC
CONSTANTS P1, P2, P3, F1, F2, F3
TwoProcs == {P1, P2}
ThreeProcs == {P1, P2, P3}
ThreeInodes == {F1, F2, F3}
InodeSymmetry == Permutations(Inodes)
OneHost == [p \in Procs |-> "a"]
=============================================================================
