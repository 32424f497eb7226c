------------------------------ MODULE MCDenseMap ------------------------------
(* A table of up to 16 buckets, 4 instead of 64 at the least, and keys that  *)
(* collide in small tables and in large ones.                                *)
EXTENDS DenseMap, TLC

MCKeys == 1..4
MCHash == (1 :> 0) @@ (2 :> 0) @@ (3 :> 4) @@ (4 :> 1)
MCSizes == {2, 4, 8, 16}

(* The theorem on how long searches are applies to this instance.            *)
ASSUME TheoremsApply == SizesArePowersOfTwo
=============================================================================
