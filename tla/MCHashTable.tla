---------------------------- MODULE MCHashTable ----------------------------
(* Bounds: two instances whose tables can each be filled, and filled       *)
(* together: one more outcome than entries.  Two outcomes collide at the   *)
(* last entry, so that a probe wraps around.                               *)
EXTENDS HashTable, TLC

CONSTANTS o1, o2, o3, o4

hash4 == o1 :> 2 @@ o2 :> 2 @@ o3 :> 0 @@ o4 :> 1
=============================================================================
