---------------------------- MODULE MCChunkCache ----------------------------
(* Small instances of ChunkCache. *)
EXTENDS ChunkCache, TLC

CONSTANTS a, b, j, p1, p2, t1, t2, t3, l1, l2, l3

OneProc == t1 :> p1 @@ t2 :> p1
TwoProcs == t1 :> p1 @@ t2 :> p1 @@ t3 :> p2

SharedSymmetry == Permutations({t1, t2}) \cup Permutations(Locks)
=============================================================================
