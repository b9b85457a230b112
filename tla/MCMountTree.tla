---------------------------- MODULE MCMountTree -----------------------------
(* Small instances of MountTree. *)
EXTENDS MountTree

CONSTANTS a1, d1, d2, g1, g2, w1, w2
=============================================================================
