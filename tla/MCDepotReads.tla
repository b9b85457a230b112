---------------------------- MODULE MCDepotReads ----------------------------
(* Small files for DepotReads: two that are what manifests hold, an empty   *)
(* one, and two whose chunk tables leave bytes uncovered.                   *)
EXTENDS DepotReads

C(o, s) == [offset |-> o, size |-> s]

SmallFiles ==
    { [size |-> 3, chunks |-> << C(0, 2), C(2, 1) >>],
      [size |-> 3, chunks |-> << C(0, 1), C(1, 1), C(2, 1) >>],
      [size |-> 0, chunks |-> << >>],
      [size |-> 3, chunks |-> << C(0, 1), C(2, 1) >>],
      [size |-> 2, chunks |-> << C(1, 1) >>] }
=============================================================================
