---------------------------- MODULE MCDepotStore ----------------------------
(* A small instance of DepotStore: one process with all the tasks. *)
EXTENDS DepotStore, TLC

CONSTANTS p1, t1, t2, t3, l1, l2, l3, c1

OneProc == t1 :> p1 @@ t2 :> p1 @@ t3 :> p1

\* Two tasks are enough for one to remove what the other looks at or has saved.
TwoIfStale == TRUE :> Tasks @@ FALSE :> {t1, t2}
=============================================================================
