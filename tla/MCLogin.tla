------------------------------ MODULE MCLogin -------------------------------
(* A small instance of Login: two processes of one account, one of another. *)
EXTENDS Login, TLC

CONSTANTS p1, p2, p3, a1, a2

TwoAccounts == p1 :> a1 @@ p2 :> a2 @@ p3 :> a1
=============================================================================
