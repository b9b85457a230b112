------------------------------ MODULE MCReadDir ------------------------------
(* Three names, found by everything, by some and by none of the searches.    *)
EXTENDS ReadDir

Searches == {Names, {1, 3}, {}}
=============================================================================
