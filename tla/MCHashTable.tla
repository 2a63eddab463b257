------------------------------ MODULE MCHashTable ------------------------------
(* An instance of HashTable for TLC.  The keys share bins in a table of      *)
(* four, and three of them still do in one of eight.                         *)
EXTENDS HashTable, TLC

CONSTANTS k1, k2, k3, k4, k5

Keys == {k1, k2, k3, k4, k5}
Hashes == k1 :> 1 @@ k2 :> 9 @@ k3 :> 17 @@ k4 :> 5 @@ k5 :> 6
===============================================================================
