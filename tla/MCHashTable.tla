----------------------------- MODULE MCHashTable -----------------------------
(* Instances of HashTable for TLC. *)
EXTENDS HashTable, TLC

CONSTANTS k1, k2, k3, k4, k5, v1, v2

\* Homes 3, 3, 3, 4 of 5 and 10, 10, 9, 10 of 11 slots: every probing collides
\* and wraps around. k1 and k2 have the same hash.
MCKey == {k1, k2, k3, k4}
MCHash == k1 :> 43 @@ k2 :> 43 @@ k3 :> 53 @@ k4 :> 54
MCValue == {v1, v2}
MCCapacities == {5, 11}

\* One home slot for each key.
MCKeySpread == {k1, k2, k3, k4, k5}
MCHashSpread == k1 :> 1 @@ k2 :> 2 @@ k3 :> 3 @@ k4 :> 4 @@ k5 :> 5
MCValueOne == {v1}

=============================================================================
