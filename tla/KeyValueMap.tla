----------------------------- MODULE KeyValueMap -----------------------------
(***************************************************************************)
(* What hash.c promises to the server: a finite map from keys to values,   *)
(* and iterations that visit every element there is exactly once, during   *)
(* which the element just visited may be removed.                          *)
(***************************************************************************)
EXTENDS FiniteSets

CONSTANTS Key, Value

VARIABLES
  map,      \* the elements, a function on the keys present
  todo,     \* keys the running iteration still has to visit
  visiting  \* {k} when the iteration is at key k, {} between iterations

vars == <<map, todo, visiting>>

Idle == todo = {} /\ visiting = {}

Put(k, v) ==
  /\ Idle
  /\ map' = [l \in DOMAIN map \cup {k} |-> IF l = k THEN v ELSE map[l]]
  /\ UNCHANGED <<todo, visiting>>

Drop(k) == map' = [l \in DOMAIN map \ {k} |-> map[l]]

Remove(k) ==
  /\ Idle
  /\ Drop(k)
  /\ UNCHANGED <<todo, visiting>>

Start(k) ==
  /\ Idle
  /\ k \in DOMAIN map
  /\ todo' = DOMAIN map \ {k}
  /\ visiting' = {k}
  /\ UNCHANGED map

\* The element visited is either still there or was removed meanwhile.
Visit(k) ==
  /\ k \in todo
  /\ todo' = todo \ {k}
  /\ visiting' = {k}
  /\ UNCHANGED map

Finish ==
  /\ todo = {}
  /\ visiting' = {}
  /\ UNCHANGED <<map, todo>>

RemoveElem(k) ==
  /\ k \in visiting \cap DOMAIN map
  /\ Drop(k)
  /\ visiting' = visiting
  /\ UNCHANGED todo

Init ==
  /\ map = <<>>
  /\ todo = {}
  /\ visiting = {}

Next ==
  \/ \E k \in Key : \/ \E v \in Value : Put(k, v)
                    \/ Remove(k)
                    \/ Start(k)
                    \/ Visit(k)
                    \/ RemoveElem(k)
  \/ Finish

Spec == Init /\ [][Next]_vars

=============================================================================
