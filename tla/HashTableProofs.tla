-------------------------- MODULE HashTableProofs --------------------------
(***************************************************************************)
(* Theorems about HashTable, for any finite set of keys, any hash function *)
(* and any capacities.                                                     *)
(***************************************************************************)
EXTENDS HashTable, SetInduction, FiniteSetTheorems, TLAPS

\* unified_hash_t with c slots.
Tables(c) == [capacity : {c}, length : Nat,
              slots : [0 .. c - 1 -> Element \cup {FREE, DELETED}]]

StoredIn(t) == {t.slots[i] : i \in Occupied(t)}

Counted(t) == t.length = Cardinality(Occupied(t))

FindableIn(t) ==
  \A i \in Occupied(t) : Search(t, t.slots[i].key) = [found |-> TRUE, index |-> i]

\* The probing for k gets to slot i in o steps.
Path(t, k, i, o) ==
  /\ o \in 0 .. t.capacity
  /\ Probe(t, k, o) = i
  /\ \A p \in 0 .. o - 1 : /\ t.slots[Probe(t, k, p)] # FREE
                           /\ ~Holds(t, Probe(t, k, p), k)

-----------------------------------------------------------------------------
(* Slots *)

\* Least chooses the least one.
LEMMA LeastIs ==
  ASSUME NEW S, S \subseteq Nat, S # {}
  PROVE  Least(S) \in S /\ \A m \in S : Least(S) <= m
BY LeastExists DEF Least

\* What the fields of a table are.
LEMMA TableFields ==
  ASSUME NEW c \in Nat \ {0}, NEW t \in Tables(c)
  PROVE  /\ t.capacity = c /\ t.length \in Nat
         /\ t.slots \in [0 .. c - 1 -> Element \cup {FREE, DELETED}]
         /\ Slots(t) = 0 .. c - 1
         /\ IsFiniteSet(Occupied(t)) /\ Cardinality(Occupied(t)) \in Nat
         /\ Occupied(t) \subseteq Slots(t) /\ Cardinality(Occupied(t)) <= c
         /\ \A i \in Slots(t) : i \in Occupied(t) <=> t.slots[i] \in Element
         /\ \A i \in Occupied(t) : /\ t.slots[i] \in Element
                                   /\ t.slots[i].key \in Key /\ t.slots[i].value \in Value
<1>1. /\ t.capacity = c /\ t.length \in Nat
      /\ t.slots \in [0 .. c - 1 -> Element \cup {FREE, DELETED}]
  BY DEF Tables
<1>2. Slots(t) = 0 .. c - 1 /\ Occupied(t) \subseteq Slots(t)
  BY <1>1 DEF Slots, Occupied
<1>3. IsFiniteSet(0 .. c - 1) /\ Cardinality(0 .. c - 1) = c
  BY FS_Interval
<1>4. IsFiniteSet(Occupied(t)) /\ Cardinality(Occupied(t)) <= c
  BY <1>2, <1>3, FS_Subset
<1>5. FREE \notin Element /\ DELETED \notin Element
  BY HashTableAssumption DEF Element
<1>6. \A i \in Slots(t) : i \in Occupied(t) <=> t.slots[i] \in Element
  BY <1>1, <1>2, <1>5 DEF Occupied
<1>7. \A i \in Occupied(t) : /\ t.slots[i] \in Element
                             /\ t.slots[i].key \in Key /\ t.slots[i].value \in Value
  BY <1>2, <1>6 DEF Element
<1> QED
  BY <1>1, <1>2, <1>4, <1>6, <1>7, FS_CardinalityType

\* A probe stays in the slots.
LEMMA ProbeInSlots ==
  ASSUME NEW c \in Nat \ {0}, NEW t \in Tables(c), NEW k \in Key, NEW o \in Nat
  PROVE  Probe(t, k, o) \in Slots(t)
<1>1. t.capacity = c /\ Slots(t) = 0 .. c - 1
  BY TableFields
<1>2. Hash[k] + o \in Nat
  BY HashTableAssumption
<1>3. (Hash[k] + o) % c \in 0 .. c - 1
  BY <1>2
<1> QED
  BY <1>1, <1>3 DEF Probe

\* The probes for a key get to every slot.
LEMMA ProbesCover ==
  ASSUME NEW c \in Nat \ {0}, NEW t \in Tables(c), NEW k \in Key, NEW i \in Slots(t)
  PROVE  \E o \in 0 .. c : Probe(t, k, o) = i
<1>1. t.capacity = c /\ i \in 0 .. c - 1 /\ Hash[k] \in Nat
  BY TableFields, HashTableAssumption
<1>2. PICK o \in 0 .. c - 1 : (Hash[k] + o) % c = i
  BY <1>1, RingCovered
<1> QED
  BY <1>1, <1>2 DEF Probe

-----------------------------------------------------------------------------
(* Search *)

\* What a search finds is the key.
LEMMA SearchHolds ==
  ASSUME NEW t, NEW k, Search(t, k).found
  PROVE  Holds(t, Search(t, k).index, k)
BY DEF Search

\* Where a search ends.
LEMMA SearchEnd ==
  ASSUME NEW c \in Nat \ {0}, NEW t \in Tables(c), NEW k \in Key, Ends(t, k) # {}
  PROVE  LET o == Least(Ends(t, k)) IN
         /\ Path(t, k, Probe(t, k, o), o)
         /\ Holds(t, Probe(t, k, o), k) \/ t.slots[Probe(t, k, o)] = FREE
<1> DEFINE o == Least(Ends(t, k))
<1>1. t.capacity = c /\ Ends(t, k) \subseteq 0 .. c
  BY TableFields DEF Ends
<1>2. o \in Ends(t, k) /\ \A p \in Ends(t, k) : o <= p
  BY <1>1, LeastIs
<1> HIDE DEF o
<1>3. o \in 0 .. c
  BY <1>1, <1>2
<1>4. ASSUME NEW p \in 0 .. o - 1
      PROVE  t.slots[Probe(t, k, p)] # FREE /\ ~Holds(t, Probe(t, k, p), k)
  <2>1. p \in 0 .. c /\ ~(o <= p)
    BY <1>3
  <2>2. p \notin Ends(t, k)
    BY <1>2, <2>1
  <2> QED
    BY <1>1, <2>1, <2>2 DEF Ends
<1>5. Holds(t, Probe(t, k, o), k) \/ t.slots[Probe(t, k, o)] = FREE
  BY <1>2 DEF Ends
<1>6. Path(t, k, Probe(t, k, o), o)
  BY <1>1, <1>3, <1>4 DEF Path
<1> QED
  BY <1>5, <1>6 DEF o

\* An element is found when the way to it is neither interrupted nor leads to another
\* element with the key before.
LEMMA SearchFinds ==
  ASSUME NEW c \in Nat \ {0}, NEW t \in Tables(c), NEW k \in Key, NEW i, Holds(t, i, k)
  PROVE  Search(t, k) = [found |-> TRUE, index |-> i] <=> \E o \in 0 .. c : Path(t, k, i, o)
<1>1. t.capacity = c
  BY TableFields
<1>2. ASSUME NEW o \in 0 .. c, Path(t, k, i, o)
      PROVE  Search(t, k) = [found |-> TRUE, index |-> i]
  <2>1. o \in Ends(t, k)
    BY <1>1, <1>2 DEF Path, Ends
  <2> DEFINE l == Least(Ends(t, k))
  <2>2. l \in 0 .. c /\ l <= o /\ l \in Ends(t, k)
    <3>1. Ends(t, k) \subseteq Nat /\ Ends(t, k) \subseteq 0 .. c
      BY <1>1 DEF Ends
    <3> QED
      BY <2>1, <3>1, LeastIs
  <2> HIDE DEF l
  <2>3. l = o
    <3>1. Holds(t, Probe(t, k, l), k) \/ t.slots[Probe(t, k, l)] = FREE
      BY <2>2 DEF Ends
    <3>2. l \notin 0 .. o - 1
      BY <1>2, <3>1 DEF Path
    <3> QED
      BY <2>2, <3>2
  <2>4. Probe(t, k, l) = i /\ Ends(t, k) # {}
    BY <1>2, <2>1, <2>3 DEF Path
  <2> QED
    BY <2>4 DEF Search, l
<1>3. ASSUME Search(t, k) = [found |-> TRUE, index |-> i]
      PROVE  \E o \in 0 .. c : Path(t, k, i, o)
  <2>1. Ends(t, k) # {}
    BY <1>3 DEF Search
  <2> DEFINE l == Least(Ends(t, k))
  <2>2. Path(t, k, Probe(t, k, l), l)
    BY <2>1, SearchEnd
  <2>3. Probe(t, k, l) = i
    BY <1>3, <2>1 DEF Search
  <2>4. l \in 0 .. c
    BY <1>1, <2>2 DEF Path
  <2> HIDE DEF l
  <2> QED
    BY <2>2, <2>3, <2>4
<1> QED
  BY <1>2, <1>3

\* A key that is not found is not there.
LEMMA SearchMisses ==
  ASSUME NEW t, FindableIn(t), NEW k \in Key, ~Search(t, k).found
  PROVE  \A i \in Occupied(t) : t.slots[i].key # k
<1> SUFFICES ASSUME NEW i \in Occupied(t), t.slots[i].key = k PROVE FALSE
  OBVIOUS
<1>1. Search(t, k) = [found |-> TRUE, index |-> i]
  BY DEF FindableIn
<1> QED
  BY <1>1

\* Where a missing key is to be put: no way to another element is interrupted there,
\* and its own way leads there.
LEMMA SearchPlace ==
  ASSUME NEW c \in Nat \ {0}, NEW t \in Tables(c), NEW k \in Key,
         ~Search(t, k).found, Search(t, k).index # -1
  PROVE  LET i == Search(t, k).index IN
         /\ i \in Slots(t) \ Occupied(t)
         /\ \E o \in 0 .. c : /\ Path(t, k, i, o)
                              /\ \A p \in 0 .. o - 1 : Probe(t, k, p) # i
<1> DEFINE i == Search(t, k).index
           o == Least(Ends(t, k))
           deleted == {p \in 0 .. o : t.slots[Probe(t, k, p)] = DELETED}
<1>1. Ends(t, k) # {}
  BY DEF Search
<1>2. ~Holds(t, Probe(t, k, o), k)
  BY <1>1 DEF Search
<1>3. /\ Path(t, k, Probe(t, k, o), o)
      /\ t.slots[Probe(t, k, o)] = FREE
  BY <1>1, <1>2, SearchEnd
<1>4. i = IF deleted = {} THEN Probe(t, k, o) ELSE Probe(t, k, Least(deleted))
  BY <1>1, <1>2 DEF Search
<1>5. o \in 0 .. c /\ t.capacity = c
  BY <1>3, TableFields DEF Path
<1> HIDE DEF o, i
<1>6. CASE deleted = {}
  <2>1. i = Probe(t, k, o) /\ i \in Slots(t) \ Occupied(t)
    BY <1>3, <1>4, <1>5, <1>6, ProbeInSlots DEF Occupied
  <2>2. \A p \in 0 .. o - 1 : Probe(t, k, p) # i
    BY <1>3, <2>1 DEF Path
  <2>3. Path(t, k, i, o)
    BY <1>3, <2>1
  <2> QED
    BY <1>5, <2>1, <2>2, <2>3 DEF i
<1>7. CASE deleted # {}
  <2> DEFINE q == Least(deleted)
  <2>1. q \in deleted /\ \A p \in deleted : q <= p
    <3>1. deleted \subseteq Nat
      BY <1>5
    <3> HIDE DEF deleted
    <3> QED
      BY <1>7, <3>1, LeastIs
  <2>2. i = Probe(t, k, q)
    BY <1>4, <1>7
  <2> HIDE DEF q
  <2>3. q \in 0 .. o /\ q \in 0 .. c /\ t.slots[i] = DELETED
    BY <1>5, <2>1, <2>2
  <2>4. i \in Slots(t) \ Occupied(t)
    BY <2>2, <2>3, ProbeInSlots DEF Occupied
  <2>5. ASSUME NEW p \in 0 .. q - 1 PROVE Probe(t, k, p) # i
    <3>1. p \in 0 .. o /\ ~(q <= p)
      BY <1>5, <2>3
    <3> QED
      BY <2>1, <2>3, <3>1
  <2>6. Path(t, k, i, q)
    <3>1. \A p \in 0 .. q - 1 : p \in 0 .. o - 1
      BY <1>5, <2>3
    <3> QED
      BY <1>3, <1>5, <2>2, <2>3, <3>1 DEF Path
  <2> QED
    BY <2>3, <2>4, <2>5, <2>6 DEF i
<1> QED
  BY <1>6, <1>7

\* Elements are found by their keys, so no two have the same.
LEMMA KeysDistinct ==
  ASSUME NEW t, FindableIn(t), NEW i \in Occupied(t), NEW j \in Occupied(t),
         t.slots[i].key = t.slots[j].key
  PROVE  i = j
<1>1. [found |-> TRUE, index |-> i] = [found |-> TRUE, index |-> j]
  BY DEF FindableIn
<1> QED
  BY <1>1

\* There are not more elements than keys.
LEMMA LengthBounded ==
  ASSUME NEW c \in Nat \ {0}, NEW t \in Tables(c), FindableIn(t)
  PROVE  Cardinality(Occupied(t)) <= Cardinality(Key) /\ Cardinality(Key) \in Nat
<1> DEFINE f == [i \in Occupied(t) |-> t.slots[i].key]
<1>1. f \in [Occupied(t) -> Key]
  BY TableFields
<1>2. \A i, j \in Occupied(t) : f[i] = f[j] => i = j
  BY KeysDistinct
<1>3. f \in Injection(Occupied(t), Key)
  BY <1>1, <1>2 DEF Injection, IsInjective
<1>4. IsFiniteSet(Key)
  BY HashTableAssumption
<1> HIDE DEF f
<1> QED
  BY <1>3, <1>4, FS_Injection, FS_CardinalityType

-----------------------------------------------------------------------------
(* Insert *)

\* A free slot is enough for the search for a missing key.
LEMMA FreeSlotEnds ==
  ASSUME NEW c \in Nat \ {0}, NEW t \in Tables(c), NEW k \in Key,
         NEW i \in Slots(t), t.slots[i] = FREE
  PROVE  Search(t, k).index \in Slots(t)
<1>1. PICK o \in 0 .. c : Probe(t, k, o) = i
  BY ProbesCover
<1>2. Ends(t, k) # {}
  BY <1>1, TableFields DEF Ends
<1>3. CASE Search(t, k).found
  BY <1>3, SearchHolds, TableFields DEF Holds
<1>4. CASE ~Search(t, k).found
  <2> DEFINE l == Least(Ends(t, k))
             deleted == {p \in 0 .. l : t.slots[Probe(t, k, p)] = DELETED}
  <2>1. l \in Nat
    <3>1. Ends(t, k) \subseteq Nat
      BY TableFields DEF Ends
    <3> QED
      BY <1>2, <3>1, LeastIs
  <2>2. deleted # {} => Least(deleted) \in Nat
    <3>1. deleted \subseteq Nat
      BY <2>1
    <3> HIDE DEF deleted
    <3> QED
      BY <3>1, LeastIs
  <2>3. Search(t, k).index \in {Probe(t, k, l), Probe(t, k, Least(deleted))}
        /\ (deleted = {} => Search(t, k).index = Probe(t, k, l))
    BY <1>2 DEF Search
  <2> HIDE DEF l, deleted
  <2> QED
    BY <2>1, <2>2, <2>3, ProbeInSlots
<1> QED
  BY <1>3, <1>4

\* The table with other length and slots.
LEMMA TableChanged ==
  ASSUME NEW c \in Nat \ {0}, NEW t \in Tables(c), NEW n, NEW w
  PROVE  [[t EXCEPT !.length = n] EXCEPT !.slots = w] = [capacity |-> c, length |-> n, slots |-> w]
<1> DEFINE m == t.length
           y == t.slots
<1>1. t = [capacity |-> c, length |-> m, slots |-> y]
  BY DEF Tables
<1> HIDE DEF m, y
<1> DEFINE x == [t EXCEPT !.length = n]
<1>2. x = [capacity |-> c, length |-> n, slots |-> y]
  BY <1>1
<1> HIDE DEF x
<1>3. [x EXCEPT !.slots = w] = [capacity |-> c, length |-> n, slots |-> w]
  BY <1>2
<1> QED
  BY <1>3 DEF x

\* The table with an element put into it.
LEMMA InsertIs ==
  ASSUME NEW c \in Nat \ {0}, NEW t \in Tables(c), NEW k, NEW v
  PROVE  Insert(t, k, v) =
           [capacity |-> c,
            length   |-> IF Search(t, k).found THEN t.length ELSE t.length + 1,
            slots    |-> [j \in 0 .. c - 1 |-> IF j = Search(t, k).index
                                               THEN [key |-> k, value |-> v] ELSE t.slots[j]]]
<1> DEFINE s == Search(t, k)
           e == [key |-> k, value |-> v]
           u == Insert(t, k, v)
           n == IF s.found THEN t.length ELSE t.length + 1
           w == [j \in 0 .. c - 1 |-> IF j = s.index THEN e ELSE t.slots[j]]
<1> HIDE DEF e
<1>1. u = [[t EXCEPT !.length = n] EXCEPT !.slots = w]
  BY TableFields DEF Insert, e
<1> HIDE DEF u, n, w
<1>2. u = [capacity |-> c, length |-> n, slots |-> w]
  BY <1>1, TableChanged
<1> QED
  BY <1>2 DEF n, w, u, e

\* It has the slots of the table, whatever is found.
LEMMA InsertType ==
  ASSUME NEW c \in Nat \ {0}, NEW t \in Tables(c), NEW k \in Key, NEW v \in Value
  PROVE  Insert(t, k, v) \in Tables(c)
<1> DEFINE s == Search(t, k)
           e == [key |-> k, value |-> v]
           n == IF s.found THEN t.length ELSE t.length + 1
           w == [j \in 0 .. c - 1 |-> IF j = s.index THEN e ELSE t.slots[j]]
<1>1. Insert(t, k, v) = [capacity |-> c, length |-> n, slots |-> w]
  BY InsertIs
<1>2. e \in Element
  BY DEF Element
<1>3. t.length \in Nat /\ t.slots \in [0 .. c - 1 -> Element \cup {FREE, DELETED}]
  BY TableFields
<1> HIDE DEF s, e
<1>4. n \in Nat /\ w \in [0 .. c - 1 -> Element \cup {FREE, DELETED}]
  BY <1>2, <1>3
<1> HIDE DEF n, w
<1> QED
  BY <1>1, <1>4 DEF Tables

\* A value that is put under a key is found there, and everything else where it was.
LEMMA InsertKeeps ==
  ASSUME NEW c \in Nat \ {0}, NEW t \in Tables(c), FindableIn(t), Counted(t),
         NEW k \in Key, NEW v \in Value, Search(t, k).index # -1
  PROVE  LET u == Insert(t, k, v) IN
         /\ u \in Tables(c) /\ FindableIn(u) /\ Counted(u)
         /\ StoredIn(u) = {e \in StoredIn(t) : e.key # k} \cup {[key |-> k, value |-> v]}
         /\ u.length = IF Search(t, k).found THEN t.length ELSE t.length + 1
         /\ \A i \in Slots(t) : u.slots[i] = t.slots[i] \/ u.slots[i] \in Element
<1> DEFINE s == Search(t, k)
           i == s.index
           e == [key |-> k, value |-> v]
           u == Insert(t, k, v)
<1>1. /\ t.capacity = c /\ t.length \in Nat
      /\ t.slots \in [0 .. c - 1 -> Element \cup {FREE, DELETED}]
      /\ Slots(t) = 0 .. c - 1 /\ Occupied(t) \subseteq Slots(t)
      /\ t = [capacity |-> c, length |-> t.length, slots |-> t.slots]
  BY TableFields DEF Tables
<1>2. e \in Element /\ e.key = k /\ e.value = v
  BY DEF Element
<1> HIDE DEF e
<1>3. i \in Slots(t) /\ IF s.found THEN i \in Occupied(t) /\ t.slots[i].key = k
                                   ELSE i \notin Occupied(t)
  BY <1>1, SearchHolds, SearchPlace DEF Holds
<1>4. u = [capacity |-> c, length |-> IF s.found THEN t.length ELSE t.length + 1,
           slots |-> [j \in 0 .. c - 1 |-> IF j = i THEN e ELSE t.slots[j]]]
  BY InsertIs DEF s, e
<1> HIDE DEF u, s
<1>5. u \in Tables(c)
  BY <1>1, <1>2, <1>4 DEF Tables
<1>6. /\ u.capacity = c /\ Slots(u) = Slots(t) /\ u.slots[i] = e
      /\ \A j \in Slots(t) : j # i => u.slots[j] = t.slots[j]
      /\ u.length = IF s.found THEN t.length ELSE t.length + 1
  BY <1>1, <1>3, <1>4 DEF Slots
<1>7. Occupied(u) = Occupied(t) \cup {i}
  <2>1. e \notin {FREE, DELETED}
    BY <1>2, HashTableAssumption DEF Element
  <2> QED
    BY <1>3, <1>6, <2>1 DEF Occupied
<1>8. Counted(u)
  <2>1. IsFiniteSet(Occupied(t)) /\ Cardinality(Occupied(t)) \in Nat
    BY TableFields
  <2>2. Cardinality(Occupied(u)) = IF i \in Occupied(t) THEN Cardinality(Occupied(t))
                                                      ELSE Cardinality(Occupied(t)) + 1
    BY <1>7, <2>1, FS_AddElement
  <2> QED
    BY <1>3, <1>6, <2>1, <2>2 DEF Counted
<1>9. \A j \in Occupied(t) : j # i => t.slots[j].key # k
  <2>1. CASE s.found
    BY <1>3, <2>1, KeysDistinct
  <2>2. CASE ~s.found
    BY <2>2, SearchMisses DEF s
  <2> QED
    BY <2>1, <2>2
<1>10. StoredIn(u) = {d \in StoredIn(t) : d.key # k} \cup {e}
  BY <1>1, <1>2, <1>3, <1>6, <1>7, <1>9 DEF StoredIn
<1>11. \A l, o : Probe(u, l, o) = Probe(t, l, o)
  BY <1>1, <1>6 DEF Probe
<1>12. ASSUME NEW j \in Occupied(u)
       PROVE  Search(u, u.slots[j].key) = [found |-> TRUE, index |-> j]
  <2>1. CASE j # i
    <3> DEFINE l == t.slots[j].key
    <3>1. j \in Occupied(t) /\ l \in Key /\ l # k /\ u.slots[j] = t.slots[j]
      BY <1>1, <1>6, <1>7, <1>9, <2>1, TableFields
    <3> HIDE DEF l
    <3>2. Holds(t, j, l) /\ Holds(u, j, l)
      BY <1>7, <3>1 DEF Holds, l
    <3>3. PICK o \in 0 .. c : Path(t, l, j, o)
      <4>1. Search(t, l) = [found |-> TRUE, index |-> j]
        BY <3>1 DEF FindableIn, l
      <4> QED
        BY <3>1, <3>2, <4>1, SearchFinds
    <3>4. ASSUME NEW p \in 0 .. o - 1
          PROVE  u.slots[Probe(u, l, p)] # FREE /\ ~Holds(u, Probe(u, l, p), l)
      <4> DEFINE q == Probe(t, l, p)
      <4>1. q \in Slots(t) /\ t.slots[q] # FREE /\ ~Holds(t, q, l) /\ Probe(u, l, p) = q
        BY <1>11, <3>1, <3>3, ProbeInSlots DEF Path
      <4> HIDE DEF q
      <4>2. CASE q = i
        BY <1>2, <1>6, <3>1, <4>1, <4>2, HashTableAssumption DEF Holds, Element
      <4>3. CASE q # i
        BY <1>6, <1>7, <4>1, <4>3 DEF Holds
      <4> QED
        BY <4>2, <4>3
    <3>5. Path(u, l, j, o)
      BY <1>1, <1>6, <1>11, <3>3, <3>4 DEF Path
    <3> QED
      BY <1>5, <3>1, <3>2, <3>5, SearchFinds DEF l
  <2>2. CASE j = i
    <3>1. Holds(u, i, k) /\ u.slots[j].key = k
      BY <1>2, <1>6, <1>7, <2>2 DEF Holds
    <3>2. PICK o \in 0 .. c : Path(t, k, i, o) /\ \A p \in 0 .. o - 1 : Probe(t, k, p) # i
      <4>1. CASE s.found
        <5>1. Holds(t, i, k) /\ s = [found |-> TRUE, index |-> i]
          BY <1>3, <4>1 DEF Holds, FindableIn, s
        <5>2. PICK o \in 0 .. c : Path(t, k, i, o)
          BY <5>1, SearchFinds DEF s
        <5>3. \A p \in 0 .. o - 1 : Probe(t, k, p) # i
          BY <5>1, <5>2 DEF Path
        <5> QED
          BY <5>2, <5>3
      <4>2. CASE ~s.found
        BY <4>2, SearchPlace DEF s
      <4> QED
        BY <4>1, <4>2
    <3>3. ASSUME NEW p \in 0 .. o - 1
          PROVE  u.slots[Probe(u, k, p)] # FREE /\ ~Holds(u, Probe(u, k, p), k)
      <4> DEFINE q == Probe(t, k, p)
      <4>1. /\ q \in Slots(t) /\ t.slots[q] # FREE /\ ~Holds(t, q, k)
            /\ Probe(u, k, p) = q /\ q # i
        BY <1>11, <3>2, ProbeInSlots DEF Path
      <4> HIDE DEF q
      <4> QED
        BY <1>6, <1>7, <4>1 DEF Holds
    <3>4. Path(u, k, i, o)
      BY <1>1, <1>6, <1>11, <3>2, <3>3 DEF Path
    <3> QED
      BY <1>5, <2>2, <3>1, <3>4, SearchFinds
  <2> QED
    BY <2>1, <2>2
<1>13. FindableIn(u)
  BY <1>12 DEF FindableIn
<1>14. \A j \in Slots(t) : u.slots[j] = t.slots[j] \/ u.slots[j] \in Element
  BY <1>2, <1>6
<1> QED
  BY <1>5, <1>6, <1>8, <1>10, <1>13, <1>14 DEF u, s, e
-----------------------------------------------------------------------------
(* Removal *)

\* What is removed is gone, and everything else is found where it was: the mark of the
\* removed element keeps the ways that lead over it.
LEMMA DeletedKeeps ==
  ASSUME NEW c \in Nat \ {0}, NEW t \in Tables(c), FindableIn(t), Counted(t),
         NEW i \in Occupied(t)
  PROVE  LET u == Deleted(t, i) IN
         /\ u \in Tables(c) /\ FindableIn(u) /\ Counted(u)
         /\ StoredIn(u) = StoredIn(t) \ {t.slots[i]}
         /\ Occupied(u) = Occupied(t) \ {i}
         /\ u.slots[i] = DELETED
         /\ \A j \in Slots(t) : j # i => u.slots[j] = t.slots[j]
<1> DEFINE u == Deleted(t, i)
<1>1. /\ t.capacity = c /\ t.length \in Nat
      /\ t.slots \in [0 .. c - 1 -> Element \cup {FREE, DELETED}]
      /\ Slots(t) = 0 .. c - 1 /\ Occupied(t) \subseteq Slots(t)
      /\ IsFiniteSet(Occupied(t)) /\ Cardinality(Occupied(t)) \in Nat
  BY TableFields
<1>2. u = [capacity |-> c, length |-> t.length - 1, slots |-> [t.slots EXCEPT ![i] = DELETED]]
  <2> DEFINE m == t.length
             y == t.slots
             w == [y EXCEPT ![i] = DELETED]
             x == [t EXCEPT !.slots = w]
  <2>1. t = [capacity |-> c, length |-> m, slots |-> y]
    BY DEF Tables
  <2>2. u = [x EXCEPT !.length = @ - 1]
    BY DEF Deleted
  <2> HIDE DEF u, m, y, w
  <2>3. x = [capacity |-> c, length |-> m, slots |-> w]
    BY <2>1
  <2> HIDE DEF x
  <2>4. u = [capacity |-> c, length |-> m - 1, slots |-> w]
    BY <2>2, <2>3
  <2> QED
    BY <2>4 DEF m, y, w
<1> HIDE DEF u
<1>3. /\ u.capacity = c /\ Slots(u) = Slots(t) /\ u.slots[i] = DELETED
      /\ u.slots \in [0 .. c - 1 -> Element \cup {FREE, DELETED}]
      /\ \A j \in Slots(t) : j # i => u.slots[j] = t.slots[j]
      /\ u.length = t.length - 1
  BY <1>1, <1>2 DEF Slots
<1>4. Occupied(u) = Occupied(t) \ {i}
  BY <1>1, <1>3 DEF Occupied
<1>5. Cardinality(Occupied(u)) = Cardinality(Occupied(t)) - 1 /\ Cardinality(Occupied(u)) \in Nat
  <2>1. IsFiniteSet(Occupied(u)) /\ Cardinality(Occupied(u)) = Cardinality(Occupied(t)) - 1
    <3> DEFINE S == Occupied(t)
    <3>1. IsFiniteSet(S) /\ i \in S
      BY <1>1
    <3> HIDE DEF S
    <3>2. IsFiniteSet(S \ {i}) /\ Cardinality(S \ {i}) = Cardinality(S) - 1
      BY <3>1, FS_RemoveElement
    <3> QED
      BY <1>4, <3>2 DEF S
  <2> QED
    BY <2>1, FS_CardinalityType
<1>6. Counted(u) /\ u.length \in Nat
  BY <1>3, <1>5 DEF Counted
<1>7. u \in Tables(c)
  <2> DEFINE m == u.length
             y == u.slots
  <2>1. u = [capacity |-> c, length |-> m, slots |-> y]
    BY <1>2
  <2> HIDE DEF m, y
  <2>2. m \in Nat /\ y \in [0 .. c - 1 -> Element \cup {FREE, DELETED}]
    BY <1>3, <1>6 DEF m, y
  <2> QED
    BY <2>1, <2>2 DEF Tables
<1>8. StoredIn(u) = StoredIn(t) \ {t.slots[i]}
  <2>1. \A j \in Occupied(t) : j # i => t.slots[j] # t.slots[i]
    BY KeysDistinct
  <2> QED
    BY <1>1, <1>3, <1>4, <2>1 DEF StoredIn
<1>9. \A l, o : Probe(u, l, o) = Probe(t, l, o)
  BY <1>1, <1>3 DEF Probe
<1>10. ASSUME NEW j \in Occupied(u)
       PROVE  Search(u, u.slots[j].key) = [found |-> TRUE, index |-> j]
  <2> DEFINE l == t.slots[j].key
  <2>1. j \in Occupied(t) /\ j \in Slots(t) /\ l \in Key /\ u.slots[j] = t.slots[j]
    BY <1>1, <1>3, <1>4, TableFields
  <2> HIDE DEF l
  <2>2. Holds(t, j, l) /\ Holds(u, j, l)
    BY <2>1 DEF Holds, l
  <2>3. PICK o \in 0 .. c : Path(t, l, j, o)
    <3>1. Search(t, l) = [found |-> TRUE, index |-> j]
      BY <2>1 DEF FindableIn, l
    <3> QED
      BY <2>1, <2>2, <3>1, SearchFinds
  <2>4. ASSUME NEW p \in 0 .. o - 1
        PROVE  u.slots[Probe(u, l, p)] # FREE /\ ~Holds(u, Probe(u, l, p), l)
    <3> DEFINE q == Probe(t, l, p)
    <3>1. q \in Slots(t) /\ t.slots[q] # FREE /\ ~Holds(t, q, l) /\ Probe(u, l, p) = q
      BY <1>9, <2>1, <2>3, ProbeInSlots DEF Path
    <3> HIDE DEF q
    <3>2. CASE q = i
      BY <1>3, <1>4, <3>1, <3>2, HashTableAssumption DEF Holds
    <3>3. CASE q # i
      BY <1>3, <1>4, <3>1, <3>3 DEF Holds
    <3> QED
      BY <3>2, <3>3
  <2>5. Path(u, l, j, o)
    BY <1>1, <1>3, <1>9, <2>3, <2>4 DEF Path
  <2> QED
    BY <1>7, <2>1, <2>2, <2>5, SearchFinds DEF l
<1>11. FindableIn(u)
  BY <1>10 DEF FindableIn
<1> QED
  BY <1>3, <1>4, <1>6, <1>7, <1>8, <1>11 DEF u

-----------------------------------------------------------------------------
(* Resize *)

\* The new array of slots.
LEMMA EmptyIs ==
  ASSUME NEW c \in Nat \ {0}
  PROVE  /\ Empty(c) \in Tables(c) /\ Empty(c).length = 0 /\ Occupied(Empty(c)) = {}
         /\ FindableIn(Empty(c)) /\ Counted(Empty(c)) /\ StoredIn(Empty(c)) = {}
         /\ \A i \in 0 .. c - 1 : Empty(c).slots[i] = FREE
<1>1. Empty(c) \in Tables(c) /\ Empty(c).length = 0
  BY DEF Empty, Tables
<1>2. \A i \in 0 .. c - 1 : Empty(c).slots[i] = FREE
  BY DEF Empty
<1>3. Occupied(Empty(c)) = {}
  BY DEF Occupied, Empty, Slots
<1>4. Counted(Empty(c))
  BY <1>1, <1>3, FS_EmptySet DEF Counted
<1> QED
  BY <1>1, <1>2, <1>3, <1>4 DEF FindableIn, StoredIn

\* The tables that resizing goes through, slot by slot.
Copies(t, c, copied) ==
  /\ copied[0] = Empty(c)
  /\ \A n \in 1 .. t.capacity :
       copied[n] = IF n - 1 \in Occupied(t)
                   THEN Insert(copied[n - 1], t.slots[n - 1].key, t.slots[n - 1].value)
                   ELSE copied[n - 1]

\* The recursion in Resize has a solution.
LEMMA ResizeCopies ==
  ASSUME NEW b \in Nat \ {0}, NEW t \in Tables(b), NEW c \in Nat \ {0}
  PROVE  \E copied : /\ Copies(t, c, copied)
                     /\ Resize(t, c) = IF c < t.length THEN t ELSE copied[b]
<1> DEFINE V == Tables(c)
           Next1(n, u) == IF n - 1 \in Occupied(t)
                          THEN Insert(u, t.slots[n - 1].key, t.slots[n - 1].value)
                          ELSE u
           Body(f, n) == IF n = 0 THEN Empty(c) ELSE Next1(n, f[n - 1])
           step == [x \in (1 .. b) \X V |-> Next1(x[1], x[2])]
<1>1. t.capacity = b
  BY TableFields
<1>2. ASSUME NEW n \in 1 .. b, NEW u \in V PROVE Next1(n, u) \in V
  <2>1. CASE n - 1 \in Occupied(t)
    <3>1. t.slots[n - 1].key \in Key /\ t.slots[n - 1].value \in Value
      BY <2>1, TableFields
    <3> QED
      BY <2>1, <3>1, InsertType
  <2> QED
    BY <2>1
<1>3. step \in [(1 .. b) \X V -> V]
  <2> HIDE DEF Next1, V
  <2> QED
    BY <1>2
<1>4. Empty(c) \in V
  BY EmptyIs
<1> HIDE DEF V, Next1
<1>5. PICK f \in [0 .. b -> V] : Recursive(f, b, Empty(c), step)
  <2> DEFINE base == Empty(c)
  <2>1. b \in Nat /\ base \in V /\ step \in [(1 .. b) \X V -> V]
    BY <1>3, <1>4
  <2> HIDE DEF step, base
  <2>2. \E f \in [0 .. b -> V] : Recursive(f, b, base, step)
    BY <2>1, Recursion, Zenon
  <2> QED
    BY <2>2 DEF base
<1>6. \A n \in 0 .. b : f[n] = Body(f, n)
  <2> SUFFICES ASSUME NEW n \in 0 .. b, n # 0 PROVE f[n] = Next1(n, f[n - 1])
    BY <1>5 DEF Recursive
  <2>1. n \in 1 .. b /\ f[n - 1] \in V
    OBVIOUS
  <2>2. step[<<n, f[n - 1]>>] = Next1(n, f[n - 1])
    BY <2>1
  <2>3. f[n] = step[<<n, f[n - 1]>>]
    BY <1>5, <2>1 DEF Recursive
  <2> QED
    BY <2>2, <2>3
<1>7. \E g : g = [n \in 0 .. b |-> Body(g, n)]
  BY <1>5, <1>6
<1> DEFINE copied == CHOOSE g : g = [n \in 0 .. b |-> Body(g, n)]
<1>8. copied = [n \in 0 .. b |-> Body(copied, n)]
  BY <1>7
<1>9. Resize(t, c) = IF c < t.length THEN t ELSE copied[b]
  BY <1>1 DEF Resize, Next1
<1> HIDE DEF copied
<1>10. copied[0] = Empty(c) /\ \A n \in 1 .. b : copied[n] = Next1(n, copied[n - 1])
  BY <1>8
<1> QED
  BY <1>1, <1>9, <1>10 DEF Copies, Next1

\* While it is not full and nothing was removed from it, a slot is free.
LEMMA FreeSlotLeft ==
  ASSUME NEW c \in Nat \ {0}, NEW t \in Tables(c), Counted(t), t.length < c,
         \A i \in 0 .. c - 1 : t.slots[i] # DELETED
  PROVE  \E i \in Slots(t) : t.slots[i] = FREE
<1>1. Slots(t) = 0 .. c - 1 /\ Occupied(t) \subseteq Slots(t)
  BY TableFields
<1>2. Cardinality(Slots(t)) = c
  <2>1. c = 0 => FALSE
    OBVIOUS
  <2>2. 0 \in Int /\ c - 1 \in Int /\ c - 1 - 0 + 1 = c
    OBVIOUS
  <2> QED
    BY <1>1, <2>2, FS_Interval
<1>3. Occupied(t) # Slots(t)
  BY <1>2, TableFields DEF Counted
<1>4. PICK i \in Slots(t) : i \notin Occupied(t)
  BY <1>1, <1>3
<1>5. t.slots[i] \in {FREE, DELETED}
  BY <1>4 DEF Occupied
<1> QED
  BY <1>1, <1>4, <1>5

\* A copied element goes to a slot of its own.
LEMMA CopyElement ==
  ASSUME NEW c \in Nat \ {0}, NEW t \in Tables(c), FindableIn(t), Counted(t), t.length < c,
         \A i \in 0 .. c - 1 : t.slots[i] # DELETED,
         NEW e \in Element, \A d \in StoredIn(t) : d.key # e.key
  PROVE  LET u == Insert(t, e.key, e.value) IN
         /\ u \in Tables(c) /\ FindableIn(u) /\ Counted(u)
         /\ StoredIn(u) = StoredIn(t) \cup {e}
         /\ u.length = t.length + 1
         /\ \A i \in 0 .. c - 1 : u.slots[i] # DELETED
<1> DEFINE k == e.key
           v == e.value
           u == Insert(t, k, v)
<1>1. k \in Key /\ v \in Value /\ e = [key |-> k, value |-> v]
  BY DEF Element
<1>2. Slots(t) = 0 .. c - 1
  BY TableFields
<1> HIDE DEF k, v
<1>3. Search(t, k).index \in Slots(t)
  <2>1. \E i \in Slots(t) : t.slots[i] = FREE
    BY FreeSlotLeft
  <2> QED
    BY <1>1, <2>1, FreeSlotEnds
<1>4. ~Search(t, k).found
  <2> SUFFICES ASSUME Search(t, k).found PROVE FALSE
    OBVIOUS
  <2>1. Holds(t, Search(t, k).index, k)
    BY SearchHolds
  <2> QED
    BY <2>1 DEF Holds, StoredIn, k
<1>5. Search(t, k).index # -1
  BY <1>2, <1>3
<1>6. /\ u \in Tables(c) /\ FindableIn(u) /\ Counted(u)
      /\ StoredIn(u) = {d \in StoredIn(t) : d.key # k} \cup {[key |-> k, value |-> v]}
      /\ u.length = IF Search(t, k).found THEN t.length ELSE t.length + 1
      /\ \A i \in Slots(t) : u.slots[i] = t.slots[i] \/ u.slots[i] \in Element
  BY <1>1, <1>5, InsertKeeps
<1> HIDE DEF u
<1>7. StoredIn(u) = StoredIn(t) \cup {e}
  BY <1>1, <1>6 DEF k
<1>8. \A i \in 0 .. c - 1 : u.slots[i] # DELETED
  BY <1>2, <1>6, HashTableAssumption DEF Element
<1> QED
  BY <1>4, <1>6, <1>7, <1>8 DEF u, k, v

\* Resizing leaves the elements in the table, and each is found.
LEMMA ResizeKeeps ==
  ASSUME NEW b \in Nat \ {0}, NEW t \in Tables(b), FindableIn(t), Counted(t),
         NEW c \in Nat \ {0}, c >= t.length
  PROVE  LET u == Resize(t, c) IN
         /\ u \in Tables(c) /\ FindableIn(u) /\ Counted(u)
         /\ StoredIn(u) = StoredIn(t) /\ u.length = t.length
<1>1. PICK copied : /\ Copies(t, c, copied)
                    /\ Resize(t, c) = IF c < t.length THEN t ELSE copied[b]
  BY ResizeCopies
<1>2. /\ t.capacity = b /\ Occupied(t) \subseteq 0 .. b - 1 /\ IsFiniteSet(Occupied(t))
      /\ t.length = Cardinality(Occupied(t)) /\ t.length \in Nat
      /\ \A i \in Occupied(t) : t.slots[i] \in Element
  BY TableFields DEF Counted
<1> DEFINE Before(n) == {j \in Occupied(t) : j < n}
           Good(n) == LET u == copied[n] IN
                      /\ u \in Tables(c) /\ FindableIn(u) /\ Counted(u)
                      /\ StoredIn(u) = {t.slots[j] : j \in Before(n)}
                      /\ u.length = Cardinality(Before(n))
                      /\ \A i \in 0 .. c - 1 : u.slots[i] # DELETED
           Upto == {n \in Nat : n <= b => Good(n)}
<1>3. 0 \in Upto
  <2>1. Before(0) = {} /\ Cardinality({}) = 0
    BY <1>2, FS_EmptySet
  <2>2. copied[0] = Empty(c)
    BY <1>1 DEF Copies
  <2>3. \A i \in 0 .. c - 1 : Empty(c).slots[i] # DELETED
    BY EmptyIs, HashTableAssumption
  <2>4. Good(0)
    BY <2>1, <2>2, <2>3, EmptyIs
  <2> QED
    BY <2>4
<1>4. ASSUME NEW n \in Nat, n \in Upto PROVE n + 1 \in Upto
  <2> SUFFICES ASSUME n + 1 <= b PROVE Good(n + 1)
    OBVIOUS
  <2> DEFINE u == copied[n]
  <2>1. Good(n)
    BY <1>4
  <2>2. copied[n + 1] = IF n \in Occupied(t) THEN Insert(u, t.slots[n].key, t.slots[n].value) ELSE u
    <3>1. n + 1 \in 1 .. t.capacity /\ (n + 1) - 1 = n
      BY <1>2
    <3> QED
      BY <1>1, <3>1 DEF Copies
  <2>3. CASE n \notin Occupied(t)
    <3>1. Before(n + 1) = Before(n)
      BY <1>2, <2>3
    <3> HIDE DEF Before
    <3> QED
      BY <2>1, <2>2, <2>3, <3>1
  <2>4. CASE n \in Occupied(t)
    <3> DEFINE e == t.slots[n]
    <3>1. Before(n + 1) = Before(n) \cup {n} /\ n \notin Before(n)
      BY <1>2, <2>4
    <3>2. IsFiniteSet(Before(n)) /\ IsFiniteSet(Before(n + 1))
      <4>1. Before(n) \subseteq Occupied(t) /\ Before(n + 1) \subseteq Occupied(t)
        OBVIOUS
      <4> QED
        BY <1>2, <4>1, FS_Subset
    <3>3. Cardinality(Before(n + 1)) = Cardinality(Before(n)) + 1 /\ Cardinality(Before(n)) \in Nat
      <4> DEFINE S == Before(n)
      <4> HIDE DEF S
      <4>1. IsFiniteSet(S) /\ n \notin S
        BY <3>1, <3>2 DEF S
      <4>2. Cardinality(S \cup {n}) = Cardinality(S) + 1 /\ Cardinality(S) \in Nat
        BY <4>1, FS_AddElement, FS_CardinalityType
      <4> QED
        BY <3>1, <4>2 DEF S
    <3>4. Cardinality(Before(n + 1)) <= Cardinality(Occupied(t))
      <4> DEFINE S == Before(n + 1)
                 T == Occupied(t)
      <4>1. S \subseteq T /\ IsFiniteSet(T)
        BY <1>2
      <4> HIDE DEF S, T
      <4>2. Cardinality(S) <= Cardinality(T)
        BY <4>1, FS_Subset
      <4> QED
        BY <4>2 DEF S, T
    <3>5. e \in Element
      BY <1>2, <2>4
    <3>6. \A d \in StoredIn(u) : d.key # e.key
      <4> SUFFICES ASSUME NEW j \in Before(n), t.slots[j].key = e.key PROVE FALSE
        BY <2>1
      <4>1. j \in Occupied(t) /\ j # n
        BY <3>1
      <4> QED
        BY <2>4, <4>1, KeysDistinct
    <3>7. u \in Tables(c) /\ FindableIn(u) /\ Counted(u) /\ u.length < c
          /\ \A i \in 0 .. c - 1 : u.slots[i] # DELETED
      <4>1. u.length = Cardinality(Before(n))
        BY <2>1
      <4> HIDE DEF Before
      <4>2. u.length < c
        BY <1>2, <3>3, <3>4, <4>1
      <4> QED
        BY <2>1, <4>2
    <3>8. {t.slots[j] : j \in Before(n + 1)} = {t.slots[j] : j \in Before(n)} \cup {e}
      <4> HIDE DEF Before
      <4> QED
        BY <3>1
    <3> DEFINE w == copied[n + 1]
    <3>9. w = Insert(u, e.key, e.value)
      BY <2>2, <2>4
    <3> HIDE DEF u, e, w
    <3>10. /\ w \in Tables(c) /\ FindableIn(w) /\ Counted(w)
           /\ StoredIn(w) = StoredIn(u) \cup {e} /\ w.length = u.length + 1
           /\ \A i \in 0 .. c - 1 : w.slots[i] # DELETED
      BY <3>5, <3>6, <3>7, <3>9, CopyElement
    <3>11. StoredIn(u) = {t.slots[j] : j \in Before(n)} /\ u.length = Cardinality(Before(n))
      BY <2>1 DEF u
    <3> HIDE DEF Before
    <3> QED
      BY <3>3, <3>8, <3>10, <3>11 DEF w
  <2> QED
    BY <2>3, <2>4
<1>5. Nat \subseteq Upto
  <2> HIDE DEF Upto
  <2> QED
    BY <1>3, <1>4, SetInduction
<1>6. Good(b)
  BY <1>5
<1>7. Before(b) = Occupied(t)
  BY <1>2
<1>8. Resize(t, c) = copied[b]
  BY <1>1, <1>2
<1>9. {t.slots[j] : j \in Before(b)} = StoredIn(t)
  BY <1>7 DEF StoredIn
<1>10. Cardinality(Before(b)) = t.length
  BY <1>2, <1>7
<1> HIDE DEF Before
<1> QED
  BY <1>6, <1>8, <1>9, <1>10

-----------------------------------------------------------------------------
(* The capacity *)

\* The table of a server that never wrote outside of its slots.
Sound(t) ==
  /\ t.capacity \in Capacities
  /\ t \in Tables(t.capacity)
  /\ FindableIn(t)
  /\ Counted(t)

\* A sound table counts its elements, of which there are not more than slots.
LEMMA SoundLength ==
  ASSUME NEW t, Sound(t)
  PROVE  /\ t.capacity \in Nat \ {0} /\ t.length \in 0 .. t.capacity
         /\ t.length <= Cardinality(Key) /\ Cardinality(Key) \in Nat
<1>1. t.capacity \in Nat \ {0}
  BY HashTableAssumption DEF Sound
<1> DEFINE c == t.capacity
<1>2. c \in Nat \ {0} /\ t \in Tables(c) /\ FindableIn(t) /\ Counted(t)
  BY <1>1 DEF Sound
<1> HIDE DEF c
<1>3. Cardinality(Occupied(t)) \in Nat /\ Cardinality(Occupied(t)) <= c
  BY <1>2, TableFields
<1>4. Cardinality(Occupied(t)) <= Cardinality(Key) /\ Cardinality(Key) \in Nat
  BY <1>2, LengthBounded
<1> QED
  BY <1>1, <1>2, <1>3, <1>4 DEF Counted, c

\* The capacity that is snapped to is large enough.
LEMMA SnapIs ==
  ASSUME NEW d \in Nat, NEW b \in Capacities, b >= d
  PROVE  Snap(d) \in Capacities /\ Snap(d) >= d /\ Snap(d) \in Nat \ {0}
<1> DEFINE S == {c \in Capacities : c >= d}
<1>1. S \subseteq Nat /\ S # {} /\ Capacities \subseteq Nat \ {0}
  BY HashTableAssumption
<1>2. \A c \in S : c \in Capacities /\ c >= d
  OBVIOUS
<1>3. Snap(d) = Least(S)
  BY DEF Snap
<1> HIDE DEF S
<1>4. Snap(d) \in S
  BY <1>1, <1>3, LeastIs
<1> QED
  BY <1>1, <1>2, <1>4

\* Growing leaves the elements and makes room for one more.
LEMMA GrownKeeps ==
  ASSUME NEW t, Sound(t)
  PROVE  /\ Sound(Grown(t)) /\ StoredIn(Grown(t)) = StoredIn(t)
         /\ Grown(t).length + 1 <= Grown(t).capacity
<1> DEFINE b == t.capacity
           c == Snap(2 * b)
           u == Grown(t)
<1>1. /\ b \in Nat \ {0} /\ b \in Capacities /\ t.length \in 0 .. b
      /\ t.length <= Cardinality(Key) /\ Cardinality(Key) \in Nat
  BY SoundLength DEF Sound
<1>2. t \in Tables(b) /\ FindableIn(t) /\ Counted(t)
  BY DEF Sound
<1>3. CASE 4 * (t.length + 1) > 3 * b
  <2>1. 4 * (Cardinality(Key) + 1) > 3 * b
    BY <1>1, <1>3
  <2>2. PICK d \in Capacities : d >= 2 * b
    BY <1>1, <2>1, CapacitiesAssumption
  <2>3. c \in Capacities /\ c >= 2 * b /\ c \in Nat \ {0}
    <3>1. 2 * b \in Nat
      BY <1>1
    <3> QED
      BY <2>2, <3>1, SnapIs
  <2>4. u = Resize(t, c)
    BY <1>3 DEF Grown
  <2> HIDE DEF u, c, b
  <2>5. c >= t.length /\ t.length + 1 <= c
    BY <1>1, <2>3
  <2>6. u \in Tables(c) /\ FindableIn(u) /\ Counted(u)
        /\ StoredIn(u) = StoredIn(t) /\ u.length = t.length
    BY <1>1, <1>2, <2>3, <2>4, <2>5, ResizeKeeps
  <2>7. u.capacity = c
    BY <2>6 DEF Tables
  <2> QED
    BY <2>3, <2>5, <2>6, <2>7 DEF Sound, u
<1>4. CASE ~(4 * (t.length + 1) > 3 * b)
  <2>1. u = t
    BY <1>4 DEF Grown
  <2>2. t.length + 1 <= b
    <3> HIDE DEF b
    <3> QED
      BY <1>1, <1>4
  <2> QED
    BY <2>1, <2>2
<1> QED
  BY <1>3, <1>4

\* Shrinking leaves the elements.
LEMMA ShrunkKeeps ==
  ASSUME NEW t, Sound(t)
  PROVE  Sound(Shrunk(t)) /\ StoredIn(Shrunk(t)) = StoredIn(t)
<1> DEFINE b == t.capacity
           d == b \div 2
           c == Snap(d)
           u == Shrunk(t)
<1>1. b \in Nat \ {0} /\ b \in Capacities /\ t.length \in 0 .. b
  BY SoundLength DEF Sound
<1>2. t \in Tables(b) /\ FindableIn(t) /\ Counted(t)
  BY DEF Sound
<1>3. CASE 5 * t.length < b /\ c >= t.length
  <2>1. d \in Nat /\ b >= d
    <3> HIDE DEF b
    <3> QED
      BY <1>1
  <2>2. u = Resize(t, c)
    BY <1>3 DEF Shrunk
  <2> HIDE DEF d
  <2>3. c \in Capacities /\ c \in Nat \ {0}
    BY <1>1, <2>1, SnapIs
  <2> HIDE DEF u, c, b
  <2>4. u \in Tables(c) /\ FindableIn(u) /\ Counted(u) /\ StoredIn(u) = StoredIn(t)
    BY <1>1, <1>2, <1>3, <2>2, <2>3, ResizeKeeps
  <2>5. u.capacity = c
    BY <2>4 DEF Tables
  <2> QED
    BY <2>3, <2>4, <2>5 DEF Sound, u
<1>4. CASE ~(5 * t.length < b /\ c >= t.length)
  <2>1. d \in Nat /\ b >= d
    <3> HIDE DEF b
    <3> QED
      BY <1>1
  <2>2. c \in Nat
    <3> HIDE DEF d
    <3> QED
      BY <1>1, <2>1, SnapIs
  <2>3. u = t
    <3>1. u = t \/ (u = Resize(t, c) /\ c < t.length)
      <4> HIDE DEF c
      <4> QED
        BY <1>1, <1>4, <2>2 DEF Shrunk, c
    <3> QED
      BY <3>1 DEF Resize
  <2> QED
    BY <2>3
<1> QED
  BY <1>3, <1>4

-----------------------------------------------------------------------------
(* The operations *)

\* Searching does not depend on the length.
LEMMA SearchSame ==
  ASSUME NEW t, NEW u, u.capacity = t.capacity, u.slots = t.slots
  PROVE  /\ Slots(u) = Slots(t) /\ Occupied(u) = Occupied(t) /\ StoredIn(u) = StoredIn(t)
         /\ \A k : Search(u, k) = Search(t, k)
         /\ FindableIn(t) => FindableIn(u)
<1>1. Slots(u) = Slots(t)
  BY DEF Slots
<1>2. Occupied(u) = Occupied(t)
  BY <1>1 DEF Occupied
<1>3. StoredIn(u) = StoredIn(t)
  BY <1>2 DEF StoredIn
<1>4. \A k, o : Probe(u, k, o) = Probe(t, k, o)
  BY DEF Probe
<1>5. \A i, k : Holds(u, i, k) <=> Holds(t, i, k)
  BY <1>2 DEF Holds
<1>6. \A k : Ends(u, k) = Ends(t, k)
  BY <1>4, <1>5 DEF Ends
<1>7. ASSUME NEW k PROVE Search(u, k) = Search(t, k)
  <2> DEFINE E == Ends(t, k)
             o == Least(E)
             del(x) == {p \in 0 .. o : x.slots[Probe(x, k, p)] = DELETED}
             res(x) == LET found == Holds(x, Probe(x, k, o), k) IN
                       [found |-> found,
                        index |-> IF found \/ del(x) = {} THEN Probe(x, k, o)
                                                          ELSE Probe(x, k, Least(del(x)))]
  <2>1. Search(t, k) = IF E = {} THEN [found |-> FALSE, index |-> -1] ELSE res(t)
    BY DEF Search
  <2>2. Search(u, k) = IF E = {} THEN [found |-> FALSE, index |-> -1] ELSE res(u)
    BY <1>6 DEF Search
  <2>3. del(u) = del(t)
    BY <1>4
  <2> HIDE DEF E, o, del
  <2>4. Holds(u, Probe(u, k, o), k) = Holds(t, Probe(t, k, o), k)
    BY <1>4, <1>5 DEF Holds
  <2>5. res(u) = res(t)
    <3> DEFINE fu == Holds(u, Probe(u, k, o), k)
               ft == Holds(t, Probe(t, k, o), k)
               xu == IF fu \/ del(u) = {} THEN Probe(u, k, o) ELSE Probe(u, k, Least(del(u)))
               xt == IF ft \/ del(t) = {} THEN Probe(t, k, o) ELSE Probe(t, k, Least(del(t)))
    <3>1. fu = ft
      BY <2>4
    <3>2. xu = xt
      <4> HIDE DEF fu, ft
      <4> QED
        BY <1>4, <2>3, <3>1
    <3>3. res(u) = [found |-> fu, index |-> xu] /\ res(t) = [found |-> ft, index |-> xt]
      OBVIOUS
    <3> HIDE DEF fu, ft, xu, xt, res
    <3> QED
      BY <3>1, <3>2, <3>3
  <2> HIDE DEF res
  <2> QED
    BY <2>1, <2>2, <2>5
<1> QED
  BY <1>1, <1>2, <1>3, <1>7 DEF FindableIn

\* A table in which a value was put under a key is sound and holds it, or the value was
\* written outside of the slots.
LEMMA PutKeeps ==
  ASSUME NEW t, Sound(t), NEW k \in Key, NEW v \in Value
  PROVE  LET g == Grown(t)
             u == Insert(g, k, v)
         IN /\ u.capacity \in Capacities /\ u \in Tables(u.capacity)
            /\ FindableIn(u) /\ u.length <= u.capacity
            /\ Search(g, k).index # -1 =>
                 /\ Sound(u)
                 /\ StoredIn(u) = {e \in StoredIn(t) : e.key # k} \cup {[key |-> k, value |-> v]}
            /\ Search(g, k).index = -1 => StoredIn(u) = StoredIn(t)
<1> DEFINE g == Grown(t)
           c == g.capacity
           u == Insert(g, k, v)
           s == Search(g, k)
<1>1. Sound(g) /\ StoredIn(g) = StoredIn(t) /\ g.length + 1 <= c
  BY GrownKeeps
<1> HIDE DEF g
<1>2. c \in Nat \ {0} /\ c \in Capacities /\ g \in Tables(c) /\ FindableIn(g) /\ Counted(g)
  BY <1>1, SoundLength DEF Sound
<1>3. g.length \in Nat
  BY <1>2, TableFields
<1> HIDE DEF c
<1>4. u = [capacity |-> c, length |-> IF s.found THEN g.length ELSE g.length + 1,
           slots |-> [j \in 0 .. c - 1 |-> IF j = s.index THEN [key |-> k, value |-> v]
                                                        ELSE g.slots[j]]]
  BY <1>2, InsertIs
<1>5. u \in Tables(c) /\ u.capacity = c /\ u.length <= c
  <2>1. u \in Tables(c)
    BY <1>2, InsertType
  <2>2. u.capacity = c /\ u.length = IF s.found THEN g.length ELSE g.length + 1
    BY <1>4
  <2> HIDE DEF u, s
  <2> QED
    BY <1>1, <1>2, <1>3, <2>1, <2>2 DEF c
<1>6. CASE s.index # -1
  <2>1. /\ u \in Tables(c) /\ FindableIn(u) /\ Counted(u)
        /\ StoredIn(u) = {e \in StoredIn(g) : e.key # k} \cup {[key |-> k, value |-> v]}
    BY <1>2, <1>6, InsertKeeps
  <2>2. Sound(u)
    BY <1>2, <1>5, <2>1 DEF Sound
  <2> HIDE DEF u
  <2> QED
    BY <1>1, <1>2, <1>5, <1>6, <2>1, <2>2 DEF u, g
<1>7. CASE s.index = -1
  <2>1. u.slots = [j \in 0 .. c - 1 |-> g.slots[j]]
    <3>1. \A j \in 0 .. c - 1 : j # -1
      BY <1>2
    <3> QED
      BY <1>4, <1>7, <3>1
  <2>2. u.slots = g.slots
    BY <1>2, <2>1, TableFields
  <2>3. FindableIn(u) /\ StoredIn(u) = StoredIn(g)
    BY <1>2, <1>5, <2>2, SearchSame DEF c
  <2> HIDE DEF u
  <2> QED
    BY <1>1, <1>2, <1>5, <1>7, <2>3 DEF u, g
<1> QED
  BY <1>6, <1>7

-----------------------------------------------------------------------------
(* The inductive invariant *)

\* Elements are found, also after an element was written outside of the slots. Until then
\* they are counted.
TableInv ==
  /\ table.capacity \in Capacities
  /\ table \in Tables(table.capacity)
  /\ FindableIn(table)
  /\ table.length <= table.capacity
  /\ out_of_bounds \in BOOLEAN
  /\ out_of_bounds \/ Counted(table)

\* An iteration is at a slot with an element or with a removed one.
CursorAt(t, i, w) ==
  /\ i \in Slots(t)
  /\ \E k \in Key : /\ w = {k}
                    /\ i \in Occupied(t) => t.slots[i].key = k

CursorInv == (cursor = -1 /\ visited = {}) \/ CursorAt(table, cursor, visited)

Inv == TableInv /\ CursorInv

\* Between iterations nothing is visited, during one the cursor is at a slot.
LEMMA CursorIs ==
  ASSUME Inv
  PROVE  /\ Idle => visited = {}
         /\ ~Idle => CursorAt(table, cursor, visited) /\ cursor \in Nat
<1>1. table.capacity \in Nat
  BY HashTableAssumption DEF Inv, TableInv
<1> DEFINE c == table.capacity
<1>2. cursor \in Slots(table) => cursor \in 0 .. c - 1
  BY DEF Slots
<1>3. CursorAt(table, cursor, visited) => cursor \in Slots(table)
  BY DEF CursorAt
<1> HIDE DEF c
<1>4. CursorAt(table, cursor, visited) => cursor \in Nat /\ cursor # -1
  BY <1>1, <1>2, <1>3 DEF c
<1> QED
  BY <1>4 DEF Inv, CursorInv, Idle

\* The table is sound as long as the next step is taken.
LEMMA InvSound ==
  ASSUME Inv, ~out_of_bounds
  PROVE  Sound(table)
BY DEF Inv, TableInv, Sound

\* A sound table is what the invariant asks for.
LEMMA SoundInv ==
  ASSUME NEW t, Sound(t)
  PROVE  /\ t.capacity \in Capacities /\ t \in Tables(t.capacity) /\ FindableIn(t)
         /\ t.length <= t.capacity /\ Counted(t)
BY SoundLength DEF Sound

\* The first element at or after a slot, when there is one.
LEMMA AtOrAfterIs ==
  ASSUME NEW t, Sound(t), NEW i \in Nat, AtOrAfter(t, i) # {}
  PROVE  LET j == Least(AtOrAfter(t, i)) IN
         /\ j \in Occupied(t) /\ j \in Slots(t) /\ j \in Nat /\ t.slots[j].key \in Key
         /\ AtOrAfter(t, i) = {j} \cup AtOrAfter(t, j + 1) /\ j \notin AtOrAfter(t, j + 1)
<1> DEFINE c == t.capacity
           S == AtOrAfter(t, i)
           j == Least(S)
<1>1. c \in Nat \ {0} /\ t \in Tables(c)
  BY SoundLength DEF Sound
<1> HIDE DEF c
<1>2. Occupied(t) \subseteq Slots(t) /\ Slots(t) = 0 .. c - 1
      /\ \A n \in Occupied(t) : t.slots[n].key \in Key
  BY <1>1, TableFields
<1>3. S \subseteq Nat /\ S # {} /\ S = {n \in Occupied(t) : n >= i}
  BY <1>1, <1>2 DEF AtOrAfter
<1>4. j \in S /\ \A n \in S : j <= n
  <2> HIDE DEF S
  <2> QED
    BY <1>3, LeastIs
<1> HIDE DEF j, S
<1>5. j \in Occupied(t) /\ j \in Nat /\ j >= i
  BY <1>3, <1>4
<1>6. S = {j} \cup {n \in Occupied(t) : n >= j + 1}
  <2>1. \A n \in S : n = j \/ n >= j + 1
    BY <1>3, <1>4, <1>5
  <2>2. \A n \in Occupied(t) : n >= j + 1 => n >= i
    BY <1>1, <1>2, <1>5
  <2> QED
    BY <1>3, <1>4, <2>1, <2>2
<1> QED
  BY <1>2, <1>5, <1>6 DEF S, j, AtOrAfter

\* The iteration goes to an element, or it ends.
LEMMA GoToInv ==
  ASSUME Inv, ~out_of_bounds, NEW i \in Nat, GoTo(i)
  PROVE  Inv'
<1>1. Sound(table)
  BY InvSound
<1>2. table' = table /\ out_of_bounds' = out_of_bounds
  BY DEF GoTo
<1>3. TableInv'
  <2>1. TableInv
    BY DEF Inv
  <2> QED
    BY <1>2, <2>1 DEF TableInv, FindableIn, Counted, Tables
<1>4. CursorInv'
  <2>1. CASE AtOrAfter(table, i) = {}
    BY <2>1 DEF GoTo, CursorInv
  <2>2. CASE AtOrAfter(table, i) # {}
    <3> DEFINE j == Least(AtOrAfter(table, i))
    <3>1. j \in Slots(table) /\ table.slots[j].key \in Key
      BY <1>1, <2>2, AtOrAfterIs
    <3>2. cursor' = j /\ visited' = {table.slots[j].key}
      BY <2>2 DEF GoTo
    <3> HIDE DEF j
    <3>3. CursorAt(table, j, {table.slots[j].key})
      BY <3>1 DEF CursorAt
    <3>4. CursorAt(table, cursor', visited')
      BY <3>2, <3>3
    <3>5. CursorAt(table, cursor, visited)'
      BY <1>2, <3>4 DEF CursorAt, Slots, Occupied
    <3> QED
      BY <3>5 DEF CursorInv
  <2> QED
    BY <2>1, <2>2
<1> QED
  BY <1>3, <1>4 DEF Inv

\* The table at the start is sound.
LEMMA InitInv ==
  ASSUME Init
  PROVE  Inv /\ Sound(table)
<1>1. 5 \in Nat \ {0} /\ 5 \in Capacities
  BY HashTableAssumption
<1>2. table = Empty(5) /\ cursor = -1 /\ visited = {} /\ out_of_bounds = FALSE
  BY DEF Init
<1>3. /\ Empty(5) \in Tables(5) /\ FindableIn(Empty(5)) /\ Counted(Empty(5))
  BY <1>1, EmptyIs
<1>4. Empty(5).capacity = 5
  BY DEF Empty
<1>5. Sound(table)
  BY <1>1, <1>2, <1>3, <1>4 DEF Sound
<1>6. TableInv
  <2>1. out_of_bounds \in BOOLEAN
    BY <1>2
  <2> QED
    BY <1>5, <2>1, SoundInv DEF TableInv
<1> QED
  BY <1>2, <1>5, <1>6 DEF Inv, CursorInv

\* Putting leaves the invariant, and so does putting outside of the slots.
LEMMA PutInv ==
  ASSUME Inv, ~out_of_bounds, NEW k \in Key, NEW v \in Value, Put(k, v)
  PROVE  Inv'
<1> DEFINE g == Grown(table)
           u == Insert(g, k, v)
<1>1. Sound(table) /\ cursor = -1 /\ visited = {}
  <2>1. Idle
    BY DEF Put
  <2> QED
    BY <2>1, CursorIs, InvSound DEF Idle
<1>2. /\ u.capacity \in Capacities /\ u \in Tables(u.capacity)
      /\ FindableIn(u) /\ u.length <= u.capacity
      /\ Search(g, k).index # -1 => Sound(u)
  BY <1>1, PutKeeps
<1>3. /\ table' = u /\ cursor' = -1 /\ visited' = {}
      /\ out_of_bounds' = (Search(g, k).index = -1)
  BY <1>1 DEF Put
<1> HIDE DEF u, g
<1>4. out_of_bounds' \in BOOLEAN
  BY <1>3
<1>5. out_of_bounds' \/ Counted(u)
  BY <1>2, <1>3 DEF Sound
<1>6. TableInv'
  BY <1>2, <1>3, <1>4, <1>5 DEF TableInv, Tables, FindableIn, Counted
<1> QED
  BY <1>3, <1>6 DEF Inv, CursorInv

\* The table without the element of a key.
LEMMA RemoveKeeps ==
  ASSUME NEW t, Sound(t), NEW i \in Occupied(t)
  PROVE  /\ Sound(Deleted(t, i)) /\ Sound(Shrunk(Deleted(t, i)))
         /\ StoredIn(Deleted(t, i)) = StoredIn(t) \ {t.slots[i]}
         /\ StoredIn(Shrunk(Deleted(t, i))) = StoredIn(t) \ {t.slots[i]}
         /\ Slots(Deleted(t, i)) = Slots(t)
         /\ Occupied(Deleted(t, i)) = Occupied(t) \ {i}
         /\ \A j \in Slots(t) : j # i => Deleted(t, i).slots[j] = t.slots[j]
<1> DEFINE c == t.capacity
           u == Deleted(t, i)
<1>1. c \in Nat \ {0} /\ c \in Capacities /\ t \in Tables(c) /\ FindableIn(t) /\ Counted(t)
  BY SoundLength DEF Sound
<1> HIDE DEF c
<1>2. /\ u \in Tables(c) /\ FindableIn(u) /\ Counted(u)
      /\ StoredIn(u) = StoredIn(t) \ {t.slots[i]} /\ Occupied(u) = Occupied(t) \ {i}
      /\ \A j \in Slots(t) : j # i => u.slots[j] = t.slots[j]
  BY <1>1, DeletedKeeps
<1> HIDE DEF u
<1>3. u.capacity = c /\ Slots(u) = Slots(t)
  <2>1. u.capacity = c
    BY <1>2 DEF Tables
  <2> QED
    BY <2>1 DEF Slots, c
<1>4. Sound(u)
  BY <1>1, <1>2, <1>3 DEF Sound
<1>5. Sound(Shrunk(u)) /\ StoredIn(Shrunk(u)) = StoredIn(u)
  BY <1>4, ShrunkKeeps
<1> QED
  BY <1>2, <1>3, <1>4, <1>5 DEF u

\* A table that is sound again leaves the invariant of the table.
LEMMA TableInvNext ==
  ASSUME Sound(table'), ~out_of_bounds, out_of_bounds' = out_of_bounds, TableInv
  PROVE  TableInv'
<1> DEFINE t == table'
<1>1. /\ t.capacity \in Capacities /\ t \in Tables(t.capacity) /\ FindableIn(t)
      /\ t.length <= t.capacity /\ Counted(t)
  BY SoundInv
<1>2. out_of_bounds' \in BOOLEAN
  BY DEF TableInv
<1> QED
  BY <1>1, <1>2 DEF TableInv, Tables, FindableIn, Counted

\* The slot of a key that is found.
LEMMA FoundOccupied ==
  ASSUME NEW t, NEW k, Search(t, k).found
  PROVE  /\ Search(t, k).index \in Occupied(t)
         /\ t.slots[Search(t, k).index].key = k
BY SearchHolds DEF Holds

\* Removing leaves the invariant.
LEMMA RemoveInv ==
  ASSUME Inv, ~out_of_bounds, NEW k \in Key, Remove(k)
  PROVE  Inv'
<1> DEFINE i == Search(table, k).index
           u == Shrunk(Deleted(table, i))
<1>1. Sound(table) /\ cursor = -1 /\ visited = {}
  <2>1. Idle
    BY DEF Remove
  <2> QED
    BY <2>1, CursorIs, InvSound DEF Idle
<1>2. i \in Occupied(table)
  BY FoundOccupied DEF Remove
<1>3. Sound(u)
  <2> HIDE DEF i
  <2> QED
    BY <1>1, <1>2, RemoveKeeps
<1>4. table' = u /\ cursor' = -1 /\ visited' = {} /\ out_of_bounds' = out_of_bounds
  BY <1>1 DEF Remove
<1> HIDE DEF u
<1>5. TableInv'
  BY <1>3, <1>4, TableInvNext DEF Inv
<1> QED
  BY <1>4, <1>5 DEF Inv, CursorInv

\* Removing the element at the cursor leaves the invariant.
LEMMA RemoveElemInv ==
  ASSUME Inv, ~out_of_bounds, RemoveElem
  PROVE  Inv'
<1> DEFINE u == Deleted(table, cursor)
<1>1. Sound(table) /\ cursor \in Occupied(table)
  BY InvSound DEF RemoveElem
<1>2. Sound(u) /\ Slots(u) = Slots(table) /\ Occupied(u) = Occupied(table) \ {cursor}
  BY <1>1, RemoveKeeps
<1>3. table' = u /\ cursor' = cursor /\ visited' = visited /\ out_of_bounds' = out_of_bounds
  BY DEF RemoveElem
<1> HIDE DEF u
<1>4. TableInv'
  BY <1>2, <1>3, TableInvNext DEF Inv
<1>5. CursorAt(table, cursor, visited)
  <2>1. -1 \notin Occupied(table)
    BY DEF Occupied, Slots
  <2> QED
    BY <1>1, <2>1 DEF Inv, CursorInv
<1>6. CursorAt(u, cursor, visited)
  BY <1>2, <1>5 DEF CursorAt
<1>7. CursorAt(table, cursor, visited)'
  BY <1>3, <1>6 DEF CursorAt, Slots, Occupied
<1> QED
  BY <1>4, <1>7 DEF Inv, CursorInv

\* Every step leaves the invariant.
LEMMA NextInv ==
  ASSUME Inv, [Next]_vars
  PROVE  Inv'
<1>1. CASE UNCHANGED vars
  BY <1>1 DEF vars, Inv, TableInv, CursorInv, CursorAt, Tables, FindableIn, Counted, Slots,
              Occupied
<1>2. CASE Next
  <2>1. ~out_of_bounds
    BY <1>2 DEF Next
  <2>2. ASSUME NEW k \in Key, NEW v \in Value, Put(k, v) PROVE Inv'
    BY <2>1, <2>2, PutInv
  <2>3. ASSUME NEW k \in Key, Remove(k) PROVE Inv'
    BY <2>1, <2>3, RemoveInv
  <2>4. CASE RemoveElem
    BY <2>1, <2>4, RemoveElemInv
  <2>5. CASE Start
    BY <2>1, <2>5, GoToInv DEF Start
  <2>6. CASE NextElem
    <3>1. cursor + 1 \in Nat
      BY <2>6, CursorIs DEF NextElem
    <3> QED
      BY <2>1, <2>6, <3>1, GoToInv DEF NextElem
  <2> QED
    BY <1>2, <2>2, <2>3, <2>4, <2>5, <2>6 DEF Next
<1> QED
  BY <1>1, <1>2

\* The invariant holds in every state.
LEMMA InvAlways == Spec => []Inv
<1>1. Init => Inv
  BY InitInv
<1>2. Inv /\ [Next]_vars => Inv'
  BY NextInv
<1> QED
  BY <1>1, <1>2, PTL DEF Spec

-----------------------------------------------------------------------------
(* Theorems *)

\* The fields of the table keep their types and the cursor stays in the slots, whatever
\* is put, removed and iterated over (hash.c).
THEOREM TypeCorrect == Spec => []TypeOK
<1>1. ASSUME Inv PROVE TypeOK
  <2>1. /\ table.capacity \in Capacities /\ table \in Tables(table.capacity)
        /\ table.length <= table.capacity /\ out_of_bounds \in BOOLEAN
    BY <1>1 DEF Inv, TableInv
  <2>2. table.capacity \in Nat
    BY <2>1, HashTableAssumption
  <2>3. table.length \in 0 .. table.capacity
    <3> DEFINE n == table.length
               c == table.capacity
    <3>1. n \in Nat /\ c \in Nat /\ n <= c
      BY <2>1, <2>2 DEF Tables
    <3> HIDE DEF n, c
    <3>2. n \in 0 .. c
      BY <3>1
    <3> QED
      BY <3>2 DEF n, c
  <2>4. table.slots \in [Slots(table) -> Element \cup {FREE, DELETED}]
    BY <2>1 DEF Tables, Slots
  <2>5. cursor \in {-1} \cup Slots(table) /\ visited \subseteq Key
    BY <1>1, CursorIs DEF Idle, CursorAt
  <2> QED
    BY <2>1, <2>3, <2>4, <2>5 DEF TypeOK
<1> QED
  BY <1>1, InvAlways, PTL

\* Every element is found by its key where it is, whatever was removed or put before it
\* and however often the array was replaced (unified_hash_search, unified_hash_resize).
THEOREM ElementsFindable == Spec => []Findable
<1>1. Inv => Findable
  BY DEF Inv, TableInv, FindableIn, Findable
<1> QED
  BY <1>1, InvAlways, PTL

\* The length is the number of elements until one is written outside of the slots
\* (the counting of unified_hash_put_ptr and unified_hash_remove_elem).
THEOREM LengthStaysExact == Spec => [](~out_of_bounds => LengthExact)
<1>1. Inv => (~out_of_bounds => LengthExact)
  BY DEF Inv, TableInv, Counted, LengthExact
<1> QED
  BY <1>1, InvAlways, PTL

\* With a free slot in the array, a search for any key ends at a slot of it
\* (hash.c:164, hash.c:198): what a table without one lacks is only that slot.
THEOREM FreeSlotSuffices ==
  Spec => []((\E i \in Slots(table) : table.slots[i] = FREE) => SearchFindsSlot)
<1>1. ASSUME Inv, NEW i \in Slots(table), table.slots[i] = FREE PROVE SearchFindsSlot
  <2> DEFINE c == table.capacity
  <2>1. c \in Nat \ {0} /\ table \in Tables(c)
    BY <1>1, HashTableAssumption DEF Inv, TableInv
  <2> HIDE DEF c
  <2>2. ASSUME NEW k \in Key PROVE Search(table, k).index \in Slots(table)
    BY <1>1, <2>1, FreeSlotEnds
  <2> QED
    BY <2>2 DEF SearchFindsSlot
<1>2. Inv => ((\E i \in Slots(table) : table.slots[i] = FREE) => SearchFindsSlot)
  BY <1>1
<1> QED
  BY <1>2, InvAlways, PTL

-----------------------------------------------------------------------------
(* Refinement *)

\* The map of a set of elements.
Dict(S) == [k \in {e.key : e \in S} |-> (CHOOSE e \in S : e.key = k).value]

\* No two elements of the set have the same key.
KeyedBy(S) == \A d, e \in S : d.key = e.key => d = e

\* The elements of a sound table have different keys.
LEMMA SoundKeyed ==
  ASSUME NEW t, FindableIn(t)
  PROVE  KeyedBy(StoredIn(t))
BY KeysDistinct DEF KeyedBy, StoredIn

\* The value of an element is the one the map has for its key.
LEMMA DictAt ==
  ASSUME NEW S, KeyedBy(S), NEW e \in S
  PROVE  e.key \in DOMAIN Dict(S) /\ Dict(S)[e.key] = e.value
<1> DEFINE d == CHOOSE x \in S : x.key = e.key
<1>1. d \in S /\ d.key = e.key
  OBVIOUS
<1>2. d = e
  BY <1>1 DEF KeyedBy
<1> QED
  BY <1>2 DEF Dict

\* The map with another value for a key.
Updated(f, k, v) == [l \in DOMAIN f \cup {k} |-> IF l = k THEN v ELSE f[l]]

\* Another element under a key is another value in the map.
LEMMA DictPut ==
  ASSUME NEW S, KeyedBy(S), NEW k, NEW v,
         NEW T, T = {e \in S : e.key # k} \cup {[key |-> k, value |-> v]}
  PROVE  Dict(T) = Updated(Dict(S), k, v)
<1> DEFINE n == [key |-> k, value |-> v]
<1>1. n.key = k /\ n.value = v /\ n \in T
  OBVIOUS
<1> HIDE DEF n
<1>2. \A e \in T : e = n \/ (e \in S /\ e.key # k)
  BY DEF n
<1>3. \A e \in S : e.key # k => e \in T
  OBVIOUS
<1>4. KeyedBy(T)
  BY <1>1, <1>2 DEF KeyedBy
<1>5. DOMAIN Dict(T) = {e.key : e \in T} /\ DOMAIN Dict(S) = {e.key : e \in S}
  BY DEF Dict
<1>6. DOMAIN Dict(T) = DOMAIN Dict(S) \cup {k}
  BY <1>1, <1>2, <1>3, <1>5
<1>7. ASSUME NEW l \in DOMAIN Dict(T)
      PROVE  Dict(T)[l] = IF l = k THEN v ELSE Dict(S)[l]
  <2>1. PICK e \in T : e.key = l
    BY <1>5
  <2>2. Dict(T)[l] = e.value
    BY <1>4, <2>1, DictAt
  <2>3. CASE e = n
    BY <1>1, <2>1, <2>2, <2>3
  <2>4. CASE e \in S /\ e.key # k
    <3>1. Dict(S)[l] = e.value
      BY <2>1, <2>4, DictAt
    <3> QED
      BY <2>1, <2>2, <2>4, <3>1
  <2> QED
    BY <1>2, <2>3, <2>4
<1>8. Dict(T) = [l \in DOMAIN Dict(T) |-> Dict(T)[l]]
  BY DEF Dict
<1> QED
  BY <1>6, <1>7, <1>8 DEF Updated

\* Without an element the map is without its key.
LEMMA DictDrop ==
  ASSUME NEW S, KeyedBy(S), NEW e \in S
  PROVE  Dict(S \ {e}) = [l \in DOMAIN Dict(S) \ {e.key} |-> Dict(S)[l]]
<1> DEFINE T == S \ {e}
<1>1. KeyedBy(T)
  BY DEF KeyedBy
<1>2. DOMAIN Dict(T) = {d.key : d \in T} /\ DOMAIN Dict(S) = {d.key : d \in S}
  BY DEF Dict
<1>3. DOMAIN Dict(T) = DOMAIN Dict(S) \ {e.key}
  BY <1>2 DEF KeyedBy
<1>4. ASSUME NEW l \in DOMAIN Dict(T) PROVE Dict(T)[l] = Dict(S)[l]
  <2>1. PICK d \in T : d.key = l
    BY <1>2
  <2> QED
    BY <1>1, <2>1, DictAt
<1>5. Dict(T) = [l \in DOMAIN Dict(T) |-> Dict(T)[l]]
  BY DEF Dict
<1> HIDE DEF T
<1>6. Dict(T) = [l \in DOMAIN Dict(S) \ {e.key} |-> Dict(S)[l]]
  BY <1>3, <1>4, <1>5
<1> QED
  BY <1>6 DEF T

\* The keys at or after a slot.
Rest(t, i) == {t.slots[j].key : j \in AtOrAfter(t, i)}

\* The keys that the running iteration still has to visit.
Todo == IF Idle THEN {} ELSE Rest(table, cursor + 1)

\* The map that the table stands for.
AbstractMap == Dict(StoredIn(table))

\* What the steps of the map are with the table for the map.
LEMMA MapSteps ==
  /\ \A k, v : Map!Put(k, v) <=>
       /\ Todo = {} /\ visited = {}
       /\ AbstractMap' = [l \in DOMAIN AbstractMap \cup {k} |-> IF l = k THEN v
                                                               ELSE AbstractMap[l]]
       /\ Todo' = Todo /\ visited' = visited
  /\ \A k : Map!Remove(k) <=>
       /\ Todo = {} /\ visited = {}
       /\ AbstractMap' = [l \in DOMAIN AbstractMap \ {k} |-> AbstractMap[l]]
       /\ Todo' = Todo /\ visited' = visited
  /\ \A k : Map!RemoveElem(k) <=>
       /\ k \in visited \cap DOMAIN AbstractMap
       /\ AbstractMap' = [l \in DOMAIN AbstractMap \ {k} |-> AbstractMap[l]]
       /\ visited' = visited /\ Todo' = Todo
  /\ \A k : Map!Start(k) <=>
       /\ Todo = {} /\ visited = {}
       /\ k \in DOMAIN AbstractMap
       /\ Todo' = DOMAIN AbstractMap \ {k} /\ visited' = {k}
       /\ AbstractMap' = AbstractMap
  /\ \A k : Map!Visit(k) <=>
       /\ k \in Todo
       /\ Todo' = Todo \ {k} /\ visited' = {k}
       /\ AbstractMap' = AbstractMap
  /\ Map!Finish <=>
       /\ Todo = {}
       /\ visited' = {} /\ AbstractMap' = AbstractMap /\ Todo' = Todo
BY DEF Map!Put, Map!Remove, Map!RemoveElem, Map!Start, Map!Visit, Map!Finish, Map!Idle, Map!Drop,
       AbstractMap, Todo, Rest, Dict, StoredIn, Stored, Elements

\* The table at the start stands for the empty map.
LEMMA MapInit ==
  ASSUME Init
  PROVE  Map!Init
<1>1. StoredIn(table) = {}
  BY HashTableAssumption, EmptyIs DEF Init
<1>2. Stored = {} /\ Elements = {}
  BY <1>1 DEF StoredIn, Stored, Elements
<1>3. Idle /\ visited = {}
  BY DEF Init, Idle
<1>4. [k \in Elements |-> (CHOOSE e \in Stored : e.key = k).value] = <<>>
  BY <1>2
<1> QED
  BY <1>3, <1>4 DEF Map!Init

\* A put is the one of the map, or the value is lost and the map stays.
LEMMA PutMaps ==
  ASSUME Inv, ~out_of_bounds, NEW k \in Key, NEW v \in Value, Put(k, v)
  PROVE  Map!Put(k, v) \/ UNCHANGED <<AbstractMap, Todo, visited>>
<1> DEFINE g == Grown(table)
           u == Insert(g, k, v)
           S == StoredIn(table)
<1>1. Sound(table) /\ Idle /\ visited = {} /\ Todo = {}
  <2>1. Idle
    BY DEF Put
  <2> QED
    BY <2>1, CursorIs, InvSound DEF Todo
<1>2. /\ Search(g, k).index # -1 =>
           StoredIn(u) = {e \in S : e.key # k} \cup {[key |-> k, value |-> v]}
      /\ Search(g, k).index = -1 => StoredIn(u) = S
  BY <1>1, PutKeeps
<1>3. table' = u /\ cursor' = cursor /\ visited' = visited
  BY DEF Put
<1> HIDE DEF u, g
<1>4. Todo' = {}
  BY <1>1, <1>3 DEF Todo, Idle
<1>5. KeyedBy(S)
  BY <1>1, SoundKeyed DEF Sound
<1>6. AbstractMap' = Dict(StoredIn(u)) /\ AbstractMap = Dict(S)
  BY <1>3 DEF AbstractMap, Dict, StoredIn, Occupied, Slots
<1>7. CASE Search(g, k).index # -1
  <2> DEFINE T == StoredIn(u)
  <2>1. T = {e \in S : e.key # k} \cup {[key |-> k, value |-> v]}
    BY <1>2, <1>7
  <2> HIDE DEF T, S
  <2>2. Dict(T) = Updated(Dict(S), k, v)
    BY <1>5, <2>1, DictPut
  <2>3. AbstractMap' = [l \in DOMAIN AbstractMap \cup {k} |-> IF l = k THEN v
                                                             ELSE AbstractMap[l]]
    BY <1>6, <2>2 DEF T, Updated
  <2> QED
    BY <1>1, <1>3, <1>4, <2>3, MapSteps
<1>8. CASE Search(g, k).index = -1
  BY <1>1, <1>2, <1>3, <1>4, <1>6, <1>8
<1> QED
  BY <1>7, <1>8

\* A removal is the one of the map.
LEMMA RemoveMaps ==
  ASSUME Inv, ~out_of_bounds, NEW k \in Key, Remove(k)
  PROVE  Map!Remove(k)
<1> DEFINE i == Search(table, k).index
           u == Shrunk(Deleted(table, i))
           S == StoredIn(table)
           e == table.slots[i]
<1>1. Sound(table) /\ Idle /\ visited = {} /\ Todo = {}
  <2>1. Idle
    BY DEF Remove
  <2> QED
    BY <2>1, CursorIs, InvSound DEF Todo
<1>2. i \in Occupied(table) /\ e.key = k
  BY FoundOccupied DEF Remove
<1>3. table' = u /\ cursor' = cursor /\ visited' = visited
  BY DEF Remove
<1> HIDE DEF i
<1>4. StoredIn(u) = S \ {e}
  BY <1>1, <1>2, RemoveKeeps
<1>5. e \in S
  BY <1>2 DEF StoredIn
<1> HIDE DEF u, e
<1>6. Todo' = {}
  BY <1>1, <1>3 DEF Todo, Idle
<1>7. KeyedBy(S)
  BY <1>1, SoundKeyed DEF Sound
<1>8. AbstractMap' = Dict(StoredIn(u)) /\ AbstractMap = Dict(S)
  BY <1>3 DEF AbstractMap, Dict, StoredIn, Occupied, Slots
<1> HIDE DEF S
<1>9. Dict(S \ {e}) = [l \in DOMAIN Dict(S) \ {e.key} |-> Dict(S)[l]]
  BY <1>5, <1>7, DictDrop
<1>10. AbstractMap' = [l \in DOMAIN AbstractMap \ {k} |-> AbstractMap[l]]
  BY <1>2, <1>4, <1>8, <1>9
<1> QED
  BY <1>1, <1>3, <1>6, <1>10, MapSteps

\* The removal of the element at the cursor is the one of the map, and what is still to be
\* visited stays.
LEMMA RemoveElemMaps ==
  ASSUME Inv, ~out_of_bounds, RemoveElem
  PROVE  \E k \in Key : Map!RemoveElem(k)
<1> DEFINE u == Deleted(table, cursor)
           S == StoredIn(table)
           e == table.slots[cursor]
<1>1. Sound(table) /\ cursor \in Occupied(table)
  BY InvSound DEF RemoveElem
<1>2. CursorAt(table, cursor, visited) /\ cursor \in Nat /\ ~Idle
  <2>1. -1 \notin Occupied(table)
    <3>1. table.capacity \in Nat
      BY <1>1, SoundLength
    <3> DEFINE c == table.capacity
    <3>2. Occupied(table) \subseteq 0 .. c - 1
      BY DEF Occupied, Slots
    <3> HIDE DEF c
    <3> QED
      BY <3>1, <3>2 DEF c
  <2> QED
    BY <1>1, <2>1, CursorIs DEF Idle
<1>3. PICK k \in Key : visited = {k} /\ e.key = k
  BY <1>1, <1>2 DEF CursorAt
<1>4. /\ StoredIn(u) = S \ {e}
      /\ Slots(u) = Slots(table) /\ Occupied(u) = Occupied(table) \ {cursor}
      /\ \A j \in Slots(table) : j # cursor => u.slots[j] = table.slots[j]
  BY <1>1, RemoveKeeps
<1>5. table' = u /\ cursor' = cursor /\ visited' = visited
  BY DEF RemoveElem
<1>6. e \in S /\ KeyedBy(S)
  BY <1>1, SoundKeyed DEF StoredIn, Sound
<1> HIDE DEF u, e
<1>7. Rest(u, cursor + 1) = Rest(table, cursor + 1)
  <2>1. \A j \in Occupied(table) : j >= cursor + 1 => j # cursor /\ j \in Slots(table)
    <3>1. ~(cursor >= cursor + 1)
      BY <1>2
    <3> QED
      BY <3>1 DEF Occupied
  <2>2. AtOrAfter(u, cursor + 1) = AtOrAfter(table, cursor + 1)
    <3> HIDE DEF S
    <3>1. \A j : j \in Occupied(u) /\ j >= cursor + 1
                 <=> j \in Occupied(table) /\ j >= cursor + 1
      BY <1>4, <2>1
    <3> QED
      BY <3>1 DEF AtOrAfter
  <2>3. \A j \in AtOrAfter(table, cursor + 1) : u.slots[j] = table.slots[j]
    BY <1>4, <2>1 DEF AtOrAfter
  <2> QED
    BY <2>2, <2>3 DEF Rest
<1>8. Todo' = Todo
  <2>1. Todo' = Rest(u, cursor + 1)
    BY <1>2, <1>5 DEF Todo, Idle, Rest, AtOrAfter, Occupied, Slots
  <2> QED
    BY <1>2, <1>7, <2>1 DEF Todo
<1>9. AbstractMap' = Dict(StoredIn(u)) /\ AbstractMap = Dict(S)
  BY <1>5 DEF AbstractMap, Dict, StoredIn, Occupied, Slots
<1> HIDE DEF S
<1>10. Dict(S \ {e}) = [l \in DOMAIN Dict(S) \ {e.key} |-> Dict(S)[l]]
  BY <1>6, DictDrop
<1>11. AbstractMap' = [l \in DOMAIN AbstractMap \ {k} |-> AbstractMap[l]]
  BY <1>3, <1>4, <1>9, <1>10
<1>12. k \in visited \cap DOMAIN AbstractMap
  BY <1>3, <1>6, <1>9, DictAt
<1>13. Map!RemoveElem(k)
  BY <1>5, <1>8, <1>11, <1>12, MapSteps
<1> QED
  BY <1>13

\* The keys at or after a slot are the one of the first element there and, each different
\* from it, those after it.
LEMMA RestIs ==
  ASSUME NEW t, Sound(t), NEW i \in Nat, AtOrAfter(t, i) # {}
  PROVE  LET j == Least(AtOrAfter(t, i)) IN
         /\ t.slots[j].key \in Rest(t, i) /\ t.slots[j].key \in Key /\ j \in Nat
         /\ Rest(t, j + 1) = Rest(t, i) \ {t.slots[j].key}
<1> DEFINE j == Least(AtOrAfter(t, i))
<1>1. /\ j \in Occupied(t) /\ j \in Slots(t) /\ j \in Nat /\ t.slots[j].key \in Key
      /\ AtOrAfter(t, i) = {j} \cup AtOrAfter(t, j + 1) /\ j \notin AtOrAfter(t, j + 1)
  BY AtOrAfterIs
<1> HIDE DEF j
<1>2. \A l \in AtOrAfter(t, j + 1) : t.slots[l].key # t.slots[j].key
  <2>1. \A l \in AtOrAfter(t, j + 1) : l \in Occupied(t) /\ l # j
    BY <1>1 DEF AtOrAfter
  <2> QED
    BY <1>1, <2>1, KeysDistinct DEF Sound
<1>3. Rest(t, i) = {t.slots[j].key} \cup Rest(t, j + 1)
  BY <1>1 DEF Rest
<1>4. t.slots[j].key \notin Rest(t, j + 1)
  BY <1>2 DEF Rest
<1> QED
  BY <1>1, <1>3, <1>4 DEF j

\* Where going to a slot leads.
LEMMA GoToIs ==
  ASSUME Inv, ~out_of_bounds, NEW i \in Nat, GoTo(i)
  PROVE  /\ AbstractMap' = AbstractMap
         /\ Rest(table, i) = {} => visited' = {} /\ Todo' = {}
         /\ Rest(table, i) # {} => \E k \in Rest(table, i) : /\ k \in Key /\ visited' = {k}
                                                            /\ Todo' = Rest(table, i) \ {k}
<1>1. Sound(table)
  BY InvSound
<1>2. table' = table
  BY DEF GoTo
<1>3. AbstractMap' = AbstractMap
  BY <1>2 DEF AbstractMap, Dict, StoredIn, Occupied, Slots
<1>4. Rest(table, i) = {} <=> AtOrAfter(table, i) = {}
  BY DEF Rest
<1>5. CASE AtOrAfter(table, i) = {}
  <2>1. cursor' = -1 /\ visited' = {}
    BY <1>5 DEF GoTo
  <2>2. Todo' = {}
    BY <2>1 DEF Todo, Idle
  <2> QED
    BY <1>3, <1>4, <1>5, <2>1, <2>2
<1>6. CASE AtOrAfter(table, i) # {}
  <2> DEFINE j == Least(AtOrAfter(table, i))
             k == table.slots[j].key
  <2>1. /\ k \in Rest(table, i) /\ k \in Key /\ j \in Nat
        /\ Rest(table, j + 1) = Rest(table, i) \ {k}
    BY <1>1, <1>6, RestIs
  <2>2. cursor' = j /\ visited' = {k}
    BY <1>6 DEF GoTo
  <2> HIDE DEF j, k
  <2>3. j # -1
    BY <2>1
  <2>4. Todo' = Rest(table, j + 1)
    BY <1>2, <2>2, <2>3 DEF Todo, Idle, Rest, AtOrAfter, Occupied, Slots
  <2> QED
    BY <1>3, <1>4, <1>6, <2>1, <2>2, <2>4
<1> QED
  BY <1>5, <1>6

\* A start of an iteration is the one of the map.
LEMMA StartMaps ==
  ASSUME Inv, ~out_of_bounds, Start
  PROVE  \E k \in Key : Map!Start(k)
<1> DEFINE D == DOMAIN AbstractMap
<1>1. Idle /\ Occupied(table) # {} /\ GoTo(0) /\ visited = {} /\ Todo = {}
  BY CursorIs DEF Start, Todo
<1>2. Rest(table, 0) = D
  <2>1. Sound(table)
    BY InvSound
  <2>2. \A j \in Occupied(table) : j >= 0
    <3> DEFINE c == table.capacity
    <3>1. c \in Nat
      BY <2>1, SoundLength
    <3>2. Occupied(table) \subseteq 0 .. c - 1
      BY DEF Occupied, Slots
    <3> HIDE DEF c
    <3> QED
      BY <3>1, <3>2
  <2>3. AtOrAfter(table, 0) = Occupied(table)
    BY <2>2 DEF AtOrAfter
  <2> QED
    BY <2>3 DEF Rest, AbstractMap, Dict, StoredIn
<1>3. D # {}
  BY <1>1 DEF AbstractMap, Dict, StoredIn
<1> HIDE DEF D
<1>4. PICK k \in D : k \in Key /\ visited' = {k} /\ Todo' = D \ {k} /\ AbstractMap' = AbstractMap
  <2>1. 0 \in Nat
    OBVIOUS
  <2> QED
    BY <1>1, <1>2, <1>3, <2>1, GoToIs
<1>5. Map!Start(k)
  BY <1>1, <1>4, MapSteps DEF D
<1> QED
  BY <1>4, <1>5

\* A step of an iteration visits another key of the map or finishes.
LEMMA NextElemMaps ==
  ASSUME Inv, ~out_of_bounds, NextElem
  PROVE  Map!Finish \/ \E k \in Key : Map!Visit(k)
<1>1. ~Idle /\ GoTo(cursor + 1) /\ cursor + 1 \in Nat
  BY CursorIs DEF NextElem
<1>2. Todo = Rest(table, cursor + 1)
  BY <1>1 DEF Todo
<1> DEFINE R == Rest(table, cursor + 1)
<1>3. /\ AbstractMap' = AbstractMap
      /\ R = {} => visited' = {} /\ Todo' = {}
      /\ R # {} => \E k \in R : k \in Key /\ visited' = {k} /\ Todo' = R \ {k}
  BY <1>1, GoToIs
<1> HIDE DEF R
<1>4. CASE R = {}
  BY <1>2, <1>3, <1>4, MapSteps DEF R
<1>5. CASE R # {}
  <2>1. PICK k \in R : k \in Key /\ visited' = {k} /\ Todo' = R \ {k}
    BY <1>3, <1>5
  <2>2. Map!Visit(k)
    BY <1>2, <1>3, <2>1, MapSteps DEF R
  <2> QED
    BY <2>1, <2>2
<1> QED
  BY <1>4, <1>5

\* The table is a map with iterations that visit each element once, while elements that were
\* visited are removed: what the poll loop relies on (smeb.c:174-211). It is one also when a
\* value is written outside of the slots: that value is just not in the map.
THEOREM ImplementsMap == Spec => MapSpec
<1>1. Init => Map!Init
  BY MapInit
<1>2. ASSUME Inv, [Next]_vars PROVE [Map!Next]_(Map!vars)
  <2>1. CASE UNCHANGED vars
    <3>1. UNCHANGED Map!vars
      BY <2>1 DEF vars, Map!vars, Stored, Elements, Occupied, Slots, Idle, AtOrAfter
    <3> QED
      BY <3>1
  <2>2. CASE Next
    <3>1. ~out_of_bounds
      BY <2>2 DEF Next
    <3>2. ASSUME NEW k \in Key, NEW v \in Value, Put(k, v) PROVE [Map!Next]_(Map!vars)
      <4>1. CASE Map!Put(k, v)
        BY <4>1 DEF Map!Next
      <4>2. CASE UNCHANGED <<AbstractMap, Todo, visited>>
        <5>1. UNCHANGED Map!vars
          BY <4>2 DEF Map!vars, AbstractMap, Todo, Rest, Dict, StoredIn, Stored, Elements
        <5> QED
          BY <5>1
      <4> QED
        BY <1>2, <3>1, <3>2, <4>1, <4>2, PutMaps
    <3>3. ASSUME NEW k \in Key, Remove(k) PROVE [Map!Next]_(Map!vars)
      BY <1>2, <3>1, <3>3, RemoveMaps DEF Map!Next
    <3>4. CASE RemoveElem
      BY <1>2, <3>1, <3>4, RemoveElemMaps DEF Map!Next
    <3>5. CASE Start
      BY <1>2, <3>1, <3>5, StartMaps DEF Map!Next
    <3>6. CASE NextElem
      BY <1>2, <3>1, <3>6, NextElemMaps DEF Map!Next
    <3> QED
      BY <2>2, <3>2, <3>3, <3>4, <3>5, <3>6 DEF Next
  <2> QED
    BY <1>2, <2>1, <2>2
<1> QED
  BY <1>1, <1>2, InvAlways, PTL DEF Spec, MapSpec, Map!Spec


=============================================================================
