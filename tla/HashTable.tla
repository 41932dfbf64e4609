------------------------------ MODULE HashTable ------------------------------
(***************************************************************************)
(* The hash table behind server.clients and server.streams (hash.c): open  *)
(* addressing with linear probing, slots of removed elements marked as     *)
(* deleted, growth and shrinking to a new array of slots, and iteration    *)
(* by slot.                                                                *)
(*                                                                         *)
(* A slot holds FREE, DELETED or an element [key, value]. The hash that    *)
(* the code stores next to the key is the function Hash of it; different   *)
(* keys may have the same one.                                             *)
(***************************************************************************)
EXTENDS Integers, FiniteSets

CONSTANTS
  Key,
  Value,
  Hash,     \* int_hash, string_hash: a function from keys to hashes
  FREE,     \* UNIFIED_HASH_SLOT_FREE
  DELETED,  \* UNIFIED_HASH_SLOT_DELETED
  Capacities \* bound: capacities that resizing snaps to

ASSUME HashTableAssumption ==
  /\ IsFiniteSet(Key)
  /\ Hash \in [Key -> Nat \ {0}]
  /\ Capacities \subseteq Nat \ {0}
  /\ 5 \in Capacities
  /\ FREE # DELETED
  /\ {FREE, DELETED} \cap [key : Key, value : Value] = {}

\* The bound leaves a capacity for every growth that the keys can cause: snap_to_prime
\* always finds one.
ASSUME CapacitiesAssumption ==
  \A c \in Capacities : 4 * (Cardinality(Key) + 1) > 3 * c => \E d \in Capacities : d >= 2 * c

VARIABLES
  table,    \* unified_hash_t: [capacity, length, slots]
  cursor,   \* slot the running iteration is at, -1 when there is none
  visited,  \* history: the key found at the cursor, as a set; empty when idle
  out_of_bounds  \* an element was written outside of the array of slots

vars == <<table, cursor, visited, out_of_bounds>>

Element == [key : Key, value : Value]

Slots(t) == 0 .. t.capacity - 1

Occupied(t) == {i \in Slots(t) : t.slots[i] \notin {FREE, DELETED}}

Least(S) == CHOOSE n \in S : \A m \in S : n <= m

-----------------------------------------------------------------------------
(* Search *)

\* The slot that is looked at after o steps.
Probe(t, k, o) == (Hash[k] + o) % t.capacity

Holds(t, i, k) == i \in Occupied(t) /\ t.slots[i].key = k

\* Steps after which the probing ends: at the key or at a free slot. It is
\* aborted after capacity steps.
Ends(t, k) == {o \in 0 .. t.capacity : \/ Holds(t, Probe(t, k, o), k)
                                       \/ t.slots[Probe(t, k, o)] = FREE}

\* Mutant of Search: a deleted slot ends the probing.
SearchToDeleted(t, k) ==
  LET o == Least({p \in 0 .. t.capacity : \/ Holds(t, Probe(t, k, p), k)
                                          \/ t.slots[Probe(t, k, p)] \in {FREE, DELETED}})
      i == Probe(t, k, o)
  IN [found |-> Holds(t, i, k), index |-> i]

\* unified_hash_search. An index that stands for a key not found is encoded as
\* -(index + 1) in the code. The value returned when the probing was aborted
\* decodes to a slot whose address is the one in front of the array.
Search(t, k) ==
  IF Ends(t, k) = {}
  THEN [found |-> FALSE, index |-> -1]
  ELSE LET o       == Least(Ends(t, k))
           deleted == {p \in 0 .. o : t.slots[Probe(t, k, p)] = DELETED}
           found   == Holds(t, Probe(t, k, o), k)
       IN [found |-> found,
           index |-> IF found \/ deleted = {} THEN Probe(t, k, o)
                                              ELSE Probe(t, k, Least(deleted))]

-----------------------------------------------------------------------------
(* Put and resize *)

\* Mutant of Insert: an overwritten element is counted again.
InsertCounted(t, k, v) ==
  [t EXCEPT !.length = @ + 1,
            !.slots[Search(t, k).index] = [key |-> k, value |-> v]]

\* unified_hash_put_ptr behind the check of the load, and the write of the
\* value through the pointer it returns.
Insert(t, k, v) ==
  LET s == Search(t, k) IN
  [t EXCEPT !.length = IF s.found THEN @ ELSE @ + 1,
            !.slots  = [i \in Slots(t) |-> IF i = s.index THEN [key |-> k, value |-> v]
                                                          ELSE t.slots[i]]]

Empty(c) == [capacity |-> c, length |-> 0, slots |-> [i \in 0 .. c - 1 |-> FREE]]

\* unified_hash_resize: every element is put into a new array, slot by slot.
Resize(t, c) ==
  LET copied[n \in 0 .. t.capacity] ==
        IF n = 0 THEN Empty(c)
        ELSE IF n - 1 \in Occupied(t)
             THEN Insert(copied[n - 1], t.slots[n - 1].key, t.slots[n - 1].value)
             ELSE copied[n - 1]
  IN IF c < t.length THEN t ELSE copied[t.capacity]

\* snap_to_prime
Snap(x) == Least({c \in Capacities : c >= x})

\* The table when one more element fits into it, at a load of at most 3/4.
Grown(t) ==
  IF 4 * (t.length + 1) > 3 * t.capacity THEN Resize(t, Snap(2 * t.capacity)) ELSE t

\* The table when it is not too large for its elements, a load of at least 1/5.
Shrunk(t) ==
  IF 5 * t.length < t.capacity THEN Resize(t, Snap(t.capacity \div 2)) ELSE t

Idle == cursor = -1

\* hash_put, dict_put
Put(k, v) ==
  /\ Idle
  /\ table' = Insert(Grown(table), k, v)
  /\ out_of_bounds' = (Search(Grown(table), k).index = -1)
  /\ UNCHANGED <<cursor, visited>>

-----------------------------------------------------------------------------
(* Removal *)

\* Mutant of Deleted: the slot is given free at once.
DeletedAsFree(t, i) ==
  [t EXCEPT !.slots[i] = FREE, !.length = @ - 1]

Deleted(t, i) ==
  [t EXCEPT !.slots[i] = DELETED, !.length = @ - 1]

\* Mutant of Remove: the length is counted down for a missing key as well.
RemoveMissing(k) ==
  /\ Idle
  /\ table' = LET s == Search(table, k)
              IN IF s.found THEN Shrunk(Deleted(table, s.index))
                            ELSE [table EXCEPT !.length = @ - 1]
  /\ UNCHANGED <<cursor, visited, out_of_bounds>>

\* hash_remove, dict_remove
Remove(k) ==
  /\ Idle
  /\ Search(table, k).found
  /\ table' = Shrunk(Deleted(table, Search(table, k).index))
  /\ UNCHANGED <<cursor, visited, out_of_bounds>>

\* hash_remove_elem of the element an iteration is at, the way the server uses
\* it. The array stays, so the iteration can go on.
RemoveElem ==
  /\ cursor \in Occupied(table)
  /\ table' = Deleted(table, cursor)
  /\ UNCHANGED <<cursor, visited, out_of_bounds>>

-----------------------------------------------------------------------------
(* Iteration *)

\* unified_hash_element_at_or_after_slot
AtOrAfter(t, i) == {j \in Occupied(t) : j >= i}

\* The iteration goes to the first element at or after slot i, or it ends.
GoTo(i) ==
  LET rest == AtOrAfter(table, i) IN
  /\ cursor' = IF rest = {} THEN -1 ELSE Least(rest)
  /\ visited' = IF rest = {} THEN {} ELSE {table.slots[Least(rest)].key}
  /\ UNCHANGED <<table, out_of_bounds>>

\* hash_start
Start == Idle /\ Occupied(table) # {} /\ GoTo(0)

\* hash_next
NextElem == ~Idle /\ GoTo(cursor + 1)

-----------------------------------------------------------------------------
Init ==
  /\ table = Empty(5)
  /\ cursor = -1
  /\ visited = {}
  /\ out_of_bounds = FALSE

Next ==
  /\ ~out_of_bounds
  /\ \/ \E k \in Key : \/ \E v \in Value : Put(k, v)
                       \/ Remove(k)
     \/ RemoveElem
     \/ Start
     \/ NextElem

Spec == Init /\ [][Next]_vars

-----------------------------------------------------------------------------
(* Properties *)

\* The fields of unified_hash_t, the slots and the position of an iteration.
TypeOK ==
  /\ table.capacity \in Capacities
  /\ table.length \in 0 .. table.capacity
  /\ table.slots \in [Slots(table) -> Element \cup {FREE, DELETED}]
  /\ cursor \in {-1} \cup Slots(table)
  /\ visited \subseteq Key
  /\ out_of_bounds \in BOOLEAN

\* The length, which decides on growing and on the size of the pollfds array
\* (smeb.c:136), is the number of elements an iteration visits.
LengthExact == table.length = Cardinality(Occupied(table))

\* Whatever was removed, moved or put into the slots before it, each element
\* is found where it is, so it is in the table only once.
Findable ==
  \A i \in Occupied(table) :
    Search(table, table.slots[i].key) = [found |-> TRUE, index |-> i]

\* A search for a key that is not there ends at a free slot, as there always is
\* one: "the index of a free slot -1 is returned" (hash.c:164), "there should be
\* free slots in the hashmap" (hash.c:198).
SearchFindsSlot == \A k \in Key : Search(table, k).index \in Slots(table)

\* The table is the map that its users see, and an iteration visits each
\* element once, also when elements are removed on the way (smeb.c:174-211).
Stored == {table.slots[i] : i \in Occupied(table)}
Elements == {e.key : e \in Stored}
Map == INSTANCE KeyValueMap WITH
  map <- [k \in Elements |-> (CHOOSE e \in Stored : e.key = k).value],
  todo <- IF Idle THEN {} ELSE {table.slots[i].key : i \in AtOrAfter(table, cursor + 1)},
  visiting <- visited
MapSpec == Map!Spec

=============================================================================
