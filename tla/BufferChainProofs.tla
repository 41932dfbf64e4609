-------------------------- MODULE BufferChainProofs --------------------------
(***************************************************************************)
(* The pointers of the list of buffers are those of a queue of the nodes   *)
(* that are referenced, for any number of clients and clusters.            *)
(***************************************************************************)
EXTENDS BufferChain, StreamBuffersProofs, SetInduction

\* What a pointer may be.
Pointer == Cluster \cup {NULL}

\* The pointers of a list of the nodes of S, in their order. NULL is above all nodes.
Linked(first, final, prev, next, S) ==
  /\ S \subseteq Cluster
  /\ first \in S \cup {NULL} /\ \A k \in S : first <= k
  /\ final \in S \cup {NULL} /\ \A k \in S : final # NULL /\ k <= final
  /\ prev \in [Cluster -> Pointer] /\ next \in [Cluster -> Pointer]
  /\ \A n \in S : /\ next[n] \in S \cup {NULL} /\ n < next[n]
                  /\ \A k \in S : n < k => next[n] <= k
  /\ \A n \in S : /\ prev[n] \in S \cup {NULL} /\ (prev[n] # NULL => prev[n] < n)
                  /\ \A k \in S : k < n => prev[n] # NULL /\ k <= prev[n]
  /\ \A n \in Cluster \ S : next[n] = NULL /\ prev[n] = NULL

IsQueue(list, S) ==
  /\ list = [first |-> list.first, last |-> list.last, prev |-> list.prev, next |-> list.next]
  /\ Linked(list.first, list.last, list.prev, list.next, S)

-----------------------------------------------------------------------------
(* The operations of the list *)

\* Nodes are numbers, and NULL is none of them.
LEMMA Nodes == /\ MaxClusters \in Nat \ {0} /\ Cluster = 1 .. MaxClusters /\ NULL = MaxClusters + 1
               /\ \A n \in Cluster : n \in Nat /\ n < NULL /\ n # NULL
BY ConstantsAssumption DEF Cluster, NULL

\* A new list has no nodes.
LEMMA EmptyListIs == IsQueue(List!EmptyList, {})
<1> DEFINE none == [n \in Cluster |-> NULL]
<1>1. List!EmptyList = [first |-> NULL, last |-> NULL, prev |-> none, next |-> none]
  BY DEF List!EmptyList
<1>2. none \in [Cluster -> Pointer] /\ \A n \in Cluster : none[n] = NULL
  BY DEF Pointer
<1> HIDE DEF none
<1>3. Linked(NULL, NULL, none, none, {})
  BY <1>2 DEF Linked
<1> QED
  BY <1>1, <1>3 DEF IsQueue

\* A node that is newer than all others goes to the end.
LEMMA AppendIs ==
  ASSUME NEW list, NEW S, IsQueue(list, S), NEW node \in Cluster, \A k \in S : k < node
  PROVE  IsQueue(List!ListAppend(list, node), S \cup {node})
<1> DEFINE first == list.first
           final == list.last
           prev == list.prev
           next == list.next
           first2 == IF first = NULL THEN node ELSE first
           prev2 == [prev EXCEPT ![node] = final]
           next2 == [n \in Cluster |-> IF n = final THEN node ELSE next[n]]
<1>1. List!ListAppend(list, node) = [first |-> first2, last |-> node, prev |-> prev2, next |-> next2]
  BY DEF List!ListAppend
<1>2. Linked(first, final, prev, next, S)
  BY DEF IsQueue
<1> HIDE DEF first, final, prev, next
<1>3. /\ node \notin S /\ node \in Nat /\ node # NULL
      /\ \A k \in S : k \in Nat /\ k # NULL /\ k < node
  BY <1>2, Nodes DEF Linked
<1>4. /\ prev2 \in [Cluster -> Pointer] /\ next2 \in [Cluster -> Pointer]
      /\ prev2[node] = final /\ \A n \in Cluster \ {node} : prev2[n] = prev[n]
      /\ \A n \in Cluster \ {final} : next2[n] = next[n]
      /\ final \in Cluster => next2[final] = node
  BY <1>2 DEF Linked, Pointer
<1> HIDE DEF prev2, next2
<1> DEFINE T == S \cup {node}
<1>5. first2 \in T /\ \A k \in T : first2 <= k
  BY <1>2, <1>3, Nodes DEF Linked
<1>6. ASSUME NEW n \in T
      PROVE  /\ next2[n] \in T \cup {NULL} /\ n < next2[n]
             /\ \A k \in T : n < k => next2[n] <= k
  <2>1. CASE n = node
    <3>1. node # final /\ next2[node] = NULL
      BY <1>2, <1>3, <1>4, Nodes DEF Linked
    <3> QED
      BY <1>2, <1>3, <2>1, <3>1, Nodes DEF Linked
  <2>2. CASE n \in S /\ n = final
    BY <1>2, <1>3, <1>4, <2>2, Nodes DEF Linked
  <2>3. CASE n \in S /\ n # final
    <3>1. next2[n] = next[n] /\ next[n] # NULL
      <4>1. final \in S /\ n < final
        <5>1. final \in S \cup {NULL} /\ final # NULL /\ n <= final /\ S \subseteq Cluster
          BY <1>2, <2>3 DEF Linked
        <5> QED
          BY <2>3, <5>1, Nodes
      <4> QED
        BY <1>2, <1>4, <2>3, <4>1, Nodes DEF Linked
    <3>2. next[n] \in S /\ n < next[n] /\ \A k \in S : n < k => next[n] <= k
      BY <1>2, <2>3, <3>1 DEF Linked
    <3>3. next[n] < node /\ next[n] \in Nat
      BY <1>3, <3>2
    <3>4. \A k \in T : n < k => next[n] <= k
      BY <1>3, <3>2, <3>3
    <3> QED
      BY <3>1, <3>2, <3>4
  <2> QED
    BY <2>1, <2>2, <2>3
<1>7. ASSUME NEW n \in T
      PROVE  /\ prev2[n] \in T \cup {NULL} /\ (prev2[n] # NULL => prev2[n] < n)
             /\ \A k \in T : k < n => prev2[n] # NULL /\ k <= prev2[n]
  <2>1. CASE n = node
    <3>1. /\ S \subseteq Cluster /\ final \in S \cup {NULL}
          /\ \A k \in S : final # NULL /\ k <= final
      BY <1>2 DEF Linked
    <3>2. prev2[n] = final
      BY <1>4, <2>1
    <3>3. \A k \in T : k < n => k \in S
      BY <1>3, <2>1
    <3>4. final # NULL => final < node
      BY <1>3, <3>1
    <3> QED
      BY <2>1, <3>1, <3>2, <3>3, <3>4
  <2>2. CASE n \in S
    <3>1. prev2[n] = prev[n]
      BY <1>2, <1>3, <1>4, <2>2 DEF Linked
    <3>2. /\ prev[n] \in S \cup {NULL} /\ (prev[n] # NULL => prev[n] < n)
          /\ \A k \in S : k < n => prev[n] # NULL /\ k <= prev[n]
      BY <1>2, <2>2 DEF Linked
    <3>3. ~(node < n)
      BY <1>3, <2>2
    <3> QED
      BY <3>1, <3>2, <3>3
  <2> QED
    BY <2>1, <2>2
<1>8. \A n \in Cluster \ T : next2[n] = NULL /\ prev2[n] = NULL
  BY <1>2, <1>3, <1>4, Nodes DEF Linked
<1>9. \A k \in T : node # NULL /\ k <= node
  BY <1>2, <1>3 DEF Linked
<1>10. Linked(first2, node, prev2, next2, T)
  <2> HIDE DEF first2
  <2> QED
    BY <1>2, <1>4, <1>5, <1>6, <1>7, <1>8, <1>9 DEF Linked
<1> HIDE DEF first2, T
<1> QED
  BY <1>1, <1>10 DEF IsQueue, T

\* The neighbours of a node: nothing of the list is between them.
LEMMA Neighbours ==
  ASSUME NEW first, NEW final, NEW prev, NEW next, NEW S, Linked(first, final, prev, next, S)
  PROVE  /\ S \subseteq Cluster /\ \A k \in S : k \in Nat /\ k \in Cluster /\ k # NULL
         /\ \A n \in S : /\ next[n] = NULL \/ (next[n] \in S /\ n < next[n])
                         /\ prev[n] = NULL \/ (prev[n] \in S /\ prev[n] < n)
                         /\ next[n] \in Nat
         /\ \A n, k \in S : /\ n < k => next[n] \in S /\ next[n] <= k
                            /\ k < n => prev[n] \in S /\ k <= prev[n]
<1>1. /\ S \subseteq Cluster
      /\ \A n \in S : /\ next[n] \in S \cup {NULL} /\ n < next[n]
                      /\ \A k \in S : n < k => next[n] <= k
      /\ \A n \in S : /\ prev[n] \in S \cup {NULL} /\ (prev[n] # NULL => prev[n] < n)
                      /\ \A k \in S : k < n => prev[n] # NULL /\ k <= prev[n]
  BY DEF Linked
<1>2. \A k \in S : k \in Nat /\ k \in Cluster /\ k # NULL /\ k < NULL
  BY <1>1, Nodes
<1>3. NULL \in Nat
  BY Nodes
<1>4. \A n \in S : next[n] \in Nat
  BY <1>1, <1>2, <1>3
<1>5. ASSUME NEW n \in S, NEW k \in S, n < k PROVE next[n] \in S /\ next[n] <= k
  <2>1. next[n] <= k /\ k < NULL /\ next[n] \in Nat /\ k \in Nat
    BY <1>1, <1>2, <1>4, <1>5
  <2>2. next[n] # NULL
    BY <1>3, <2>1
  <2> QED
    BY <1>1, <2>1, <2>2
<1> QED
  BY <1>1, <1>2, <1>4, <1>5

\* The removal of a node in front.
LEMMA RemoveFirstIs ==
  ASSUME NEW list, NEW S, IsQueue(list, S), S # {}
  PROVE  list.first \in S /\ IsQueue(List!ListRemoveFirst(list), S \ {list.first})
<1> DEFINE node == list.first
           final == list.last
           prev == list.prev
           next == list.next
           after == next[node]
           final2 == IF final = node THEN NULL ELSE final
           prev2 == [n \in Cluster |-> IF n \in {node, after} THEN NULL ELSE prev[n]]
           next2 == [next EXCEPT ![node] = NULL]
           T == S \ {node}
<1>1. List!ListRemoveFirst(list) = [first |-> after, last |-> final2, prev |-> prev2, next |-> next2]
  BY DEF List!ListRemoveFirst
<1>2. Linked(node, final, prev, next, S)
  BY DEF IsQueue
<1> HIDE DEF node, final, prev, next
<1>3. /\ S \subseteq Cluster /\ \A k \in S : k \in Nat /\ k \in Cluster /\ k # NULL
      /\ \A n \in S : /\ next[n] = NULL \/ (next[n] \in S /\ n < next[n])
                      /\ prev[n] = NULL \/ (prev[n] \in S /\ prev[n] < n)
                      /\ next[n] \in Nat
      /\ \A n, k \in S : /\ n < k => next[n] \in S /\ next[n] <= k
                         /\ k < n => prev[n] \in S /\ k <= prev[n]
  BY <1>2, Neighbours
<1>4. node \in S /\ \A k \in S : node <= k
  <2>1. node \in S \cup {NULL} /\ \A k \in S : node <= k
    BY <1>2 DEF Linked
  <2>2. PICK k \in S : TRUE
    OBVIOUS
  <2>3. node <= k /\ k \in Nat /\ k < NULL
    BY <1>3, <2>1, Nodes
  <2>4. node # NULL
    BY <2>3, Nodes
  <2> QED
    BY <2>1, <2>4
<1>5. after = NULL \/ (after \in T /\ node < after)
  BY <1>3, <1>4
<1>6. /\ prev2 \in [Cluster -> Pointer] /\ next2 \in [Cluster -> Pointer]
      /\ \A n \in Cluster : prev2[n] = IF n \in {node, after} THEN NULL ELSE prev[n]
      /\ \A n \in Cluster : next2[n] = IF n = node THEN NULL ELSE next[n]
  BY <1>2 DEF Linked, Pointer
<1> HIDE DEF prev2, next2
<1>7. \A k \in T : node < k /\ after \in T /\ after <= k
  <2>1. \A k \in T : k \in S /\ node < k
    BY <1>3, <1>4
  <2>2. \A k \in T : after \in S /\ after <= k
    BY <1>3, <1>4, <2>1
  <2>3. \A k \in S : k # NULL
    BY <1>3
  <2> HIDE DEF after
  <2> QED
    BY <1>5, <2>1, <2>2, <2>3
<1>8. after \in T \cup {NULL} /\ \A k \in T : after <= k
  BY <1>5, <1>7
<1>9. final2 \in T \cup {NULL} /\ \A k \in T : final2 # NULL /\ k <= final2
  <2>1. final \in S \cup {NULL} /\ \A k \in S : final # NULL /\ k <= final
    BY <1>2 DEF Linked
  <2>2. CASE final = node
    <3>1. \A k \in T : FALSE
      BY <1>3, <1>4, <1>7, <2>1, <2>2
    <3> QED
      BY <2>2, <3>1
  <2>3. CASE final # node
    BY <2>1, <2>3
  <2> QED
    BY <2>2, <2>3
<1>10. ASSUME NEW n \in T
       PROVE  /\ next2[n] \in T \cup {NULL} /\ n < next2[n]
              /\ \A k \in T : n < k => next2[n] <= k
  <2>1. n \in S /\ n # node /\ n \in Cluster /\ node < n /\ next2[n] = next[n]
    BY <1>3, <1>6, <1>7
  <2>2. next[n] # node
    BY <1>3, <1>4, <2>1
  <2>3. n < next[n]
    BY <1>2, <2>1 DEF Linked
  <2> QED
    BY <1>3, <2>1, <2>2, <2>3
<1>11. ASSUME NEW n \in T
       PROVE  /\ prev2[n] \in T \cup {NULL} /\ (prev2[n] # NULL => prev2[n] < n)
              /\ \A k \in T : k < n => prev2[n] # NULL /\ k <= prev2[n]
  <2>1. n \in S /\ n # node /\ n \in Cluster /\ node < n /\ after \in S /\ after <= n
    BY <1>3, <1>7
  <2>2. CASE n = after
    <3>1. prev2[n] = NULL /\ \A k \in T : ~(k < n)
      BY <1>3, <1>6, <1>7, <2>1, <2>2
    <3> QED
      BY <3>1
  <2>3. CASE n # after
    <3>0. after \in Nat /\ n \in Nat /\ after <= n
      BY <1>3, <2>1
    <3>9. after < n
      <4> HIDE DEF after
      <4> QED
        BY <2>3, <3>0
    <3>8. prev2[n] = prev[n]
      BY <1>6, <2>1, <2>3
    <3>1. prev2[n] = prev[n] /\ after < n
      BY <3>8, <3>9
    <3>2. prev[n] \in S /\ after <= prev[n]
      BY <1>3, <2>1, <3>1
    <3>3. prev[n] # node
      <4>1. node < after /\ node \in Nat /\ after \in Nat
        BY <1>3, <1>4, <1>7, <2>1
      <4> HIDE DEF after
      <4> QED
        BY <3>2, <4>1
    <3>4. prev[n] # NULL /\ prev[n] < n
      BY <1>3, <2>1, <3>2
    <3> QED
      BY <1>3, <2>1, <3>1, <3>2, <3>3, <3>4
  <2> QED
    BY <2>2, <2>3
<1>12. \A n \in Cluster \ T : next2[n] = NULL /\ prev2[n] = NULL
  BY <1>2, <1>6 DEF Linked
<1>13. Linked(after, final2, prev2, next2, T)
  <2> HIDE DEF after, final2
  <2> QED
    BY <1>3, <1>6, <1>8, <1>9, <1>10, <1>11, <1>12 DEF Linked
<1> HIDE DEF after, final2, T
<1> QED
  BY <1>1, <1>4, <1>13 DEF IsQueue, T, node

\* The removal of a node at the end.
LEMMA RemoveLastIs ==
  ASSUME NEW list, NEW S, IsQueue(list, S), S # {}
  PROVE  list.last \in S /\ IsQueue(List!ListRemoveLast(list), S \ {list.last})
<1> DEFINE node == list.last
           first == list.first
           prev == list.prev
           next == list.next
           before == prev[node]
           first2 == IF first = node THEN NULL ELSE first
           prev2 == [prev EXCEPT ![node] = NULL]
           next2 == [n \in Cluster |-> IF n \in {node, before} THEN NULL ELSE next[n]]
           T == S \ {node}
<1>1. List!ListRemoveLast(list) = [first |-> first2, last |-> before, prev |-> prev2, next |-> next2]
  BY DEF List!ListRemoveLast
<1>2. Linked(first, node, prev, next, S)
  BY DEF IsQueue
<1> HIDE DEF node, first, prev, next
<1>3. /\ S \subseteq Cluster /\ \A k \in S : k \in Nat /\ k \in Cluster /\ k # NULL
      /\ \A n \in S : /\ next[n] = NULL \/ (next[n] \in S /\ n < next[n])
                      /\ prev[n] = NULL \/ (prev[n] \in S /\ prev[n] < n)
                      /\ next[n] \in Nat
      /\ \A n, k \in S : /\ n < k => next[n] \in S /\ next[n] <= k
                         /\ k < n => prev[n] \in S /\ k <= prev[n]
  BY <1>2, Neighbours
<1>4. node \in S /\ \A k \in S : k <= node
  <2>1. node \in S \cup {NULL} /\ \A k \in S : node # NULL /\ k <= node
    BY <1>2 DEF Linked
  <2> QED
    BY <2>1
<1>5. before = NULL \/ (before \in T /\ before < node)
  BY <1>3, <1>4
<1>6. /\ prev2 \in [Cluster -> Pointer] /\ next2 \in [Cluster -> Pointer]
      /\ \A n \in Cluster : next2[n] = IF n \in {node, before} THEN NULL ELSE next[n]
      /\ \A n \in Cluster : prev2[n] = IF n = node THEN NULL ELSE prev[n]
  BY <1>2 DEF Linked, Pointer
<1> HIDE DEF prev2, next2
<1>7. \A k \in T : k < node /\ before \in T /\ before # NULL /\ k <= before
  <2>1. \A k \in T : k \in S /\ k < node
    BY <1>3, <1>4
  <2>2. \A k \in T : before \in S /\ k <= before
    BY <1>3, <1>4, <2>1
  <2>3. \A k \in S : k # NULL
    BY <1>3
  <2> HIDE DEF before
  <2> QED
    BY <1>5, <2>1, <2>2, <2>3
<1>8. before \in T \cup {NULL} /\ \A k \in T : before # NULL /\ k <= before
  <2> HIDE DEF before, T
  <2> QED
    BY <1>5, <1>7
<1>9. first2 \in T \cup {NULL} /\ \A k \in T : first2 <= k
  <2>1. first \in S \cup {NULL} /\ \A k \in S : first <= k
    BY <1>2 DEF Linked
  <2>2. CASE first = node
    <3>1. \A k \in T : FALSE
      BY <1>3, <1>4, <1>7, <2>1, <2>2
    <3> QED
      BY <2>2, <3>1
  <2>3. CASE first # node
    BY <2>1, <2>3
  <2> QED
    BY <2>2, <2>3
<1>10. ASSUME NEW n \in T
       PROVE  /\ next2[n] \in T \cup {NULL} /\ n < next2[n]
              /\ \A k \in T : n < k => next2[n] <= k
  <2>1. n \in S /\ n # node /\ n \in Cluster /\ n < node /\ before \in S /\ n <= before
    BY <1>3, <1>7
  <2>2. CASE n = before
    <3>1. next2[n] = NULL
      BY <1>6, <2>1, <2>2
    <3>2. \A k \in T : ~(n < k)
      <4>1. \A k \in T : k <= n /\ k \in Nat
        BY <1>3, <1>7, <2>2
      <4>2. n \in Nat
        BY <1>3, <2>1
      <4> HIDE DEF T
      <4> QED
        BY <4>1, <4>2
    <3>3. n < NULL
      BY <2>1, Nodes
    <3> QED
      BY <3>1, <3>2, <3>3
  <2>3. CASE n # before
    <3>0. before \in Nat /\ n \in Nat /\ n <= before
      BY <1>3, <2>1
    <3>1. n < before
      <4> HIDE DEF before
      <4> QED
        BY <2>3, <3>0
    <3>2. next2[n] = next[n]
      BY <1>6, <2>1, <2>3
    <3>3. next[n] \in S /\ next[n] <= before
      <4> HIDE DEF before
      <4> QED
        BY <1>3, <2>1, <3>1
    <3>4. next[n] # node
      <4>1. before < node /\ node \in Nat
        BY <1>3, <1>4, <1>7, <2>1
      <4> HIDE DEF before
      <4> QED
        BY <3>0, <3>3, <4>1
    <3>5. n < next[n]
      BY <1>3, <2>1, <3>3
    <3> QED
      BY <1>3, <2>1, <3>2, <3>3, <3>4, <3>5
  <2> QED
    BY <2>2, <2>3
<1>11. ASSUME NEW n \in T
       PROVE  /\ prev2[n] \in T \cup {NULL} /\ (prev2[n] # NULL => prev2[n] < n)
              /\ \A k \in T : k < n => prev2[n] # NULL /\ k <= prev2[n]
  <2>1. n \in S /\ n # node /\ n \in Cluster /\ n < node /\ prev2[n] = prev[n]
    BY <1>3, <1>6, <1>7
  <2>2. prev[n] # node
    BY <1>3, <1>4, <2>1
  <2>3. \A k \in S : k < n => prev[n] \in S /\ k <= prev[n]
    BY <1>3, <2>1
  <2> QED
    BY <1>3, <2>1, <2>2, <2>3
<1>12. \A n \in Cluster \ T : next2[n] = NULL /\ prev2[n] = NULL
  BY <1>2, <1>6 DEF Linked
<1>13. Linked(first2, before, prev2, next2, T)
  <2> HIDE DEF before, first2
  <2> QED
    BY <1>3, <1>6, <1>8, <1>9, <1>10, <1>11, <1>12 DEF Linked
<1> HIDE DEF before, first2, T
<1> QED
  BY <1>1, <1>4, <1>13 DEF IsQueue, T, node

\* The removal of any node of the list.
LEMMA RemoveIs ==
  ASSUME NEW list, NEW S, IsQueue(list, S), NEW node \in S
  PROVE  IsQueue(List!ListRemove(list, node), S \ {node})
<1>1. CASE node = list.first
  BY <1>1, RemoveFirstIs DEF List!ListRemove
<1>2. CASE node # list.first /\ node = list.last
  BY <1>2, RemoveLastIs DEF List!ListRemove
<1>3. CASE node # list.first /\ node # list.last
  <2> DEFINE first == list.first
             final == list.last
             prev == list.prev
             next == list.next
             before == prev[node]
             after == next[node]
             next2 == [n \in Cluster |-> IF n = before THEN after ELSE IF n = node THEN NULL ELSE next[n]]
             prev2 == [n \in Cluster |-> IF n = after THEN before ELSE IF n = node THEN NULL ELSE prev[n]]
             T == S \ {node}
  <2>1. List!ListRemove(list, node) = [first |-> first, last |-> final, prev |-> prev2, next |-> next2]
    <3>1. list = [first |-> first, last |-> final, prev |-> prev, next |-> next]
      BY DEF IsQueue
    <3>2. List!ListRemove(list, node) = [list EXCEPT !.next = next2, !.prev = prev2]
      BY <1>3 DEF List!ListRemove
    <3> HIDE DEF first, final, prev, next, next2, prev2
    <3> QED
      BY <3>1, <3>2
  <2>2. Linked(first, final, prev, next, S) /\ node # first /\ node # final
    BY <1>3 DEF IsQueue
  <2> HIDE DEF first, final, prev, next
  <2>3. /\ S \subseteq Cluster /\ \A k \in S : k \in Nat /\ k \in Cluster /\ k # NULL
        /\ \A n \in S : /\ next[n] = NULL \/ (next[n] \in S /\ n < next[n])
                        /\ prev[n] = NULL \/ (prev[n] \in S /\ prev[n] < n)
                        /\ next[n] \in Nat
        /\ \A n, k \in S : /\ n < k => next[n] \in S /\ next[n] <= k
                           /\ k < n => prev[n] \in S /\ k <= prev[n]
    BY <2>2, Neighbours
  <2>4. /\ first \in S \cup {NULL} /\ \A k \in S : first <= k
        /\ final \in S \cup {NULL} /\ \A k \in S : final # NULL /\ k <= final
        /\ prev \in [Cluster -> Pointer] /\ next \in [Cluster -> Pointer]
        /\ \A n \in Cluster \ S : next[n] = NULL /\ prev[n] = NULL
    BY <2>2 DEF Linked
  <2>5. first \in S /\ final \in S /\ first < node /\ node < final
    <3>1. final \in S /\ node < final
      BY <2>2, <2>3, <2>4
    <3>2. first # NULL
      BY <2>3, <2>4, Nodes
    <3> QED
      BY <2>2, <2>3, <2>4, <3>1, <3>2
  <2>6. before \in S /\ before < node /\ after \in S /\ node < after
    BY <2>3, <2>5
  <2>7. before \in Nat /\ node \in Nat /\ after \in Nat /\ before \in Cluster /\ after \in Cluster
    BY <2>3, <2>6
  <2>8. /\ prev2 \in [Cluster -> Pointer] /\ next2 \in [Cluster -> Pointer]
        /\ \A n \in Cluster : next2[n] = IF n = before THEN after ELSE IF n = node THEN NULL ELSE next[n]
        /\ \A n \in Cluster : prev2[n] = IF n = after THEN before ELSE IF n = node THEN NULL ELSE prev[n]
    <3> HIDE DEF before, after
    <3> QED
      BY <2>4, <2>7 DEF Pointer
  <2> HIDE DEF prev2, next2, before, after
  <2>9. before \in T /\ after \in T /\ first \in T /\ final \in T
    BY <2>2, <2>5, <2>6, <2>7
  <2>10. \A k \in S : (k < node => k <= before) /\ (node < k => after <= k)
    BY <2>3 DEF before, after
  <2>11. ASSUME NEW n \in T
         PROVE  /\ next2[n] \in T \cup {NULL} /\ n < next2[n]
                /\ \A k \in T : n < k => next2[n] <= k
    <3>1. n \in S /\ n \in Nat /\ n # node /\ n \in Cluster
      BY <2>3
    <3>2. CASE n = before
      <4>1. next2[n] = after
        BY <2>8, <3>1, <3>2
      <4>2. \A k \in T : n < k => after <= k
        <5> SUFFICES ASSUME NEW k \in T, n < k PROVE after <= k
          OBVIOUS
        <5>1. k \in S /\ k \in Nat /\ k # node /\ (k < node => k <= before)
          BY <2>3, <2>10
        <5>2. node < k
          BY <2>7, <3>1, <3>2, <5>1
        <5> QED
          BY <2>10, <5>1, <5>2
      <4>3. n < after
        BY <2>6, <2>7, <3>2
      <4> QED
        BY <2>9, <4>1, <4>2, <4>3
    <3>3. CASE n # before
      <4>1. next2[n] = next[n]
        BY <2>8, <3>1, <3>3
      <4>2. next[n] # node
        <5> SUFFICES ASSUME next[n] = node PROVE FALSE
          OBVIOUS
        <5>1. n < node
          BY <2>3, <3>1
        <5>2. n <= before
          BY <2>10, <3>1, <5>1
        <5>3. n < before
          BY <2>7, <3>1, <3>3, <5>2
        <5>4. node <= before
          BY <2>3, <2>6, <3>1, <5>3
        <5> QED
          BY <2>6, <2>7, <5>4
      <4>3. /\ next[n] = NULL \/ next[n] \in S
            /\ \A k \in T : n < k => next[n] <= k
        BY <2>3, <3>1
      <4>4. n < next[n]
        BY <2>2, <3>1 DEF Linked
      <4> QED
        BY <4>1, <4>2, <4>3, <4>4
    <3> QED
      BY <3>2, <3>3
  <2>12. ASSUME NEW n \in T
         PROVE  /\ prev2[n] \in T \cup {NULL} /\ (prev2[n] # NULL => prev2[n] < n)
                /\ \A k \in T : k < n => prev2[n] # NULL /\ k <= prev2[n]
    <3>1. n \in S /\ n \in Nat /\ n # node /\ n \in Cluster
      BY <2>3
    <3>2. CASE n = after
      <4>1. prev2[n] = before
        BY <2>8, <3>1, <3>2
      <4>2. \A k \in T : k < n => k <= before
        <5> SUFFICES ASSUME NEW k \in T, k < n PROVE k <= before
          OBVIOUS
        <5>1. k \in S /\ k \in Nat /\ k # node /\ (node < k => after <= k)
          BY <2>3, <2>10
        <5>2. k < node
          BY <2>7, <3>1, <3>2, <5>1
        <5> QED
          BY <2>10, <5>1, <5>2
      <4>3. before < n /\ before # NULL
        BY <2>3, <2>6, <2>7, <3>2
      <4> QED
        BY <2>9, <4>1, <4>2, <4>3
    <3>3. CASE n # after
      <4>1. prev2[n] = prev[n]
        BY <2>8, <3>1, <3>3
      <4>2. prev[n] # node
        <5> SUFFICES ASSUME prev[n] = node PROVE FALSE
          OBVIOUS
        <5>1. node < n
          BY <2>3, <3>1
        <5>2. after <= n
          BY <2>10, <3>1, <5>1
        <5>3. after < n
          BY <2>7, <3>1, <3>3, <5>2
        <5>4. after <= node
          BY <2>3, <2>6, <3>1, <5>3
        <5> QED
          BY <2>6, <2>7, <5>4
      <4>3. /\ prev[n] = NULL \/ (prev[n] \in S /\ prev[n] < n)
            /\ \A k \in T : k < n => prev[n] # NULL /\ k <= prev[n]
        BY <2>3, <3>1
      <4> QED
        BY <4>1, <4>2, <4>3
    <3> QED
      BY <3>2, <3>3
  <2>13. \A n \in Cluster \ T : next2[n] = NULL /\ prev2[n] = NULL
    <3> SUFFICES ASSUME NEW n \in Cluster \ T PROVE next2[n] = NULL /\ prev2[n] = NULL
      OBVIOUS
    <3>1. n # before /\ n # after
      BY <2>9
    <3>2. CASE n = node
      BY <2>8, <3>1, <3>2
    <3>3. CASE n # node
      BY <2>4, <2>8, <3>1, <3>3
    <3> QED
      BY <3>2, <3>3
  <2>14. Linked(first, final, prev2, next2, T)
    BY <2>3, <2>4, <2>8, <2>9, <2>11, <2>12, <2>13 DEF Linked
  <2> HIDE DEF T
  <2> QED
    BY <2>1, <2>14 DEF IsQueue, T
<1> QED
  BY <1>1, <1>2, <1>3

-----------------------------------------------------------------------------
(* The way along the next pointers *)

Following(next, p) == IF p = NULL THEN NULL ELSE next[p]

\* at goes along the next pointers, from node on.
Walk(at, next, node) ==
  /\ at[0] = node
  /\ \A i \in 1 .. MaxClusters : at[i] = Following(next, at[i - 1])

Visited(at) == {at[i] : i \in 0 .. MaxClusters} \ {NULL}

\* The recursion of NodesFrom has a solution.
LEMMA NodesFromWalk ==
  ASSUME NEW list, list.next \in [Cluster -> Pointer], NEW node \in Pointer
  PROVE  \E at : Walk(at, list.next, node) /\ List!NodesFrom(list, node) = Visited(at)
<1> DEFINE next == list.next
           step == [x \in (1 .. MaxClusters) \X Pointer |-> Following(next, x[2])]
           Body(f, i) == IF i = 0 THEN node ELSE IF f[i - 1] = NULL THEN NULL ELSE next[f[i - 1]]
<1>1. MaxClusters \in Nat /\ Cardinality(Cluster) = MaxClusters
  BY Nodes, FS_Interval
<1>2. step \in [(1 .. MaxClusters) \X Pointer -> Pointer]
  <2> SUFFICES ASSUME NEW x \in (1 .. MaxClusters) \X Pointer
               PROVE  Following(next, x[2]) \in Pointer
    OBVIOUS
  <2>1. x[2] \in Pointer
    OBVIOUS
  <2> QED
    BY <2>1 DEF Following, Pointer
<1>3. PICK f \in [0 .. MaxClusters -> Pointer] :
        f[0] = node /\ \A i \in 1 .. MaxClusters : f[i] = step[<<i, f[i - 1]>>]
  <2> HIDE DEF step
  <2>1. \E f \in [0 .. MaxClusters -> Pointer] : Recursive(f, MaxClusters, node, step)
    BY <1>1, <1>2, Recursion, ZenonT(30)
  <2> QED
    BY <2>1 DEF Recursive
<1>4. \A i \in 0 .. MaxClusters : f[i] = Body(f, i)
  <2> SUFFICES ASSUME NEW i \in 0 .. MaxClusters, i # 0 PROVE f[i] = Body(f, i)
    BY <1>3
  <2>1. i \in 1 .. MaxClusters /\ i - 1 \in 0 .. MaxClusters
    BY <1>1
  <2>2. f[i - 1] \in Pointer
    BY <2>1
  <2> DEFINE x == <<i, f[i - 1]>>
  <2>3. x \in (1 .. MaxClusters) \X Pointer /\ x[1] = i /\ x[2] = f[i - 1]
    BY <2>1, <2>2
  <2>4. step[x] = Following(next, f[i - 1])
    <3> HIDE DEF x
    <3> QED
      BY <2>3
  <2> QED
    BY <1>3, <2>1, <2>4 DEF Following
<1> DEFINE K == Cardinality(Cluster)
           at == CHOOSE g : g = [i \in 0 .. K |-> Body(g, i)]
<1>5. \E g : g = [i \in 0 .. K |-> Body(g, i)]
  <2>1. K = MaxClusters
    BY <1>1
  <2> HIDE DEF K
  <2>2. f = [i \in 0 .. K |-> f[i]]
    BY <2>1
  <2>3. \A i \in 0 .. K : f[i] = Body(f, i)
    BY <1>4, <2>1
  <2>4. f = [i \in 0 .. K |-> Body(f, i)]
    <3> HIDE DEF Body
    <3> QED
      BY <2>2, <2>3
  <2> QED
    BY <2>4
<1>6. at = [i \in 0 .. MaxClusters |-> Body(at, i)]
  <2>1. at = [i \in 0 .. K |-> Body(at, i)]
    <3> HIDE DEF K
    <3> QED
      BY <1>5, Zenon
  <2> HIDE DEF at
  <2> QED
    BY <1>1, <2>1
<1>7. List!NodesFrom(list, node) = {at[i] : i \in 0 .. MaxClusters} \ {NULL}
  <2>0. List!Cardinality(Cluster) = Cardinality(Cluster)
    BY DEF List!Cardinality, Cardinality
  <2>1. List!NodesFrom(list, node) = {at[i] : i \in 0 .. K} \ {NULL}
    BY <2>0, Zenon DEF List!NodesFrom
  <2> HIDE DEF at
  <2> QED
    BY <1>1, <2>1
<1> HIDE DEF at
<1>8. Walk(at, next, node)
  <2>1. \A i \in 0 .. MaxClusters : at[i] = Body(at, i)
    BY <1>6
  <2>2. \A i \in 1 .. MaxClusters : i \in 0 .. MaxClusters /\ i # 0
    BY <1>1
  <2>3. 0 \in 0 .. MaxClusters
    BY <1>1
  <2> QED
    BY <2>1, <2>2, <2>3 DEF Walk, Following
<1> QED
  BY <1>7, <1>8 DEF Visited

\* From a node of the list on, and from NULL on, the way leads to all later nodes.
LEMMA NodesFromIs ==
  ASSUME NEW list, NEW S, IsQueue(list, S), NEW node \in S \cup {NULL}
  PROVE  List!NodesFrom(list, node) = {n \in S : n >= node}
<1> DEFINE next == list.next
<1>1. Linked(list.first, list.last, list.prev, next, S)
  BY DEF IsQueue
<1>2. next \in [Cluster -> Pointer] /\ node \in Pointer
  BY <1>1 DEF Linked, Pointer
<1>3. PICK at : Walk(at, next, node) /\ List!NodesFrom(list, node) = Visited(at)
  BY <1>2, NodesFromWalk
<1>4. /\ \A k \in S : k \in Nat /\ k \in Cluster /\ k # NULL /\ k < NULL
      /\ \A n \in S : next[n] \in S \cup {NULL} /\ n < next[n]
      /\ \A n, k \in S : n < k => next[n] <= k
  BY <1>1, Nodes DEF Linked
<1> HIDE DEF next
<1>5. /\ MaxClusters \in Nat /\ NULL = MaxClusters + 1 /\ NULL \in Nat
      /\ \A k \in S \cup {NULL} : k \in Nat /\ 1 <= k /\ k <= NULL
  BY <1>4, Nodes
<1> DEFINE Reached(i) ==
             /\ at[i] \in S \cup {NULL} /\ node <= at[i] /\ i + 1 <= at[i]
             /\ \A n \in S : node <= n /\ n < at[i] => \E j \in 0 .. i : at[j] = n
           D == {i \in Nat : i <= MaxClusters => Reached(i)}
<1>6. 0 \in D
  <2>1. at[0] = node
    BY <1>3 DEF Walk
  <2>2. \A n \in S : ~(node <= n /\ n < node)
    BY <1>5
  <2> QED
    BY <1>5, <2>1, <2>2
<1>7. ASSUME NEW i \in Nat, i \in D PROVE i + 1 \in D
  <2> SUFFICES ASSUME i + 1 <= MaxClusters PROVE Reached(i + 1)
    OBVIOUS
  <2>1. Reached(i)
    BY <1>5, <1>7
  <2>2. at[i + 1] = Following(next, at[i])
    <3>1. i + 1 \in 1 .. MaxClusters /\ (i + 1) - 1 = i
      BY <1>5
    <3> QED
      BY <1>3, <3>1 DEF Walk
  <2> DEFINE here == at[i]
             there == at[i + 1]
  <2>3. /\ here \in S \cup {NULL} /\ node <= here /\ i + 1 <= here /\ here \in Nat /\ node \in Nat
        /\ \A n \in S : node <= n /\ n < here => \E j \in 0 .. i : at[j] = n
    BY <1>5, <2>1
  <2>4. \A j \in 0 .. i : j \in 0 .. i + 1
    BY <1>5
  <2>5. CASE here = NULL
    <3>1. there = NULL
      BY <2>2, <2>5 DEF Following
    <3>2. i + 2 <= NULL /\ node <= NULL
      BY <1>5, <2>3
    <3>3. \A n \in S : node <= n /\ n < NULL => \E j \in 0 .. i + 1 : at[j] = n
      BY <2>3, <2>4, <2>5
    <3> QED
      BY <3>1, <3>2, <3>3
  <2>6. CASE here \in S
    <3>1. there = next[here] /\ there \in S \cup {NULL} /\ here < there
      BY <1>4, <1>5, <2>2, <2>6 DEF Following
    <3>2. there \in Nat
      BY <1>5, <3>1
    <3> HIDE DEF here, there
    <3>3. node <= there /\ i + 2 <= there
      BY <2>3, <3>1, <3>2
    <3>4. ASSUME NEW n \in S, node <= n, n < there PROVE \E j \in 0 .. i + 1 : at[j] = n
      <4>1. n \in Nat /\ ~(here < n)
        <5>1. n \in Nat
          BY <1>5
        <5>2. here < n => there <= n
          BY <1>4, <2>6, <3>1
        <5> QED
          BY <2>3, <3>2, <3>4, <5>1, <5>2
      <4>2. CASE n < here
        BY <2>3, <2>4, <3>4, <4>2
      <4>3. CASE n = here
        <5>1. i \in 0 .. i + 1
          OBVIOUS
        <5> QED
          BY <4>3, <5>1 DEF here
      <4> QED
        BY <2>3, <4>1, <4>2, <4>3
    <3>5. i + 1 + 1 <= there
      BY <3>2, <3>3
    <3> QED
      BY <3>1, <3>3, <3>4, <3>5 DEF there
  <2> QED
    BY <2>3, <2>5, <2>6
<1>8. \A i \in 0 .. MaxClusters : Reached(i)
  <2>1. Nat \subseteq D
    <3> HIDE DEF D
    <3> QED
      BY <1>6, <1>7, SetInduction
  <2> QED
    BY <1>5, <2>1
<1>9. ASSUME NEW n \in Visited(at) PROVE n \in S /\ n >= node
  <2>1. PICK i \in 0 .. MaxClusters : n = at[i]
    BY DEF Visited
  <2> QED
    BY <1>5, <1>8, <2>1 DEF Visited
<1>10. ASSUME NEW n \in S, n >= node PROVE n \in Visited(at)
  <2>1. MaxClusters \in 0 .. MaxClusters
    BY <1>5
  <2>2. Reached(MaxClusters)
    BY <1>8, <2>1
  <2>3. at[MaxClusters] = NULL
    BY <1>5, <2>2
  <2>4. PICK j \in 0 .. MaxClusters : at[j] = n
    BY <1>4, <1>5, <1>10, <2>2, <2>3
  <2> QED
    BY <1>4, <2>4 DEF Visited
<1> QED
  BY <1>3, <1>9, <1>10

\* A list that is cleared has no nodes, and its nodes are not wired any more.
LEMMA ClearIs ==
  ASSUME NEW list, NEW S, IsQueue(list, S)
  PROVE  IsQueue(List!ListClear(list), {})
<1>1. Linked(list.first, list.last, list.prev, list.next, S)
  BY DEF IsQueue
<1>2. List!NodesFrom(list, list.first) = S
  <2>1. /\ list.first \in S \cup {NULL} /\ \A k \in S : list.first <= k
        /\ \A k \in S : k \in Nat
    BY <1>1, Nodes DEF Linked
  <2>2. List!NodesFrom(list, list.first) = {n \in S : n >= list.first}
    BY <2>1, NodesFromIs
  <2>3. list.first \in Nat
    BY <2>1, Nodes
  <2> QED
    BY <2>1, <2>2, <2>3
<1> DEFINE prev2 == [n \in Cluster |-> IF n \in S THEN NULL ELSE list.prev[n]]
           next2 == [n \in Cluster |-> IF n \in S THEN NULL ELSE list.next[n]]
<1>3. List!ListClear(list) = [first |-> NULL, last |-> NULL, prev |-> prev2, next |-> next2]
  BY <1>2, Zenon DEF List!ListClear
<1>4. /\ prev2 \in [Cluster -> Pointer] /\ next2 \in [Cluster -> Pointer]
      /\ \A n \in Cluster : next2[n] = NULL /\ prev2[n] = NULL
  BY <1>1 DEF Linked, Pointer
<1> HIDE DEF prev2, next2
<1>5. Linked(NULL, NULL, prev2, next2, {})
  BY <1>4 DEF Linked
<1> QED
  BY <1>3, <1>5 DEF IsQueue

-----------------------------------------------------------------------------
(* The list operations of a handler call, node by node *)

\* What is done for node n when the nodes of S become those of S2 and the nodes
\* after old are new.
Relink(list, n, old, S, S2) ==
  IF n > old THEN IF n \in S2 THEN List!ListAppend(list, n)
                  ELSE List!ListRemoveLast(List!ListAppend(list, n))
  ELSE IF n \in S \ S2 THEN List!ListRemove(list, n)
  ELSE list

\* The nodes that are in the list when this was done for 1 .. n.
UpTo(n, old, S, S2) == {k \in S : k <= n => k \in S2} \cup {k \in S2 : old < k /\ k <= n}

\* S are the nodes of the list, S2 those of the new one: nothing that was removed
\* comes back.
Changes(old, N, S, S2) ==
  /\ old \in Nat /\ N \in Nat /\ old <= N /\ N <= MaxClusters
  /\ S \subseteq 1 .. old /\ S2 \subseteq 1 .. N /\ S2 \cap (1 .. old) \subseteq S

\* Before the first change the list is as it was, after the last one as it becomes.
LEMMA UpToEnds ==
  ASSUME NEW old, NEW N, NEW S, NEW S2, Changes(old, N, S, S2)
  PROVE  UpTo(0, old, S, S2) = S /\ UpTo(N, old, S, S2) = S2
<1> USE DEF Changes
<1>1. \A k \in S : k \in Nat /\ 1 <= k /\ k <= old /\ k <= N
  OBVIOUS
<1>2. \A k \in S2 : k \in Nat /\ 1 <= k /\ k <= N /\ (old < k \/ k \in S)
  OBVIOUS
<1>3. ASSUME NEW k PROVE k \in UpTo(0, old, S, S2) <=> k \in S
  <2>1. k \in S => ~(k <= 0)
    BY <1>1
  <2>2. k \in S2 => ~(old < k /\ k <= 0)
    BY <1>2
  <2> QED
    BY <2>1, <2>2 DEF UpTo
<1>4. ASSUME NEW k PROVE k \in UpTo(N, old, S, S2) <=> k \in S2
  BY <1>1, <1>2 DEF UpTo
<1> QED
  BY <1>3, <1>4

\* One change keeps the list a queue, of the buffers that are there by then.
LEMMA RelinkIs ==
  ASSUME NEW old, NEW N, NEW S, NEW S2, Changes(old, N, S, S2),
         NEW n \in 1 .. N, NEW list, IsQueue(list, UpTo(n - 1, old, S, S2))
  PROVE  IsQueue(Relink(list, n, old, S, S2), UpTo(n, old, S, S2))
<1> DEFINE Before == UpTo(n - 1, old, S, S2)
           After == UpTo(n, old, S, S2)
<1>1. /\ old \in Nat /\ N \in Nat /\ n \in Nat /\ n \in Cluster
      /\ \A k \in S : k \in Nat /\ k <= old
      /\ \A k \in S2 : k \in Nat /\ k <= N
  BY Nodes DEF Changes
<1>2. CASE n > old
  <2>1. \A k \in Before : k < n
    BY <1>1, <1>2 DEF UpTo
  <2> DEFINE longer == List!ListAppend(list, n)
  <2>2. IsQueue(longer, Before \cup {n}) /\ longer.last = n /\ n \notin Before
    <3>1. IsQueue(longer, Before \cup {n})
      <4> HIDE DEF Before, longer
      <4>1. IsQueue(list, Before)
        BY DEF Before
      <4> QED
        BY <1>1, <2>1, <4>1, AppendIs DEF longer
    <3>2. longer.last = n
      BY DEF List!ListAppend
    <3> HIDE DEF Before
    <3> QED
      BY <1>1, <2>1, <3>1, <3>2
  <2> HIDE DEF longer
  <2>3. CASE n \in S2
    <3>1. After = Before \cup {n}
      <4>1. ASSUME NEW k PROVE k \in After <=> k \in Before \/ k = n
        <5>1. k \in S => k <= n - 1 /\ k <= n
          BY <1>1, <1>2
        <5>2. k \in S2 => (k <= n <=> k <= n - 1 \/ k = n)
          BY <1>1
        <5> QED
          BY <1>2, <2>3, <5>1, <5>2 DEF UpTo
      <4> HIDE DEF Before, After
      <4> QED
        BY <4>1
    <3> QED
      BY <1>2, <2>2, <2>3, <3>1 DEF Relink, longer
  <2>4. CASE n \notin S2
    <3>1. After = Before
      BY <1>1, <1>2, <2>4 DEF UpTo
    <3>2. IsQueue(List!ListRemoveLast(longer), (Before \cup {n}) \ {longer.last})
      <4> HIDE DEF Before
      <4> QED
        BY <2>2, RemoveLastIs
    <3>3. (Before \cup {n}) \ {longer.last} = After
      <4> HIDE DEF Before, After
      <4> QED
        BY <2>2, <3>1
    <3> QED
      BY <1>2, <2>4, <3>2, <3>3 DEF Relink, longer
  <2> QED
    BY <2>3, <2>4
<1>3. CASE ~(n > old)
  <2>1. CASE n \in S \ S2
    <3>0. n \in Before
      BY <1>1, <2>1 DEF UpTo
    <3>1. n \in Before /\ After = Before \ {n}
      <4>1. ASSUME NEW k PROVE k \in After <=> k \in Before /\ k # n
        <5>1. k \in S => (k <= n <=> k <= n - 1 \/ k = n)
          BY <1>1
        <5>2. k \in S2 /\ old < k => ~(k <= n) /\ ~(k <= n - 1)
          BY <1>1, <1>3
        <5> QED
          BY <2>1, <5>1, <5>2 DEF UpTo
      <4> HIDE DEF Before, After
      <4> QED
        BY <3>0, <4>1
    <3>2. IsQueue(List!ListRemove(list, n), Before \ {n})
      <4>1. IsQueue(list, Before)
        OBVIOUS
      <4> HIDE DEF Before
      <4> QED
        BY <3>1, <4>1, RemoveIs
    <3> QED
      BY <1>3, <2>1, <3>1, <3>2 DEF Relink
  <2>2. CASE n \notin S \ S2
    <3>1. After = Before
      BY <1>1, <1>3, <2>2 DEF UpTo
    <3> QED
      BY <1>3, <2>2, <3>1 DEF Relink
  <2> QED
    BY <2>1, <2>2
<1> QED
  BY <1>2, <1>3

\* f are the lists on the way.
Relinking(f, list, old, N, S, S2) ==
  /\ f[0] = list
  /\ \A n \in 1 .. N : f[n] = Relink(f[n - 1], n, old, S, S2)

\* All changes of a step one after the other keep the list a queue.
LEMMA RelinkingKeeps ==
  ASSUME NEW old, NEW N, NEW S, NEW S2, Changes(old, N, S, S2),
         NEW list, IsQueue(list, S), NEW f, Relinking(f, list, old, N, S, S2)
  PROVE  IsQueue(f[N], S2)
<1> DEFINE D == {n \in Nat : n <= N => IsQueue(f[n], UpTo(n, old, S, S2))}
<1>1. 0 \in D
  BY UpToEnds DEF Relinking
<1>2. ASSUME NEW n \in Nat, n \in D PROVE n + 1 \in D
  <2> SUFFICES ASSUME n + 1 <= N PROVE IsQueue(f[n + 1], UpTo(n + 1, old, S, S2))
    OBVIOUS
  <2> DEFINE m == n + 1
  <2>1. m \in 1 .. N /\ m - 1 = n
    BY DEF Changes
  <2>2. IsQueue(f[n], UpTo(n, old, S, S2))
    <3>1. n <= N
      BY DEF Changes
    <3> QED
      BY <1>2, <3>1
  <2> HIDE DEF m
  <2>3. IsQueue(f[m - 1], UpTo(m - 1, old, S, S2)) /\ f[m] = Relink(f[m - 1], m, old, S, S2)
    BY <2>1, <2>2 DEF Relinking
  <2>4. IsQueue(f[m], UpTo(m, old, S, S2))
    BY <2>1, <2>3, RelinkIs
  <2> QED
    BY <2>4 DEF m
<1>3. N \in D
  <2> HIDE DEF D
  <2>1. Nat \subseteq D
    BY <1>1, <1>2, SetInduction
  <2> QED
    BY <2>1 DEF Changes
<1>4. IsQueue(f[N], UpTo(N, old, S, S2))
  BY <1>3 DEF Changes
<1> QED
  BY <1>4, UpToEnds

Lists == [first : Pointer, last : Pointer, prev : [Cluster -> Pointer], next : [Cluster -> Pointer]]

\* A queue is a list of the model.
LEMMA QueueTypes ==
  ASSUME NEW list, NEW S, IsQueue(list, S)
  PROVE  list \in Lists
<1>1. /\ list.first \in Pointer /\ list.last \in Pointer
      /\ list.prev \in [Cluster -> Pointer] /\ list.next \in [Cluster -> Pointer]
  BY DEF IsQueue, Linked, Pointer
<1> QED
  BY <1>1 DEF IsQueue, Lists

\* There are lists on the way.
LEMMA RelinkingExists ==
  ASSUME NEW old, NEW N, NEW S, NEW S2, Changes(old, N, S, S2),
         NEW list, IsQueue(list, S)
  PROVE  \E f : /\ f = [n \in 0 .. N |-> f[n]]
                /\ Relinking(f, list, old, N, S, S2)
<1> DEFINE Good(n, l) == IsQueue(l, UpTo(n, old, S, S2))
           Done(n, l) == Relink(l, n, old, S, S2)
           step == [x \in (1 .. N) \X Lists |->
                      IF Good(x[1] - 1, x[2]) THEN Done(x[1], x[2]) ELSE x[2]]
<1>1. N \in Nat /\ list \in Lists
  BY QueueTypes DEF Changes
<1>2. \A n \in 1 .. N : \A l : Good(n - 1, l) => Good(n, Done(n, l))
  BY RelinkIs
<1>3. \A n, l : Good(n, l) => l \in Lists
  BY QueueTypes
<1>4. Good(0, list)
  BY UpToEnds
<1> HIDE DEF Good
<1>5. step \in [(1 .. N) \X Lists -> Lists]
  <2> SUFFICES ASSUME NEW x \in (1 .. N) \X Lists
               PROVE  (IF Good(x[1] - 1, x[2]) THEN Done(x[1], x[2]) ELSE x[2]) \in Lists
    OBVIOUS
  <2>1. x[1] \in 1 .. N /\ x[2] \in Lists
    OBVIOUS
  <2> HIDE DEF Done
  <2> QED
    BY <1>2, <1>3, <2>1
<1> HIDE DEF Done
<1>6. PICK f \in [0 .. N -> Lists] :
        f[0] = list /\ \A n \in 1 .. N : f[n] = step[<<n, f[n - 1]>>]
  <2> DEFINE V == Lists
  <2>1. step \in [(1 .. N) \X V -> V] /\ list \in V /\ N \in Nat
    BY <1>1, <1>5
  <2> HIDE DEF step, V
  <2>2. \E f \in [0 .. N -> V] : Recursive(f, N, list, step)
    BY <2>1, Recursion, ZenonT(30)
  <2> QED
    BY <2>2 DEF Recursive, V
<1>7. ASSUME NEW n \in 1 .. N, Good(n - 1, f[n - 1])
      PROVE  f[n] = Done(n, f[n - 1]) /\ Good(n, f[n])
  <2> DEFINE x == <<n, f[n - 1]>>
  <2>1. n - 1 \in 0 .. N
    BY <1>1
  <2>2. f[n - 1] \in Lists
    BY <2>1
  <2>3. x \in (1 .. N) \X Lists /\ x[1] = n /\ x[2] = f[n - 1]
    BY <2>2
  <2>4. step[x] = Done(n, f[n - 1])
    <3> HIDE DEF x
    <3> QED
      BY <1>7, <2>3
  <2>5. f[n] = step[x]
    BY <1>6
  <2> HIDE DEF x, step
  <2> QED
    BY <1>2, <1>7, <2>4, <2>5
<1> HIDE DEF step
<1> DEFINE D == {n \in Nat : n <= N => Good(n, f[n])}
<1>8. Nat \subseteq D
  <2>1. 0 \in D
    BY <1>4, <1>6
  <2>2. ASSUME NEW n \in Nat, n \in D PROVE n + 1 \in D
    <3> SUFFICES ASSUME n + 1 <= N PROVE Good(n + 1, f[n + 1])
      OBVIOUS
    <3> DEFINE m == n + 1
    <3>1. m \in 1 .. N /\ m - 1 = n /\ n <= N
      BY <1>1
    <3>2. Good(n, f[n])
      BY <2>2, <3>1
    <3> HIDE DEF m
    <3>3. Good(m, f[m])
      BY <1>7, <3>1, <3>2
    <3> QED
      BY <3>3 DEF m
  <2> HIDE DEF D
  <2> QED
    BY <2>1, <2>2, SetInduction
<1>9. \A n \in 1 .. N : f[n] = Done(n, f[n - 1])
  <2> SUFFICES ASSUME NEW n \in 1 .. N PROVE f[n] = Done(n, f[n - 1])
    OBVIOUS
  <2>1. n - 1 \in Nat /\ n - 1 <= N
    BY <1>1
  <2>2. Good(n - 1, f[n - 1])
    BY <1>8, <2>1
  <2> QED
    BY <1>7, <2>2
<1> QED
  BY <1>6, <1>9 DEF Relinking, Done

\* What the handlers do to the list leads to the nodes that are referenced then.
LEMMA RelinkedIs ==
  ASSUME Changes(last, last', stream_buffers, stream_buffers'), IsQueue(chain, stream_buffers)
  PROVE  IsQueue(Relinked, stream_buffers')
<1> DEFINE Step(list, n) == IF n > last THEN Appended(list, n)
                            ELSE IF n \in stream_buffers \ stream_buffers' THEN List!ListRemove(list, n)
                            ELSE list
           Body(g, n) == IF n = 0 THEN chain ELSE Once(g[n - 1], LAMBDA list : Step(list, n))
           upto == CHOOSE g : g = [n \in 0 .. last' |-> Body(g, n)]
<1>1. Relinked = upto[last']
  BY Zenon DEF Relinked
<1>2. ASSUME NEW n, NEW list
      PROVE  Once(list, LAMBDA l : Step(l, n)) = Relink(list, n, last, stream_buffers, stream_buffers')
  <2>1. Once(list, LAMBDA l : Step(l, n)) = Step(list, n)
    <3> HIDE DEF Step
    <3> QED
      BY DEF Once
  <2>2. Appended(list, n) = IF n \in stream_buffers' THEN List!ListAppend(list, n)
                            ELSE List!ListRemoveLast(List!ListAppend(list, n))
    BY DEF Appended, Once
  <2> QED
    BY <2>1, <2>2 DEF Relink
<1>3. \A g, n : Body(g, n) = IF n = 0 THEN chain
                             ELSE Relink(g[n - 1], n, last, stream_buffers, stream_buffers')
  BY <1>2
<1> HIDE DEF Body
<1>4. last' \in Nat
  BY DEF Changes
<1>5. PICK f : /\ f = [n \in 0 .. last' |-> f[n]]
               /\ Relinking(f, chain, last, last', stream_buffers, stream_buffers')
  BY RelinkingExists
<1>6. \A n \in 0 .. last' : f[n] = Body(f, n)
  <2> SUFFICES ASSUME NEW n \in 0 .. last' PROVE f[n] = Body(f, n)
    OBVIOUS
  <2>1. n = 0 \/ n \in 1 .. last'
    BY <1>4
  <2> QED
    BY <1>3, <1>5, <2>1 DEF Relinking
<1>7. f = [n \in 0 .. last' |-> Body(f, n)]
  BY <1>5, <1>6
<1>8. upto = [n \in 0 .. last' |-> Body(upto, n)]
  BY <1>7
<1> HIDE DEF upto
<1>9. Relinking(upto, chain, last, last', stream_buffers, stream_buffers')
  <2>1. \A n \in 0 .. last' : upto[n] = Body(upto, n)
    BY <1>8
  <2>2. 0 \in 0 .. last' /\ \A n \in 1 .. last' : n \in 0 .. last' /\ n # 0
    BY <1>4
  <2> QED
    BY <1>3, <2>1, <2>2 DEF Relinking
<1>10. IsQueue(upto[last'], stream_buffers')
  BY <1>9, RelinkingKeeps
<1> QED
  BY <1>1, <1>10

-----------------------------------------------------------------------------
(* The invariant *)

\* Only the deletion of the stream takes nodes back that others may still get.
LEMMA StepChanges ==
  ASSUME TypeOK, TypeOK', Next
  PROVE  \/ allocated /\ ~allocated' /\ stream_buffers' = {}
         \/ ~(allocated /\ ~allocated') /\ Changes(last, last', stream_buffers, stream_buffers')
<1>1. /\ last \in Nat /\ last' \in Nat /\ last' <= MaxClusters
      /\ stream_buffers \subseteq 1 .. last /\ stream_buffers' \subseteq 1 .. last'
  BY Nodes DEF TypeOK
<1> DEFINE Grows == last <= last' /\ stream_buffers' \cap (1 .. last) \subseteq stream_buffers
<1>2. Grows => Changes(last, last', stream_buffers, stream_buffers')
  BY <1>1 DEF Changes
<1>3. ASSUME NEW c \in Client, NEW k \in 0 .. MaxClusters - last, AppendClusters(c, k)
      PROVE  Grows
  <2>1. /\ last' = last + k /\ k \in Nat
        /\ stream_buffers' \subseteq stream_buffers \cup (last + 1 .. last + k)
    BY <1>1, <1>3, Nodes DEF AppendClusters
  <2> QED
    BY <1>1, <2>1
<1>4. ASSUME NEW c \in Client, ReceiveHeaderBufferFilled(c)
      PROVE  Grows
  <2>1. 0 \in 0 .. MaxClusters - last
    BY Nodes DEF TypeOK
  <2>2. PICK k \in 0 .. MaxClusters - last : AppendClusters(c, k)
    BY <1>4, <2>1 DEF ReceiveHeaderBufferFilled
  <2> QED
    BY <1>3, <2>2
<1>5. ASSUME UNCHANGED last, stream_buffers' \subseteq stream_buffers
      PROVE  Grows
  BY <1>1, <1>5
<1>6. ASSUME NEW c \in Client,
             \/ SendStream(c) \/ SendStreamTooFarBehind(c) \/ HangUp(c)
      PROVE  UNCHANGED <<last, allocated>> /\ stream_buffers' \subseteq stream_buffers
  <2>1. UNCHANGED <<last, allocated>>
    BY <1>6 DEF SendStream, SendStreamTooFarBehind, HangUp, LeaveSendStream
  <2>2. \A D : Unref(D) => stream_buffers' \subseteq stream_buffers
    BY DEF Unref
  <2>3. stream_buffers' \subseteq stream_buffers
    BY <1>6, <2>2 DEF SendStream, SendStreamTooFarBehind, HangUp, LeaveSendStream
  <2> QED
    BY <2>1, <2>3
<1> DEFINE Stays == ~(allocated /\ ~allocated') /\ Grows
<1> SUFFICES (allocated /\ ~allocated' /\ stream_buffers' = {}) \/ Stays
  BY <1>2
<1> HIDE DEF Grows
<1>7. ASSUME NEW c \in Client, EnterReceiveStream(c) \/ ReceiveStreamHeader(c)
      PROVE  Stays
  BY <1>4, <1>7 DEF EnterReceiveStream, ReceiveStreamHeader, CreateOrResume
<1>8. ASSUME NEW c \in Client, ReceiveStream(c) PROVE Stays
  <2>1. \A k \in 1 .. MaxClusters - last : k \in 0 .. MaxClusters - last
    BY <1>1, Nodes
  <2> QED
    BY <1>3, <1>8, <2>1 DEF ReceiveStream
<1>9. ASSUME NEW c \in Client, LeaveReceiveStream(c) \/ EnterSendStream(c) PROVE Stays
  BY <1>5, <1>9 DEF LeaveReceiveStream, EnterSendStream, streamVars
<1>10. ASSUME NEW c \in Client,
              \/ SendStream(c) \/ SendStreamTooFarBehind(c) \/ HangUp(c)
       PROVE  Stays
  BY <1>5, <1>6, <1>10
<1>11. CASE AbandonStream \/ Tick
  BY <1>5, <1>11 DEF AbandonStream, Tick, streamVars
<1>12. CASE DeleteStream
  BY <1>12 DEF DeleteStream
<1> QED
  BY <1>7, <1>8, <1>9, <1>10, <1>11, <1>12 DEF Next

\* Whatever a step does to the buffers, the list stays a queue of them.
LEMMA ChainInv ==
  ASSUME TypeOK, [ChainNext]_chainVars, IsQueue(chain, stream_buffers)
  PROVE  IsQueue(chain, stream_buffers)'
<1>1. CASE UNCHANGED chainVars
  <2>1. chain' = chain /\ stream_buffers' = stream_buffers
    BY <1>1 DEF chainVars, vars, streamVars
  <2> QED
    BY <2>1 DEF IsQueue, Linked, Pointer, Cluster, NULL
<1>2. CASE ChainNext
  <2>1. Next /\ ChainStep /\ TypeOK'
    BY <1>2, TypeStep DEF ChainNext
  <2>2. IsQueue(chain', stream_buffers')
    <3>1. CASE allocated /\ ~allocated' /\ stream_buffers' = {}
      BY <2>1, <3>1, ClearIs DEF ChainStep
    <3>2. CASE ~(allocated /\ ~allocated') /\ Changes(last, last', stream_buffers, stream_buffers')
      BY <2>1, <3>2, RelinkedIs DEF ChainStep
    <3> QED
      BY <2>1, <3>1, <3>2, StepChanges
  <2> QED
    BY <2>2 DEF IsQueue, Linked, Pointer, Cluster, NULL
<1> QED
  BY <1>1, <1>2

\* A step with pointers is a step without.
LEMMA ChainRefines == ChainSpec => Spec
<1>1. ChainInit => Init
  BY DEF ChainInit
<1>2. [ChainNext]_chainVars => [Next]_vars
  BY DEF ChainNext, chainVars
<1> QED
  BY <1>1, <1>2, PTL DEF ChainSpec, Spec

\* As long as no write fails, the pointers of stream->stream_buffers are at all times
\* those of a list of exactly the nodes that are referenced, oldest first (list.c, and
\* the calls of it in client.c and smeb.c), with any number of sources. (After a failed
\* write handlers use freed nodes, and the list is no list any more.)
THEOREM ListIsQueue == ChainSpec => []IsQueue(chain, stream_buffers)
<1>1. ChainInit => IsQueue(chain, stream_buffers)
  BY EmptyListIs DEF ChainInit, Init
<1>2. TypeOK /\ [ChainNext]_chainVars /\ IsQueue(chain, stream_buffers)
        => IsQueue(chain, stream_buffers)'
  BY ChainInv
<1>3. Init => TypeOK
  BY TypeInit
<1>4. TypeOK /\ [Next]_vars => TypeOK'
  BY TypeStep
<1> QED
  BY <1>1, <1>2, <1>3, <1>4, ChainRefines, PTL DEF ChainSpec, Spec

\* In a state of StreamBuffers, a queue of the buffers is what the property asks for.
LEMMA QueueIsChain ==
  ASSUME Inv, IsQueue(chain, stream_buffers)
  PROVE  ChainIsQueue
<1> DEFINE S == stream_buffers
<1>1. Linked(chain.first, chain.last, chain.prev, chain.next, S)
  BY DEF IsQueue
<1>2. /\ S \subseteq Cluster /\ \A k \in S : k \in Nat /\ k \in Cluster /\ k # NULL
      /\ \A n \in S : /\ chain.next[n] = NULL \/ (chain.next[n] \in S /\ n < chain.next[n])
                      /\ chain.prev[n] = NULL \/ (chain.prev[n] \in S /\ chain.prev[n] < n)
                      /\ chain.next[n] \in Nat
      /\ \A n, k \in S : /\ n < k => chain.next[n] \in S /\ chain.next[n] <= k
                         /\ k < n => chain.prev[n] \in S /\ k <= chain.prev[n]
  BY <1>1, Neighbours
<1>3. /\ chain.first \in S \cup {NULL} /\ \A k \in S : chain.first <= k
      /\ chain.last \in S \cup {NULL} /\ \A k \in S : chain.last # NULL /\ k <= chain.last
  BY <1>1 DEF Linked
<1>4. List!NodesFrom(chain, chain.first) = S
  <2>1. List!NodesFrom(chain, chain.first) = {n \in S : n >= chain.first}
    BY <1>3, NodesFromIs
  <2>2. chain.first \in Nat
    <3>1. NULL \in Nat
      BY Nodes
    <3> QED
      BY <1>2, <1>3, <3>1
  <2> QED
    BY <1>2, <1>3, <2>1, <2>2
<1>5. ASSUME NEW n \in S PROVE chain.prev[n] = NULL <=> n = chain.first
  <2>1. n \in Nat /\ n < NULL /\ chain.first <= n /\ NULL \in Nat
    BY <1>2, <1>3, Nodes
  <2>2. chain.first \in S
    BY <1>3, <2>1
  <2>3. chain.prev[n] = NULL => n = chain.first
    <3>1. ~(chain.first < n) => n = chain.first
      <4>1. chain.first \in Nat
        BY <1>2, <2>2
      <4> QED
        BY <2>1, <4>1
    <3> QED
      BY <1>2, <2>2, <3>1
  <2>4. n = chain.first => chain.prev[n] = NULL
    <3>1. chain.prev[n] \in S /\ chain.prev[n] < n => chain.first <= chain.prev[n] /\ chain.prev[n] \in Nat
      BY <1>2, <1>3
    <3> QED
      BY <1>2, <2>1, <3>1
  <2> QED
    BY <2>3, <2>4
<1>6. ASSUME NEW n \in S PROVE chain.next[n] = NULL <=> n = chain.last
  <2>1. n \in Nat /\ n <= chain.last /\ chain.last \in S /\ chain.last \in Nat
    BY <1>2, <1>3
  <2>2. chain.next[n] = NULL => n = chain.last
    <3>1. ~(n < chain.last) => n = chain.last
      BY <2>1
    <3> QED
      BY <1>2, <2>1, <3>1
  <2>3. n = chain.last => chain.next[n] = NULL
    <3>1. chain.next[n] \in S /\ n < chain.next[n] => chain.next[n] <= chain.last /\ chain.next[n] \in Nat
      BY <1>2, <1>3
    <3> QED
      BY <1>2, <2>1, <3>1
  <2> QED
    BY <2>2, <2>3
<1>7. ASSUME NEW n \in S, chain.next[n] # NULL
      PROVE  chain.next[n] > n /\ chain.prev[chain.next[n]] = n
  <2> DEFINE m == chain.next[n]
  <2>1. m \in S /\ n < m /\ n \in Nat /\ m \in Nat
    BY <1>2, <1>7
  <2> DEFINE p == chain.prev[m]
  <2>2. p \in S /\ n <= p /\ p < m /\ p \in Nat
    BY <1>2, <2>1
  <2>3. n < p => m <= p
    BY <1>2, <2>2
  <2> HIDE DEF m, p
  <2>4. p = n
    BY <2>1, <2>2, <2>3
  <2> QED
    BY <2>1, <2>4 DEF m, p
<1>8. ASSUME NEW c \in Viewers PROVE List!NodesFrom(chain, Link(c)) = SharedQueue(c)
  <2>1. /\ SharedQueue(c) = Link(c) .. last /\ Link(c) \in Nat
        /\ Link(c) = NULL \/ Link(c) <= last
    BY SharedQueueInterval DEF Inv
  <2>2. Link(c) \in S \cup {NULL}
    <3>1. Link(c) .. last \subseteq S /\ last \in Nat
      BY Types DEF Inv, AllAhead
    <3> QED
      BY <2>1, <3>1
  <2> QED
    BY <2>2, NodesFromIs DEF SharedQueue
<1> QED
  BY <1>4, <1>5, <1>6, <1>7, <1>8 DEF ChainIsQueue

\* When writing does not fail, the list is a queue of exactly the referenced nodes at
\* all times, and following next from the node of a viewer, or from the node that its
\* intro leads to, passes the buffers that it still has to send and nothing else
\* (send_stream and leave_send_stream walk the list so).
THEOREM ViewersFollowQueue == ChainSpec => []ChainIsQueue
<1>1. Init => Inv
  BY InvInit
<1>2. Inv /\ [Next]_vars => Inv'
  BY InvStep
<1>3. Inv /\ IsQueue(chain, stream_buffers) => ChainIsQueue
  BY QueueIsChain
<1> QED
  BY <1>1, <1>2, <1>3, ChainRefines, ListIsQueue, PTL DEF Spec

=============================================================================
