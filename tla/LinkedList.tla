------------------------------ MODULE LinkedList ------------------------------
(***************************************************************************)
(* The doubly linked list of list.c: the operations that the server uses,  *)
(* pointer by pointer. Nodes are allocated by the caller's choice of a     *)
(* free one; the pointers of a free node are NULL.                         *)
(***************************************************************************)
EXTENDS Integers, FiniteSets

CONSTANTS Node, NULL

\* list_new
EmptyList == [first |-> NULL, last |-> NULL,
              prev |-> [n \in Node |-> NULL], next |-> [n \in Node |-> NULL]]

\* list_append_ptr, of a new node.
ListAppend(list, node) ==
  [first |-> IF list.first = NULL THEN node ELSE list.first,
   last  |-> node,
   prev  |-> [list.prev EXCEPT ![node] = list.last],
   next  |-> [n \in Node |-> IF n = list.last THEN node ELSE list.next[n]]]

ListRemoveFirst(list) ==
  LET node == list.first
      next == list.next[node]
  IN [first |-> next,
      last  |-> IF list.last = node THEN NULL ELSE list.last,
      prev  |-> [n \in Node |-> IF n \in {node, next} THEN NULL ELSE list.prev[n]],
      next  |-> [list.next EXCEPT ![node] = NULL]]

\* Mutant of ListRemoveLast: first is not reset with the only node.
ListRemoveLastOnly(list) ==
  LET node == list.last
      prev == list.prev[node]
  IN [first |-> list.first,
      last  |-> prev,
      prev  |-> [list.prev EXCEPT ![node] = NULL],
      next  |-> [n \in Node |-> IF n \in {node, prev} THEN NULL ELSE list.next[n]]]

ListRemoveLast(list) ==
  LET node == list.last
      prev == list.prev[node]
  IN [first |-> IF list.first = node THEN NULL ELSE list.first,
      last  |-> prev,
      prev  |-> [list.prev EXCEPT ![node] = NULL],
      next  |-> [n \in Node |-> IF n \in {node, prev} THEN NULL ELSE list.next[n]]]

ListRemove(list, node) ==
  IF node = list.first THEN ListRemoveFirst(list)
  ELSE IF node = list.last THEN ListRemoveLast(list)
  ELSE [list EXCEPT
          !.next = [n \in Node |-> IF n = list.prev[node] THEN list.next[node]
                                   ELSE IF n = node THEN NULL ELSE list.next[n]],
          !.prev = [n \in Node |-> IF n = list.next[node] THEN list.prev[node]
                                   ELSE IF n = node THEN NULL ELSE list.prev[n]]]

\* The nodes on the way along the next pointers, from one on.
NodesFrom(list, node) ==
  LET at[i \in 0 .. Cardinality(Node)] ==
        IF i = 0 THEN node ELSE IF at[i - 1] = NULL THEN NULL ELSE list.next[at[i - 1]]
  IN {at[i] : i \in 0 .. Cardinality(Node)} \ {NULL}

\* list_clear, also for list_destroy: the nodes found from first on are freed.
ListClear(list) ==
  LET freed == NodesFrom(list, list.first)
      Reset(pointer) == [n \in Node |-> IF n \in freed THEN NULL ELSE pointer[n]]
  IN [first |-> NULL, last |-> NULL, prev |-> Reset(list.prev), next |-> Reset(list.next)]

=============================================================================
