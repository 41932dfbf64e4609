------------------------------ MODULE Broadcast ------------------------------
(***************************************************************************)
(* What a stream promises to its viewers, whatever the buffers, reference  *)
(* counts and list nodes behind it: from the moment it joins until it      *)
(* leaves, a viewer receives the clusters that are published, oldest       *)
(* first, none left out and none twice.                                    *)
(***************************************************************************)
EXTENDS Integers

CONSTANT Client

VARIABLES
  published,  \* number of clusters published on the stream
  watching,   \* clients that watch it
  joined,     \* clusters published before a watching client joined
  received    \* clusters a watching client has got

vars == <<published, watching, joined, received>>

Missing(c) == (joined[c] + 1 .. published) \ received[c]

Init ==
  /\ published = 0
  /\ watching = {}
  /\ joined = [c \in Client |-> 0]
  /\ received = [c \in Client |-> {}]

Publish ==
  /\ published' \in Nat
  /\ published' > published
  /\ UNCHANGED <<watching, joined, received>>

Join(c) ==
  /\ c \notin watching
  /\ watching' = watching \cup {c}
  /\ joined' = [joined EXCEPT ![c] = published]
  /\ UNCHANGED <<published, received>>

\* All that is missing up to k is delivered at once, k itself not earlier.
Deliver(c) ==
  /\ c \in watching
  /\ \E k \in Missing(c) :
       received' = [received EXCEPT ![c] = @ \cup {j \in Missing(c) : j <= k}]
  /\ UNCHANGED <<published, watching, joined>>

Leave(c) ==
  /\ c \in watching
  /\ watching' = watching \ {c}
  /\ joined' = [joined EXCEPT ![c] = 0]
  /\ received' = [received EXCEPT ![c] = {}]
  /\ UNCHANGED published

\* The stream is deleted, and all its viewers leave.
Close ==
  /\ published' = 0
  /\ watching' = {}
  /\ joined' = [c \in Client |-> 0]
  /\ received' = [c \in Client |-> {}]

Next ==
  \/ Publish
  \/ \E c \in Client : Join(c) \/ Deliver(c) \/ Leave(c)
  \/ Close

Spec == Init /\ [][Next]_vars

=============================================================================
