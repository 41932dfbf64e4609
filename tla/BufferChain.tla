------------------------------ MODULE BufferChain ------------------------------
(***************************************************************************)
(* StreamBuffers together with the linked list that stream_buffers really  *)
(* is: the set of nodes there is kept in step with the pointers here. What *)
(* StreamBuffers takes for granted, that following next from a viewer's    *)
(* node leads to all later nodes of the set and to nothing else, is what   *)
(* the pointers have to provide.                                           *)
(***************************************************************************)
EXTENDS StreamBuffers, Once

VARIABLE chain  \* stream->stream_buffers

List == INSTANCE LinkedList WITH Node <- Cluster, NULL <- NULL

chainVars == <<vars, chain>>

\* A new node, which goes at once when nobody watches.
Appended(list, n) ==
  IF n \in stream_buffers' THEN List!ListAppend(list, n)
                           ELSE Once(List!ListAppend(list, n), List!ListRemoveLast)

\* The list operations of a handler call: nodes that are unreferenced for the last
\* time are removed one by one, new nodes are appended one by one. (No call does
\* both.)
Relinked ==
  LET upto[n \in 0 .. last'] ==
        IF n = 0 THEN chain
        ELSE Once(upto[n - 1], LAMBDA list :
               IF n > last THEN Appended(list, n)
               ELSE IF n \in stream_buffers \ stream_buffers' THEN List!ListRemove(list, n)
               ELSE list)
  IN upto[last']

\* list_destroy when the stream is deleted, after its clients are gone.
ChainStep ==
  chain' = IF allocated /\ ~allocated' THEN List!ListClear(chain) ELSE Relinked

ChainInit == Init /\ chain = List!EmptyList

ChainNext == Next /\ ChainStep

ChainSpec == ChainInit /\ [][ChainNext]_chainVars

\* A viewer goes on to a later node, or is dropped.
MovesOn(c) ==
  /\ state[c] = "send_stream"
  /\ ~stalled[c]
  /\ \E t \in current[c] + 1 .. NULL : current' = [current EXCEPT ![c] = t]

\* The poll loop calls send_stream of every viewer whose socket takes data: a viewer
\* whose peer goes on reading does not stay where it is.
ChainFairSpec == ChainSpec /\ \A c \in Client : WF_current(MovesOn(c))

-----------------------------------------------------------------------------
(* Properties *)

\* The pointers are those of a list of exactly the nodes that are referenced, oldest
\* first: its ends are right also after the only node went, every next has its prev,
\* and a viewer that follows next from its node, or from the node its intro leads
\* to, passes the buffers it still has to send and comes to an end.
ChainIsQueue ==
  /\ List!NodesFrom(chain, chain.first) = stream_buffers
  /\ \A n \in stream_buffers :
       /\ chain.prev[n] = NULL <=> n = chain.first
       /\ chain.next[n] = NULL <=> n = chain.last
       /\ chain.next[n] # NULL => chain.next[n] > n /\ chain.prev[chain.next[n]] = n
  /\ \A c \in Viewers : List!NodesFrom(chain, Link(c)) = SharedQueue(c)

=============================================================================
