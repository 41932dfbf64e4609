------------------------- MODULE StreamBuffersProofs -------------------------
(***************************************************************************)
(* Theorems about StreamBuffers, for any number of clients, clusters and   *)
(* instants.                                                               *)
(***************************************************************************)
EXTENDS StreamBuffers, FiniteSetTheorems, TLAPS

\* The set of clients that a cluster is referenced for is finite.
LEMMA SubsetOfClients ==
  ASSUME NEW S \in SUBSET Client
  PROVE  IsFiniteSet(S) /\ Cardinality(S) \in Nat
BY ConstantsAssumption, FS_Subset, FS_CardinalityType

\* The fields that AppendClusters changes keep their types.
LEMMA AppendClustersType ==
  ASSUME TypeOK, NEW c \in Client, NEW k \in 0 .. MaxClusters - last,
         AppendClusters(c, k)
  PROVE  /\ last' \in 0 .. MaxClusters
         /\ stream_buffers' \subseteq 1 .. last'
         /\ refcount' \in [Cluster -> Nat]
         /\ timecode' \in [Cluster -> Nat]
         /\ latest_cluster_received_at' \in Nat
         /\ current' \in [Client -> Node]
         /\ stalled' \in [Client -> BOOLEAN]
         /\ insert_next' \in [Client -> BOOLEAN]
         /\ intro_next' \in [Client -> Cluster \cup {NULL}]
<1> DEFINE watching == {d \in Client \ {c} : state[d] # "none"}
<1>1. Cardinality(watching) \in Nat
  BY SubsetOfClients
<1>2. last \in Nat /\ MaxClusters \in Nat /\ k \in Nat /\ last + k <= MaxClusters
  BY ConstantsAssumption DEF TypeOK
<1>3. k > 0 => last + 1 \in Cluster
  BY <1>2 DEF Cluster
<1>4. /\ last' \in 0 .. MaxClusters
      /\ stream_buffers' \subseteq 1 .. last'
  BY <1>2 DEF TypeOK, AppendClusters
<1>5. refcount' \in [Cluster -> Nat]
  BY <1>1 DEF TypeOK, AppendClusters
<1>6. timecode' \in [Cluster -> Nat] /\ latest_cluster_received_at' \in Nat
  BY DEF TypeOK, AppendClusters
<1>7. PICK served \in SUBSET Client : /\ WireIntro(served) /\ Unstall(served)
                                      /\ served # {} => last + 1 \in Cluster
  BY <1>3 DEF AppendClusters
<1>8. insert_next' \in [Client -> BOOLEAN] /\ stalled' \in [Client -> BOOLEAN]
  BY <1>7 DEF TypeOK, WireIntro, Unstall
<1>9. intro_next' \in [Client -> Cluster \cup {NULL}] /\ current' \in [Client -> Node]
  BY <1>7 DEF TypeOK, WireIntro, Unstall, Node
<1> QED
  BY <1>4, <1>5, <1>6, <1>8, <1>9

\* Giving references back keeps the types of the list and the counts.
LEMMA UnrefType ==
  ASSUME TypeOK, NEW D, Unref(D)
  PROVE  refcount' \in [Cluster -> Nat] /\ stream_buffers' \subseteq stream_buffers
BY DEF TypeOK, Unref

\* A client that is forgotten leaves well-typed fields behind.
LEMMA ForgetType ==
  ASSUME TypeOK, NEW S, Forget(S)
  PROVE  /\ state' \in [Client -> {"none", "receive_stream_header", "receive_stream", "send_stream"}]
         /\ current' \in [Client -> Node]
         /\ stalled' \in [Client -> BOOLEAN]
         /\ insert_next' \in [Client -> BOOLEAN]
         /\ intro_next' \in [Client -> Cluster \cup {NULL}]
         /\ opened_at' \in [Client -> Nat]
         /\ joined' \in [Client -> 0 .. MaxClusters]
         /\ received' \in [Client -> SUBSET Cluster]
<1>1. 0 \in 0 .. MaxClusters /\ 0 \in Nat
  BY ConstantsAssumption
<1>2. /\ state' \in [Client -> {"none", "receive_stream_header", "receive_stream", "send_stream"}]
      /\ stalled' \in [Client -> BOOLEAN]
      /\ insert_next' \in [Client -> BOOLEAN]
      /\ opened_at' \in [Client -> Nat]
      /\ joined' \in [Client -> 0 .. MaxClusters]
      /\ received' \in [Client -> SUBSET Cluster]
  BY <1>1 DEF TypeOK, Forget
<1>3. current' \in [Client -> Node] /\ intro_next' \in [Client -> Cluster \cup {NULL}]
  BY DEF TypeOK, Forget, Node
<1> QED
  BY <1>2, <1>3

\* The nodes a viewer may stop at.
LEMMA QueueType ==
  ASSUME TypeOK, NEW c \in Client
  PROVE  Queue(c) \subseteq Private \cup Cluster
<1>1. stream_buffers \subseteq Cluster
  BY ConstantsAssumption DEF TypeOK, Cluster
<1> QED
  BY <1>1 DEF Queue, SharedQueue

\* Every action keeps the types, a failed write included.
LEMMA AnyTypeStep ==
  ASSUME TypeOK, [NextWithWriteErrors]_vars
  PROVE  TypeOK'
<1> USE DEF streamVars, clientVars, historyVars
<1>1. ASSUME NEW c \in Client, EnterReceiveStream(c)
      PROVE  TypeOK'
  <2>1. PICK k \in 0 .. MaxClusters - last : AppendClusters(c, k)
    BY <1>1, ConstantsAssumption DEF EnterReceiveStream, ReceiveHeaderBufferFilled, TypeOK
  <2> QED
    BY <1>1, <2>1, AppendClustersType
    DEF EnterReceiveStream, ReceiveHeaderBufferFilled, CreateOrResume, TypeOK
<1>2. ASSUME NEW c \in Client, ReceiveStreamHeader(c)
      PROVE  TypeOK'
  <2>1. PICK k \in 0 .. MaxClusters - last : AppendClusters(c, k)
    BY <1>2, ConstantsAssumption DEF ReceiveStreamHeader, ReceiveHeaderBufferFilled, TypeOK
  <2> QED
    BY <1>2, <2>1, AppendClustersType DEF ReceiveStreamHeader, ReceiveHeaderBufferFilled, TypeOK
<1>3. ASSUME NEW c \in Client, ReceiveStream(c)
      PROVE  TypeOK'
  <2>1. PICK k \in 0 .. MaxClusters - last : AppendClusters(c, k)
    BY <1>3 DEF ReceiveStream, TypeOK
  <2> QED
    BY <1>3, <2>1, AppendClustersType DEF ReceiveStream, TypeOK
<1>4. ASSUME NEW c \in Client, LeaveReceiveStream(c)
      PROVE  TypeOK'
  BY <1>4, ForgetType DEF LeaveReceiveStream, TypeOK
<1>5. ASSUME NEW c \in Client, EnterSendStream(c)
      PROVE  TypeOK'
  BY <1>5 DEF EnterSendStream, StopAt, TypeOK, Node
<1>6. ASSUME NEW c \in Client, SendStream(c)
      PROVE  TypeOK'
  <2>1. PICK t \in (Queue(c) \ {current[c]}) \cup {NULL} :
          /\ Unref(Finished(c, t))
          /\ StopAt(c, t)
          /\ insert_next' = [insert_next EXCEPT ![c] = @ /\ t # NULL]
          /\ intro_next' = [intro_next EXCEPT ![c] = IF t \in Private THEN @ ELSE NULL]
          /\ received' = [received EXCEPT ![c] = @ \cup (Finished(c, t) \cap Cluster)]
    BY <1>6 DEF SendStream
  <2>2. t \in Node
    BY QueueType DEF Node
  <2>3. current' \in [Client -> Node] /\ stalled' \in [Client -> BOOLEAN]
    BY <2>1, <2>2 DEF StopAt, TypeOK
  <2>4. insert_next' \in [Client -> BOOLEAN] /\ intro_next' \in [Client -> Cluster \cup {NULL}]
    BY <2>1 DEF TypeOK
  <2>5. received' \in [Client -> SUBSET Cluster]
    BY <2>1 DEF TypeOK
  <2>6. use_after_free' \in BOOLEAN
    BY <1>6 DEF SendStream
  <2> QED
    BY <1>6, <2>1, <2>3, <2>4, <2>5, <2>6, UnrefType DEF SendStream, TypeOK
<1>7. ASSUME NEW c \in Client, LeaveSendStream(c)
      PROVE  TypeOK'
  <2>1. use_after_free' \in BOOLEAN
    BY <1>7 DEF LeaveSendStream, Dangling
  <2> QED
    BY <1>7, <2>1, ForgetType, UnrefType DEF LeaveSendStream, TypeOK
<1>8. ASSUME NEW c \in Client, SendStreamWriteError(c)
      PROVE  TypeOK'
  <2>1. refcount' \in [Cluster -> Nat] /\ stream_buffers' \subseteq stream_buffers
    <3>1. PICK Returned \in [Cluster -> {0, 1, 2}], t \in Queue(c) :
            /\ refcount' = [n \in Cluster |-> IF refcount[n] > Returned[n]
                                              THEN refcount[n] - Returned[n] ELSE 0]
            /\ stream_buffers' \subseteq stream_buffers
      <4>1. PICK t \in Queue(c) :
              LET finished == Finished(c, t)
                  rest     == Queue(c) \ finished
                  Returned(n) == IF n \in finished THEN 1 ELSE IF n \in rest THEN 2 ELSE 0
              IN  /\ refcount' = [n \in Cluster |-> IF refcount[n] > Returned(n)
                                                    THEN refcount[n] - Returned(n) ELSE 0]
                  /\ stream_buffers' = {n \in stream_buffers : refcount[n] > Returned(n)}
        BY <1>8 DEF SendStreamWriteError
      <4> DEFINE R == [n \in Cluster |-> IF n \in Finished(c, t) THEN 1
                                         ELSE IF n \in Queue(c) \ Finished(c, t) THEN 2 ELSE 0]
      <4>2. R \in [Cluster -> {0, 1, 2}]
        OBVIOUS
      <4>3. /\ refcount' = [n \in Cluster |-> IF refcount[n] > R[n]
                                              THEN refcount[n] - R[n] ELSE 0]
            /\ stream_buffers' \subseteq stream_buffers
        BY <4>1
      <4> QED
        BY <4>2, <4>3
    <3> QED
      BY <3>1 DEF TypeOK
  <2>2. use_after_free' \in BOOLEAN /\ Forget({c})
    BY <1>8 DEF SendStreamWriteError
  <2> QED
    BY <1>8, <2>1, <2>2, ForgetType DEF SendStreamWriteError, TypeOK
<1>9. CASE DeleteStream
  <2>1. /\ last' \in 0 .. MaxClusters /\ stream_buffers' \subseteq 1 .. last'
        /\ refcount' \in [Cluster -> Nat] /\ timecode' \in [Cluster -> Nat]
    BY <1>9, ConstantsAssumption DEF DeleteStream
  <2>2. use_after_free' \in BOOLEAN
    BY <1>9 DEF DeleteStream
  <2> QED
    BY <1>9, <2>1, <2>2, ForgetType DEF DeleteStream, TypeOK
<1>10. CASE Tick
  BY <1>10 DEF Tick, TypeOK
<1>11. CASE AbandonStream
  BY <1>11 DEF AbandonStream, TypeOK
<1>12. CASE UNCHANGED vars
  BY <1>12 DEF vars, TypeOK
<1> QED
  BY <1>1, <1>2, <1>3, <1>4, <1>5, <1>6, <1>7, <1>8, <1>9, <1>10, <1>11, <1>12
  DEF NextWithWriteErrors, Next, SendStreamTooFarBehind, HangUp

\* So does every action of Next.
LEMMA TypeStep ==
  ASSUME TypeOK, [Next]_vars
  PROVE  TypeOK'
BY AnyTypeStep DEF NextWithWriteErrors

\* The state in which the server starts is well-typed.
LEMMA TypeInit == Init => TypeOK
<1>1. 0 \in 0 .. MaxClusters
  BY ConstantsAssumption
<1>2. ASSUME Init
      PROVE  /\ allocated \in BOOLEAN /\ header \in BOOLEAN /\ last \in 0 .. MaxClusters
             /\ stream_buffers \subseteq 1 .. last /\ refcount \in [Cluster -> Nat]
             /\ timecode \in [Cluster -> Nat] /\ latest_cluster_received_at \in Nat
             /\ last_disconnect_at \in Nat /\ now \in Nat \ {0}
  <2>1. allocated \in BOOLEAN /\ header \in BOOLEAN /\ last \in 0 .. MaxClusters
    BY <1>1, <1>2 DEF Init
  <2>2. stream_buffers \subseteq 1 .. last
    BY <1>2 DEF Init
  <2>3. refcount \in [Cluster -> Nat] /\ timecode \in [Cluster -> Nat]
    BY <1>2 DEF Init
  <2>4. latest_cluster_received_at \in Nat /\ last_disconnect_at \in Nat /\ now \in Nat \ {0}
    BY <1>2 DEF Init
  <2> QED
    BY <2>1, <2>2, <2>3, <2>4
<1>3. ASSUME Init
      PROVE  /\ state \in [Client -> {"none", "receive_stream_header", "receive_stream", "send_stream"}]
             /\ current \in [Client -> Node]
             /\ stalled \in [Client -> BOOLEAN] /\ insert_next \in [Client -> BOOLEAN]
             /\ intro_next \in [Client -> Cluster \cup {NULL}]
             /\ opened_at \in [Client -> Nat] /\ use_after_free \in BOOLEAN
  BY <1>3 DEF Init, Node
<1>4. ASSUME Init
      PROVE  joined \in [Client -> 0 .. MaxClusters] /\ received \in [Client -> SUBSET Cluster]
  BY <1>1, <1>4 DEF Init
<1> QED
  BY <1>2, <1>3, <1>4 DEF TypeOK

\* Every field of the stream, its buffers and its clients keeps its type, whether
\* writes fail or not.
THEOREM TypeCorrect == SpecWithWriteErrors => []TypeOK
<1>1. Init => TypeOK
  BY TypeInit
<1>2. TypeOK /\ [NextWithWriteErrors]_vars => TypeOK'
  BY AnyTypeStep
<1> QED
  BY <1>1, <1>2, PTL DEF SpecWithWriteErrors

-----------------------------------------------------------------------------
(***************************************************************************)
(* The inductive invariant. The properties alone are not inductive: they   *)
(* do not say how the fields of a viewer belong together (which of them is *)
(* NULL at which stage), nor that all that follows a viewer's link is in   *)
(* the list, which is what keeps a buffer allocated while two viewers      *)
(* share it.                                                               *)
(***************************************************************************)

\* How the fields of a viewer belong together at each stage of its way.
Wired(c) ==
  /\ joined[c] <= last
  /\ stalled[c] <=> current[c] = NULL
  /\ current[c] \in Private =>
       /\ received[c] = {}
       /\ insert_next[c] <=> intro_next[c] = NULL
       /\ intro_next[c] = NULL => joined[c] = last
       /\ intro_next[c] # NULL => intro_next[c] = joined[c] + 1 /\ intro_next[c] <= last
  /\ current[c] \notin Private => ~insert_next[c] /\ intro_next[c] = NULL
  /\ current[c] \in Cluster =>
       /\ joined[c] < current[c] /\ current[c] <= last
       /\ received[c] = joined[c] + 1 .. current[c] - 1
  /\ current[c] = NULL => received[c] = joined[c] + 1 .. last

\* A client that does not watch the stream.
Detached(c) ==
  /\ current[c] = NULL /\ ~stalled[c] /\ ~insert_next[c] /\ intro_next[c] = NULL
  /\ joined[c] = 0 /\ received[c] = {}

AllWired == /\ \A c \in Viewers : Wired(c)
            /\ \A c \in Client \ Viewers : Detached(c)

\* Nothing ahead of a viewer was freed.
AllAhead == \A c \in Viewers : Link(c) .. last \subseteq stream_buffers

\* Every viewer ahead of which a buffer lies is counted in it, and with one
\* source nobody else is.
Counted ==
  /\ \A n \in Cluster : /\ Cardinality(Holders(n)) <= refcount[n]
                        /\ n \in stream_buffers <=> refcount[n] > 0
  /\ MaxSources = 1 => \A n \in Cluster : refcount[n] = Cardinality(Holders(n))

OneSource == MaxSources = 1 => \A a, b \in Sources : a = b

Inv == TypeOK /\ ~use_after_free /\ AllWired /\ AllAhead /\ Counted /\ OneSource

-----------------------------------------------------------------------------

\* The types that the steps below use.
LEMMA Types ==
  ASSUME TypeOK
  PROVE  /\ last \in Nat /\ MaxClusters \in Nat /\ last <= MaxClusters
         /\ stream_buffers \subseteq 1 .. last /\ stream_buffers \subseteq Cluster
         /\ \A c \in Client : /\ joined[c] \in Nat /\ received[c] \subseteq Cluster
                               /\ current[c] \in Private \cup Cluster \cup {NULL}
                               /\ intro_next[c] \in Cluster \cup {NULL}
                               /\ stalled[c] \in BOOLEAN /\ insert_next[c] \in BOOLEAN
         /\ \A n \in Cluster : refcount[n] \in Nat
<1>1. last \in Nat /\ MaxClusters \in Nat /\ last <= MaxClusters
  BY ConstantsAssumption DEF TypeOK
<1>2. stream_buffers \subseteq 1 .. last /\ stream_buffers \subseteq Cluster
  BY <1>1 DEF TypeOK, Cluster
<1> QED
  BY <1>1, <1>2 DEF TypeOK, Node

\* With NULL past all clusters, the list part of a viewer's way is the interval
\* that starts at its link.
LEMMA SharedQueueInterval ==
  ASSUME TypeOK, AllWired, AllAhead, NEW c \in Viewers
  PROVE  /\ SharedQueue(c) = Link(c) .. last
         /\ Link(c) \in Nat
         /\ Link(c) = NULL \/ Link(c) <= last
         /\ Link(c) = NULL => SharedQueue(c) = {}
<1>1. c \in Client
  BY DEF Viewers
<1>2. Link(c) \in Cluster \cup {NULL} /\ (Link(c) = NULL \/ Link(c) <= last)
  BY <1>1, Types DEF Link, AllWired, Wired
<1>3. Link(c) .. last \subseteq stream_buffers
  BY DEF AllAhead
<1> QED
  BY <1>2, <1>3, Types DEF SharedQueue, Cluster, NULL

\* Two holders of a buffer count for two.
LEMMA TwoHolders ==
  ASSUME NEW S \in SUBSET Client, NEW a \in S, NEW b \in S, a # b
  PROVE  Cardinality(S) >= 2
<1>1. IsFiniteSet({a}) /\ Cardinality({a}) = 1
  BY FS_Singleton
<1>2. b \notin {a}
  OBVIOUS
<1>3. Cardinality({a} \cup {b}) = Cardinality({a}) + 1
  BY <1>1, <1>2, FS_AddElement
<1>4. Cardinality({a} \cup {b}) <= Cardinality(S)
  BY FS_Subset, SubsetOfClients
<1> QED
  BY <1>1, <1>3, <1>4, SubsetOfClients

\* What viewer c gives back it held, and a buffer is freed only if nobody else
\* holds it: the rest of every viewer's way stays in the list.
LEMMA UnrefKeepsWays ==
  ASSUME Inv, NEW c \in Viewers, NEW D \in SUBSET SharedQueue(c), Unref(D)
  PROVE  /\ \A n \in Cluster : refcount'[n] = IF n \in D THEN refcount[n] - 1 ELSE refcount[n]
         /\ \A n \in Cluster : n \in stream_buffers' <=> refcount'[n] > 0
         /\ stream_buffers' \subseteq stream_buffers
         /\ \A d \in Viewers : d # c => SharedQueue(d) \subseteq stream_buffers'
         /\ SharedQueue(c) \ D \subseteq stream_buffers'
<1>1. D \subseteq stream_buffers /\ stream_buffers \subseteq Cluster /\ TypeOK
  BY Types DEF SharedQueue, Inv
<1>2. \A n \in D : refcount[n] \in Nat /\ refcount[n] > 0
  BY <1>1, Types DEF Inv, Counted
<1>3. \A n \in Cluster : refcount'[n] = IF n \in D THEN refcount[n] - 1 ELSE refcount[n]
  BY <1>2 DEF Unref
<1>4. \A n \in Cluster : n \in stream_buffers' <=> refcount'[n] > 0
  BY <1>1, <1>2, <1>3, Types DEF Unref, Inv, Counted
<1>5. stream_buffers' \subseteq stream_buffers /\ SharedQueue(c) \ D \subseteq stream_buffers'
  BY DEF Unref, SharedQueue
<1>6. ASSUME NEW d \in Viewers, d # c, NEW n \in SharedQueue(d)
      PROVE  n \in stream_buffers'
  <2>1. n \in stream_buffers /\ n \in Cluster
    BY <1>1 DEF SharedQueue
  <2>2. CASE n \in D
    <3>1. c \in Holders(n) /\ d \in Holders(n) /\ Holders(n) \subseteq Client
      BY <1>6, <2>2 DEF Holders, Viewers
    <3>2. Cardinality(Holders(n)) >= 2 /\ Cardinality(Holders(n)) \in Nat
      BY <1>6, <3>1, TwoHolders, SubsetOfClients
    <3>3. refcount[n] > 1
      BY <2>1, <3>2, <1>1, Types DEF Inv, Counted
    <3> QED
      BY <2>1, <3>3 DEF Unref
  <2>3. CASE n \notin D
    BY <2>1, <2>3 DEF Unref
  <2> QED
    BY <2>2, <2>3
<1>7. \A d \in Viewers : d # c => SharedQueue(d) \subseteq stream_buffers'
  BY <1>6
<1> QED
  BY <1>2, <1>3, <1>4, <1>5, <1>7

\* The counts stay right when a viewer gives back what it stops to hold.
LEMMA UnrefKeepsCounts ==
  ASSUME Inv, NEW c \in Viewers, NEW D \in SUBSET SharedQueue(c), Unref(D),
         \A n \in Cluster : Holders(n)' = IF n \in D THEN Holders(n) \ {c} ELSE Holders(n)
  PROVE  Counted'
<1>1. /\ \A n \in Cluster : refcount'[n] = IF n \in D THEN refcount[n] - 1 ELSE refcount[n]
      /\ \A n \in Cluster : n \in stream_buffers' <=> refcount'[n] > 0
  BY UnrefKeepsWays
<1>2. ASSUME NEW n \in Cluster
      PROVE  Cardinality(Holders(n)') = IF n \in D THEN Cardinality(Holders(n)) - 1
                                                   ELSE Cardinality(Holders(n))
  <2>1. Holders(n) \subseteq Client /\ (n \in D => c \in Holders(n))
    BY DEF Holders, Viewers
  <2> QED
    BY <2>1, FS_RemoveElement, SubsetOfClients
<1>3. \A n \in Cluster : refcount[n] \in Nat
  BY Types DEF Inv
<1>4. \A n \in Cluster : Cardinality(Holders(n)) \in Nat
  BY SubsetOfClients DEF Holders, Viewers
<1> QED
  BY <1>1, <1>2, <1>3, <1>4 DEF Inv, Counted

\* New clusters are ahead of every viewer, and counted for each of them.
LEMMA AppendKeepsInv ==
  ASSUME Inv, NEW c \in Client \ Viewers, NEW k \in 0 .. MaxClusters - last,
         AppendClusters(c, k),
         state' \in [Client -> {"none", "receive_stream_header", "receive_stream", "send_stream"}],
         \A d \in Client : d # c => state'[d] = state[d],
         state'[c] \in {"receive_stream_header", "receive_stream"},
         joined' = joined, received' = received,
         MaxSources = 1 => \A d \in Sources : d = c
  PROVE  AllWired' /\ AllAhead' /\ Counted' /\ OneSource'
<1> DEFINE new      == last + 1 .. last + k
           watching == {d \in Client \ {c} : state[d] # "none"}
           served   == IF k > 0 THEN watching ELSE {}
<1>1. Viewers' = Viewers /\ Viewers \subseteq watching
  BY DEF Viewers
<1>2. OneSource'
  BY DEF OneSource, Sources
<1>3. MaxSources = 1 => watching = Viewers
  BY <1>1 DEF Viewers, Sources, Inv, TypeOK
<1>4. /\ last \in Nat /\ k \in Nat /\ MaxClusters \in Nat /\ last + k <= MaxClusters
      /\ last' = last + k /\ last' \in Nat /\ new \subseteq Cluster
  BY Types DEF Inv, AppendClusters, Cluster
<1>5. /\ WireIntro(served) /\ Unstall(served)
      /\ stream_buffers' = stream_buffers \cup (IF watching = {} THEN {} ELSE new)
      /\ refcount' = [n \in Cluster |-> IF n \in new THEN Cardinality(watching) ELSE refcount[n]]
  BY DEF AppendClusters
<1>6. ASSUME NEW d \in Viewers
      PROVE  /\ Wired(d)'
             /\ Link(d)' = IF Link(d) = NULL /\ k > 0 THEN last + 1 ELSE Link(d)
  <2>1. d \in Client /\ (d \in served <=> k > 0)
    BY <1>1, <1>4 DEF Viewers
  <2>2. /\ insert_next'[d] <=> insert_next[d] /\ ~(k > 0)
        /\ intro_next'[d] = IF k > 0 /\ insert_next[d] THEN last + 1 ELSE intro_next[d]
        /\ current'[d] = IF k > 0 /\ stalled[d] THEN last + 1 ELSE current[d]
        /\ stalled'[d] <=> stalled[d] /\ ~(k > 0)
    <3>1. d \in Client /\ (d \in served <=> k > 0)
      BY <2>1
    <3>2. insert_next'[d] = (insert_next[d] /\ d \notin served)
      BY <1>5, <2>1, Zenon DEF WireIntro
    <3>3. stalled'[d] = (stalled[d] /\ d \notin served)
      BY <1>5, <2>1, Zenon DEF Unstall
    <3>4. /\ intro_next'[d] = IF d \in served /\ insert_next[d] THEN last + 1 ELSE intro_next[d]
          /\ current'[d] = IF d \in served /\ stalled[d] THEN last + 1 ELSE current[d]
      BY <1>5, <2>1, Zenon DEF WireIntro, Unstall
    <3> HIDE DEF served
    <3> QED
      BY <3>1, <3>2, <3>3, <3>4
  <2>3. Wired(d) /\ joined'[d] = joined[d] /\ received'[d] = received[d]
    BY DEF Inv, AllWired
  <2>4. /\ joined[d] \in Nat /\ current[d] \in Private \cup Cluster \cup {NULL}
        /\ intro_next[d] \in Cluster \cup {NULL}
        /\ stalled[d] \in BOOLEAN /\ insert_next[d] \in BOOLEAN
    BY <2>1, Types DEF Inv
  <2>5. Wired(d)'
    <3> USE <1>4, <2>2, <2>3, <2>4 DEF Wired, Cluster, NULL, Private, HttpHeader, IntroCluster
    <3> HIDE DEF new, watching, served
    <3>1. CASE current[d] \in Private
      <4>1. current'[d] = current[d] /\ ~stalled[d] /\ ~stalled'[d]
        BY <3>1
      <4>2. CASE k > 0 /\ insert_next[d]
        BY <3>1, <4>1, <4>2
      <4>3. CASE ~(k > 0 /\ insert_next[d])
        BY <3>1, <4>1, <4>3
      <4> QED
        BY <4>2, <4>3
    <3>2. CASE current[d] \in Cluster
      <4>1. /\ current[d] \notin Private /\ current[d] # NULL
            /\ ~stalled[d] /\ ~insert_next[d]
        BY <3>2
      <4>2. /\ current'[d] = current[d] /\ intro_next'[d] = intro_next[d]
            /\ ~stalled'[d] /\ ~insert_next'[d]
        BY <2>2, <4>1
      <4> QED
        BY <3>2, <4>1, <4>2
    <3>3. CASE current[d] = NULL
      <4>1. CASE k > 0
        BY <3>3, <4>1
      <4>2. CASE k = 0
        BY <3>3, <4>2
      <4> QED
        BY <4>1, <4>2
    <3> QED
      BY <3>1, <3>2, <3>3
  <2>6. Link(d)' = IF Link(d) = NULL /\ k > 0 THEN last + 1 ELSE Link(d)
    BY <1>4, <2>2, <2>3, <2>4 DEF Link, Wired, Cluster, NULL, Private, HttpHeader, IntroCluster
  <2> QED
    BY <2>5, <2>6
<1>7. AllWired'
  <2>1. ASSUME NEW d \in Client \ Viewers
        PROVE  Detached(d)'
    <3>1. Detached(d)
      BY DEF Inv, AllWired
    <3>2. /\ insert_next'[d] = (insert_next[d] /\ d \notin served)
          /\ stalled'[d] = (stalled[d] /\ d \notin served)
          /\ intro_next'[d] = IF d \in served /\ insert_next[d] THEN last + 1 ELSE intro_next[d]
          /\ current'[d] = IF d \in served /\ stalled[d] THEN last + 1 ELSE current[d]
      BY <1>5, Zenon DEF WireIntro, Unstall
    <3> QED
      BY <3>1, <3>2 DEF Detached
  <2> QED
    BY <1>1, <1>6, <2>1 DEF AllWired
<1>8. ASSUME NEW d \in Viewers
      PROVE  SharedQueue(d)' = SharedQueue(d) \cup new
  <2>1. /\ SharedQueue(d) = Link(d) .. last /\ Link(d) \in Nat
        /\ Link(d) = NULL \/ Link(d) <= last
    BY SharedQueueInterval DEF Inv
  <2>2. stream_buffers' = stream_buffers \cup new
    BY <1>1, <1>5
  <2>3. stream_buffers \subseteq 1 .. last
    BY Types DEF Inv
  <2>4. SharedQueue(d)' = {n \in stream_buffers \cup new : n >= Link(d)'}
    BY <2>2 DEF SharedQueue
  <2>5. CASE Link(d) = NULL /\ k > 0
    <3>1. Link(d)' = last + 1
      BY <1>6, <2>5
    <3>2. SharedQueue(d) = {}
      BY <1>4, <2>1, <2>5 DEF NULL
    <3>3. /\ \A n \in stream_buffers : ~(n >= last + 1)
          /\ \A n \in new : n >= last + 1
      BY <1>4, <2>3
    <3> HIDE DEF new
    <3> QED
      BY <2>4, <3>1, <3>2, <3>3
  <2>6. CASE ~(Link(d) = NULL /\ k > 0)
    <3>1. Link(d)' = Link(d)
      BY <1>6, <2>6
    <3>2. {n \in stream_buffers : n >= Link(d)} = SharedQueue(d)
      BY DEF SharedQueue
    <3>3. \A n \in new : n >= Link(d)
      BY <1>4, <2>1, <2>6
    <3> QED
      BY <2>4, <3>1, <3>2, <3>3
  <2> QED
    BY <2>5, <2>6
<1>9. AllAhead'
  <2>1. ASSUME NEW d \in Viewers
        PROVE  Link(d)' .. last' \subseteq stream_buffers'
    <3>1. Link(d) .. last \subseteq stream_buffers /\ Link(d) \in Nat
          /\ (Link(d) = NULL \/ Link(d) <= last)
      BY SharedQueueInterval DEF Inv, AllAhead
    <3>2. stream_buffers' = stream_buffers \cup new
      BY <1>1, <1>5
    <3> QED
      BY <1>4, <1>6, <3>1, <3>2 DEF NULL
  <2> QED
    BY <1>1, <2>1 DEF AllAhead
<1>10. Counted'
  <2>1. ASSUME NEW n \in Cluster
        PROVE  /\ Cardinality(Holders(n)') <= refcount'[n]
               /\ n \in stream_buffers' <=> refcount'[n] > 0
               /\ MaxSources = 1 => refcount'[n] = Cardinality(Holders(n)')
    <3>1. Holders(n)' = {d \in Viewers : n \in SharedQueue(d) \cup new}
      BY <1>1, <1>8 DEF Holders
    <3>2. CASE n \in new
      <4>1. Holders(n)' = Viewers /\ refcount'[n] = Cardinality(watching)
        BY <1>5, <3>1, <3>2
      <4>2. Cardinality(Viewers) <= Cardinality(watching)
        BY <1>1, FS_Subset, SubsetOfClients
      <4>3. n \in stream_buffers' <=> watching # {}
        BY <1>4, <1>5, <3>2, Types DEF Inv
      <4>4. Cardinality(watching) \in Nat /\ (Cardinality(watching) = 0 <=> watching = {})
        BY FS_EmptySet, SubsetOfClients
      <4> QED
        BY <1>3, <4>1, <4>2, <4>3, <4>4
    <3>3. CASE n \notin new
      <4>1. Holders(n)' = Holders(n) /\ refcount'[n] = refcount[n]
        BY <1>5, <3>1, <3>3 DEF Holders
      <4>2. n \in stream_buffers' <=> n \in stream_buffers
        BY <1>5, <3>3
      <4> QED
        BY <4>1, <4>2 DEF Inv, Counted
    <3> QED
      BY <3>2, <3>3
  <2> QED
    BY <2>1 DEF Counted
<1> QED
  BY <1>2, <1>7, <1>9, <1>10

\* A viewer that leaves gives back all that is ahead of it.
LEMMA LeaveSendStreamKeepsInv ==
  ASSUME Inv, NEW c \in Viewers, LeaveSendStream(c)
  PROVE  AllWired' /\ AllAhead' /\ Counted' /\ OneSource'
<1>1. c \in Client /\ Forget({c}) /\ Unref(SharedQueue(c)) /\ last' = last
  BY DEF LeaveSendStream, Viewers
<1>2. \A d \in Client : /\ state'[d] = IF d = c THEN "none" ELSE state[d]
                        /\ current'[d] = IF d = c THEN NULL ELSE current[d]
                        /\ stalled'[d] = IF d = c THEN FALSE ELSE stalled[d]
                        /\ insert_next'[d] = IF d = c THEN FALSE ELSE insert_next[d]
                        /\ intro_next'[d] = IF d = c THEN NULL ELSE intro_next[d]
                        /\ joined'[d] = IF d = c THEN 0 ELSE joined[d]
                        /\ received'[d] = IF d = c THEN {} ELSE received[d]
  BY <1>1 DEF Forget
<1>3. Viewers' = Viewers \ {c}
  BY <1>2 DEF Viewers
<1>4. OneSource'
  BY <1>2 DEF OneSource, Sources, Inv
<1>5. AllWired'
  <2>1. ASSUME NEW d \in Viewers'
        PROVE  Wired(d)'
    <3>1. d \in Viewers /\ d # c /\ d \in Client
      BY <1>3 DEF Viewers
    <3>2. Wired(d) /\ last' = last
      BY <1>1, <3>1 DEF Inv, AllWired
    <3> QED
      BY <1>2, <3>1, <3>2 DEF Wired
  <2>2. ASSUME NEW d \in Client \ Viewers'
        PROVE  Detached(d)'
    BY <1>2, <1>3 DEF Inv, AllWired, Detached
  <2> QED
    BY <2>1, <2>2 DEF AllWired
<1>6. ASSUME NEW d \in Viewers, d # c
      PROVE  /\ SharedQueue(d)' = SharedQueue(d)
             /\ Link(d)' = Link(d)
             /\ SharedQueue(d) \subseteq stream_buffers'
  <2>1. Link(d)' = Link(d)
    BY <1>2, <1>6 DEF Link, Viewers
  <2>2. SharedQueue(d) \subseteq stream_buffers' /\ stream_buffers' \subseteq stream_buffers
    BY <1>1, <1>6, UnrefKeepsWays
  <2> QED
    BY <2>1, <2>2 DEF SharedQueue
<1>7. AllAhead'
  BY <1>1, <1>3, <1>6, SharedQueueInterval DEF AllAhead, Inv
<1>8. Counted'
  <2>1. ASSUME NEW n \in Cluster
        PROVE  Holders(n)' = IF n \in SharedQueue(c) THEN Holders(n) \ {c} ELSE Holders(n)
    BY <1>3, <1>6 DEF Holders
  <2> QED
    BY <1>1, <2>1, UnrefKeepsCounts
<1> QED
  BY <1>4, <1>5, <1>7, <1>8

\* A viewer has received what lies before its link, and can go on from there.
LEMMA ReceivedSoFar ==
  ASSUME TypeOK, NEW c \in Client, Wired(c), current[c] # NULL
  PROVE  /\ Link(c) = NULL => received[c] = {} /\ joined[c] = last
         /\ Link(c) # NULL => /\ received[c] = joined[c] + 1 .. Link(c) - 1
                             /\ joined[c] < Link(c) /\ Link(c) \in Nat
         /\ joined[c] \in Nat /\ last \in Nat /\ last < NULL /\ NULL \in Nat
<1>1. /\ joined[c] \in Nat /\ last \in Nat /\ MaxClusters \in Nat /\ last <= MaxClusters
      /\ current[c] \in Private \cup Cluster /\ intro_next[c] \in Cluster \cup {NULL}
  BY Types
<1>2. CASE current[c] \in Private
  <2>1. Link(c) = intro_next[c] /\ received[c] = {} /\ last < NULL /\ NULL \in Nat
    BY <1>1, <1>2 DEF Wired, Link, NULL
  <2>2. CASE Link(c) = NULL
    BY <1>1, <1>2, <2>1, <2>2 DEF Wired
  <2>3. CASE Link(c) # NULL
    <3>1. Link(c) = joined[c] + 1
      BY <1>1, <1>2, <2>1, <2>3 DEF Wired
    <3>2. joined[c] + 1 .. Link(c) - 1 = {}
      BY <1>1, <3>1
    <3> QED
      BY <1>1, <2>1, <2>3, <3>1, <3>2
  <2> QED
    BY <2>2, <2>3
<1>3. CASE current[c] \in Cluster
  BY <1>1, <1>3 DEF Wired, Link, Cluster, NULL, Private, HttpHeader, IntroCluster
<1> QED
  BY <1>1, <1>2, <1>3

\* A viewer that goes on to node t gives back what lies before t.
LEMMA SendStreamKeepsInv ==
  ASSUME Inv, NEW c \in Viewers, SendStream(c)
  PROVE  AllWired' /\ AllAhead' /\ Counted' /\ OneSource'
<1>1. PICK t \in (Queue(c) \ {current[c]}) \cup {NULL} :
        /\ Unref(Finished(c, t))
        /\ StopAt(c, t)
        /\ insert_next' = [insert_next EXCEPT ![c] = @ /\ t # NULL]
        /\ intro_next' = [intro_next EXCEPT ![c] = IF t \in Private THEN @ ELSE NULL]
        /\ received' = [received EXCEPT ![c] = @ \cup (Finished(c, t) \cap Cluster)]
  BY DEF SendStream
<1>2. /\ c \in Client /\ ~stalled[c] /\ state' = state /\ joined' = joined /\ last' = last
      /\ Viewers' = Viewers
  BY DEF SendStream, Viewers
<1> DEFINE D == {n \in SharedQueue(c) : n < t}
<1>3. /\ SharedQueue(c) = Link(c) .. last /\ Link(c) \in Nat
      /\ Link(c) = NULL \/ Link(c) <= last
      /\ SharedQueue(c) \subseteq stream_buffers
  BY SharedQueueInterval DEF Inv, SharedQueue
<1>4. /\ current'[c] = t /\ (stalled'[c] <=> t = NULL)
      /\ insert_next'[c] <=> insert_next[c] /\ t # NULL
      /\ intro_next'[c] = IF t \in Private THEN intro_next[c] ELSE NULL
      /\ received'[c] = received[c] \cup (Finished(c, t) \cap Cluster)
      /\ \A d \in Client : d # c => /\ current'[d] = current[d] /\ stalled'[d] = stalled[d]
                                    /\ insert_next'[d] = insert_next[d]
                                    /\ intro_next'[d] = intro_next[d]
                                    /\ received'[d] = received[d]
  BY <1>1, <1>2 DEF StopAt, Inv, TypeOK
<1>5. Wired(c) /\ last \in Nat /\ last <= MaxClusters /\ MaxClusters \in Nat /\ TypeOK
      /\ joined[c] \in Nat /\ current[c] \in Private \cup Cluster
      /\ intro_next[c] \in Cluster \cup {NULL} /\ insert_next[c] \in BOOLEAN
  <2>1. Wired(c) /\ TypeOK
    BY DEF Inv, AllWired
  <2> QED
    BY <1>2, <2>1, Types DEF Wired
<1>6. /\ t \in Private => current[c] \in Private
      /\ t \in Cluster => t \in SharedQueue(c) /\ Link(c) <= t /\ t <= last
      /\ t \in Private \cup Cluster \cup {NULL}
  BY <1>1, <1>3, <1>5, Types
  DEF Queue, Private, HttpHeader, IntroCluster, Cluster, NULL
<1>7. Finished(c, t) \cap Cluster = D
  BY <1>3, <1>5, Types DEF Finished, Queue, Cluster, Private, HttpHeader, IntroCluster
<1>8. Unref(D)
  <2>1. \A n \in Cluster : n \in Finished(c, t) <=> n \in D
    BY <1>7
  <2>2. stream_buffers \subseteq Cluster
    BY <1>5, Types
  <2> QED
    BY <1>1, <2>1, <2>2 DEF Unref
<1>9. D = IF t \in Private THEN {} ELSE IF t = NULL THEN Link(c) .. last ELSE Link(c) .. t - 1
  BY <1>3, <1>5, <1>6 DEF Private, HttpHeader, IntroCluster, Cluster, NULL
<1>10. Wired(c) /\ current[c] # NULL /\ TypeOK
  BY <1>5 DEF Private, HttpHeader, IntroCluster, Cluster, NULL
<1>11. Wired(c)'
  <2>1. CASE t \in Private
    BY <1>2, <1>4, <1>5, <1>6, <1>7, <1>9, <2>1
    DEF Wired, Private, HttpHeader, IntroCluster, Cluster, NULL
  <2>2. CASE t \in Cluster
    <3>1. received'[c] = received[c] \cup (Link(c) .. t - 1) /\ Link(c) <= t /\ t <= last
      BY <1>4, <1>6, <1>7, <1>9, <2>2 DEF Private, HttpHeader, IntroCluster, Cluster, NULL
    <3>2. Link(c) # NULL
      BY <1>3, <1>5, <2>2, <3>1 DEF NULL, Cluster
    <3>3. /\ received[c] = joined[c] + 1 .. Link(c) - 1
          /\ joined[c] < Link(c) /\ Link(c) \in Nat /\ joined[c] \in Nat
      BY <1>2, <1>10, <3>2, ReceivedSoFar
    <3>4. received'[c] = joined[c] + 1 .. t - 1 /\ joined[c] < t
      BY <3>1, <3>3, <2>2 DEF Cluster
    <3> QED
      BY <1>2, <1>4, <1>5, <2>2, <3>1, <3>4
      DEF Wired, Private, HttpHeader, IntroCluster, Cluster, NULL
  <2>3. CASE t = NULL
    <3>1. received'[c] = received[c] \cup (Link(c) .. last)
      BY <1>4, <1>5, <1>7, <1>9, <2>3 DEF Private, HttpHeader, IntroCluster, NULL
    <3>2. received'[c] = joined[c] + 1 .. last
      <4>1. CASE Link(c) = NULL
        <5>1. /\ received[c] = {} /\ joined[c] = last
              /\ last < NULL /\ last \in Nat /\ NULL \in Nat
          BY <1>2, <1>10, <4>1, ReceivedSoFar
        <5>2. joined[c] + 1 .. last = {} /\ NULL .. last = {}
          BY <5>1
        <5> QED
          BY <3>1, <4>1, <5>1, <5>2
      <4>2. CASE Link(c) # NULL
        <5>1. /\ received[c] = joined[c] + 1 .. Link(c) - 1
              /\ joined[c] < Link(c) /\ Link(c) \in Nat /\ joined[c] \in Nat
          BY <1>2, <1>10, <4>2, ReceivedSoFar
        <5> QED
          BY <1>3, <1>5, <3>1, <4>2, <5>1
      <4> QED
        BY <4>1, <4>2
    <3> QED
      BY <1>2, <1>4, <1>5, <2>3, <3>2
      DEF Wired, Private, HttpHeader, IntroCluster, Cluster, NULL
  <2> QED
    BY <1>6, <2>1, <2>2, <2>3
<1>12. AllWired'
  <2>1. \A d \in Viewers : d # c => Wired(d)'
    BY <1>2, <1>4 DEF Inv, AllWired, Wired, Viewers
  <2>2. \A d \in Client \ Viewers : Detached(d)'
    BY <1>2, <1>4 DEF Inv, AllWired, Detached
  <2> QED
    BY <1>2, <1>11, <2>1, <2>2 DEF AllWired
<1>13. ASSUME NEW d \in Viewers, d # c
       PROVE  /\ SharedQueue(d)' = SharedQueue(d) /\ Link(d)' = Link(d)
              /\ SharedQueue(d) \subseteq stream_buffers'
  <2>1. Link(d)' = Link(d)
    BY <1>4, <1>13 DEF Link, Viewers
  <2>2. SharedQueue(d) \subseteq stream_buffers' /\ stream_buffers' \subseteq stream_buffers
    BY <1>8, <1>13, UnrefKeepsWays
  <2> QED
    BY <2>1, <2>2 DEF SharedQueue
<1>14. /\ SharedQueue(c)' = SharedQueue(c) \ D
       /\ Link(c)' .. last = SharedQueue(c) \ D
       /\ SharedQueue(c) \ D \subseteq stream_buffers'
  <2>1. SharedQueue(c) \ D \subseteq stream_buffers' /\ stream_buffers' \subseteq stream_buffers
    BY <1>8, UnrefKeepsWays
  <2>2. Link(c)' = IF t \in Private THEN Link(c) ELSE t
    BY <1>4, <1>6 DEF Link, Private, HttpHeader, IntroCluster, Cluster, NULL
  <2>3. Link(c)' .. last = SharedQueue(c) \ D
    BY <1>3, <1>5, <1>6, <1>9, <2>2 DEF NULL
  <2>4. \A n \in stream_buffers : n \in Nat /\ n <= last
    BY <1>5, Types
  <2>5. Link(c)' \in Int
    BY <1>3, <1>6, <2>2 DEF Private, HttpHeader, IntroCluster, Cluster, NULL
  <2> QED
    BY <1>5, <2>1, <2>3, <2>4, <2>5 DEF SharedQueue
<1>15. AllAhead'
  BY <1>2, <1>13, <1>14, SharedQueueInterval DEF AllAhead, Inv
<1>16. Counted'
  <2>1. ASSUME NEW n \in Cluster
        PROVE  Holders(n)' = IF n \in D THEN Holders(n) \ {c} ELSE Holders(n)
    BY <1>2, <1>13, <1>14 DEF Holders
  <2> QED
    BY <1>8, <2>1, UnrefKeepsCounts
<1>17. OneSource'
  BY <1>2 DEF OneSource, Sources, Inv
<1> QED
  BY <1>12, <1>15, <1>16, <1>17

\* What a step that changes neither the list nor the fields of a viewer keeps.
LEMMA UnchangedWays ==
  ASSUME Inv, Viewers' = Viewers,
         UNCHANGED <<last, stream_buffers, refcount, current, stalled, insert_next,
                     intro_next, joined, received>>
  PROVE  AllWired' /\ AllAhead' /\ Counted'
<1>1. \A c \in Viewers : SharedQueue(c)' = SharedQueue(c) /\ Link(c)' = Link(c)
  BY DEF SharedQueue, Link
<1>2. AllWired'
  BY DEF Inv, AllWired, Wired, Detached
<1>3. AllAhead'
  BY <1>1 DEF Inv, AllAhead
<1>4. \A n : Holders(n)' = Holders(n)
  BY <1>1 DEF Holders
<1> QED
  BY <1>2, <1>3, <1>4 DEF Inv, Counted

\* A source that leaves had nothing of what a viewer has.
LEMMA LeaveReceiveStreamKeepsInv ==
  ASSUME Inv, NEW c \in Client, LeaveReceiveStream(c)
  PROVE  AllWired' /\ AllAhead' /\ Counted' /\ OneSource'
<1>1. c \in Client \ Viewers /\ Detached(c)
  BY DEF LeaveReceiveStream, Sources, Viewers, Inv, AllWired
<1>2. \A d \in Client : state'[d] = IF d = c THEN "none" ELSE state[d]
  BY DEF LeaveReceiveStream, Forget
<1>3. Viewers' = Viewers /\ Sources' \subseteq Sources
  BY <1>1, <1>2 DEF Viewers, Sources
<1>4. /\ current' = current /\ stalled' = stalled /\ insert_next' = insert_next
      /\ intro_next' = intro_next /\ joined' = joined /\ received' = received
  BY <1>1 DEF LeaveReceiveStream, Forget, Detached, Inv, TypeOK
<1>5. AllWired' /\ AllAhead' /\ Counted'
  BY <1>3, <1>4, UnchangedWays DEF LeaveReceiveStream
<1> QED
  BY <1>3, <1>5 DEF OneSource, Inv

\* A new viewer holds nothing yet, and all that is appended from now on.
LEMMA EnterSendStreamKeepsInv ==
  ASSUME Inv, NEW c \in Client, EnterSendStream(c)
  PROVE  AllWired' /\ AllAhead' /\ Counted' /\ OneSource'
<1>1. /\ c \notin Viewers /\ Viewers' = Viewers \cup {c} /\ c \notin Sources
      /\ \A d \in Client : d # c => state'[d] = state[d]
      /\ state'[c] = "send_stream"
  BY DEF EnterSendStream, Viewers, Sources, Inv, TypeOK
<1>2. PICK t \in Private \cup {NULL} :
        /\ current' = [current EXCEPT ![c] = t]
        /\ stalled' = [stalled EXCEPT ![c] = (t = NULL)]
        /\ insert_next' = [insert_next EXCEPT ![c] = (t # NULL)]
  BY DEF EnterSendStream, StopAt
<1>3. /\ UNCHANGED <<last, stream_buffers, refcount, intro_next, received>>
      /\ joined' = [joined EXCEPT ![c] = last]
  BY DEF EnterSendStream, streamVars
<1>4. Detached(c) /\ last \in Nat /\ last <= MaxClusters /\ MaxClusters \in Nat /\ TypeOK
  BY <1>1, Types DEF Inv, AllWired
<1>5. /\ current'[c] = t /\ (stalled'[c] <=> t = NULL) /\ (insert_next'[c] <=> t # NULL)
      /\ joined'[c] = last /\ received'[c] = {} /\ intro_next'[c] = NULL
  BY <1>2, <1>3, <1>4 DEF TypeOK, Detached
<1>6. \A d \in Client : d # c =>
        /\ current'[d] = current[d] /\ stalled'[d] = stalled[d]
        /\ insert_next'[d] = insert_next[d] /\ joined'[d] = joined[d]
  BY <1>2, <1>3, <1>4 DEF TypeOK
<1>7. Wired(c)' /\ Link(c)' = NULL
  <2>1. last + 1 .. last = {}
    BY <1>4
  <2>2. Wired(c)'
    BY <1>3, <1>4, <1>5, <2>1 DEF Wired, Private, HttpHeader, IntroCluster, Cluster, NULL
  <2>3. Link(c)' = NULL
    BY <1>5 DEF Link
  <2> QED
    BY <2>2, <2>3
<1>8. AllWired'
  <2>1. \A d \in Viewers : Wired(d)'
    BY <1>1, <1>3, <1>6 DEF Inv, AllWired, Wired, Viewers
  <2>2. \A d \in Client \ Viewers' : Detached(d)'
    BY <1>1, <1>3, <1>6 DEF Inv, AllWired, Detached
  <2> QED
    BY <1>1, <1>7, <2>1, <2>2 DEF AllWired
<1>9. \A d \in Viewers : SharedQueue(d)' = SharedQueue(d) /\ Link(d)' = Link(d)
  BY <1>1, <1>3, <1>6 DEF SharedQueue, Link, Viewers
<1>10. SharedQueue(c)' = {} /\ Link(c)' .. last = {}
  <2>1. \A n \in stream_buffers : n \in Nat /\ n < NULL
    BY <1>4, Types DEF NULL
  <2> QED
    BY <1>3, <1>4, <1>7, <2>1 DEF SharedQueue, NULL
<1>11. AllAhead'
  BY <1>1, <1>3, <1>9, <1>10 DEF Inv, AllAhead
<1>12. \A n : Holders(n)' = Holders(n)
  BY <1>1, <1>9, <1>10 DEF Holders
<1>13. Counted'
  BY <1>3, <1>12 DEF Inv, Counted
<1>14. OneSource'
  BY <1>1 DEF OneSource, Sources, Inv
<1> QED
  BY <1>8, <1>11, <1>13, <1>14

\* With one source at most, a client that becomes a source is the only one.
LEMMA OnlySource ==
  ASSUME OneSource, NEW c \in Client,
         Cardinality(Sources) < MaxSources \/ c \in Sources
  PROVE  MaxSources = 1 => \A d \in Sources : d = c
<1>1. IsFiniteSet(Sources) /\ Cardinality(Sources) \in Nat
  BY SubsetOfClients DEF Sources
<1>2. CASE Cardinality(Sources) < MaxSources
  BY <1>1, <1>2, FS_EmptySet
<1>3. CASE c \in Sources
  BY <1>3 DEF OneSource
<1> QED
  BY <1>2, <1>3

\* No viewer comes to a freed node.
LEMMA NoneDangling ==
  ASSUME Inv, NEW c \in Viewers
  PROVE  ~Dangling(c)
<1>1. Link(c) = NULL \/ Link(c) \in Link(c) .. last
  BY SharedQueueInterval, Types DEF Inv
<1>2. Link(c) .. last \subseteq stream_buffers
  BY DEF Inv, AllAhead
<1>3. NULL \notin Cluster
  BY Types DEF Inv, NULL, Cluster
<1> QED
  BY <1>1, <1>2, <1>3 DEF Dangling

\* When a stream is deleted, the viewers that leave first do not give back the
\* reference of one that leaves after them.
LEMMA ReferencesLast ==
  ASSUME Inv, NEW c \in Viewers, Link(c) \in Cluster, NEW turn \in Turns
  PROVE  ~(refcount[Link(c)] <= Cardinality({d \in Holders(Link(c)) : turn[d] < turn[c]}))
<1> DEFINE H == Holders(Link(c))
           B == {d \in H : turn[d] < turn[c]}
<1>1. c \in H
  <2>1. c \in Client /\ Link(c) \in stream_buffers /\ Link(c) \in Int
    BY NoneDangling DEF Dangling, Viewers, Cluster
  <2> QED
    BY <2>1 DEF Holders, SharedQueue
<1>2. H \subseteq Client /\ B \subseteq H \ {c}
  <2>1. turn[c] \in Int
    BY DEF Turns, Viewers
  <2> QED
    BY <2>1 DEF Holders, Viewers
<1>3. IsFiniteSet(H) /\ Cardinality(H) \in Nat
  BY <1>2, SubsetOfClients
<1>4. IsFiniteSet(H \ {c}) /\ Cardinality(H \ {c}) = Cardinality(H) - 1
  BY <1>1, <1>3, FS_RemoveElement
<1>5. Cardinality(B) <= Cardinality(H \ {c}) /\ Cardinality(B) \in Nat
  <2>1. Cardinality(B) <= Cardinality(H \ {c})
    BY <1>2, <1>4, FS_Subset
  <2>2. B \subseteq Client
    BY <1>2
  <2> QED
    BY <2>1, <2>2, SubsetOfClients
<1>6. Cardinality(H) <= refcount[Link(c)] /\ refcount[Link(c)] \in Nat
  BY Types DEF Inv, Counted
<1> QED
  BY <1>3, <1>4, <1>5, <1>6

\* No call uses a freed node.
LEMMA NothingFreedIsUsed ==
  ASSUME Inv, [Next]_vars
  PROVE  ~use_after_free'
<1>1. ASSUME NEW c \in Client, SendStream(c)
      PROVE  ~use_after_free'
  BY <1>1, NoneDangling DEF SendStream
<1>2. ASSUME NEW c \in Client, SendStreamTooFarBehind(c) \/ HangUp(c)
      PROVE  ~use_after_free'
  BY <1>2, NoneDangling DEF SendStreamTooFarBehind, HangUp, LeaveSendStream
<1>3. CASE DeleteStream
  <2>1. PICK turn \in Turns :
          use_after_free' = \E c \in Viewers :
            /\ Link(c) \in Cluster
            /\ refcount[Link(c)] <= Cardinality({d \in Holders(Link(c)) : turn[d] < turn[c]})
    BY <1>3 DEF DeleteStream
  <2> QED
    BY <2>1, ReferencesLast
<1>4. ASSUME ~use_after_free, UNCHANGED use_after_free
      PROVE  ~use_after_free'
  BY <1>4
<1> QED
  BY <1>1, <1>2, <1>3, <1>4
  DEF Inv, Next, EnterReceiveStream, ReceiveStreamHeader, ReceiveStream, LeaveReceiveStream,
      EnterSendStream, AbandonStream, Tick, vars

\* Every action keeps the invariant, if no write fails.
LEMMA InvStep ==
  ASSUME Inv, [Next]_vars
  PROVE  Inv'
<1>1. TypeOK' /\ TypeOK
  BY TypeStep DEF Inv
<1>2. ~use_after_free'
  BY NothingFreedIsUsed
<1> SUFFICES AllWired' /\ AllAhead' /\ Counted' /\ OneSource'
  BY <1>1, <1>2 DEF Inv
<1>3. ASSUME NEW c \in Client,
             EnterReceiveStream(c) \/ ReceiveStreamHeader(c) \/ ReceiveStream(c)
      PROVE  AllWired' /\ AllAhead' /\ Counted' /\ OneSource'
  <2>1. c \notin Viewers /\ (Cardinality(Sources) < MaxSources \/ c \in Sources)
    BY <1>3 DEF EnterReceiveStream, ReceiveStreamHeader, ReceiveStream, Viewers, Sources
  <2>2. joined' = joined /\ received' = received
    BY <1>3 DEF EnterReceiveStream, ReceiveStreamHeader, ReceiveStream, historyVars
  <2>3. /\ \A d \in Client : d # c => state'[d] = state[d]
        /\ state'[c] \in {"receive_stream_header", "receive_stream"}
    BY <1>1, <1>3 DEF EnterReceiveStream, ReceiveStreamHeader, ReceiveStream,
                      ReceiveHeaderBufferFilled, TypeOK
  <2>4. PICK k \in 0 .. MaxClusters - last : AppendClusters(c, k)
    <3>1. 0 \in 0 .. MaxClusters - last
      BY <1>1, Types
    <3> QED
      BY <1>3, <3>1 DEF EnterReceiveStream, ReceiveStreamHeader, ReceiveStream,
                        ReceiveHeaderBufferFilled
  <2>5. state' \in [Client -> {"none", "receive_stream_header", "receive_stream", "send_stream"}]
    BY <1>1 DEF TypeOK
  <2>6. MaxSources = 1 => \A d \in Sources : d = c
    BY <2>1, OnlySource DEF Inv
  <2> QED
    BY <2>1, <2>2, <2>3, <2>4, <2>5, <2>6, AppendKeepsInv
<1>4. ASSUME NEW c \in Client, LeaveReceiveStream(c)
      PROVE  AllWired' /\ AllAhead' /\ Counted' /\ OneSource'
  BY <1>4, LeaveReceiveStreamKeepsInv
<1>5. ASSUME NEW c \in Client, EnterSendStream(c)
      PROVE  AllWired' /\ AllAhead' /\ Counted' /\ OneSource'
  BY <1>5, EnterSendStreamKeepsInv
<1>6. ASSUME NEW c \in Client, SendStream(c)
      PROVE  AllWired' /\ AllAhead' /\ Counted' /\ OneSource'
  <2>1. c \in Viewers
    BY <1>6 DEF SendStream
  <2> QED
    BY <1>6, <2>1, SendStreamKeepsInv
<1>7. ASSUME NEW c \in Client, SendStreamTooFarBehind(c) \/ HangUp(c)
      PROVE  AllWired' /\ AllAhead' /\ Counted' /\ OneSource'
  <2>1. c \in Viewers /\ LeaveSendStream(c)
    BY <1>7 DEF SendStreamTooFarBehind, HangUp
  <2> QED
    BY <2>1, LeaveSendStreamKeepsInv
<1>8. CASE DeleteStream
  <2>1. /\ Viewers' = {} /\ Sources' = {}
        /\ \A c \in Client : Detached(c)'
        /\ stream_buffers' = {} /\ \A n \in Cluster : refcount'[n] = 0
    BY <1>8 DEF DeleteStream, Forget, Viewers, Sources, Detached
  <2>2. \A n : Holders(n)' = {}
    BY <2>1 DEF Holders
  <2>3. Counted'
    BY <2>1, <2>2, FS_EmptySet DEF Counted
  <2> QED
    BY <2>1, <2>3 DEF AllWired, AllAhead, OneSource
<1>9. CASE Tick \/ AbandonStream \/ UNCHANGED vars
  <2>1. UNCHANGED <<last, stream_buffers, refcount, current, stalled, insert_next,
                    intro_next, joined, received, state>>
    BY <1>9 DEF Tick, AbandonStream, vars, streamVars, clientVars, historyVars
  <2>2. Viewers' = Viewers /\ Sources' = Sources
    BY <2>1 DEF Viewers, Sources
  <2> QED
    BY <2>1, <2>2, UnchangedWays DEF OneSource, Inv
<1> QED
  BY <1>3, <1>4, <1>5, <1>6, <1>7, <1>8, <1>9 DEF Next

\* The invariant holds in the beginning.
LEMMA InvInit ==
  ASSUME Init
  PROVE  Inv
<1>1. TypeOK
  BY TypeInit
<1>2. Viewers = {} /\ Sources = {} /\ \A c \in Client : Detached(c)
  BY DEF Init, Viewers, Sources, Detached
<1>3. \A n : Holders(n) = {}
  BY <1>2 DEF Holders
<1>4. Counted
  BY <1>3, FS_EmptySet DEF Init, Counted
<1> QED
  BY <1>1, <1>2, <1>4 DEF Init, Inv, AllWired, AllAhead, OneSource

\* What the invariant says of a viewer's way through the list: what it has got is
\* what is behind its link, and its flags fit to where it is.
LEMMA WayOfViewer ==
  ASSUME Inv, NEW c \in Viewers
  PROVE  /\ received[c] \cup SharedQueue(c) = joined[c] + 1 .. last
         /\ received[c] \cap SharedQueue(c) = {}
         /\ stalled[c] <=> current[c] \notin Private /\ received[c] = joined[c] + 1 .. last
         /\ insert_next[c] <=> current[c] \in Private /\ joined[c] = last
<1>1. /\ c \in Client /\ TypeOK /\ Wired(c) /\ last \in Nat
      /\ MaxClusters \in Nat /\ last <= MaxClusters /\ joined[c] \in Nat
      /\ current[c] \in Private \cup Cluster \cup {NULL}
      /\ intro_next[c] \in Cluster \cup {NULL} /\ insert_next[c] \in BOOLEAN
      /\ stalled[c] \in BOOLEAN /\ joined[c] <= last
  BY Types DEF Inv, AllWired, Wired, Viewers
<1>2. /\ SharedQueue(c) = Link(c) .. last /\ (Link(c) = NULL \/ Link(c) <= last)
      /\ Link(c) \in Nat /\ (Link(c) = NULL => SharedQueue(c) = {})
  BY SharedQueueInterval DEF Inv
<1>3. /\ NULL \notin Private /\ NULL \notin Cluster /\ last < NULL /\ NULL \in Nat
      /\ \A n \in Cluster : n \notin Private
  BY <1>1 DEF Private, Cluster, NULL, HttpHeader, IntroCluster
<1>4. CASE current[c] = NULL
  <2>1. Link(c) = NULL /\ received[c] = joined[c] + 1 .. last /\ stalled[c] /\ ~insert_next[c]
    BY <1>1, <1>3, <1>4 DEF Link, Wired
  <2> QED
    BY <1>2, <1>3, <1>4, <2>1
<1>5. CASE current[c] # NULL /\ Link(c) = NULL
  <2>1. received[c] = {} /\ joined[c] = last /\ SharedQueue(c) = {}
    BY <1>1, <1>2, <1>5, ReceivedSoFar
  <2>2. current[c] \in Private /\ ~stalled[c] /\ insert_next[c]
    BY <1>1, <1>3, <1>5 DEF Link, Wired
  <2>3. joined[c] + 1 .. last = {}
    BY <1>1, <2>1
  <2> QED
    BY <2>1, <2>2, <2>3
<1>6. CASE current[c] # NULL /\ Link(c) # NULL
  <2>1. /\ received[c] = joined[c] + 1 .. Link(c) - 1 /\ joined[c] < Link(c)
    BY <1>1, <1>6, ReceivedSoFar
  <2>2. ~stalled[c] /\ ~insert_next[c] /\ Link(c) <= last
    BY <1>1, <1>2, <1>3, <1>6 DEF Link, Wired
  <2>3. received[c] # joined[c] + 1 .. last /\ joined[c] # last
    BY <1>1, <1>2, <2>1, <2>2
  <2> QED
    BY <1>1, <1>2, <2>1, <2>2, <2>3
<1> QED
  BY <1>4, <1>5, <1>6

\* No buffer is freed while a viewer still has to send it, with any number of viewers
\* and of sources, as long as no write fails.
THEOREM NothingDangles == Spec => []NoDanglingBuffers
<1>1. Inv => NoDanglingBuffers
  BY DEF Inv, AllAhead, NoDanglingBuffers
<1> QED
  BY <1>1, InvInit, InvStep, PTL DEF Spec

\* Every cluster that is appended while a viewer watches is on its way exactly once,
\* with any number of viewers and of sources, as long as no write fails.
THEOREM ViewersServed == Spec => []NoGapNoDuplicate
<1>1. Inv => NoGapNoDuplicate
  BY WayOfViewer DEF NoGapNoDuplicate
<1> QED
  BY <1>1, InvInit, InvStep, PTL DEF Spec

\* As long as no write fails a viewer sleeps exactly when there is nothing for it to
\* send, and is wired to the next cluster exactly when it has to be.
THEOREM ViewersWoken == Spec => []NoLostWakeup
<1>1. Inv => NoLostWakeup
  BY WayOfViewer DEF NoLostWakeup
<1> QED
  BY <1>1, InvInit, InvStep, PTL DEF Spec

\* With one source at a time and no failing write the reference counts are
\* exact: each buffer is freed by the last viewer that had to send it.
THEOREM RefcountsExact ==
  ASSUME MaxSources = 1
  PROVE  Spec => []RefcountExact
<1>1. Init => Inv
  BY InvInit
<1>2. Inv /\ [Next]_vars => Inv'
  BY InvStep
<1>3. Inv => RefcountExact
  BY DEF Inv, Counted, RefcountExact
<1> QED
  BY <1>1, <1>2, <1>3, PTL DEF Spec

-----------------------------------------------------------------------------
(* StreamBuffers implements Broadcast. *)

\* Clusters are published to nobody, or to all that watch.
LEMMA AppendPublishes ==
  ASSUME Inv, TypeOK', NEW c \in Client \ Viewers, NEW k \in 0 .. MaxClusters - last,
         AppendClusters(c, k), Viewers' = Viewers, joined' = joined, received' = received
  PROVE  [Abstract!Next]_Abstract!vars
<1>1. last' = last + k /\ last \in Nat /\ k \in Nat
  BY Types DEF AppendClusters, Inv
<1>2. CASE k = 0
  BY <1>1, <1>2 DEF Abstract!vars
<1>3. CASE k > 0
  BY <1>1, <1>3 DEF Abstract!Next, Abstract!Publish
<1> QED
  BY <1>1, <1>2, <1>3

\* A viewer that leaves stops to watch.
LEMMA LeaveSendStreamLeaves ==
  ASSUME Inv, NEW c \in Viewers, LeaveSendStream(c)
  PROVE  Abstract!Next
<1>1. /\ c \in Client /\ TypeOK
      /\ state' = [d \in Client |-> IF d \in {c} THEN "none" ELSE state[d]]
      /\ joined' = [d \in Client |-> IF d \in {c} THEN 0 ELSE joined[d]]
      /\ received' = [d \in Client |-> IF d \in {c} THEN {} ELSE received[d]]
      /\ last' = last
  BY DEF LeaveSendStream, Forget, Viewers, Inv
<1>2. Viewers' = Viewers \ {c}
  BY <1>1 DEF Viewers
<1>3. joined' = [joined EXCEPT ![c] = 0] /\ received' = [received EXCEPT ![c] = {}]
  BY <1>1 DEF TypeOK
<1>4. Abstract!Leave(c)
  BY <1>1, <1>2, <1>3 DEF Abstract!Leave
<1> QED
  BY <1>1, <1>4 DEF Abstract!Next

\* The buffers a viewer finishes in one call are the oldest it still misses.
LEMMA SendStreamDelivers ==
  ASSUME Inv, NEW c \in Viewers, SendStream(c)
  PROVE  [Abstract!Next]_Abstract!vars
<1>1. PICK t \in (Queue(c) \ {current[c]}) \cup {NULL} :
        received' = [received EXCEPT ![c] = @ \cup (Finished(c, t) \cap Cluster)]
  BY DEF SendStream
<1>2. /\ c \in Client /\ TypeOK /\ last' = last /\ joined' = joined /\ Viewers' = Viewers
      /\ Wired(c) /\ ~stalled[c]
  BY DEF SendStream, Viewers, Inv, AllWired
<1> DEFINE D == {n \in SharedQueue(c) : n < t}
<1>3. /\ last \in Nat /\ MaxClusters \in Nat /\ last <= MaxClusters
      /\ joined[c] \in Nat /\ stream_buffers \subseteq Cluster
  BY <1>2, Types
<1>4. Finished(c, t) \cap Cluster = D
  <2>1. \A n \in Cluster : n \notin Private
    BY <1>3 DEF Cluster, Private, HttpHeader, IntroCluster
  <2>2. SharedQueue(c) \subseteq Cluster
    BY <1>3 DEF SharedQueue
  <2> QED
    BY <2>1, <2>2 DEF Finished, Queue
<1>5. Abstract!Missing(c) = SharedQueue(c)
  <2>1. SharedQueue(c) = Link(c) .. last /\ Link(c) \in Nat /\ (Link(c) = NULL \/ Link(c) <= last)
    BY SharedQueueInterval DEF Inv
  <2>2. current[c] # NULL
    BY <1>2 DEF Wired
  <2>3. CASE Link(c) = NULL
    <3>1. received[c] = {} /\ joined[c] = last /\ NULL .. last = {}
      BY <1>2, <1>3, <2>2, <2>3, ReceivedSoFar DEF NULL
    <3>2. joined[c] + 1 .. last = {}
      BY <1>3, <3>1
    <3> QED
      BY <2>1, <2>3, <3>1, <3>2 DEF Abstract!Missing
  <2>4. CASE Link(c) # NULL
    <3>1. received[c] = joined[c] + 1 .. Link(c) - 1 /\ joined[c] < Link(c)
      BY <1>2, <2>2, <2>4, ReceivedSoFar
    <3> QED
      BY <1>3, <2>1, <2>4, <3>1 DEF Abstract!Missing
  <2> QED
    BY <2>3, <2>4
<1>6. CASE D = {}
  <2>1. received' = received
    BY <1>1, <1>2, <1>4, <1>6 DEF TypeOK
  <2> QED
    BY <1>2, <2>1 DEF Abstract!vars
<1>7. CASE D # {}
  <2>1. SharedQueue(c) = Link(c) .. last /\ Link(c) \in Nat
    BY SharedQueueInterval DEF Inv
  <2>2. t \in Int /\ Link(c) < t /\ Link(c) <= last
    <3>1. t \in Int
      BY <1>1, <1>3 DEF Queue, SharedQueue, Private, HttpHeader, IntroCluster, Cluster, NULL
    <3> QED
      BY <1>3, <1>7, <2>1, <3>1
  <2> DEFINE k == IF t - 1 <= last THEN t - 1 ELSE last
  <2>3. k \in SharedQueue(c) /\ D = {j \in SharedQueue(c) : j <= k}
    BY <1>3, <2>1, <2>2
  <2>4. received' = [received EXCEPT ![c] = @ \cup {j \in Abstract!Missing(c) : j <= k}]
    BY <1>1, <1>4, <1>5, <2>3
  <2>5. Abstract!Deliver(c)
    BY <1>2, <1>5, <2>3, <2>4 DEF Abstract!Deliver
  <2> QED
    BY <1>2, <2>5 DEF Abstract!Next
<1> QED
  BY <1>6, <1>7

\* As long as no write fails, a stream is a broadcast: every viewer gets what is
\* published after it joined, oldest first, nothing left out, nothing twice.
THEOREM ImplementsBroadcast == Spec => BroadcastSpec
<1>1. Init => Abstract!Init
  BY DEF Init, Abstract!Init, Viewers
<1>2. ASSUME Inv, Inv', [Next]_vars
      PROVE  [Abstract!Next]_Abstract!vars
  <2>1. TypeOK /\ TypeOK'
    BY <1>2 DEF Inv
  <2>2. ASSUME NEW c \in Client,
               EnterReceiveStream(c) \/ ReceiveStreamHeader(c) \/ ReceiveStream(c)
        PROVE  [Abstract!Next]_Abstract!vars
    <3>1. c \notin Viewers
      BY <2>2 DEF EnterReceiveStream, ReceiveStreamHeader, ReceiveStream, Viewers
    <3>2. /\ \A d \in Client : d # c => state'[d] = state[d]
          /\ state'[c] \in {"receive_stream_header", "receive_stream"}
      BY <2>1, <2>2 DEF EnterReceiveStream, ReceiveStreamHeader, ReceiveStream,
                        ReceiveHeaderBufferFilled, TypeOK
    <3>3. Viewers' = Viewers
      BY <3>1, <3>2 DEF Viewers
    <3>4. joined' = joined /\ received' = received
      BY <2>2 DEF EnterReceiveStream, ReceiveStreamHeader, ReceiveStream, historyVars
    <3>5. PICK k \in 0 .. MaxClusters - last : AppendClusters(c, k)
      <4>1. 0 \in 0 .. MaxClusters - last
        BY <2>1, Types
      <4> QED
        BY <2>2, <4>1 DEF EnterReceiveStream, ReceiveStreamHeader, ReceiveStream,
                          ReceiveHeaderBufferFilled
    <3> QED
      BY <1>2, <2>1, <3>1, <3>3, <3>4, <3>5, AppendPublishes
  <2>3. ASSUME NEW c \in Client, LeaveReceiveStream(c)
        PROVE  [Abstract!Next]_Abstract!vars
    <3>1. c \notin Viewers /\ Detached(c)
      BY <1>2, <2>3 DEF LeaveReceiveStream, Sources, Viewers, Inv, AllWired
    <3>2. joined' = joined /\ received' = received /\ last' = last
      BY <2>1, <2>3, <3>1 DEF LeaveReceiveStream, Forget, Detached, TypeOK
    <3>3. Viewers' = Viewers
      BY <2>3, <3>1 DEF LeaveReceiveStream, Forget, Viewers
    <3> QED
      BY <3>2, <3>3 DEF Abstract!vars
  <2>4. ASSUME NEW c \in Client, EnterSendStream(c)
        PROVE  [Abstract!Next]_Abstract!vars
    <3>1. c \notin Viewers /\ Viewers' = Viewers \cup {c}
      BY <2>1, <2>4 DEF EnterSendStream, Viewers, TypeOK
    <3>2. Abstract!Join(c)
      BY <2>4, <3>1 DEF EnterSendStream, streamVars, Abstract!Join
    <3> QED
      BY <3>2 DEF Abstract!Next
  <2>5. ASSUME NEW c \in Client, SendStream(c)
        PROVE  [Abstract!Next]_Abstract!vars
    BY <1>2, <2>5, SendStreamDelivers DEF SendStream
  <2>6. ASSUME NEW c \in Client, SendStreamTooFarBehind(c) \/ HangUp(c)
        PROVE  [Abstract!Next]_Abstract!vars
    BY <1>2, <2>6, LeaveSendStreamLeaves DEF SendStreamTooFarBehind, HangUp
  <2>7. CASE DeleteStream
    <3>1. Viewers' = {} /\ last' = 0
      BY <2>7 DEF DeleteStream, Forget, Viewers
    <3>2. joined' = [c \in Client |-> 0] /\ received' = [c \in Client |-> {}]
      BY <2>7 DEF DeleteStream, Forget
    <3> QED
      BY <3>1, <3>2 DEF Abstract!Next, Abstract!Close
  <2>8. CASE Tick \/ AbandonStream \/ UNCHANGED vars
    BY <2>8 DEF Tick, AbandonStream, vars, streamVars, clientVars, historyVars,
                Abstract!vars, Viewers
  <2> QED
    BY <1>2, <2>2, <2>3, <2>4, <2>5, <2>6, <2>7, <2>8 DEF Next
<1>3. Inv /\ [Next]_vars => Inv'
  BY InvStep
<1>4. Init => Inv
  BY InvInit
<1> QED
  BY <1>1, <1>2, <1>3, <1>4, PTL DEF Spec, BroadcastSpec, Abstract!Spec

-----------------------------------------------------------------------------
(* Deleting a stream. *)

\* With one source at a time, the time of the last disconnect is that of its
\* end, after all data it sent.
DisconnectInv ==
  /\ TypeOK
  /\ OneSource
  /\ latest_cluster_received_at <= now
  /\ last_disconnect_at # 0 => /\ Sources = {}
                               /\ latest_cluster_received_at <= last_disconnect_at

\* With one source at a time a stream is not deleted under its source, and
\* not earlier than the timeout after its last data, also when writes fail.
THEOREM DeletedLate ==
  ASSUME MaxSources = 1
  PROVE  SpecWithWriteErrors => DeletedOnlyWithoutData
<1>1. Init => DisconnectInv
  BY TypeInit DEF Init, DisconnectInv, OneSource, Sources
<1>2. ASSUME DisconnectInv, [NextWithWriteErrors]_vars
      PROVE  DisconnectInv'
  <2>1. TypeOK /\ TypeOK' /\ now \in Nat /\ now # 0 /\ latest_cluster_received_at \in Nat
        /\ last_disconnect_at \in Nat
    BY <1>2, AnyTypeStep DEF DisconnectInv, TypeOK
  <2>2. ASSUME NEW c \in Client,
               EnterReceiveStream(c) \/ ReceiveStreamHeader(c) \/ ReceiveStream(c)
        PROVE  DisconnectInv'
    <3>1. MaxSources = 1 => \A d \in Sources : d = c
      <4>1. Cardinality(Sources) < MaxSources \/ c \in Sources
        BY <2>2 DEF EnterReceiveStream, ReceiveStreamHeader, ReceiveStream, Sources
      <4> QED
        BY <1>2, <4>1, OnlySource DEF DisconnectInv
    <3>2. \A d \in Client : d # c => state'[d] = state[d]
      BY <2>1, <2>2 DEF EnterReceiveStream, ReceiveStreamHeader, ReceiveStream,
                        ReceiveHeaderBufferFilled, TypeOK
    <3>3. OneSource'
      BY <3>1, <3>2 DEF OneSource, Sources
    <3>4. last_disconnect_at' = 0
      <4>1. CASE EnterReceiveStream(c)
        BY <4>1 DEF EnterReceiveStream, CreateOrResume
      <4>2. CASE ReceiveStreamHeader(c) \/ ReceiveStream(c)
        <5>1. c \in Sources /\ last_disconnect_at' = last_disconnect_at
          BY <4>2 DEF ReceiveStreamHeader, ReceiveStream, Sources
        <5> QED
          BY <1>2, <5>1 DEF DisconnectInv
      <4> QED
        BY <2>2, <4>1, <4>2
    <3>5. now' = now /\ latest_cluster_received_at' \in {now, latest_cluster_received_at}
      BY <2>2 DEF EnterReceiveStream, ReceiveStreamHeader, ReceiveStream,
                  ReceiveHeaderBufferFilled, AppendClusters
    <3> QED
      BY <1>2, <2>1, <3>3, <3>4, <3>5 DEF DisconnectInv
  <2>3. ASSUME NEW c \in Client, LeaveReceiveStream(c)
        PROVE  DisconnectInv'
    <3>1. \A d \in Sources : d = c
      BY <1>2, <2>3 DEF LeaveReceiveStream, DisconnectInv, OneSource
    <3>2. \A d \in Client : state'[d] = IF d = c THEN "none" ELSE state[d]
      BY <2>3 DEF LeaveReceiveStream, Forget
    <3>3. Sources' = {}
      BY <3>1, <3>2 DEF Sources
    <3> QED
      BY <1>2, <2>1, <2>3, <3>3 DEF LeaveReceiveStream, DisconnectInv, OneSource
  <2>4. ASSUME NEW c \in Client,
               \/ EnterSendStream(c) \/ SendStream(c) \/ LeaveSendStream(c)
               \/ SendStreamWriteError(c)
        PROVE  DisconnectInv'
    <3>1. c \notin Sources \/ state'[c] = "none"
      BY <2>4 DEF EnterSendStream, SendStream, LeaveSendStream, SendStreamWriteError,
                  Forget, Sources, Viewers
    <3>2. \A d \in Client : /\ d # c => state'[d] = state[d]
                            /\ d = c => state'[d] \in {"none", "send_stream"}
      BY <2>1, <2>4 DEF EnterSendStream, SendStream, LeaveSendStream, SendStreamWriteError,
                        Forget, Viewers, TypeOK
    <3>3. Sources' \subseteq Sources
      BY <3>1, <3>2 DEF Sources
    <3>4. UNCHANGED <<now, latest_cluster_received_at, last_disconnect_at>>
      BY <2>4 DEF EnterSendStream, SendStream, LeaveSendStream, SendStreamWriteError, streamVars
    <3> QED
      BY <1>2, <2>1, <3>3, <3>4 DEF DisconnectInv, OneSource
  <2>5. CASE DeleteStream
    <3>1. Sources' = {}
      BY <2>5 DEF DeleteStream, Forget, Sources
    <3> QED
      BY <1>2, <2>1, <2>5, <3>1 DEF DeleteStream, DisconnectInv, OneSource
  <2>6. CASE Tick \/ AbandonStream \/ UNCHANGED vars
    <3>1. Sources' = Sources
      BY <2>6 DEF Tick, AbandonStream, vars, clientVars, Sources
    <3> QED
      BY <1>2, <2>1, <2>6, <3>1 DEF Tick, AbandonStream, vars, streamVars, DisconnectInv, OneSource
  <2> QED
    BY <1>2, <2>2, <2>3, <2>4, <2>5, <2>6 DEF NextWithWriteErrors, Next, SendStreamTooFarBehind, HangUp
<1>3. ASSUME DisconnectInv, [NextWithWriteErrors]_vars
      PROVE  allocated /\ ~allocated' =>
               Sources = {} /\ latest_cluster_received_at + DeleteTimeout < now
  <2>1. CASE DeleteStream
    BY <1>3, <2>1, ConstantsAssumption DEF DeleteStream, DisconnectInv, TypeOK
  <2>2. CASE ~DeleteStream
    <3>1. allocated' \/ allocated' = allocated
      BY <1>3, <2>2
      DEF NextWithWriteErrors, Next, EnterReceiveStream, CreateOrResume, ReceiveStreamHeader, ReceiveStream,
          LeaveReceiveStream, EnterSendStream, SendStream, SendStreamTooFarBehind, HangUp,
          LeaveSendStream, SendStreamWriteError, AbandonStream, Tick, vars, streamVars
    <3> QED
      BY <3>1
  <2> QED
    BY <2>1, <2>2
<1>4. DisconnectInv /\ [NextWithWriteErrors]_vars =>
        [allocated /\ ~allocated' => /\ Sources = {}
                                    /\ latest_cluster_received_at + DeleteTimeout < now]_vars
  BY <1>3
<1> QED
  BY <1>1, <1>2, <1>4, PTL DEF SpecWithWriteErrors, DeletedOnlyWithoutData

-----------------------------------------------------------------------------
(* The life of a stream. *)

\* Where the clients of the stream are decides on who sends and who watches.
LEMMA ClientMoves ==
  ASSUME TypeOK, NEW c \in Client, NEW s \in {"none", "receive_stream_header",
                                              "receive_stream", "send_stream"},
         \A d \in Client : state'[d] = IF d = c THEN s ELSE state[d]
  PROVE  /\ Sources' = IF s \in {"receive_stream_header", "receive_stream"}
                       THEN Sources \cup {c} ELSE Sources \ {c}
         /\ Viewers' = IF s = "send_stream" THEN Viewers \cup {c} ELSE Viewers \ {c}
<1>1. Sources' = IF s \in {"receive_stream_header", "receive_stream"}
                 THEN Sources \cup {c} ELSE Sources \ {c}
  BY DEF Sources
<1>2. Viewers' = IF s = "send_stream" THEN Viewers \cup {c} ELSE Viewers \ {c}
  BY DEF Viewers
<1> QED
  BY <1>1, <1>2

\* Whatever the buffers do, with write errors and any number of sources too, the
\* clients of a stream join and leave it, and it is created, resumed and deleted,
\* as StreamLife says.
THEOREM ImplementsLife == SpecWithWriteErrors => StreamLifeSpec
<1>1. Init => Life!Init
  BY DEF Init, Life!Init, Sources, Viewers
<1>2. ASSUME TypeOK, [NextWithWriteErrors]_vars
      PROVE  [Life!Next]_Life!vars
  <2>1. now \in Nat \ {0} /\ \A c \in Client : c \notin Sources \cap Viewers
    BY <1>2 DEF TypeOK, Sources, Viewers
  <2>2. ASSUME NEW c \in Client, EnterReceiveStream(c)
        PROVE  Life!SourceJoins(c)
    <3>1. PICK s \in {"receive_stream_header", "receive_stream"} :
            state' = [state EXCEPT ![c] = s]
      BY <2>2 DEF EnterReceiveStream, ReceiveHeaderBufferFilled
    <3>2. \A d \in Client : state'[d] = IF d = c THEN s ELSE state[d]
      BY <1>2, <3>1 DEF TypeOK
    <3>3. c \notin Sources \cup Viewers
      BY <2>2 DEF EnterReceiveStream, Sources, Viewers
    <3>4. Sources' = Sources \cup {c} /\ Viewers' = Viewers \ {c}
      BY <1>2, <3>2, ClientMoves
    <3> QED
      BY <2>2, <3>3, <3>4 DEF EnterReceiveStream, CreateOrResume, Life!SourceJoins
  <2>3. ASSUME NEW c \in Client, ReceiveStreamHeader(c) \/ ReceiveStream(c)
        PROVE  UNCHANGED Life!vars
    <3>1. PICK s \in {"receive_stream_header", "receive_stream"} :
            \A d \in Client : state'[d] = IF d = c THEN s ELSE state[d]
      BY <1>2, <2>3 DEF ReceiveStreamHeader, ReceiveStream, ReceiveHeaderBufferFilled, TypeOK
    <3>2. c \in Sources /\ c \notin Viewers
      BY <2>3 DEF ReceiveStreamHeader, ReceiveStream, Sources, Viewers
    <3>3. Sources' = Sources \cup {c} /\ Viewers' = Viewers \ {c}
      BY <1>2, <3>1, ClientMoves
    <3>4. Sources' = Sources /\ Viewers' = Viewers
      BY <3>2, <3>3
    <3> QED
      BY <2>3, <3>4 DEF ReceiveStreamHeader, ReceiveStream, Life!vars
  <2>4. ASSUME NEW c \in Client, Forget({c})
        PROVE  Sources' = Sources \ {c} /\ Viewers' = Viewers \ {c}
    <3>1. \A d \in Client : state'[d] = IF d = c THEN "none" ELSE state[d]
      BY <2>4 DEF Forget
    <3> QED
      BY <1>2, <3>1, ClientMoves
  <2>5. ASSUME NEW c \in Client, LeaveReceiveStream(c)
        PROVE  Life!SourceLeaves(c)
    <3>1. Forget({c}) /\ c \in Sources /\ c \notin Viewers
      BY <2>1, <2>5 DEF LeaveReceiveStream
    <3>2. Sources' = Sources \ {c} /\ Viewers' = Viewers
      BY <2>4, <3>1
    <3>3. last_disconnect_at' # 0
      BY <2>1, <2>5 DEF LeaveReceiveStream
    <3> QED
      BY <2>5, <3>1, <3>2, <3>3 DEF LeaveReceiveStream, Life!SourceLeaves
  <2>6. ASSUME NEW c \in Client, EnterSendStream(c)
        PROVE  Life!ViewerJoins(c)
    <3>1. \A d \in Client : state'[d] = IF d = c THEN "send_stream" ELSE state[d]
      BY <1>2, <2>6 DEF EnterSendStream, TypeOK
    <3>2. c \notin Sources \cup Viewers
      BY <2>6 DEF EnterSendStream, Sources, Viewers
    <3>3. Sources' = Sources \ {c} /\ Viewers' = Viewers \cup {c}
      BY <1>2, <3>1, ClientMoves
    <3>4. Sources' = Sources
      BY <3>2, <3>3
    <3> QED
      BY <2>6, <3>2, <3>3, <3>4 DEF EnterSendStream, streamVars, Life!ViewerJoins
  <2>7. ASSUME NEW c \in Client, SendStream(c)
        PROVE  UNCHANGED Life!vars
    BY <2>7 DEF SendStream, Life!vars, Sources, Viewers
  <2>8. ASSUME NEW c \in Client,
               SendStreamTooFarBehind(c) \/ HangUp(c) \/ SendStreamWriteError(c)
        PROVE  Life!ViewerLeaves(c)
    <3>1. Forget({c}) /\ c \in Viewers /\ c \notin Sources
      BY <2>1, <2>8 DEF SendStreamTooFarBehind, HangUp, LeaveSendStream, SendStreamWriteError
    <3>2. Sources' = Sources /\ Viewers' = Viewers \ {c}
      BY <2>4, <3>1
    <3>3. UNCHANGED <<allocated, last_disconnect_at>>
      BY <2>8 DEF SendStreamTooFarBehind, HangUp, LeaveSendStream, SendStreamWriteError
    <3> QED
      BY <3>1, <3>2, <3>3 DEF Life!ViewerLeaves
  <2>9. CASE DeleteStream
    <3>1. Sources' = {} /\ Viewers' = {}
      BY <2>9 DEF DeleteStream, Forget, Sources, Viewers
    <3> QED
      BY <2>9, <3>1 DEF DeleteStream, Life!Delete, Life!Next
  <2>10. CASE Tick \/ UNCHANGED vars
    BY <2>10 DEF Tick, vars, streamVars, clientVars, Life!vars, Sources, Viewers
  <2>11. CASE AbandonStream
    <3>1. Life!Abandoned
      BY <2>11 DEF AbandonStream, clientVars, Life!Abandoned, Sources, Viewers
    <3> QED
      BY <3>1 DEF Life!Next
  <2> QED
    BY <1>2, <2>2, <2>3, <2>5, <2>6, <2>7, <2>8, <2>9, <2>10, <2>11
    DEF NextWithWriteErrors, Next, Life!Next
<1> QED
  BY <1>1, <1>2, TypeCorrect, PTL DEF SpecWithWriteErrors, StreamLifeSpec, Life!Spec

=============================================================================
