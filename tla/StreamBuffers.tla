---------------------------- MODULE StreamBuffers ----------------------------
(***************************************************************************)
(* The data plane of one stream (client.c, smeb.c, common.h): the list of  *)
(* reference counted buffers that the source appends its clusters to and   *)
(* that every viewer walks at its own pace.                                *)
(*                                                                         *)
(* The server is one thread: a handler called by the poll loop runs to its *)
(* end before any other does, so each action below is one complete handler *)
(* call (the loop over all buffers a socket accepts, the loop over all     *)
(* clusters in a receive buffer). What interleaves is the order of calls.  *)
(*                                                                         *)
(* A cluster's node in stream_t.stream_buffers is named by the position in *)
(* which the stream appended it: 1, 2, ...  The three nodes a viewer makes *)
(* for itself, which every viewer has its own copy of, come before them,   *)
(* and NULL after all of them.  With that order the nodes that are ahead   *)
(* of a viewer are the ones not below its current node.                    *)
(***************************************************************************)
EXTENDS Integers, FiniteSets

CONSTANTS
  Client,         \* client connections, sources and viewers alike
  MaxClusters,    \* bound: clusters a stream appends before it is deleted
  MaxTime,        \* bound: the last instant of the clock
  LagLimit,       \* how far behind a viewer may be (30 s in the code)
  DeleteTimeout,  \* server.stream_delete_timeout_sec
  MaxSources      \* sources connected to the stream at the same time

ASSUME ConstantsAssumption ==
  /\ IsFiniteSet(Client)
  /\ MaxClusters \in Nat \ {0}
  /\ MaxTime \in Nat \ {0}
  /\ LagLimit \in Nat
  /\ DeleteTimeout \in Nat
  /\ MaxSources \in Nat \ {0}

VARIABLES
  allocated,           \* the stream exists in server->streams
  header,              \* stream->header holds the video header
  last,                \* clusters appended so far; the name of the newest node
  stream_buffers,      \* the nodes in the list
  refcount,            \* of each node, 0 once the node is freed
  timecode,            \* when each node was created
  latest_cluster_received_at,
  last_disconnect_at,  \* 0: the source is still there
  now,                 \* time_now()
  state,               \* client->state; "none": not part of this stream
  current,             \* client->current_stream_buffer
  stalled,             \* CLIENT_STALLED, the opposite of CLIENT_POLL_FOR_WRITE
  insert_next,         \* insert_next_received_cluster_buffer # NULL
  intro_next,          \* next pointer of the viewer's own intro node
  opened_at,           \* timecode of the viewer's own three nodes
  use_after_free,      \* a handler used a node that was freed: nothing is
                       \* known of the program from then on
  joined,              \* history: value of last when the viewer joined
  received             \* history: clusters written to the viewer completely

streamVars  == <<allocated, header, last, stream_buffers, refcount, timecode,
                 latest_cluster_received_at, last_disconnect_at>>
clientVars  == <<state, current, stalled, insert_next, intro_next, opened_at>>
historyVars == <<joined, received>>
vars == <<streamVars, clientVars, historyVars, now, use_after_free>>

Cluster == 1 .. MaxClusters

\* The nodes made by enter_send_stream (STREAM_BUFFER_CLIENT_PRIVATE).
HttpHeader   == -2
VideoHeader  == -1
IntroCluster == 0
Private == HttpHeader .. IntroCluster

NULL == MaxClusters + 1

Viewers == {c \in Client : state[c] = "send_stream"}
Sources == {c \in Client : state[c] \in {"receive_stream_header", "receive_stream"}}

\* The first node of the stream's list on the way of viewer c.
Link(c) == IF current[c] \in Private THEN intro_next[c] ELSE current[c]

\* The nodes viewer c passes when it follows the next pointers: the rest of
\* its own, then the part of the list that starts at the link.
SharedQueue(c) == {n \in stream_buffers : n >= Link(c)}
Queue(c) == {n \in Private : n >= current[c]} \cup SharedQueue(c)

\* The orders in which the clients can come up in an iteration.
Turns == {turn \in [Client -> 1 .. Cardinality(Client)] :
            \A c, d \in Client : turn[c] = turn[d] => c = d}

\* Clients that would still pass node n.
Holders(n) == {c \in Viewers : n \in SharedQueue(c)}

\* The node that viewer c comes to first was freed under it. (A node freed further
\* on is out of its way: list_remove takes it out of the next pointers that the
\* viewer follows.)
Dangling(c) == Link(c) \in Cluster \ stream_buffers

TooFarBehind(c, n) ==
  (IF n \in Private THEN opened_at[c] ELSE timecode[n]) + LagLimit
    < latest_cluster_received_at

-----------------------------------------------------------------------------
(* Reference counts *)

\* Mutant of Unref: each reference given back twice, without the check for 0.
UnrefTwice(D) ==
  /\ refcount' = [n \in Cluster |-> IF n \in D THEN refcount[n] - 2 ELSE refcount[n]]
  /\ stream_buffers' = {n \in stream_buffers : n \in D => refcount[n] # 2}

\* stream_buffer_unref on every node of D, each removed from the list when
\* its count drops to 0.
Unref(D) ==
  /\ refcount' = [n \in Cluster |-> IF n \in D /\ refcount[n] > 0
                                    THEN refcount[n] - 1 ELSE refcount[n]]
  /\ stream_buffers' = {n \in stream_buffers : n \in D => refcount[n] > 1}

\* The client is removed from server.clients.
Forget(S) ==
  LET Reset(f, v) == [c \in Client |-> IF c \in S THEN v ELSE f[c]] IN
  /\ state' = Reset(state, "none")
  /\ current' = Reset(current, NULL)
  /\ stalled' = Reset(stalled, FALSE)
  /\ insert_next' = Reset(insert_next, FALSE)
  /\ intro_next' = Reset(intro_next, NULL)
  /\ opened_at' = Reset(opened_at, 0)
  /\ joined' = Reset(joined, 0)
  /\ received' = Reset(received, {})

-----------------------------------------------------------------------------
(* The source *)

\* Mutant of WireIntro: insert_next_received_cluster_buffer is not reset.
WireIntroAgain(served) ==
  /\ insert_next' = insert_next
  /\ intro_next' = [d \in Client |-> IF d \in served /\ insert_next[d]
                                     THEN last + 1 ELSE intro_next[d]]

\* A viewer still at its own nodes gets the new node as next of its intro node.
WireIntro(served) ==
  /\ insert_next' = [d \in Client |-> insert_next[d] /\ d \notin served]
  /\ intro_next' = [d \in Client |-> IF d \in served /\ insert_next[d]
                                     THEN last + 1 ELSE intro_next[d]]

\* Mutant of Unstall: nobody is woken up.
UnstallNobody(served) ==
  UNCHANGED <<current, stalled>>

\* A viewer that ran out of data continues with the new node.
Unstall(served) ==
  /\ current' = [d \in Client |-> IF d \in served /\ stalled[d]
                                  THEN last + 1 ELSE current[d]]
  /\ stalled' = [d \in Client |-> stalled[d] /\ d \notin served]

\* receive_stream_buffer_filled: k complete clusters are in the receive buffer
\* of source c. Each is appended, referenced once for every other client of the
\* stream, wired to the intro node of a viewer that is still at its own nodes,
\* handed to a viewer that ran out of data, and unreferenced by the source.
AppendClusters(c, k) ==
  LET new      == last + 1 .. last + k
      watching == {d \in Client \ {c} : state[d] # "none"}
  IN
  /\ last' = last + k
  /\ refcount' = [n \in Cluster |-> IF n \in new THEN Cardinality(watching)
                                                 ELSE refcount[n]]
  /\ stream_buffers' = stream_buffers \cup (IF watching = {} THEN {} ELSE new)
  /\ timecode' = [n \in Cluster |-> IF n \in new THEN now ELSE timecode[n]]
  /\ latest_cluster_received_at' = IF k > 0 THEN now ELSE latest_cluster_received_at
  /\ LET served == IF k > 0 THEN watching ELSE {}
     IN  WireIntro(served) /\ Unstall(served)

\* receive_stream_header_buffer_filled: the video header may be complete, and
\* then clusters may follow it in the buffer.
ReceiveHeaderBufferFilled(c) ==
  \/ /\ state' = [state EXCEPT ![c] = "receive_stream_header"]
     /\ header' = header
     /\ AppendClusters(c, 0)
  \/ /\ state' = [state EXCEPT ![c] = "receive_stream"]
     /\ header' = TRUE
     /\ \E k \in 0 .. MaxClusters - last : AppendClusters(c, k)

\* Mutant of CreateOrResume: the time of the disconnect stays set.
ResumeDisconnected ==
  /\ allocated' = TRUE
  /\ last_disconnect_at' = last_disconnect_at

\* The stream is created, or resumed by another source.
CreateOrResume ==
  /\ allocated' = TRUE
  /\ last_disconnect_at' = 0

\* A POST request creates the stream or resumes it, and goes on with the data
\* that came in together with the request.
EnterReceiveStream(c) ==
  /\ state[c] = "none"
  /\ Cardinality(Sources) < MaxSources
  /\ CreateOrResume
  /\ ReceiveHeaderBufferFilled(c)
  /\ UNCHANGED <<opened_at, historyVars, now, use_after_free>>

\* fcntl fails for the first source: the stream stays in the dict, with neither a
\* source nor the time when one left.
AbandonStream ==
  /\ ~allocated
  /\ allocated' = TRUE
  /\ UNCHANGED <<header, last, stream_buffers, refcount, timecode,
                 latest_cluster_received_at, last_disconnect_at, clientVars,
                 historyVars, now, use_after_free>>

ReceiveStreamHeader(c) ==
  /\ state[c] = "receive_stream_header"
  /\ ReceiveHeaderBufferFilled(c)
  /\ UNCHANGED <<allocated, last_disconnect_at, opened_at, historyVars, now,
                 use_after_free>>

ReceiveStream(c) ==
  /\ state[c] = "receive_stream"
  /\ \E k \in 1 .. MaxClusters - last : AppendClusters(c, k)
  /\ UNCHANGED <<allocated, header, last_disconnect_at, state, opened_at,
                 historyVars, now, use_after_free>>

\* The source is gone: end of file, a read error, POLLHUP or POLLERR.
LeaveReceiveStream(c) ==
  /\ c \in Sources
  /\ last_disconnect_at' = now
  /\ Forget({c})
  /\ UNCHANGED <<allocated, header, last, stream_buffers, refcount, timecode,
                 latest_cluster_received_at, now, use_after_free>>

-----------------------------------------------------------------------------
(* The viewers *)

\* Mutant of StopAt: CLIENT_STALLED is not set.
StopAtNeverStalled(c, t) ==
  /\ current' = [current EXCEPT ![c] = t]
  /\ stalled' = stalled

\* send_stream leaves viewer c at node t (in which the socket stopped to
\* accept data), or stalled when it ran out of nodes (t = NULL).
StopAt(c, t) ==
  /\ current' = [current EXCEPT ![c] = t]
  /\ stalled' = [stalled EXCEPT ![c] = (t = NULL)]

\* A GET request for the stream: the viewer's own three nodes are made, and
\* sent as far as the socket takes them.
EnterSendStream(c) ==
  /\ state[c] = "none"
  /\ allocated
  /\ state' = [state EXCEPT ![c] = "send_stream"]
  /\ opened_at' = [opened_at EXCEPT ![c] = now]
  /\ \E t \in Private \cup {NULL} :
       /\ StopAt(c, t)
       /\ insert_next' = [insert_next EXCEPT ![c] = (t # NULL)]
  /\ joined' = [joined EXCEPT ![c] = last]
  /\ UNCHANGED <<streamVars, intro_next, received, now, use_after_free>>

\* Mutant of Finished: the buffer that is written partly is given back as well.
FinishedAndCurrent(c, t) == {n \in Queue(c) : n <= t}

\* The buffers that are finished when the viewer stops at t: each of them was
\* written completely and unreferenced.
Finished(c, t) == {n \in Queue(c) : n < t}

\* No node between the current one and t made the viewer give up.
KeptUp(c, t) == \A n \in Queue(c) : current[c] < n /\ n <= t => ~TooFarBehind(c, n)

\* A call that writes buffers and then has to wait. (One that waits in the
\* same buffer it started in changes nothing.) It uses its link unless it both
\* starts and stops at the viewer's own nodes.
SendStream(c) ==
  /\ c \in Viewers
  /\ ~stalled[c]
  /\ \E t \in (Queue(c) \ {current[c]}) \cup {NULL} :
       /\ KeptUp(c, t)
       /\ Unref(Finished(c, t))
       /\ StopAt(c, t)
       /\ insert_next' = [insert_next EXCEPT ![c] = @ /\ t # NULL]
       /\ intro_next' = [intro_next EXCEPT ![c] = IF t \in Private THEN @ ELSE NULL]
       /\ received' = [received EXCEPT ![c] = @ \cup (Finished(c, t) \cap Cluster)]
       /\ use_after_free' = (Dangling(c) /\ {current[c], t} \cap (Cluster \cup {NULL}) # {})
  /\ UNCHANGED <<allocated, header, last, timecode, latest_cluster_received_at,
                 last_disconnect_at, now, state, opened_at, joined>>

\* Mutant of LeaveSendStream: the loop starts behind the current node.
LeaveSendStreamFromNext(c) ==
  /\ Unref(SharedQueue(c) \ {current[c]})
  /\ Forget({c})
  /\ use_after_free' = Dangling(c)
  /\ UNCHANGED <<allocated, header, last, timecode, latest_cluster_received_at,
                 last_disconnect_at, now>>

\* CLIENT_CON_CLEANUP: all buffers the client would have received are
\* unreferenced.
LeaveSendStream(c) ==
  /\ Unref(SharedQueue(c))
  /\ Forget({c})
  /\ use_after_free' = Dangling(c)
  /\ UNCHANGED <<allocated, header, last, timecode, latest_cluster_received_at,
                 last_disconnect_at, now>>

\* After a finished buffer the next one turns out to be too old: the client is
\* disconnected, with that next one as its current buffer.
SendStreamTooFarBehind(c) ==
  /\ c \in Viewers
  /\ ~stalled[c]
  /\ \E t \in Queue(c) \ {current[c]} : TooFarBehind(c, t)
  /\ LeaveSendStream(c)

\* POLLHUP or POLLERR on the connection of a viewer.
HangUp(c) ==
  /\ c \in Viewers
  /\ LeaveSendStream(c)

\* write() fails in node t: leave_send_stream unreferences t and all that
\* follows, the handler returns -1, and disconnect_client calls it again with
\* CLIENT_CON_CLEANUP, which starts from the same t: from a freed node when the
\* first pass freed it. The nodes that the first pass freed further on are no
\* longer on the way of the second.
SendStreamWriteError(c) ==
  /\ c \in Viewers
  /\ ~stalled[c]
  /\ \E t \in Queue(c) :
       LET finished == Finished(c, t)
           rest     == Queue(c) \ finished
           \* references the viewer gives back
           Returned(n) == IF n \in finished THEN 1 ELSE IF n \in rest THEN 2 ELSE 0
       IN
       /\ KeptUp(c, t)
       /\ refcount' = [n \in Cluster |-> IF refcount[n] > Returned(n)
                                         THEN refcount[n] - Returned(n) ELSE 0]
       /\ stream_buffers' = {n \in stream_buffers : refcount[n] > Returned(n)}
       /\ use_after_free' = (Dangling(c) \/ t \in Private \/ refcount[t] <= 1)
  /\ Forget({c})
  /\ UNCHANGED <<allocated, header, last, timecode, latest_cluster_received_at,
                 last_disconnect_at, now>>

-----------------------------------------------------------------------------
(* The timer *)

\* The source has been gone for longer than the timeout: all clients of the
\* stream are disconnected, one after the other in some order (that of the hash
\* table), then the stream is freed. A viewer uses a freed node when its link was
\* freed before, or when the viewers that leave before it give back the last of
\* the references.
DeleteStream ==
  /\ allocated
  /\ last_disconnect_at # 0
  /\ last_disconnect_at + DeleteTimeout < now
  /\ Forget(Client)
  /\ allocated' = FALSE
  /\ header' = FALSE
  /\ last' = 0
  /\ stream_buffers' = {}
  /\ refcount' = [n \in Cluster |-> 0]
  /\ timecode' = [n \in Cluster |-> 0]
  /\ latest_cluster_received_at' = 0
  /\ last_disconnect_at' = 0
  /\ \E turn \in Turns :
       use_after_free' = \E c \in Viewers :
         /\ Link(c) \in Cluster
         /\ refcount[Link(c)] <= Cardinality({d \in Holders(Link(c)) : turn[d] < turn[c]})
  /\ UNCHANGED now

Tick ==
  /\ now < MaxTime
  /\ now' = now + 1
  /\ UNCHANGED <<streamVars, clientVars, historyVars, use_after_free>>

-----------------------------------------------------------------------------
Init ==
  /\ allocated = FALSE
  /\ header = FALSE
  /\ last = 0
  /\ stream_buffers = {}
  /\ refcount = [n \in Cluster |-> 0]
  /\ timecode = [n \in Cluster |-> 0]
  /\ latest_cluster_received_at = 0
  /\ last_disconnect_at = 0
  /\ now = 1
  /\ state = [c \in Client |-> "none"]
  /\ current = [c \in Client |-> NULL]
  /\ stalled = [c \in Client |-> FALSE]
  /\ insert_next = [c \in Client |-> FALSE]
  /\ intro_next = [c \in Client |-> NULL]
  /\ opened_at = [c \in Client |-> 0]
  /\ use_after_free = FALSE
  /\ joined = [c \in Client |-> 0]
  /\ received = [c \in Client |-> {}]

Next ==
  /\ ~use_after_free
  /\ \/ \E c \in Client : \/ EnterReceiveStream(c)
                          \/ ReceiveStreamHeader(c)
                          \/ ReceiveStream(c)
                          \/ LeaveReceiveStream(c)
                          \/ EnterSendStream(c)
                          \/ SendStream(c)
                          \/ SendStreamTooFarBehind(c)
                          \/ HangUp(c)
     \/ AbandonStream
     \/ DeleteStream
     \/ Tick

Spec == Init /\ [][Next]_vars

\* write() may also fail with something else than EAGAIN.
NextWithWriteErrors ==
  \/ Next
  \/ ~use_after_free /\ \E c \in Client : SendStreamWriteError(c)

SpecWithWriteErrors == Init /\ [][NextWithWriteErrors]_vars

-----------------------------------------------------------------------------
(* Properties *)

Node == Private \cup Cluster \cup {NULL}

\* The types of the fields of stream_t, stream_buffer_t and client_t.
TypeOK ==
  /\ allocated \in BOOLEAN
  /\ header \in BOOLEAN
  /\ last \in 0 .. MaxClusters
  /\ stream_buffers \subseteq 1 .. last
  /\ refcount \in [Cluster -> Nat]
  /\ timecode \in [Cluster -> Nat]
  /\ latest_cluster_received_at \in Nat
  /\ last_disconnect_at \in Nat
  /\ now \in Nat \ {0}
  /\ state \in [Client -> {"none", "receive_stream_header", "receive_stream", "send_stream"}]
  /\ current \in [Client -> Node]
  /\ stalled \in [Client -> BOOLEAN]
  /\ insert_next \in [Client -> BOOLEAN]
  /\ intro_next \in [Client -> Cluster \cup {NULL}]
  /\ opened_at \in [Client -> Nat]
  /\ use_after_free \in BOOLEAN
  /\ joined \in [Client -> 0 .. MaxClusters]
  /\ received \in [Client -> SUBSET Cluster]

\* A buffer is referenced exactly once by every viewer that still has to send
\* it, and is freed with the last of them (stream_buffer_ref and
\* stream_buffer_unref; "the buffer is referenced by all clients watching this
\* stream", client.c:453).
RefcountExact ==
  \A n \in Cluster :
    /\ refcount[n] = Cardinality(Holders(n))
    /\ n \in stream_buffers <=> refcount[n] > 0

\* Whatever the other clients do, no buffer is freed under a viewer that still
\* has to send it: its current node, its intro node's next and everything
\* appended since then are in the list.
NoDanglingBuffers ==
  /\ ~use_after_free
  /\ \A c \in Viewers : Link(c) .. last \subseteq stream_buffers

\* Across stalls, wake-ups and the switch from its own nodes to the list, each
\* cluster appended since a viewer joined is either sent to it already or
\* still ahead of it, and never both.
NoGapNoDuplicate ==
  \A c \in Viewers :
    /\ received[c] \cup SharedQueue(c) = joined[c] + 1 .. last
    /\ received[c] \cap SharedQueue(c) = {}

\* A viewer is out of the poll for writing exactly when it got everything there
\* is, and is wired to the next cluster exactly when none arrived since it
\* joined and it is still at its own nodes: no wake-up is lost, none is spurious.
NoLostWakeup ==
  \A c \in Viewers :
    /\ stalled[c] <=> current[c] \notin Private /\ received[c] = joined[c] + 1 .. last
    /\ insert_next[c] <=> current[c] \in Private /\ joined[c] = last

\* A stream is deleted only when no source is connected and no data arrived
\* within the timeout (the log line at smeb.c:224).
DeletedOnlyWithoutData ==
  [][allocated /\ ~allocated' =>
       /\ Sources = {}
       /\ latest_cluster_received_at + DeleteTimeout < now]_vars

\* A viewer is served the video header and an intro cluster first
\* (client.c:513-518), so both exist when it starts.
ViewerStartsWithIntro ==
  [][\A c \in Client : state[c] = "none" /\ state'[c] = "send_stream"
       => header /\ last > 0]_vars

\* The list of reference counted buffers implements the broadcast that a stream
\* promises; the clusters counted by last are the published ones.
Abstract == INSTANCE Broadcast WITH published <- last, watching <- Viewers
BroadcastSpec == Abstract!Spec

\* The clients of a stream come and go, and the stream with them, as the control
\* plane lets them (http_request_dispatch, disconnect_client, the expiry).
Life == INSTANCE StreamLife WITH
  exists <- allocated, idle <- last_disconnect_at # 0, sources <- Sources, viewers <- Viewers
StreamLifeSpec == Life!Spec

\* A viewer whose peer goes on reading gets every cluster appended after it
\* joined, unless it is disconnected.
EveryClusterDelivered ==
  \A c \in Client, n \in Cluster :
    (c \in Viewers /\ joined[c] < n /\ n <= last) ~> (n \in received[c] \/ c \notin Viewers)

=============================================================================
