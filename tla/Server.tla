------------------------------- MODULE Server -------------------------------
(***************************************************************************)
(* The control plane (main of smeb.c, the HTTP states and the dispatch of  *)
(* client.c): the poll loop with its snapshot of the clients, the life of  *)
(* a connection from accept to disconnect_client, and the life of the      *)
(* streams in server.streams.                                              *)
(*                                                                         *)
(* One iteration of the loop goes through the phases poll, clients (one    *)
(* step per entry of pollfds), timer and accept.  A step is everything     *)
(* the thread does for one entry: the client handler, and when it returns  *)
(* -1 the disconnect with its second call of the handler.  What the bytes  *)
(* of a video do to the buffers of its stream is in module StreamBuffers;  *)
(* here a viewer either waits for its socket or is stalled.                *)
(***************************************************************************)
EXTENDS Integers, Sequences, FiniteSets

CONSTANTS
  Fd,       \* file descriptors that connections get
  Path,     \* paths, as they stand in requests or decoded
  Decode,   \* urldecode: a function from paths to paths
  Status,   \* the path "/" or "/index.json"
  Stream,   \* bound: addresses that streams are allocated at
  Timeout,     \* server.stream_delete_timeout_sec, in ticks of the clock
  FcntlFails,  \* whether a new source may fail to be made non-blocking
  NULL

ASSUME ServerAssumption ==
  /\ IsFiniteSet(Fd)
  /\ IsFiniteSet(Stream)
  /\ Decode \in [Path -> Path]
  /\ Status \in Path
  /\ Decode[Status] = Status
  /\ NULL \notin Stream
  /\ Timeout \in Nat
  /\ FcntlFails \in BOOLEAN

VARIABLES
  phase,     \* where the poll loop is; "stopped": main has left it
  ready,     \* which of the timer and the listening socket poll reported
  pollfds,   \* the entries of the clients: [fd, revents]
  rest,      \* what the iteration over the clients has still ahead of it
  position,  \* i, counted from the first client's entry
  half,      \* "out" when the POLLIN part of an entry is done, "in" before
  clients,   \* keys of server.clients in the order of an iteration
  client,    \* client_t of each connection
  streams,   \* server.streams: a function from paths to streams
  live,      \* streams that are allocated
  idle,      \* ticks since the source of a stream has gone, 0: it is there
  expired,   \* the timer expired and was not read yet
  bad_free   \* free() got something that malloc() did not return, or twice

loopVars  == <<phase, ready, pollfds, rest, position, half>>
stateVars == <<clients, client, streams, live, idle>>
vars == <<loopVars, stateVars, expired, bad_free>>

Connected == {clients[i] : i \in 1 .. Len(clients)}

\* What is left of the order of an iteration when only the elements in C stay.
Kept(order, C) ==
  LET kept[n \in 0 .. Len(order)] ==
        IF n = 0 THEN <<>>
        ELSE IF order[n] \in C THEN Append(kept[n - 1], order[n])
        ELSE kept[n - 1]
  IN kept[Len(order)]

Receiving == {"receive_stream_header", "receive_stream"}

\* A zeroed client_t; it also stands for a connection that does not exist.
\* request is the method and the resource, buffer where the answer is stored
\* and moved whether client->buffer.ptr still points to its start.
Blank == [state |-> "none", poll_for |-> {}, stalled |-> FALSE, request |-> NULL,
          stream |-> NULL, buffer |-> NULL, moved |-> FALSE]

Request == [post : BOOLEAN, path : Path]

-----------------------------------------------------------------------------
(* The phases of an iteration of the loop *)

\* Mutant of Following: connections are accepted before the clients are served.
FollowingAcceptFirst(p) ==
  CASE p = "poll"    -> "accept"
    [] p = "accept"  -> "clients"
    [] p = "clients" -> "timer"
    [] p = "timer"   -> "poll"

\* New connections come last: the snapshot in pollfds is valid until then.
Following(p) ==
  CASE p = "poll"    -> "clients"
    [] p = "clients" -> "timer"
    [] p = "timer"   -> "accept"
    [] p = "accept"  -> "poll"

\* The loop goes on to the next phase.
Proceed ==
  /\ phase' = Following(phase)
  /\ rest' = IF phase' = "clients" THEN clients' ELSE <<>>
  /\ position' = 1
  /\ half' = "in"

\* The snapshot of the clients, and what poll reports for them: POLLIN and
\* POLLOUT when asked for, POLLHUP or POLLERR ("hup") always.
Poll ==
  /\ phase = "poll"
  /\ \E events \in [1 .. Len(clients) -> SUBSET {"in", "out", "hup"}],
        connecting \in IF Connected = Fd THEN {{}} ELSE {{}, {"accept"}} :
       /\ \A i \in 1 .. Len(clients) :
            events[i] \subseteq client[clients[i]].poll_for \cup {"hup"}
       /\ ready' = connecting \cup (IF expired THEN {"timer"} ELSE {})
       /\ ready' # {} \/ \E i \in 1 .. Len(clients) : events[i] # {}
       /\ pollfds' = [i \in 1 .. Len(clients) |->
                        [fd |-> clients[i], revents |-> events[i]]]
  /\ UNCHANGED <<stateVars, expired, bad_free>>
  /\ Proceed

\* SIGINT or SIGTERM: the loop is left. Both tables are destroyed, while the streams
\* themselves stay allocated and no connection is closed.
Signal ==
  /\ phase = "poll"
  /\ phase' = "stopped"
  /\ clients' = <<>>
  /\ client' = [c \in Fd |-> Blank]
  /\ streams' = [p \in {} |-> NULL]
  /\ UNCHANGED <<ready, pollfds, rest, position, half, live, idle, expired, bad_free>>

\* poll fails: exit(1).
PollFails ==
  /\ phase = "poll"
  /\ phase' = "stopped"
  /\ UNCHANGED <<ready, pollfds, rest, position, half, stateVars, expired, bad_free>>

ClientsDone ==
  /\ phase = "clients"
  /\ rest = <<>>
  /\ pollfds' = <<>>
  /\ UNCHANGED <<ready, stateVars, expired, bad_free>>
  /\ Proceed

-----------------------------------------------------------------------------
(* disconnect_client *)

\* How the sending of an answer ends decides on what is freed: write() failed in
\* the handler, which frees client->buffer.ptr and then, called for the cleanup,
\* client->buffer_to_free; or the connection is closed before all was sent, and
\* the write() of the cleanup fails, which frees client->buffer.ptr.
FreesBadly(c, end) ==
  /\ client[c].state = "send_buffer_and_disconnect"
  /\ \/ end = "write failed"
     \/ end = "closed" /\ (client[c].buffer = "literal" \/ client[c].moved)

\* Mutant of SourceGone: the time of the disconnect is not remembered.
SourceForgotten(C) == idle

\* leave_receive_stream in the cleanup of the clients C.
SourceGone(C) ==
  [s \in Stream |-> IF \E c \in C : client[c].state \in Receiving /\ client[c].stream = s
                    THEN 1 ELSE idle[s]]

Disconnect(c, end) ==
  /\ clients' = Kept(clients, Fd \ {c})
  /\ client' = [client EXCEPT ![c] = Blank]
  /\ idle' = SourceGone({c})
  /\ bad_free' = FreesBadly(c, end)

-----------------------------------------------------------------------------
(* The states of the client handler when it returns to the loop *)

Become(fields, c) ==
  [client EXCEPT ![c] = [f \in DOMAIN @ |-> IF f \in DOMAIN fields THEN fields[f] ELSE @[f]]]

\* enter_send_buffer_and_disconnect, after the status was written to a buffer of
\* its own or a text of the program was made the buffer.
SendBuffer(c, b) ==
  /\ client' = Become([state |-> "send_buffer_and_disconnect", poll_for |-> {"out"},
                       request |-> NULL, buffer |-> b], c)
  /\ UNCHANGED <<streams, live, idle>>

\* Mutant of Unstalled: CLIENT_POLL_FOR_WRITE is not set.
UnstalledUnpolled(f, c) ==
  [d \in Fd |-> IF d # c /\ f[d].stalled /\ f[d].stream = f[c].stream
                THEN [f[d] EXCEPT !.stalled = FALSE]
                ELSE f[d]]

\* Viewers that ran out of data, of the stream that got new clusters from c.
Unstalled(f, c) ==
  [d \in Fd |-> IF d # c /\ f[d].stalled /\ f[d].stream = f[c].stream
                THEN [f[d] EXCEPT !.stalled = FALSE, !.poll_for = {"out"}]
                ELSE f[d]]

\* receive_stream_header_buffer_filled and receive_stream_buffer_filled: there
\* may be a complete header, and then complete clusters.
BufferFilled(c, f) ==
  \/ client' = f
  \/ client' = [f EXCEPT ![c].state = "receive_stream"]
  \/ client' = Unstalled([f EXCEPT ![c].state = "receive_stream"], c)

\* Mutant of StreamAt: the path of a request is not decoded, and no request
\* finds the stream.
StreamAtNever(path) == NULL

\* The stream that http_request_dispatch finds for a path.
StreamAt(path) == IF Decode[path] \in DOMAIN streams THEN streams[Decode[path]] ELSE NULL

\* Mutant of Found: client->stream is not checked.
FoundAlways(path) == TRUE

Found(path) == StreamAt(path) # NULL

\* The dict with a stream put into it.
Listed(path, s) == [p \in DOMAIN streams \cup {path} |-> IF p = path THEN s ELSE streams[p]]

\* enter_receive_stream: the stream is created under the path as it stands in
\* the request, or resumed.
EnterReceiveStream(c, path) ==
  \E s \in IF Found(path) THEN {StreamAt(path)} ELSE Stream \ live :
    /\ streams' = IF s \in live THEN streams ELSE Listed(path, s)
    /\ live' = live \cup {s}
    /\ idle' = [idle EXCEPT ![s] = 0]
    /\ BufferFilled(c, Become([state |-> "receive_stream_header", poll_for |-> {"in"},
                               request |-> NULL, stream |-> s], c))

\* Mutant of SendStream: CLIENT_POLL_FOR_READ is not cleared.
SendStreamReading(c, s) ==
  /\ \E stalled \in BOOLEAN :
       client' = Become([state |-> "send_stream", request |-> NULL, stream |-> s,
                         stalled |-> stalled,
                         poll_for |-> {"in"} \cup IF stalled THEN {} ELSE {"out"}], c)
  /\ UNCHANGED <<streams, live, idle>>

\* enter_send_stream and send_stream: the socket takes no more data for now, or
\* there is no more to send.
SendStream(c, s) ==
  /\ \E stalled \in BOOLEAN :
       client' = Become([state |-> "send_stream", request |-> NULL, stream |-> s,
                         stalled |-> stalled,
                         poll_for |-> IF stalled THEN {} ELSE {"out"}], c)
  /\ UNCHANGED <<streams, live, idle>>

\* http_request_dispatch and the state it enters.
Dispatch(c, request) ==
  IF Decode[request.path] = Status THEN SendBuffer(c, "heap")
  ELSE IF request.post             THEN EnterReceiveStream(c, request.path)
  ELSE IF Found(request.path)      THEN SendStream(c, StreamAt(request.path))
  ELSE SendBuffer(c, "literal")

\* http_request_headline: the first line is complete, and with it may be all the
\* headers. (A call that finds an incomplete line changes nothing here.)
Headline(c) ==
  /\ client[c].state = "http_request_headline"
  /\ \E request \in Request :
       \/ /\ client' = Become([state |-> "http_request_headers", request |-> request], c)
          /\ UNCHANGED <<streams, live, idle>>
       \/ Dispatch(c, request)

Headers(c) ==
  /\ client[c].state = "http_request_headers"
  /\ Dispatch(c, client[c].request)

Receive(c) ==
  /\ client[c].state \in Receiving
  /\ BufferFilled(c, client)
  /\ UNCHANGED <<streams, live, idle>>

Send(c) ==
  /\ client[c].state = "send_stream"
  /\ SendStream(c, client[c].stream)

\* send_buffer_and_disconnect with something left for the next time.
SendPart(c) ==
  /\ client[c].state = "send_buffer_and_disconnect"
  /\ client' = Become([moved |-> TRUE], c)
  /\ UNCHANGED <<streams, live, idle>>

\* A call of the handler that returns 0, with no effect or with one of the above.
Serve(c) ==
  /\ \/ Headline(c)
     \/ Headers(c)
     \/ Receive(c)
     \/ Send(c)
     \/ SendPart(c)
     \/ UNCHANGED <<client, streams, live, idle>>
  /\ UNCHANGED <<clients, bad_free>>

\* A call that returns -1: end of file, a read or a write error, a malformed
\* request, a viewer that is too far behind, or an answer that is sent.
Fail(c) ==
  /\ \E end \in IF client[c].state = "send_buffer_and_disconnect"
                THEN {"sent", "write failed"} ELSE {"gone"} : Disconnect(c, end)
  /\ UNCHANGED <<streams, live>>

\* fcntl fails in enter_receive_stream: the new stream stays in the dict, and the
\* client, which is in an HTTP state still, goes.
Abandon(c) ==
  /\ FcntlFails
  /\ \E request \in CASE client[c].state = "http_request_headline" -> Request
                     [] client[c].state = "http_request_headers" -> {client[c].request}
                     [] OTHER -> {} :
       /\ request.post /\ Decode[request.path] # Status /\ ~Found(request.path)
       /\ \E s \in Stream \ live :
            /\ streams' = Listed(request.path, s)
            /\ live' = live \cup {s}
  /\ Disconnect(c, "gone")

\* What the handler is called for an event that is not an error.
Handle(c) == Serve(c) \/ Fail(c) \/ Abandon(c)

-----------------------------------------------------------------------------
(* One entry of pollfds *)

NextEntry ==
  /\ rest' = Tail(rest)
  /\ position' = position + 1
  /\ half' = "in"
  /\ UNCHANGED <<phase, ready, pollfds, expired>>

AtEntry(h) == phase = "clients" /\ rest # <<>> /\ half = h

Revents == pollfds[position].revents

\* POLLHUP or POLLERR
HungUp ==
  /\ AtEntry("in")
  /\ "hup" \in Revents
  /\ Disconnect(Head(rest), "closed")
  /\ UNCHANGED <<streams, live>>
  /\ NextEntry

Quiet ==
  /\ AtEntry("in")
  /\ Revents = {}
  /\ NextEntry
  /\ UNCHANGED <<stateVars, bad_free>>

\* The POLLIN part of an entry.
Readable ==
  /\ AtEntry("in")
  /\ "in" \in Revents /\ "hup" \notin Revents
  /\ Handle(Head(rest))
  /\ IF "out" \in Revents THEN half' = "out" /\ UNCHANGED <<phase, ready, pollfds, expired, rest, position>>
                          ELSE NextEntry

\* The POLLOUT part, which follows the POLLIN part of the same entry.
Writable ==
  /\ \/ AtEntry("in") /\ Revents = {"out"}
     \/ AtEntry("out")
  /\ Handle(Head(rest))
  /\ NextEntry

-----------------------------------------------------------------------------
(* Timer and new connections *)

\* Mutant of Attached: only the viewers of a stream are disconnected.
AttachedViewers(S) == {c \in Connected : client[c].stream \in S /\ client[c].state = "send_stream"}

Attached(S) == {c \in Connected : client[c].stream \in S}

\* Streams whose source is gone for longer than the timeout are deleted, after
\* all their clients were disconnected.
DeleteStreams(S) ==
  /\ clients' = Kept(clients, Fd \ Attached(S))
  /\ client' = [c \in Fd |-> IF c \in Attached(S) THEN Blank ELSE client[c]]
  /\ streams' = [p \in {q \in DOMAIN streams : streams[q] \notin S} |-> streams[p]]
  /\ live' = live \ S
  /\ idle' = [s \in Stream |-> IF s \in S THEN 0 ELSE idle[s]]

TimerExpired ==
  /\ phase = "timer"
  /\ "timer" \in ready
  /\ DeleteStreams({s \in live : idle[s] > Timeout + 1
                                 /\ \E p \in DOMAIN streams : streams[p] = s})
  /\ expired' = FALSE
  /\ UNCHANGED <<ready, pollfds, bad_free>>
  /\ Proceed

NoTimer ==
  /\ phase = "timer"
  /\ "timer" \notin ready
  /\ UNCHANGED <<ready, pollfds, stateVars, expired, bad_free>>
  /\ Proceed

\* Every order in which a hash of the clients C may be iterated.
Orders(C) == {order \in [1 .. Cardinality(C) -> C] : {order[i] : i \in DOMAIN order} = C}

\* The new connection is put into the hash, which may resize, and its handler is
\* called for the first time.
Accept ==
  /\ phase = "accept"
  /\ "accept" \in ready
  /\ \E c \in Fd \ Connected :
       /\ clients' \in Orders(Connected \cup {c})
       /\ client' = [client EXCEPT ![c] = [Blank EXCEPT !.state = "http_request_headline",
                                                        !.poll_for = {"in"}]]
  /\ ready' = {}
  /\ UNCHANGED <<pollfds, streams, live, idle, expired, bad_free>>
  /\ Proceed

\* accept4 fails, also when a peer gave up again or no descriptor is free: exit(1).
AcceptFails ==
  /\ phase = "accept"
  /\ "accept" \in ready
  /\ phase' = "stopped"
  /\ UNCHANGED <<ready, pollfds, rest, position, half, stateVars, expired, bad_free>>

NoAccept ==
  /\ phase = "accept"
  /\ "accept" \notin ready
  /\ ready' = {}
  /\ UNCHANGED <<pollfds, stateVars, expired, bad_free>>
  /\ Proceed

\* Time passes, and the timer expires.
Tick ==
  /\ phase = "poll"
  /\ expired' = TRUE
  /\ idle' = [s \in Stream |-> IF idle[s] \in 1 .. Timeout + 1 THEN idle[s] + 1 ELSE idle[s]]
  /\ UNCHANGED <<loopVars, clients, client, streams, live, bad_free>>

-----------------------------------------------------------------------------
Init ==
  /\ phase = "poll"
  /\ ready = {}
  /\ pollfds = <<>>
  /\ rest = <<>>
  /\ position = 1
  /\ half = "in"
  /\ clients = <<>>
  /\ client = [c \in Fd |-> Blank]
  /\ streams = [p \in {} |-> NULL]
  /\ live = {}
  /\ idle = [s \in Stream |-> 0]
  /\ expired = FALSE
  /\ bad_free = FALSE

Loop ==
  /\ ~bad_free
  /\ \/ Poll
     \/ HungUp
     \/ Quiet
     \/ Readable
     \/ Writable
     \/ ClientsDone
     \/ TimerExpired
     \/ NoTimer
     \/ Accept
     \/ NoAccept

Next == Loop \/ Signal \/ PollFails \/ AcceptFails \/ Tick

Spec == Init /\ [][Next]_vars

\* The thread goes on, and timerfd expires every 10 seconds.
FairSpec == Spec /\ WF_vars(Loop) /\ SF_vars(Tick)

-----------------------------------------------------------------------------
(* Properties *)

Sources(s) == {c \in Connected : client[c].state \in Receiving /\ client[c].stream = s}

\* client_t in each of its states: which fields are in use.
ClientType ==
  LET Client(states, requests, served, buffers) ==
        [state : states, poll_for : SUBSET {"in", "out"}, stalled : BOOLEAN,
         request : requests, stream : served, buffer : buffers, moved : BOOLEAN]
  IN Client({"none", "http_request_headline"}, {NULL}, {NULL}, {NULL})
       \cup Client({"http_request_headers"}, Request, {NULL}, {NULL})
       \cup Client(Receiving \cup {"send_stream"}, {NULL}, Stream, {NULL})
       \cup Client({"send_buffer_and_disconnect"}, {NULL}, {NULL}, {"heap", "literal"})

\* The variables of main, and a stream for each client that sends or receives
\* one: client->stream is dereferenced there without a check.
TypeOK ==
  /\ phase \in {"poll", "clients", "timer", "accept", "stopped"}
  /\ ready \subseteq {"timer", "accept"}
  /\ pollfds \in Seq([fd : Fd, revents : SUBSET {"in", "out", "hup"}])
  /\ rest \in Seq(Fd) /\ clients \in Seq(Fd)
  /\ position \in Nat \ {0}
  /\ half \in {"in", "out"}
  /\ client \in [Fd -> ClientType]
  /\ DOMAIN streams \subseteq Path
  /\ live \subseteq Stream
  /\ idle \in [Stream -> 0 .. Timeout + 2]
  /\ expired \in BOOLEAN /\ bad_free \in BOOLEAN

\* The entry that main looks at is the entry of the client that its iteration
\* is at, whoever left or came since the snapshot ("for this to work the clients
\* hash must not be changed", smeb.c:170).
SnapshotAligned ==
  phase = "clients" =>
    \A i \in 1 .. Len(rest) :
      /\ position + i - 1 <= Len(pollfds)
      /\ pollfds[position + i - 1].fd = rest[i]

\* The handler is never called for a client that the POLLIN part of the same
\* entry has disconnected (smeb.c:198-210).
NoCallAfterDisconnect == half = "out" => Head(rest) \in Connected

\* A client that is not polled for anything is a viewer waiting for its source,
\* so the stream will wake it up or take it along when it is deleted.
SilentClientsWait ==
  \A c \in Connected :
    client[c].poll_for = {} <=> client[c].state = "send_stream" /\ client[c].stalled

\* No client refers to a stream that was freed.
NoDanglingStream == \A c \in Fd : client[c].stream \in live \cup {NULL}

\* Every stream is in the "list of all streams" (common.h:107): the timer can
\* delete it, a source resume it, a viewer find it.
AllStreamsListed ==
  phase # "stopped" => live = {streams[p] : p \in DOMAIN streams}

\* Only what malloc() returned is freed, and once: the pointer to free is
\* client->buffer_to_free (client.c:665-671, common.h:70).
FreesProperly == ~bad_free

\* A stream without any source is known to be without one, as long as the loop runs.
SourcelessStreamsIdle ==
  phase # "stopped" => \A s \in live : Sources(s) = {} => idle[s] > 0

\* What the loop and the handlers do to a stream, together with anything else in
\* the same step, is one step of its life: its clients come one by one, and they
\* leave one by one or all together when it is deleted. (Until the loop is left.)
Life(s) == INSTANCE StreamLife WITH
  Client <- Fd,
  exists <- s \in live,
  idle <- idle[s] > 0,
  sources <- Sources(s),
  viewers <- {c \in Connected : client[c].state = "send_stream" /\ client[c].stream = s}
StreamLifeSpec ==
  /\ \A s \in Stream : Life(s)!Init
  /\ [][phase' # "stopped" => \A s \in Stream : [Life(s)!Next]_(Life(s)!vars)]_vars

\* A stream whose source is gone is resumed or deleted in the end, as long as
\* the server runs.
IdleStreamsEnd ==
  \A s \in Stream : idle[s] > 0 ~> (idle[s] = 0 \/ phase = "stopped" \/ bad_free)

=============================================================================
