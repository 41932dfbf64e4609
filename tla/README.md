# smeb in TLA+

smeb is a streaming server for live WebM video: a source POSTs a video, any
number of viewers GET it while it is sent. This directory models the server at
the level of its handlers, checks the models with TLC on small instances and
proves the central facts with TLAPS for every size. Code references are to
`src/` of the repository (`client.c:452`).

## 1. The system

smeb is one thread with one `poll()` loop (`smeb.c`). A handler that the loop
calls runs to its end, without waiting, before anything else happens. There are
no locks and nothing is persisted. What is hard is not the interleaving of
instructions but the *order of calls*: state is shared between connections
through `client->stream`, the buffers of a stream and two hash tables, and each
handler call changes what later calls of other connections rely on.

| Component | State | Operations | Correct when |
|---|---|---|---|
| Stream data plane (`client.c` 241-654, 1033-1101) | per stream: `stream_buffers` (list of reference counted buffers), `header`, `intro_buffer`, `last_disconnect_at`, `latest_cluster_received_at`; per client: `current_stream_buffer`, `CLIENT_STALLED`, `insert_next_received_cluster_buffer` | create or resume a stream, receive header, receive clusters, join, send, stall and wake up, lag, leave, write error | every viewer gets each cluster after it joined once and in order; a buffer lives exactly as long as somebody has to send it; nobody sleeps forever |
| Control plane (`smeb.c` main, HTTP states and dispatch of `client.c`) | `server.clients`, `server.streams`, `pollfds`, `client->state`, poll flags | poll, serve an entry, `disconnect_client`, timer, accept, signal | the snapshot stays aligned with the clients; no handler runs for a client that is gone; no client keeps a freed stream; every stream can be found, and is deleted when its source stays away |
| Hash table (`hash.c`) | slots (free, deleted, element), `length`, `capacity` | put, get, remove, remove element, resize, iterate | it is a map, iterations visit each element once also while elements are removed |
| HTTP parsing, status and 404 answers (`client.c` 80-238, 665-703, 725-806) | `client->buffer`, `buffer_to_free` | lines, headers, dispatch, send an answer | memory is freed once and as it was allocated |
| Extraction and inspection (`client.c` 808-983, `ebml_reader.c`, `ebml_writer.c`) | receive buffer of a source; `header`, `intro_buffer`, `prev_sources_offset`, `last_observed_timecode` of a stream | find header and clusters, patch sizes and timecodes, write the intro cluster | an element is found when and only when it is complete; clusters are passed on whole; the time of successive sources goes on; the intro ends where the next cluster begins |
| Linked list (`list.c`) | `first`, `last`, `prev`, `next` | append, remove, clear | the pointers are those of a queue of the referenced buffers |
| URL decoding (`client.c` 1138-1173) | | `urldecode` | an escape becomes its byte |
| base64, array, logger, timer | | | base64 and array are not used by the server |

The components meet as follows. The control plane calls the client handler with
a connection and a flag; the handler's result -1 makes the loop call
`disconnect_client`, which closes the descriptor, calls the handler *again* with
`CLIENT_CON_CLEANUP` and removes the client from the hash. A source's handler
writes into the `client_t` of all viewers of its stream. The timer disconnects
all clients of an expired stream and frees it. Both tables are iterated while
handlers remove from them.

`PROJECT.json` lists under "hazards", with its line, each place where an order
of legal calls, a failing call or a boundary can break something and a test would
hardly get to it.

## 2. Modules

```
 StreamLife <---- implemented by ---- Server          (control plane)
     ^                                  | Decode: UrlDecode
     |                                  | uses the promise of
     |                                KeyValueMap <-- HashTable (hash.c)
     +----------- implemented by ---- StreamBuffers   (data plane)
 Broadcast  <---- implemented by ------/  ^      ^
                                          |      StreamBuffersProofs
                LinkedList (list.c) --- BufferChain
 Relay      <---- implemented by ---- Splice          (clusters of sources -> stream)
                                        ^
                                        +-- extended by ---- Ingest   (bytes -> clusters)
                                              | Ebml (ebml_reader.c, ebml_writer.c)

 Proofs: StreamBuffersProofs, BufferChainProofs, ServerProofs, HashTableProofs,
 SpliceProofs, EbmlProofs, IngestProofs (on top of the two before);
 SetInduction has the induction that they use.
```

**StreamBuffers** is the data plane of one stream. One action is one complete
handler call: `EnterReceiveStream` (POST; creates or resumes), `ReceiveStreamHeader`,
`ReceiveStream` (all complete clusters found in the receive buffer),
`LeaveReceiveStream`, `AbandonStream` (a new stream whose source could not stay,
as `fcntl` failed), `EnterSendStream` (GET), `SendStream` (the loop that writes
as many buffers as the socket takes), `SendStreamTooFarBehind`, `HangUp`,
`DeleteStream` (the timer) and `Tick`. `Next` has these; `NextWithWriteErrors` adds
`SendStreamWriteError`, a `write()` that fails with something else than `EAGAIN`, after which
references are given back twice. What holds as long as no write fails is checked and proved of
`Spec`, the consequences of a failing write are those of `SpecWithWriteErrors`.
A node of the list is named by the position in which the stream appended it, so
"the nodes reached by following `next`" is the set of nodes in the list that are
not smaller than the link (`SharedQueue`). The three nodes a viewer makes for
itself (`Private`) are -2, -1 and 0, and NULL is above all clusters. `Link` is what
`intro_cluster_node->next` or `current_stream_buffer` points to. `refcount`,
`stream_buffers`, `insert_next` (the pointer-to-pointer), `stalled` are the fields
of the code. A viewer whose link is a freed node is `Dangling`: its next call that gets to
the list reads the node, as does the deletion of the stream when the viewers that leave first
give back the last reference. Nodes freed further on are out of a viewer's way, since
`list_remove` takes them out of the `next` it follows. After a use of a freed node
(`use_after_free`) nothing more is known and the model stops. `joined` and `received` are history variables. The immediate
write error of a new viewer is `EnterSendStream` followed by
`SendStreamWriteError`. What bytes a buffer has, and when a cluster counts as
complete, is abstracted here: a call may find any number of clusters (Ingest says which).

**BufferChain** composes StreamBuffers with **LinkedList**, the doubly linked list of
list.c with its four kinds of pointers. Each step of StreamBuffers is accompanied by the
list operations of the same handler call (`Relinked`): `list_append_ptr` for each new
cluster, `list_remove_last` when nobody watches, `list_remove` for each node that is
unreferenced for the last time, `list_destroy` with the stream. What StreamBuffers takes
for granted of `next` is the property `ChainIsQueue` here. **Once** helps TLC to evaluate an
argument once.

**Ingest** is where clusters come from: one stream, its sources one after the other, and
the bytes of their videos. An action is again a handler call, which reads any part of
what the source still sends: `EnterReceiveStream` (with the bytes that came with the
request), `ReceiveStreamHeader`, `ReceiveStream`, `SourceGone` and `HeaderTooLarge`. The
calls go down to the byte: `ExtractHeader` and `ClusterSize` are the two
`streamer_try_to_extract_...` functions, `Inspected` is `streamer_inspect_cluster` (the
patched cluster, the intro, `last_observed_timecode`), on top of **Ebml**, which has the
reader and the writer on sequences of bytes. What a source sends is written by an
external muxer (`Mux`) of an upload; `intro_buffer` has the bytes of the intro. The loops
over a buffer are rounds of a function on the state of the loop, a number of times that is
enough (**Iteration**).

**Splice** is the same without the bytes: a source has a sequence of clusters (`video`), of
which a handler call finds any number (`SourceBegins`, `SourceGoesOn`, `SourceEnds`);
`Continued` is again `streamer_inspect_cluster`, on clusters with a timecode and blocks.
Ingest extends it: `relayed` and `intro` are there what a viewer's demuxer (`Demux`) reads
of the buffers appended to the list and of `intro_buffer`, and that its steps are steps of
Splice is its property `SpliceSpec`: however the bytes are cut, what is extracted, patched
and written comes down to this. What the stream then is after any number of sources is
proved of Splice.

**Relay** is what Splice promises: sources come and go, a part of their clusters is
passed on, in order and whole, with the time moved by the start of the source, and no
source starts before the last block of the ones before it. No bytes, buffers or intros.

**Broadcast** is what the data plane promises: clusters are published, a viewer
joins, gets what it misses oldest first, and leaves. No buffers, counts or wake-ups.

**Server** is the control plane. The loop is in phase `poll`, `clients` (one step
per entry of `pollfds`, or two when both POLLIN and POLLOUT were reported), `timer`
or `accept`. `clients` is the order in which the hash is iterated; accepting a
connection may change it arbitrarily, as a resize does. `rest` and `position` are
the iteration of smeb.c:174 and its `i`. `Serve` is a handler call that returns 0,
`Fail` one that returns -1 together with the disconnect. `Dispatch` is
`http_request_dispatch` with the state it enters. `Decode` stands for
`urldecode`; the instances compute it with **UrlDecode**, which is the function on
sequences of characters. `Abandon` is the failing `fcntl` of a new source, switched on by
`FcntlFails`. `idle[s]` counts ticks since `last_disconnect_at`. The
bytes a viewer has left to write are abstracted to "waits for its socket" or
"stalled"; StreamBuffers has the rest.

**StreamLife** is what control and data plane have to agree on: sources and
viewers join and leave a stream one by one, and a stream is only deleted when its
source has left, with all its clients. Both modules implement it, so what
StreamBuffers takes for granted of its environment is what Server does.

**HashTable** is hash.c with its probing, tombstones, growth and shrinking, and
**KeyValueMap** the map with iterations that it implements and that Server takes
for granted. The value that `unified_hash_search` returns when it aborts is decoded
as the code decodes it: index -1, the slot in front of the array (`out_of_bounds`).
`Remove` and `Put` are not called during an iteration, as in the server.

The **MC** modules give TLC its instances.

## 3. Runs

| Run | Instance | What it shows |
|---|---|---|
| stream_buffers | 3 clients, 3 clusters, time to 2, limits 0, one source, no write fails, fairness | reference counts exact, nothing freed under a viewer, no gap and no duplicate, no lost or spurious wake-up, the pointers of the list; deletion only without a source and without data for the timeout; implements Broadcast and StreamLife; each cluster reaches every viewer that stays |
| hash_table | 4 colliding keys, 2 values, capacities 5 and 11 | implements KeyValueMap; length exact; every element findable |
| server | 3 descriptors, "/A" and the status page, 2 streams, timeout 0 | snapshot aligned, no call after a disconnect, silent clients wait for a source, no dangling or forgotten stream, implements StreamLife for each stream |
| server_liveness | 2 descriptors, fairness, `fcntl` may fail | a stream whose source is gone is resumed or deleted |
| ingest | 3 sources, videos of 1 or 2 clusters cut anywhere, a header buffer of 17 bytes, fairness | header, clusters, times and intro right however the bytes are cut; keeps to Splice, implements Relay; in the end all clusters but the last of a source are taken from the buffer, or the source goes |
| write_error | 3 clients, 2 clusters, writes fail | *violation*: references are given back twice, nodes used after they were freed |
| second_source_leak | two sources | *violation*: references nobody gives back |
| hash_no_free_slot | 5 keys with homes of their own | *violation*: a search finds no slot |
| escaped_path | "/A" and "/%41" | *violation*: a stream that nothing can find |
| answer_cut_off | 2 descriptors | *violation*: a literal or the inside of a block is freed |
| complete_cluster_held | one source, sizes of 1 byte | *violation*: a complete cluster stays in the receive buffer |
| element_cut | one source, sizes of 8 bytes | *violation*: a cluster is taken before it is there |

**Bounds.** `MaxClusters`, `MaxTime`, `MaxSources`, `BufferSize`, `Capacities`, `Stream`
are bounds on the state, named in the modules. Three clients are a source and two
viewers, the smallest case in which one viewer can free a buffer of another;
three clusters let one viewer be at its first, one in the middle and one at
the end, and a node be removed from the middle of the list. In stream_buffers two instants
with a lag limit and a timeout of 0 already let a viewer lag, a stream expire and be
created again. In Ingest three
sources are needed for an offset that was added up, two clusters for an intro that goes
on from one to the next. The clusters differ in whether a keyframe is first, after a block
of sound, or missing (also in all that a source sends); timecodes of 0 and 200 make sums of one and of two bytes. The
header of 16 bytes has an unknown size of one byte already. That of 17 bytes, with a size of two to be
patched, just fits into the header buffer: it may be looked at many times, patched at any of
them, and then complete. The one of 19 bytes, with a size of four, does not fit: that source is
dropped, unless the header came with the request. Sizes of clusters take one
byte, and eight in element_cut. In HashTable four keys fill a table of 5 to
the point at which it grows to 11, and removals make it shrink; all probes wrap
around. Two streams in Server let a path be reused while a stream is dying; three
descriptors leave a client before and one after the one that is removed. A run
does not rely on its bounds where the theorems below hold. MCServer,
MCServerLive and the violation runs of Server do not check for deadlock, since
the server stops on a signal; nor does Ingest, whose sources are bounded.

**Fairness.** BufferChain: weak fairness of `MovesOn` per viewer, the steps that leave it
at a later node or disconnect it. The loop polls
each viewer that is not stalled for POLLOUT and calls its handler when the socket
takes data; the assumption is on the peer, that it reads. Nothing is assumed of
sources, of time or of hang-ups. Ingest: weak fairness of `Handled`, a
handler call that reads some of what a source still sends or finds the header buffer full: the
network goes on to bring it, the loop polls a source for POLLIN all the time, and poll reports
it as long as something is unread. That a source goes away instead is not a duty: a source that
is not read from any more is stuck, and EveryClusterRelayed would not hold. Server: weak fairness of the loop (the thread is
scheduled; `poll` returns when something is ready, and the timer makes sure that
something is) and strong fairness of `Tick`, as a timerfd with an interval of 10 s
expires again and again whatever the loop does. Signals and a failing `accept4`
may end the server at any time, and the liveness property allows for it.

**Assumptions that TLC evaluates.** MCServer states of `urldecode` that every byte comes
back from its escape in capital letters (`EscapesDecoded`), and that none does whose
second digit is a small letter (`SmallSecondDigits`). HashTable assumes of its bound
`Capacities` that where the table may have to grow there is a capacity to grow to
(`CapacitiesAssumption`; hash.c:217 doubles it). Ingest assumes (`IngestAssumption`) that
sources send clusters whose blocks are in order (`SendClusters`, `SendInOrder`), that the
external muxer can write them (`Muxable`: a timecode of a byte, track numbers and times of
blocks in the bytes they have, as many blocks as the size has room for), and that the times
of all sources together fit into 31 bits (`TimesFit`, 24 days; 64 bits in the code, where TLC's
numbers have 32).

**Mutants.** Each property of a passing run has a mutated definition next to
the original (`... Mutant of ...`), a plausible bug of that code; TLC finds the
property violated with it.

## 4. What disagrees with the code's own words

* *write_error*: client.c:572 jumps to `leave_send_stream`, which unreferences all
  nodes ahead; the disconnect calls the handler for cleanup and does it again.
* *second_source_leak*: client.c:452 references each cluster for a second source
  too, which never gives the reference back.
* *hash_no_free_slot*: deleted slots are not reclaimed by `hash_remove_elem` and the
  puts that follow it; when no slot is free the search for a missing key aborts with a
  value that is decoded to slot -1, against hash.c:164 and 198.
* *escaped_path*: streams are stored under the path as sent (client.c:253) and looked
  up decoded (client.c:767-783).
* *answer_cut_off*: `send_buffer_and_disconnect` has no cleanup branch and frees
  `client->buffer.ptr` on an error, against client.c:665-671.
* *element_cut*: when the size of an element is cut off after its ID, ebml_reader.c:97
  compares the wrong positions and the element is returned as complete and empty, against
  ebml_reader.c:69 and 85. The header that ebml_reader.c:74 counts twice hides it for
  sizes of up to 4 bytes.
* *complete_cluster_held*: ebml_reader.c:74 adds the size of the header to a position that is
  behind the header already, so an element that ends less than a header before the end of the
  data is not found, against ebml_reader.c:69, client.c:428 and the test that reads an
  element at the very end of a buffer (tests/ebml_reader_test.c:183-187). The last cluster
  that arrived waits for the next one, and is lost when there is none. `ClustersInTime`
  proves that it does not wait longer than for as many bytes as its header has.

The first finding needs a write error other than SIGPIPE's death of the process
(a reset connection); SIGPIPE itself is listed as a hazard.

Read in the code, but without a run of its own:

* With two sources on one path the leaving of one sets `last_disconnect_at` (client.c:491),
  and the timer then deletes the stream under the other one. `DeletedOnlyWithoutData`
  holds with one source at a time only, as its theorem says.
* A viewer that joins before the video header or the first cluster is served empty ones,
  against client.c:513-518 (`ViewerStartsWithIntro` in StreamBuffers states it).
* A source that leaves without having sent a cluster adds `last_observed_timecode` to the
  offset again (client.c:486). The time of the stream jumps forward; it never goes back,
  which is what TimeNeverGoesBack and Relay say.
* Elements between the header and a cluster, or between clusters, become part of the block
  that `streamer_inspect_cluster` takes for a cluster (client.c:860, 884). A cluster of
  unknown size makes its loop endless (client.c:890).
* `__builtin_clzll(0)` (ebml_writer.c:222, client.c:867) is not defined. A timecode of 0
  is written as the build of the Makefile does, with one byte.
* When `fcntl` fails, the new stream stays without source and is never deleted
  (client.c:261 admits it): SourcelessStreamsIdle does not hold with `FcntlFails`.
* The second digit of an escape is not decoded when it is a small letter (client.c:1165).

## 5. Proofs

`StreamBuffersProofs` proves, for any number of clients, clusters, instants, any lag limit and
any timeout:

| Theorem | Assumes | States |
|---|---|---|
| `TypeCorrect` | nothing | `SpecWithWriteErrors => []TypeOK` |
| `NothingDangles` | nothing | `Spec => []NoDanglingBuffers`: no freed node is used, none ahead of a viewer is freed |
| `ViewersServed` | nothing | `Spec => []NoGapNoDuplicate`: each cluster is sent to a viewer or ahead of it: no gap, no duplicate |
| `ViewersWoken` | nothing | `Spec => []NoLostWakeup`: no wake-up is lost or spurious |
| `RefcountsExact` | `MaxSources = 1` | `Spec => []RefcountExact`: the count of each buffer is the number of viewers that have it ahead of them |
| `ImplementsBroadcast` | nothing | `Spec => BroadcastSpec` |
| `DeletedLate` | `MaxSources = 1` | `SpecWithWriteErrors => DeletedOnlyWithoutData` |
| `ImplementsLife` | nothing | `SpecWithWriteErrors => StreamLifeSpec` |

The assumptions of the constants are `ConstantsAssumption`, which TLC evaluates in each run. What
is claimed of `Spec` only, where no write fails, or of one source only, are the limits that the
violation runs show to be needed: with a write error nodes are freed too early, with two sources
counts are too high.

None of the safety properties is inductive. `RefcountExact` does not say that the nodes ahead of
a viewer are still linked, `NoDanglingBuffers` does not say what the counts are, and neither
says that a viewer at its own nodes is wired to the first cluster after it joined. The invariant
is

    Inv == TypeOK /\ ~use_after_free /\ AllWired /\ AllAhead /\ Counted /\ OneSource

`AllWired` fixes the pointers of each viewer against the history (where its link is given what
it has received, when it is stalled, when `insert_next` is set) and that other clients have
none; `AllAhead` that all nodes from the link to the last one are in the list; `Counted` that
the holders of a node are at most its count and, with one source, exactly; `OneSource` that
`MaxSources` is kept. With that, an append gives each watching client exactly one more reference
and one more node (`AppendKeepsInv`), and unreferencing the nodes ahead of one viewer leaves
those ahead of another in the list, since these have a second holder (`TwoHolders`,
`UnrefKeepsWays`). So no viewer is ever `Dangling` (`NoneDangling`), and while a stream is
deleted each viewer that is still there has a reference of its own (`ReferencesLast`), whatever
the order. `Inv` was checked with TLC before it was proved. With two sources the counts
are only an upper bound, which is enough for `NothingDangles`, `ViewersServed` and
`ViewersWoken`. `DeletedLate` has an invariant of its own (`DisconnectInv`): once the source is
gone, the last data is not later than its end.

`BufferChainProofs` proves of the list, for any number of nodes:

| Theorem | Assumes | States |
|---|---|---|
| `ListIsQueue` | nothing | `ChainSpec => []IsQueue(chain, stream_buffers)`: first and last are the ends, `prev` and `next` of each referenced node its neighbours, those of all other nodes NULL |
| `ViewersFollowQueue` | nothing | `ChainSpec => []ChainIsQueue`: what a viewer reaches by `next` is what it has to send |

`AppendIs`, `RemoveFirstIs`, `RemoveLastIs`, `RemoveIs` and `ClearIs` say what each function of
list.c makes of a queue of the nodes S: again a queue, of S with a node more or without one.
`Relinked` applies them one after the other; it is a queue after each (`RelinkIs`,
`RelinkedIs`). `IsQueue` is inductive with nothing but the types of StreamBuffers; that what is reached from a viewer's node is what it has to send
(`NodesFromIs`) also needs the invariant of StreamBuffers, as the node must be in the list.
BufferChain has no failing writes: after one, handlers work on freed nodes, of whose pointers
nothing is known.

`ServerProofs` proves of the poll loop, for any number of descriptors, paths and streams and any
timeout:

| Theorem | Assumes | States |
|---|---|---|
| `TypeCorrect` | nothing | `Spec => []TypeOK` |
| `SnapshotStaysAligned` | nothing | each entry that is left belongs to the client it is handled for |
| `NeverCalledAfterDisconnect` | nothing | no handler call for a client that is gone |
| `OnlyViewersAreSilent` | nothing | whoever is polled for nothing is a viewer without data |
| `StreamsFreedLast` | nothing | no client has a freed stream |
| `EveryStreamListed` | `\A p \in Path : Decode[p] = p` | each stream can be found under its path |
| `SourcelessStreamsAge` | `~FcntlFails` | a stream without source is on its way to expire |
| `ImplementsLife` | nothing | `Spec => StreamLifeSpec`, for each stream |

The two assumptions are what the run escaped_path and the mode `FcntlFails` show to be needed.
The invariant is `DataInv /\ LoopInv`. `DataInv` is about the tables: the clients are distinct,
whoever is connected is polled right for its state, whoever is not has no trace left, and only
streams that exist are listed or used. `LoopInv` is about the iteration: the clients that are
still ahead (`rest`) are distinct and connected, and are the entries of the snapshot from
`position` on. This is not inductive without `PolledRight`: a client that is polled for both
directions would be handled twice in one entry, and the second half would run after the first
has disconnected it. Nobody is, as each state polls for one direction or none. A removal shifts
no entry that is left, because only the client of the current entry leaves in this phase, and
the order of the others is kept (`Kept`); the timer removes many at once, but only after the
iteration. `NextEffect` reduces all handlers to the few effects that they have on clients and
streams, and each proof goes through those.

`HashTableProofs` proves of hash.c, for any finite set of keys, any hash function and any
capacities:

| Theorem | States |
|---|---|
| `TypeCorrect` | `Spec => []TypeOK` |
| `ElementsFindable` | `Spec => []Findable`, without any condition |
| `LengthStaysExact` | `Spec => [](~out_of_bounds => LengthExact)` |
| `FreeSlotSuffices` | while a slot is free, a search ends in the array |
| `ImplementsMap` | `Spec => MapSpec` |

The invariant is `TableInv /\ CursorInv`. `TableInv` is that each element is found by its key,
which means that no slot on the way from the home of the key to the element is free; a removal
leaves a tombstone and keeps that, a put takes the first slot that ends the search, and a resize
puts the elements one by one into a table that has room. `Counted` (the length is the number of
elements) holds up to the first write in front of the array, which is the finding
hash_no_free_slot; such a put counts an element that is lost, and the map still has the others.
`CursorInv` says which elements an iteration has visited: those in front of its cursor, but for
the ones that were removed.

`SpliceProofs` proves for any number of sources, whatever clusters they send (`Inv` is the
invariant):

| Theorem | Assumes | States |
|---|---|---|
| `TypeCorrect` | `SendClusters` | `SpliceSpec => []ClustersTypeOK` |
| `IntroFollowsStream` | `SendClusters` | `SpliceSpec => []IntroContinues` |
| `TimeGoesOn` | `SendClusters`, `SendInOrder` | `SpliceSpec => []TimeNeverGoesBack` |
| `ImplementsRelay` | `SendClusters`, `SendInOrder` | `SpliceSpec => RelaySpec` |

That the times are in order is not inductive. The invariant (`TimesInv`) adds that no block is
later than the offset and `last_observed_timecode` together, and that no cluster the source has
yet to send is earlier than a block of the stream. So when a source leaves, all that was relayed
is before the new offset, and since a source begins at 0 or later the next one cannot go back,
also when it sends no block and the offset is added twice. `IntroContinues` is inductive with
the types.

`EbmlProofs` and `IngestProofs` prove of the bytes, for any uploads and pieces:

| Theorem | Assumes | States |
|---|---|---|
| `UintIs` | nothing | an unsigned integer (of 32 bits) is read as it was written |
| `ReadElementIs` | a size not longer than the ID | an element is found exactly when as many bytes follow it as its header has |
| `HeaderCorrect` | nothing | `Spec => []HeaderOfSource` |
| `ClustersInTime` | `SizeOctets <= 4` | `Spec => []HeldBackByAHeader`: a complete cluster is held back (complete_cluster_held) by no more than its header |
| `ClustersWhole` | `SizeOctets <= 4` | `Spec => []OnlyWholeClusters` |
| `PartsRead` | nothing | a viewer reads from a patched cluster the timecode and blocks that were written |
| `InspectStands` | `OffsetFits` | `streamer_inspect_cluster` does the same to bytes as to clusters |
| `ImplementsSplice` | `SizeOctets <= 4` | `Spec => SpliceSpec` |
| `TypesKept` | `SizeOctets <= 4` | `Spec => []TypeOK` |
| `BytesIntroContinues` | `SizeOctets <= 4` | `Spec => []IntroContinues` |
| `BytesTimeGoesOn` | `SizeOctets <= 4` | `Spec => []TimeNeverGoesBack` |
| `BytesRelayed` | `SizeOctets <= 4` | `Spec => RelaySpec` |

Those of Ingest rest on `IngestAssumption`. That sizes are not longer than the ID of a cluster
is what element_cut shows to be needed: with 8 bytes a cluster is taken before it is there.
The run ingest has sizes of one byte.

The argument has three layers. An element (`IsElement`) is an ID, a size and data of that many
bytes, and `Whole` are its bytes; wherever they are in a buffer the reader finds its header, and
where the buffer ends in the middle of an ID or a size it says so (`SizeCut`, `IdCut`). From
this come the loops over a buffer, by what they leave invariant in each round (`IterateEnds`):
`ExtractHeaderIs` (the header, also when the Segment's size was changed by an earlier look),
`ClustersAre` (the clusters found are the next ones sent, and less than a cluster with a header
after it is left), `DemuxIs` and `SentRead` (the elements of a cluster).

The second layer is the invariant of the extraction,

    Reception == the receive buffer and what is unread are together the rest of what is sent

with the header still to come (and perhaps changed, `MuxHeader(u, f)`), or from cluster `taken`
on. Neither `HeaderOfSource` nor `HeldBackByAHeader` is inductive without it: they do not say
what the bytes in the buffer are.

The third layer relates bytes to clusters. `StandsFor(s, z)` says that the stream of bytes s is
the stream of clusters z: `intro_buffer` is a sequence of written clusters (`IsIntroBytes`), one
for each of the intro, since appending one to the bytes must append one to what is read.
`InspectStands` keeps it for one cluster (patched bytes are read as the patched cluster, the
intro starts anew at the same keyframe), `FollowsStands` for all clusters that a call finds, and
`GoesOn` turns this into Splice's step. The invariant

    Spliced == Reception /\ StandsFor(Stream, Timeline) /\ EndedFit(Ended) /\ ...

adds with `EndedFit` that the sources that have ended have moved the offset by no more than
their share of the time that fits, so that a patched timecode has at most four bytes; with only
`TypeOK` the offset could be anything. `ImplementsSplice` then brings over all that is proved of
Splice.

**Induction and recursion.** Where a proof needs induction, the property is made a set of
natural numbers (`SetInduction`, proved from the minimum of well-founded orders); a recursive
function of a model is shown to exist by `Recursion`, and what it computes then follows step by
step. The models use recursive functions in place of recursive operators for that.

**Model-checked only.** The liveness properties (`EveryClusterDelivered`, `IdleStreamsEnd`,
`EveryClusterRelayed`): TLAPS does not reason about fairness and ENABLED here. Every safety
property and every refinement of a passing run is also a theorem. With cluster sizes of more
than 4 bytes `TypeOK` and the steps of Splice are not claimed. In the run hash_table no write is
ever out of bounds, so that it checks `LengthExact` itself.

## 6. Not modelled

HTTP as text: lines, header fields, URL parameters, the JSON of the status answer and
`json_escape`, the chunk lengths around header and clusters. They change no state that
another component reads, and the strings would have to be put together character by
character. In Ingest: two sources at the same time (StreamBuffers has them), elements in
front of a cluster, clusters of unknown size, timecodes that overflow, first bytes of 0
(no EBML) in the reader. The functions of ebml_writer.c for strings, floats, signed
integers and unknown sizes, and `list_prepend` and `list_insert_...`: the server does not
call them. Memory that runs out. `hash_new`, `hash_destroy`, `hash_resize` as an API, the
hash functions. `base64.c` and `array.c` (not used by the server), the logger, the
playground programs, the test viewer. Time is a clock that only goes forward.

## 7. Plan

Done: Broadcast, StreamBuffers; LinkedList, BufferChain; KeyValueMap, HashTable;
StreamLife, Server, UrlDecode; Relay, Splice, Ebml, Ingest; the proofs of section 5.

What could follow:

1. Elements in front of a cluster and clusters of unknown size in Ingest, whose defects section
   4 lists as read in the code.
2. A composition of Ingest with StreamBuffers: the nodes of one are the clusters of the other,
   and each of the two is so far proved with the other abstracted.
3. The chunk lengths of HTTP around header and clusters, as one more layer under Relay.
