-------------------------------- MODULE Ingest --------------------------------
(***************************************************************************)
(* How a stream gets its clusters (client.c): the bytes that its sources   *)
(* send arrive in pieces cut anywhere; the video header and the clusters   *)
(* are extracted from the receive buffer; the timecodes are patched so     *)
(* that the time goes on from one source to the next; the blocks since the *)
(* last keyframe are collected in the intro that new viewers get.          *)
(*                                                                         *)
(* A source that sends the bytes of clusters is a source of Splice: the    *)
(* variables of Splice say what they are as clusters. One source at a      *)
(* time. What becomes of the clusters is in StreamBuffers.                 *)
(* HTTP's chunk lengths around header and clusters are left out.           *)
(***************************************************************************)
EXTENDS Splice, Ebml, Iteration, SequencesExt



CONSTANTS
  Upload,      \* what sources send: the form of the Segment, and the clusters
  MaxSources,  \* bound: sources of the stream, one after the other
  BufferSize,  \* size of the receive buffer for the header (64 KiB in the code)
  SizeOctets   \* how long the size of a cluster is in the videos

\* How many bytes a cluster may have for its size to be written, and what its elements
\* have room for.
Room == IF SizeOctets = 1 THEN 126 ELSE 16382
Muxable(c) ==
  /\ c.timecode \in Byte
  /\ 6 + 6 * Len(c.blocks) <= Room
  /\ \A i \in 1 .. Len(c.blocks) :
       c.blocks[i].track \in 0 .. 126 /\ c.blocks[i].time \in Int16

\* The times of all sources together have at most 31 bits (64 in the code).
TimesFit ==
  \A v \in Videos : \A i \in 1 .. Len(v) : \A a \in 1 .. Len(v[i].blocks) :
    MaxSources * Time(v[i], a) <= 127 * Place[4]

ASSUME IngestAssumption ==
  /\ MaxSources \in Nat
  /\ BufferSize \in Nat \ {0}
  /\ SizeOctets \in 1 .. 8
  /\ Upload # {}
  /\ \A u \in Upload :
       /\ u.segment \in 1 .. 8 /\ u.unknown \in BOOLEAN
       /\ u.clusters \in Videos
       /\ \A i \in 1 .. Len(u.clusters) : Muxable(u.clusters[i])
  /\ SendClusters /\ SendInOrder /\ TimesFit

VARIABLES
  state,         \* client->state of the source; "none": there is none
  unread,        \* bytes of the upload that read() has not returned
  buffer,        \* client->buffer, the filled part
  header,        \* stream->header
  intro_buffer,  \* stream->intro_buffer
  upload,        \* history: what the source sends
  sources        \* history: sources so far

streamVars == <<header, intro_buffer, relayed, intro, last_observed_timecode>>
vars == <<state, unread, buffer, header, intro_buffer, upload, sources, spliceVars>>

-----------------------------------------------------------------------------
(* The muxer of a source *)

\* Sizes of up to 14 bits.
MuxSize(value, octets) ==
  [i \in 1 .. octets |->
     (IF i = 1 THEN Marker[octets] ELSE 0)
       + CASE i = octets     -> value % 256
           [] i = octets - 1 -> value \div 256
           [] OTHER          -> 0]

MuxUnknownSize(octets) == [i \in 1 .. octets |-> IF i = 1 THEN 2 * Marker[octets] - 1 ELSE 255]

\* An empty EBML element, the head of the Segment, and Tracks.
MuxHeader(u, unknown) ==
  ElementId(MKV_EBML) \o MuxSize(0, 1)
    \o ElementId(MKV_Segment)
    \o (IF unknown THEN MuxUnknownSize(u.segment) ELSE MuxSize(100, u.segment))
    \o ElementId(MKV_Tracks) \o MuxSize(1, 1) \o <<0>>

PositionId == 167   \* 0xA7

\* Blocks without any data besides track, time and flags.
MuxBlock(b) ==
  ElementId(MKV_SimpleBlock) \o MuxSize(4, 1)
    \o <<128 + b.track, (b.time \div 256) % 256, b.time % 256, IF b.key THEN 128 ELSE 0>>

\* A timecode, a position, which nobody asks for, and blocks.
MuxElements(c) ==
  <<ElementId(MKV_Timecode) \o MuxSize(1, 1) \o <<c.timecode>>,
    ElementId(PositionId) \o MuxSize(1, 1) \o <<0>>>>
    \o [i \in 1 .. Len(c.blocks) |-> MuxBlock(c.blocks[i])]

MuxCluster(c) ==
  LET data == FlattenSeq(MuxElements(c))
  IN ElementId(MKV_Cluster) \o MuxSize(Len(data), SizeOctets) \o data

MuxClusters(u, n) == FlattenSeq([i \in 1 .. n |-> MuxCluster(u.clusters[i])])

Mux(u) == MuxHeader(u, u.unknown) \o MuxClusters(u, Len(u.clusters))

-----------------------------------------------------------------------------
(* Extraction *)

\* Mutant of UnknownSize: no bit for the length.
UnknownSizeUnshifted(octets) == [i \in 1 .. octets |-> 255]

\* 64 ones, shifted so that the length is kept.
UnknownSize(octets) == [i \in 1 .. octets |-> IF i = 1 THEN 2 * Marker[octets] - 1 ELSE 255]

Overwrite(buf, pos, bytes) ==
  SubSeq(buf, 1, pos) \o bytes \o SubSeq(buf, pos + Len(bytes) + 1, Len(buf))

\* streamer_try_to_extract_mkv_header: the end of Tracks, or -1, and the buffer, in
\* which the size of a Segment is made unknown. Segments are entered, other elements
\* are skipped.
ExtractHeader(buf) ==
  LET look[s \in [pos : Nat, size : Int, buffer : Seq(Byte)]] ==
        LET id   == ReadElementId(s.buffer, s.pos)
            size == ReadDataSize(s.buffer, id.pos)
            end  == size.pos + size.value
        IN IF s.size # 0 THEN s
           ELSE IF id.pos = s.pos \/ size.pos = id.pos THEN [s EXCEPT !.size = -1]
           ELSE IF id.value = MKV_Segment
             THEN [s EXCEPT !.pos = size.pos,
                            !.buffer = Overwrite(@, id.pos, UnknownSize(size.pos - id.pos))]
           ELSE IF end > Len(buf) THEN [s EXCEPT !.size = -1]
           ELSE IF id.value = MKV_Tracks THEN [s EXCEPT !.size = end]
           ELSE [s EXCEPT !.pos = end]
  IN Iterate(look, [pos |-> 0, size |-> 0, buffer |-> buf], Len(buf))

\* streamer_try_to_extract_mkv_cluster: the end of the first cluster, whatever is in
\* front of it, or -1.
ClusterSize(buf) ==
  LET look[e \in ElementHeader] ==
        IF e.id \in {0, MKV_Cluster} THEN e ELSE ReadElement(buf, e.pos)
      e == Iterate(look, ReadElement(buf, 0), Len(buf))
  IN IF e.id = MKV_Cluster THEN e.pos ELSE -1

\* The headers of the elements from a position on.
Children(buf, start) ==
  LET walk[s \in [pos : Nat, elements : Seq(ElementHeader)]] ==
        LET e == ReadElementHeader(buf, s.pos)
        IN IF s.pos >= Len(buf) THEN s
           ELSE [pos |-> e.pos + e.data_size, elements |-> Append(s.elements, e)]
  IN Iterate(walk, [pos |-> start, elements |-> <<>>], Len(buf)).elements

ReadBlock(data) ==
  LET track == ReadDataSize(data, 0)
  IN [track |-> track.value,
      time  |-> ReadInt(SubSeq(data, track.pos + 1, track.pos + 2)),
      key   |-> data[track.pos + 3] >= 128]

-----------------------------------------------------------------------------
(* Clusters *)

\* The bytes of an element, without and with its header.
Data(buf, e) == SubSeq(buf, e.pos + 1, e.pos + e.data_size)
Raw(buf, e)  == SubSeq(buf, e.pos - e.header_size + 1, e.pos + e.data_size)

\* A cluster as a viewer reads it.
Demux(cluster) ==
  LET content[children \in Seq(ElementHeader)] ==
        LET Of(id) == {i \in 1 .. Len(children) : children[i].id = id}
            BlockAt(i) == IF i \in Of(MKV_SimpleBlock)
                          THEN <<ReadBlock(Data(cluster, children[i]))>> ELSE <<>>
        IN [timecode |-> IF Of(MKV_Timecode) = {} THEN 0
                         ELSE ReadUint(Data(cluster, children[Min(Of(MKV_Timecode))])),
            blocks   |-> FlattenSeq([i \in 1 .. Len(children) |-> BlockAt(i)])]
  IN content[Children(cluster, ReadElementHeader(cluster, 0).pos)]

\* A sequence of clusters, as a viewer reads it.
DemuxAll(bytes) ==
  LET content[clusters \in Seq(ElementHeader)] ==
        [i \in 1 .. Len(clusters) |-> Demux(Raw(bytes, clusters[i]))]
  IN content[Children(bytes, 0)]

\* The part of the stream that inspection works on.
Stream == [relayed |-> relayed, intro_buffer |-> intro_buffer,
           offset |-> prev_sources_offset, last |-> last_observed_timecode]
StreamType == [relayed : Seq(Cluster), intro_buffer : Seq(Byte), offset : Nat, last : Nat]

\* Mutant of Restarts: any keyframe restarts the intro.
RestartsAtAny(block) == block.key

Restarts(block) == block.key /\ block.track = 1

\* Mutant of Stamp: the time is left as it was.
StampAsSent(s, timecode) == ElementUint(MKV_Timecode, timecode)

\* A patched timecode.
Stamp(s, timecode) == ElementUint(MKV_Timecode, s.offset + timecode)

\* streamer_inspect_cluster, with the elements of the cluster in buf: the patched
\* cluster is appended to the stream. The intro goes on with a cluster of the same
\* blocks, or starts anew at the last block that restarts it.
Inspected(s, buf, elements) ==
  LET Of(id)  == {i \in 1 .. Len(elements) : elements[i].id = id}
      Timecode(i) == LET before == {j \in Of(MKV_Timecode) : j <= i}
                     IN IF before = {} THEN 0 ELSE ReadUint(Data(buf, elements[Max(before)]))
      At(i)    == ReadBlock(Data(buf, elements[i]))
      blocks   == Of(MKV_SimpleBlock)
      begin    == Max({0} \cup {i \in blocks : Restarts(At(i))})
      Patched(i) == IF i \in Of(MKV_Timecode) THEN Stamp(s, Timecode(i)) ELSE Raw(buf, elements[i])
      Kept(i)  == IF i >= begin /\ i \in Of(MKV_Timecode) \cup blocks THEN Patched(i) ELSE <<>>
      patched  == FlattenSeq([i \in 1 .. Len(elements) |-> Patched(i)])
      kept     == FlattenSeq([i \in 1 .. Len(elements) |-> Kept(i)])
  IN [s EXCEPT
        !.relayed = Append(@, Demux(Element(MKV_Cluster, patched))),
        !.intro_buffer = IF begin = 0
                  THEN @ \o Element(MKV_Cluster, kept)
                  ELSE Element(MKV_Cluster, Stamp(s, Timecode(begin)) \o kept),
        !.last = IF blocks = {} THEN @ ELSE Timecode(Max(blocks)) + At(Max(blocks)).time]

InspectCluster(s, buf) ==
  LET inspected[elements \in Seq(ElementHeader)] == Inspected(s, buf, elements)
  IN inspected[Children(buf, ReadElementHeader(buf, 0).pos)]

InspectClusters(s, found) ==
  LET inspected[t \in StreamType] == [i \in 1 .. Len(found) |-> InspectCluster(t, found[i])]
      after[i \in 0 .. Len(found)] == IF i = 0 THEN s ELSE inspected[after[i - 1]][i]
  IN after[Len(found)]

\* The clusters in a receive buffer one by one, and what is left of it.
Clusters(buf) ==
  LET take[s \in [found : Seq(Seq(Byte)), left : Seq(Byte), size : Int]] ==
        LET left == SubSeq(s.left, s.size + 1, Len(s.left))
        IN IF s.size = -1 THEN s
           ELSE [found |-> Append(s.found, SubSeq(s.left, 1, s.size)),
                 left  |-> left,
                 size  |-> ClusterSize(left)]
  IN Iterate(take, [found |-> <<>>, left |-> buf, size |-> ClusterSize(buf)], Len(buf))

-----------------------------------------------------------------------------
(* The source *)

\* receive_stream_buffer_filled, when h is the header of the stream.
BufferFilled(h, buf) ==
  \E clusters \in {Clusters(buf)} : \E end \in {InspectClusters(Stream, clusters.found)} :
    /\ state' = "receive_stream"
    /\ buffer' = clusters.left
    /\ header' = h
    /\ taken' = taken + Len(clusters.found)
    /\ relayed' = end.relayed
    /\ intro_buffer' = end.intro_buffer
    /\ intro' = DemuxAll(end.intro_buffer)
    /\ last_observed_timecode' = end.last

\* Mutant of HeaderBufferFilled: the handler returns when it has stored the header.
HeaderBufferFilledOnly(buf) ==
  \E extracted \in {ExtractHeader(buf)} :
    LET complete == extracted.size > 0
        size     == IF complete THEN extracted.size ELSE 0
    IN /\ state' = IF complete THEN "receive_stream" ELSE "receive_stream_header"
       /\ header' = IF complete THEN SubSeq(extracted.buffer, 1, size) ELSE header
       /\ buffer' = SubSeq(extracted.buffer, size + 1, Len(buf))
       /\ UNCHANGED <<taken, intro_buffer, relayed, intro, last_observed_timecode>>

\* receive_stream_header_buffer_filled: the header is stored, and what follows it in
\* the buffer is looked at at once.
HeaderBufferFilled(buf) ==
  \E extracted \in {ExtractHeader(buf)} :
    \/ /\ extracted.size > 0
       /\ BufferFilled(SubSeq(extracted.buffer, 1, extracted.size),
                       SubSeq(extracted.buffer, extracted.size + 1, Len(extracted.buffer)))
    \/ /\ extracted.size <= 0
       /\ state' = "receive_stream_header"
       /\ buffer' = extracted.buffer
       /\ UNCHANGED <<taken, streamVars>>

\* A POST request for the stream. The first n bytes of the video came together with
\* it; if there are none the handler waits.
EnterReceiveStream ==
  /\ state = "none"
  /\ sources < MaxSources
  /\ sources' = sources + 1
  /\ connected' = TRUE
  /\ \E u \in Upload :
       /\ upload' = u
       /\ video' = u.clusters
       /\ \E n \in 0 .. Len(Mux(u)) :
            /\ unread' = SubSeq(Mux(u), n + 1, Len(Mux(u)))
            /\ \/ n > 0 /\ HeaderBufferFilled(SubSeq(Mux(u), 1, n))
               \/ /\ n = 0
                  /\ state' = "receive_stream_header"
                  /\ buffer' = <<>>
                  /\ UNCHANGED <<taken, streamVars>>
  /\ UNCHANGED prev_sources_offset

\* n bytes are read.
Read(n) ==
  /\ unread' = SubSeq(unread, n + 1, Len(unread))
  /\ UNCHANGED <<connected, video, prev_sources_offset, upload, sources>>

\* One read(), of what fits into the buffer.
ReceiveStreamHeader ==
  /\ state = "receive_stream_header"
  /\ \E n \in 1 .. Len(unread) :
       /\ Len(buffer) + n <= BufferSize
       /\ Read(n)
       /\ HeaderBufferFilled(buffer \o SubSeq(unread, 1, n))

\* All that has arrived; the buffer grows for it.
ReceiveStream ==
  /\ state = "receive_stream"
  /\ \E n \in 1 .. Len(unread) :
       /\ Read(n)
       /\ BufferFilled(header, buffer \o SubSeq(unread, 1, n))

\* Mutant of LeaveReceiveStream: assigned, not added.
LeaveReceiveStreamAssigned ==
  /\ state' = "none"
  /\ connected' = FALSE
  /\ taken' = 0
  /\ prev_sources_offset' = last_observed_timecode
  /\ unread' = <<>>
  /\ buffer' = <<>>
  /\ UNCHANGED <<streamVars, video, upload, sources>>

\* Mutant of LeaveReceiveStream: the time is taken back instead of forward.
LeaveReceiveStreamBackwards ==
  /\ state' = "none"
  /\ connected' = FALSE
  /\ taken' = 0
  /\ prev_sources_offset' = prev_sources_offset - last_observed_timecode
  /\ unread' = <<>>
  /\ buffer' = <<>>
  /\ UNCHANGED <<streamVars, video, upload, sources>>

\* Mutant of LeaveReceiveStream: the intro is thrown away with the source.
LeaveReceiveStreamWithIntro ==
  /\ state' = "none"
  /\ connected' = FALSE
  /\ taken' = 0
  /\ prev_sources_offset' = prev_sources_offset + last_observed_timecode
  /\ unread' = <<>>
  /\ buffer' = <<>>
  /\ intro_buffer' = <<>>
  /\ intro' = <<>>
  /\ UNCHANGED <<header, relayed, last_observed_timecode, video, upload, sources>>

\* leave_receive_stream in the cleanup of the source. What it has received of a
\* cluster is freed with the receive buffer.
LeaveReceiveStream ==
  /\ state' = "none"
  /\ connected' = FALSE
  /\ taken' = 0
  /\ prev_sources_offset' = prev_sources_offset + last_observed_timecode
  /\ unread' = <<>>
  /\ buffer' = <<>>
  /\ UNCHANGED <<streamVars, video, upload, sources>>

\* End of file (bytes read by the same call are dropped), an error or POLLHUP.
SourceGone == state # "none" /\ LeaveReceiveStream

\* The receive buffer is full before the header is complete: there is room for 0
\* bytes, and the 0 that read() returns is taken for the end of the file.
HeaderTooLarge ==
  /\ state = "receive_stream_header"
  /\ Len(buffer) >= BufferSize
  /\ unread # <<>>
  /\ LeaveReceiveStream

-----------------------------------------------------------------------------
Init ==
  /\ SpliceInit
  /\ state = "none"
  /\ unread = <<>>
  /\ buffer = <<>>
  /\ header = <<>>
  /\ intro_buffer = <<>>
  /\ upload = CHOOSE u \in Upload : TRUE
  /\ video = upload.clusters
  /\ sources = 0

Next ==
  \/ EnterReceiveStream
  \/ ReceiveStreamHeader
  \/ ReceiveStream
  \/ SourceGone
  \/ HeaderTooLarge

Spec == Init /\ [][Next]_vars

\* The handler is called for what has arrived: it reads some of it, or finds its
\* buffer full. (That the source goes away instead is nobody's duty.)
Handled ==
  \/ /\ state # "none"
     /\ connected' = TRUE
     /\ \E n \in 1 .. Len(unread) :
          /\ state = "receive_stream" \/ Len(buffer) + n <= BufferSize
          /\ unread' = SubSeq(unread, n + 1, Len(unread))
  \/ HeaderTooLarge

\* The network goes on, and the poll loop calls the handler of a source while there is
\* something to read.
FairSpec == Spec /\ WF_unread(Handled)

-----------------------------------------------------------------------------
(* Properties *)

TypeOK ==
  /\ ClustersTypeOK
  /\ state \in {"none", "receive_stream_header", "receive_stream"}
  /\ connected <=> state # "none"
  /\ unread \in Seq(Byte) /\ buffer \in Seq(Byte)
  /\ header \in Seq(Byte) /\ intro_buffer \in Seq(Byte)
  /\ prev_sources_offset \in Nat /\ last_observed_timecode \in Nat
  /\ upload \in Upload /\ video = upload.clusters
  /\ sources \in 0 .. MaxSources

\* Bytes of the upload that were read, and the end of its k-th cluster.
Received == Len(Mux(upload)) - Len(unread)
End(k)   == Len(MuxHeader(upload, TRUE)) + Len(MuxClusters(upload, k))

\* The header is the one of the source that came last, with Segments of unknown size,
\* also when it arrived in many parts and was looked at several times.
HeaderOfSource == state = "receive_stream" => header = MuxHeader(upload, TRUE)

\* What is complete in the receive buffer goes into the stream in the same call ("look
\* for any complete cluster elements and put each one into one buffer", client.c:428).
CompleteClustersTaken ==
  state = "receive_stream" => \A k \in 1 .. Len(video) : End(k) <= Received => k <= taken

\* How late the code takes a cluster: when as many bytes follow it as its own header
\* has, which ReadElement counts twice (ebml_reader.c:74).
HeldBackByAHeader ==
  state = "receive_stream" =>
    \A k \in 1 .. Len(video) : End(k) + 4 + SizeOctets <= Received => k <= taken

\* No cluster is taken out of the receive buffer before all of it is there ("an
\* element ID of 0 if the buffer doesn't contain the entire element",
\* ebml_reader.c:69; "look for any complete cluster elements", client.c:428).
OnlyWholeClusters ==
  state = "receive_stream" =>
    \A k \in 1 .. Len(video) : k <= taken => End(k) <= Received

\* All clusters but the last of a source that goes on sending get into the stream,
\* unless the source goes away, as one does whose header is too large. (The last one
\* stays in the receive buffer, as CompleteClustersTaken shows.)
EveryClusterRelayed ==
  \A s \in 1 .. MaxSources : \A n \in {Len(v) : v \in Videos} :
    (sources = s /\ state # "none" /\ Len(video) = n)
      ~> (sources # s \/ state = "none" \/ taken >= n - 1)

=============================================================================
