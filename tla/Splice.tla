------------------------------- MODULE Splice -------------------------------
(***************************************************************************)
(* How the clusters of successive sources become one stream (client.c),    *)
(* without their bytes: what streamer_inspect_cluster makes of a cluster,  *)
(* and the offset that a source leaves behind for the next one.            *)
(*                                                                         *)
(* A cluster has a timecode and blocks, each of a track, at a time         *)
(* relative to it, and perhaps a keyframe.                                 *)
(***************************************************************************)
EXTENDS Integers, Sequences

CONSTANT Videos  \* the sequences of clusters that sources send

VARIABLES
  connected,  \* a source is there
  video,      \* what it sends
  taken,      \* how many of its clusters were taken out of the receive buffer
  relayed,    \* the clusters appended to stream->stream_buffers
  intro,      \* the clusters that stream->intro_buffer consists of
  prev_sources_offset,
  last_observed_timecode

spliceVars == <<connected, video, taken, relayed, intro, prev_sources_offset, last_observed_timecode>>

Block   == [track : Nat, time : Int, key : BOOLEAN]
Cluster == [timecode : Int, blocks : Seq(Block)]

\* When a block of a cluster is shown.
Time(cluster, i) == cluster.timecode + cluster.blocks[i].time

-----------------------------------------------------------------------------
(* Inspection *)

\* The part of the stream that inspection changes.
Timeline == [relayed |-> relayed, intro |-> intro, last |-> last_observed_timecode]

Starts(block) == block.key /\ block.track = 1

\* The patched cluster.
Stamped(cluster) == [cluster EXCEPT !.timecode = prev_sources_offset + @]

From(cluster, i) == [cluster EXCEPT !.blocks = SubSeq(@, i, Len(@))]

\* streamer_inspect_cluster, and the patched cluster appended to the list.
Continued(s, cluster) ==
  LET n    == Len(cluster.blocks)
      keys == {i \in 1 .. n : Starts(cluster.blocks[i])}
  IN [s EXCEPT
        !.relayed = Append(@, Stamped(cluster)),
        !.intro = IF keys = {} THEN Append(@, Stamped(cluster))
                  ELSE <<From(Stamped(cluster), CHOOSE i \in keys : \A j \in keys : j <= i)>>,
        !.last = IF n = 0 THEN @ ELSE Time(cluster, n)]

\* Any number of clusters of v after the first n are complete in the receive buffer,
\* and are inspected one by one.
ContinueWith(v, n) ==
  \E k \in 0 .. Len(v) - n :
    LET upto[i \in 0 .. k] == IF i = 0 THEN Timeline ELSE Continued(upto[i - 1], v[n + i]) IN
    /\ video' = v
    /\ taken' = n + k
    /\ \E s \in {upto[k]} :
         /\ relayed' = s.relayed
         /\ intro' = s.intro
         /\ last_observed_timecode' = s.last

-----------------------------------------------------------------------------
SpliceInit ==
  /\ connected = FALSE
  /\ video \in Videos
  /\ taken = 0
  /\ relayed = <<>>
  /\ intro = <<>>
  /\ prev_sources_offset = 0
  /\ last_observed_timecode = 0

SourceBegins ==
  /\ ~connected
  /\ connected' = TRUE
  /\ \E v \in Videos : ContinueWith(v, 0)
  /\ UNCHANGED prev_sources_offset

SourceGoesOn ==
  /\ connected
  /\ ContinueWith(video, taken)
  /\ UNCHANGED <<connected, prev_sources_offset>>

\* leave_receive_stream; last_observed_timecode stays.
SourceEnds ==
  /\ connected
  /\ connected' = FALSE
  /\ prev_sources_offset' = prev_sources_offset + last_observed_timecode
  /\ taken' = 0
  /\ UNCHANGED <<video, relayed, intro, last_observed_timecode>>

SpliceNext == SourceBegins \/ SourceGoesOn \/ SourceEnds

\* What comes of inspecting the clusters of the sources one by one. Ingest shows that
\* it comes of their bytes, however they are cut.
SpliceSpec == SpliceInit /\ [][SpliceNext]_spliceVars

-----------------------------------------------------------------------------
(* Properties *)

ClustersTypeOK ==
  /\ connected \in BOOLEAN
  /\ video \in Videos
  /\ taken \in 0 .. Len(video)
  /\ relayed \in Seq(Cluster) /\ intro \in Seq(Cluster)
  /\ prev_sources_offset \in Int /\ last_observed_timecode \in Int

\* No block is shown before one that was sent before it.
InOrder(clusters) ==
  \A i, j \in 1 .. Len(clusters) :
    \A a \in 1 .. Len(clusters[i].blocks), b \in 1 .. Len(clusters[j].blocks) :
      i < j \/ (i = j /\ a <= b) => Time(clusters[i], a) <= Time(clusters[j], b)

\* Sources send clusters; and, what only the order of the stream relies on, send them
\* in order and not before the beginning of their time.
SendClusters == \A v \in Videos : v \in Seq(Cluster)
SendInOrder ==
  \A v \in Videos :
    /\ InOrder(v)
    /\ \A i \in 1 .. Len(v) : \A a \in 1 .. Len(v[i].blocks) : Time(v[i], a) >= 0

\* For a viewer time never goes back, also not when another source takes over ("so
\* we properly patch the cluster timecodes", client.c:484).
TimeNeverGoesBack == InOrder(relayed)

\* The intro ends where the clusters that follow it begin: it holds, at their times,
\* exactly the blocks since the last keyframe of track 1, or since the beginning
\* ("starting with the last known keyframe", client.c:517).
IntroContinues ==
  LET Keys(n) == {i \in 1 .. Len(relayed[n].blocks) : Starts(relayed[n].blocks[i])}
  IN \/ /\ \A n \in 1 .. Len(relayed) : Keys(n) = {}
        /\ intro = relayed
     \/ \E n \in 1 .. Len(relayed) : \E i \in Keys(n) :
          /\ \A j \in Keys(n) : j <= i
          /\ \A m \in n + 1 .. Len(relayed) : Keys(m) = {}
          /\ intro = <<From(relayed[n], i)>> \o SubSeq(relayed, n + 1, Len(relayed))

Promise == INSTANCE Relay WITH
  pending <- IF connected THEN SubSeq(video, taken + 1, Len(video)) ELSE <<>>,
  start   <- prev_sources_offset

\* However many clusters are found at a time, the stream gets those of its sources
\* whole and in order, one per buffer ("put each one into one buffer", client.c:428),
\* each at its time after the sources before it.
RelaySpec == Promise!Spec

=============================================================================
