------------------------------ MODULE MCIngest ------------------------------
(* Instances of Ingest for TLC. *)
EXTENDS Ingest

B(track, time, key) == [track |-> track, time |-> time, key |-> key]

\* Sound after a keyframe, and before one (sound always is a key).
MCKeyed(timecode) ==
  {[timecode |-> timecode, blocks |-> <<B(1, 0, TRUE), B(2, 2, TRUE)>>],
   [timecode |-> timecode, blocks |-> <<B(2, 0, TRUE), B(1, 1, TRUE)>>]}

\* And no keyframe.
MCClusters(timecode) ==
  MCKeyed(timecode) \cup {[timecode |-> timecode, blocks |-> <<B(1, 1, FALSE)>>]}

MCLate == MCClusters(200) \ MCKeyed(200)

\* Times around one byte: 200 after 200 takes two bytes. A source that begins without
\* a keyframe has one cluster. The headers have 16 and 17 bytes, and 19, which is more
\* than the buffer takes; the size of the Segment is to be patched in the last two.
MCUpload ==
  [segment : {1}, unknown : {TRUE}, clusters : {<<a, b>> : a \in MCKeyed(0), b \in MCClusters(200)}]
    \cup [segment : {2}, unknown : {FALSE}, clusters : {<<a>> : a \in MCClusters(0)}]
    \cup [segment : {4}, unknown : {FALSE}, clusters : {<<a, b>> : a \in MCKeyed(0), b \in MCLate}]

MCVideos == {u.clusters : u \in MCUpload}

=============================================================================
