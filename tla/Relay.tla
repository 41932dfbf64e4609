-------------------------------- MODULE Relay --------------------------------
(***************************************************************************)
(* What a stream promises about the clusters of its sources, one source    *)
(* after the other: they are passed on whole and in order, each with its   *)
(* time moved by the start of its source, and a source starts no earlier   *)
(* than the last block of the sources before it.                           *)
(*                                                                         *)
(* A cluster has a timecode and blocks, each of a track, at a time         *)
(* relative to it, and perhaps a keyframe.                                 *)
(***************************************************************************)
EXTENDS Integers, Sequences

CONSTANT Videos  \* the sequences of clusters that sources send

VARIABLES
  connected,  \* a source is there
  pending,    \* clusters of the source that were not passed on
  relayed,    \* clusters passed on so far
  start       \* time at which the source's own time begins

vars == <<connected, pending, relayed, start>>

\* The blocks of clusters in order, with their absolute time.
Blocks(clusters) ==
  LET of(c) == [i \in 1 .. Len(c.blocks) |->
                  [c.blocks[i] EXCEPT !.time = c.timecode + @]]
      upto[n \in 0 .. Len(clusters)] == IF n = 0 THEN <<>> ELSE upto[n - 1] \o of(clusters[n])
  IN upto[Len(clusters)]

LastTime(clusters) ==
  LET blocks == Blocks(clusters) IN IF blocks = <<>> THEN 0 ELSE blocks[Len(blocks)].time

Moved(c) == [c EXCEPT !.timecode = start + @]

Init ==
  /\ connected = FALSE
  /\ pending = <<>>
  /\ relayed = <<>>
  /\ start = 0

Pass(clusters) ==
  \E k \in 0 .. Len(clusters) :
    /\ relayed' = relayed \o [i \in 1 .. k |-> Moved(clusters[i])]
    /\ pending' = SubSeq(clusters, k + 1, Len(clusters))

Connect ==
  /\ ~connected
  /\ connected' = TRUE
  /\ \E video \in Videos : Pass(video)
  /\ UNCHANGED start

Continue ==
  /\ connected
  /\ Pass(pending)
  /\ UNCHANGED <<connected, start>>

\* What was not passed on is lost with the source.
Leave ==
  /\ connected
  /\ connected' = FALSE
  /\ pending' = <<>>
  /\ start' \in Nat
  /\ start' >= LastTime(relayed)
  /\ UNCHANGED relayed

Next == Connect \/ Continue \/ Leave

Spec == Init /\ [][Next]_vars

=============================================================================
