---------------------------- MODULE SpliceProofs ----------------------------
(***************************************************************************)
(* What the stream made of the clusters of any number of sources is, for   *)
(* any videos.                                                             *)
(***************************************************************************)
EXTENDS Splice, SetInduction

-----------------------------------------------------------------------------
(* One cluster *)

State == [relayed : Seq(Cluster), intro : Seq(Cluster), last : Int]

\* A patched cluster is one with all its times moved by the offset.
LEMMA StampedIs ==
  ASSUME prev_sources_offset \in Int, NEW c \in Cluster
  PROVE  /\ Stamped(c) = [timecode |-> prev_sources_offset + c.timecode, blocks |-> c.blocks]
         /\ Stamped(c) \in Cluster
         /\ \A i \in 1 .. Len(c.blocks) : Time(Stamped(c), i) = prev_sources_offset + Time(c, i)
<1>1. /\ c = [timecode |-> c.timecode, blocks |-> c.blocks]
      /\ c.timecode \in Int /\ c.blocks \in Seq(Block)
  BY DEF Cluster
<1> DEFINE d == [timecode |-> prev_sources_offset + c.timecode, blocks |-> c.blocks]
<1>2. Stamped(c) = d
  BY <1>1 DEF Stamped
<1>3. d \in Cluster
  BY <1>1 DEF Cluster
<1>4. ASSUME NEW i \in 1 .. Len(c.blocks)
      PROVE  Time(d, i) = prev_sources_offset + Time(c, i)
  <2>1. c.blocks[i] \in Block
    BY <1>1
  <2>2. c.blocks[i].time \in Int
    BY <2>1 DEF Block
  <2>3. /\ Time(d, i) = (prev_sources_offset + c.timecode) + c.blocks[i].time
        /\ Time(c, i) = c.timecode + c.blocks[i].time
    BY DEF Time
  <2> QED
    BY <1>1, <2>2, <2>3
<1> QED
  BY <1>2, <1>3, <1>4

\* The rest of a cluster from a block on is a cluster.
LEMMA FromIs ==
  ASSUME NEW c \in Cluster, NEW i \in 1 .. Len(c.blocks)
  PROVE  From(c, i) \in Cluster
<1>1. /\ c = [timecode |-> c.timecode, blocks |-> c.blocks]
      /\ c.timecode \in Int /\ c.blocks \in Seq(Block)
  BY DEF Cluster
<1>2. SubSeq(c.blocks, i, Len(c.blocks)) \in Seq(Block)
  BY <1>1
<1> DEFINE b == c.blocks
           t == c.timecode
           u == SubSeq(b, i, Len(b))
<1>3. From(c, i) = [timecode |-> t, blocks |-> u]
  <2>1. From(c, i) = [c EXCEPT !.blocks = u]
    BY DEF From
  <2>2. c = [timecode |-> t, blocks |-> b]
    BY <1>1
  <2> HIDE DEF u, t, b
  <2> QED
    BY <2>1, <2>2
<1> QED
  BY <1>1, <1>2, <1>3 DEF Cluster

\* Where a cluster has keyframes that restart the intro.
Keys(c) == {i \in 1 .. Len(c.blocks) : Starts(c.blocks[i])}

\* The last of them is chosen.
LEMMA LastKey ==
  ASSUME NEW c \in Cluster, Keys(c) # {}
  PROVE  LET k == CHOOSE i \in Keys(c) : \A j \in Keys(c) : j <= i
         IN k \in Keys(c) /\ \A j \in Keys(c) : j <= k
<1> DEFINE n == Len(c.blocks)
           S == {n - i : i \in Keys(c)}
<1>1. n \in Nat /\ \A i \in Keys(c) : i \in 1 .. n
  BY DEF Cluster, Keys
<1>2. S \subseteq Nat /\ S # {}
  BY <1>1
<1>3. PICK x \in S : \A y \in S : x <= y
  <2> HIDE DEF S
  <2> QED
    BY <1>2, LeastExists, Zenon
<1>4. PICK i \in Keys(c) : x = n - i
  BY <1>3
<1>5. \A j \in Keys(c) : j <= i
  <2> SUFFICES ASSUME NEW j \in Keys(c) PROVE j <= i
    OBVIOUS
  <2>1. n - i <= n - j
    BY <1>3, <1>4
  <2> QED
    BY <1>1, <2>1
<1> QED
  BY <1>4, <1>5

Restarted(s, c) == IF Keys(c) = {} THEN Append(s.intro, Stamped(c))
                   ELSE <<From(Stamped(c), CHOOSE i \in Keys(c) : \A j \in Keys(c) : j <= i)>>

\* What inspection of a cluster makes of the stream.
LEMMA ContinuedIs ==
  ASSUME prev_sources_offset \in Int, NEW s \in State, NEW c \in Cluster
  PROVE  /\ Continued(s, c).relayed = Append(s.relayed, Stamped(c))
         /\ Continued(s, c).intro = Restarted(s, c)
         /\ c.blocks = <<>> => Continued(s, c).last = s.last
         /\ c.blocks # <<>> => /\ Len(c.blocks) \in 1 .. Len(c.blocks)
                               /\ Continued(s, c).last = Time(c, Len(c.blocks))
         /\ Continued(s, c) \in State
<1> DEFINE n == Len(c.blocks)
           t == Continued(s, c)
<1>1. /\ t.relayed = Append(s.relayed, Stamped(c)) /\ t.intro = Restarted(s, c)
      /\ t.last = IF n = 0 THEN s.last ELSE Time(c, n)
      /\ t = [relayed |-> t.relayed, intro |-> t.intro, last |-> t.last]
  <2> DEFINE x == Append(s.relayed, Stamped(c))
             y == Restarted(s, c)
             z == IF n = 0 THEN s.last ELSE Time(c, n)
  <2>1. t = [s EXCEPT !.relayed = x, !.intro = y, !.last = z]
    BY DEF Continued, Restarted, Keys
  <2>2. s = [relayed |-> s.relayed, intro |-> s.intro, last |-> s.last]
    BY DEF State
  <2> HIDE DEF x, y, z, t
  <2>3. t = [relayed |-> x, intro |-> y, last |-> z]
    BY <2>1, <2>2
  <2> QED
    BY <2>3 DEF x, y, z
<1> HIDE DEF t
<1>2. c.blocks \in Seq(Block) /\ c.timecode \in Int /\ n \in Nat
  BY DEF Cluster
<1>3. n = 0 <=> c.blocks = <<>>
  BY <1>2
<1>4. n # 0 => n \in 1 .. n /\ Time(c, n) \in Int
  <2> SUFFICES ASSUME n # 0 PROVE n \in 1 .. n /\ Time(c, n) \in Int
    OBVIOUS
  <2>1. n \in 1 .. n
    BY <1>2
  <2>2. c.blocks[n].time \in Int
    <3>1. c.blocks[n] \in Block
      BY <1>2, <2>1
    <3> QED
      BY <3>1 DEF Block
  <2> QED
    BY <1>2, <2>1, <2>2 DEF Time
<1>5. t.relayed \in Seq(Cluster) /\ t.intro \in Seq(Cluster)
  <2>1. s.relayed \in Seq(Cluster) /\ s.intro \in Seq(Cluster)
    BY DEF State
  <2>2. Stamped(c) \in Cluster /\ Len(Stamped(c).blocks) = n
    BY StampedIs
  <2>3. CASE Keys(c) = {}
    BY <1>1, <2>1, <2>2, <2>3 DEF Restarted
  <2>4. CASE Keys(c) # {}
    <3> DEFINE k == CHOOSE i \in Keys(c) : \A j \in Keys(c) : j <= i
    <3>1. k \in 1 .. n
      BY <2>4, LastKey DEF Keys
    <3> HIDE DEF k
    <3>2. From(Stamped(c), k) \in Cluster
      BY <2>2, <3>1, FromIs
    <3> QED
      BY <1>1, <2>1, <2>2, <2>4, <3>2 DEF Restarted, k
  <2> QED
    BY <2>3, <2>4
<1>6. t.last \in Int
  BY <1>1, <1>4 DEF State
<1>7. t \in State
  BY <1>1, <1>5, <1>6 DEF State
<1> QED
  BY <1>1, <1>3, <1>4, <1>7 DEF t

-----------------------------------------------------------------------------
(* The intro *)

\* The intro of a stream of these clusters.
IsIntro(beginning, clusters) ==
  \/ /\ \A n \in 1 .. Len(clusters) : Keys(clusters[n]) = {}
     /\ beginning = clusters
  \/ \E n \in 1 .. Len(clusters) : \E i \in Keys(clusters[n]) :
       /\ \A j \in Keys(clusters[n]) : j <= i
       /\ \A m \in n + 1 .. Len(clusters) : Keys(clusters[m]) = {}
       /\ beginning = <<From(clusters[n], i)>> \o SubSeq(clusters, n + 1, Len(clusters))

\* The property is about the intro and the clusters of the stream alone.
LEMMA IntroContinuesIs == IntroContinues <=> IsIntro(intro, relayed)
BY DEF IntroContinues, IsIntro, Keys

\* To go on with a cluster does not depend on where the sequence was cut.
LEMMA AppendToRest ==
  ASSUME NEW S, NEW r \in Seq(S), NEW d \in S, NEW x \in S, NEW n \in 1 .. Len(r)
  PROVE  Append(<<x>> \o SubSeq(r, n + 1, Len(r)), d)
           = <<x>> \o SubSeq(Append(r, d), n + 1, Len(Append(r, d)))
<1> DEFINE N == Len(r)
           q == SubSeq(r, n + 1, N)
           r2 == Append(r, d)
           q2 == SubSeq(r2, n + 1, N + 1)
<1>1. N \in Nat /\ n \in 1 .. N /\ Len(r2) = N + 1 /\ r2 \in Seq(S)
  OBVIOUS
<1>2. q \in Seq(S) /\ Len(q) = N - n /\ \A i \in 1 .. N - n : q[i] = r[n + i]
  OBVIOUS
<1>3. q2 \in Seq(S) /\ Len(q2) = N + 1 - n /\ \A i \in 1 .. N + 1 - n : q2[i] = r2[n + i]
  BY <1>1
<1>4. \A i \in 1 .. N : r2[i] = r[i]
  OBVIOUS
<1>5. r2[N + 1] = d
  OBVIOUS
<1> HIDE DEF N, q, r2, q2
<1>6. q2 = Append(q, d)
  <2>1. Len(Append(q, d)) = N + 1 - n /\ Append(q, d) \in Seq(S)
    BY <1>1, <1>2
  <2>2. ASSUME NEW i \in 1 .. N + 1 - n PROVE q2[i] = Append(q, d)[i]
    <3>1. CASE i \in 1 .. N - n
      <4>1. n + i \in 1 .. N /\ i \in 1 .. Len(q)
        BY <1>1, <1>2, <3>1
      <4>2. Append(q, d)[i] = q[i]
        BY <1>2, <4>1
      <4>3. q[i] = r[n + i] /\ q2[i] = r2[n + i] /\ r2[n + i] = r[n + i]
        BY <1>2, <1>3, <1>4, <3>1, <4>1
      <4> QED
        BY <4>2, <4>3
    <3>2. CASE i = N + 1 - n
      <4>1. n + i = N + 1 /\ i = Len(q) + 1
        BY <1>1, <1>2, <3>2
      <4>2. Append(q, d)[i] = d
        BY <1>2, <4>1
      <4>3. q2[i] = d
        BY <1>3, <1>5, <4>1
      <4> QED
        BY <4>2, <4>3
    <3>3. i \in 1 .. N - n \/ i = N + 1 - n
      BY <1>1
    <3> QED
      BY <3>1, <3>2, <3>3
  <2>3. Len(q2) = Len(Append(q, d)) /\ Len(q2) = N + 1 - n
    BY <1>3, <2>1
  <2> QED
    BY <1>3, <2>1, <2>2, <2>3
<1>7. Append(<<x>> \o q, d) = <<x>> \o Append(q, d)
  BY <1>2
<1> QED
  BY <1>1, <1>6, <1>7 DEF N, q, r2, q2

\* Inspection of one more cluster keeps the intro one of the stream.
LEMMA IntroKept ==
  ASSUME prev_sources_offset \in Int, NEW s \in State, NEW c \in Cluster,
         IsIntro(s.intro, s.relayed)
  PROVE  IsIntro(Continued(s, c).intro, Continued(s, c).relayed)
<1> DEFINE r == s.relayed
           N == Len(r)
           d == Stamped(c)
           r2 == Append(r, d)
           b2 == Restarted(s, c)
<1>1. Continued(s, c).relayed = r2 /\ Continued(s, c).intro = b2
  BY ContinuedIs
<1>2. d \in Cluster /\ Keys(d) = Keys(c)
  <2>1. d.blocks = c.blocks /\ d \in Cluster
    BY StampedIs
  <2> QED
    BY <2>1 DEF Keys
<1>3. r \in Seq(Cluster) /\ N \in Nat
  BY DEF State
<1> HIDE DEF r, d
<1>4. /\ r2 \in Seq(Cluster) /\ Len(r2) = N + 1 /\ r2[N + 1] = d
      /\ \A n \in 1 .. N : r2[n] = r[n]
  BY <1>2, <1>3
<1>5. CASE Keys(c) = {}
  <2>1. b2 = Append(s.intro, d)
    BY <1>5 DEF Restarted, d
  <2>2. CASE (\A n \in 1 .. N : Keys(r[n]) = {}) /\ s.intro = r
    <3>1. \A n \in 1 .. N + 1 : n \in 1 .. N \/ n = N + 1
      BY <1>3
    <3>2. \A n \in 1 .. Len(r2) : Keys(r2[n]) = {}
      BY <1>2, <1>4, <1>5, <2>2, <3>1
    <3>3. b2 = r2
      BY <2>1, <2>2
    <3> HIDE DEF b2, r2
    <3> QED
      BY <1>1, <3>2, <3>3 DEF IsIntro
  <2>3. ASSUME NEW n \in 1 .. N, NEW i \in Keys(r[n]),
               \A j \in Keys(r[n]) : j <= i,
               \A m \in n + 1 .. N : Keys(r[m]) = {},
               s.intro = <<From(r[n], i)>> \o SubSeq(r, n + 1, N)
        PROVE  IsIntro(b2, r2)
    <3>1. From(r[n], i) \in Cluster
      <4>1. r[n] \in Cluster /\ i \in 1 .. Len(r[n].blocks)
        BY <1>3 DEF Keys
      <4> QED
        BY <4>1, FromIs
    <3>2. b2 = <<From(r[n], i)>> \o SubSeq(r2, n + 1, Len(r2))
      <4> HIDE DEF r2
      <4> DEFINE x == From(r[n], i)
      <4>1. Append(<<x>> \o SubSeq(r, n + 1, Len(r)), d) = <<x>> \o SubSeq(r2, n + 1, Len(r2))
        BY <1>2, <1>3, <3>1, AppendToRest DEF r2
      <4> QED
        BY <2>1, <2>3, <4>1
    <3>3. n \in 1 .. Len(r2) /\ r2[n] = r[n]
      BY <1>3, <1>4
    <3>4. \A m \in n + 1 .. Len(r2) : Keys(r2[m]) = {}
      <4> SUFFICES ASSUME NEW m \in n + 1 .. Len(r2) PROVE Keys(r2[m]) = {}
        OBVIOUS
      <4>1. (m \in n + 1 .. N /\ m \in 1 .. N) \/ m = N + 1
        BY <1>3, <1>4
      <4> QED
        BY <1>2, <1>4, <1>5, <2>3, <4>1
    <3> HIDE DEF b2, r2
    <3> QED
      BY <2>3, <3>2, <3>3, <3>4 DEF IsIntro
  <2> QED
    BY <1>1, <2>2, <2>3 DEF IsIntro, r
<1>6. CASE Keys(c) # {}
  <2> DEFINE k == CHOOSE i \in Keys(c) : \A j \in Keys(c) : j <= i
  <2>1. k \in Keys(c) /\ \A j \in Keys(c) : j <= k
    BY <1>6, LastKey
  <2>2. b2 = <<From(d, k)>>
    BY <1>6 DEF Restarted, d
  <2> HIDE DEF k, b2, r2
  <2>3. From(d, k) \in Cluster
    BY <1>2, <2>1, FromIs DEF Keys
  <2>4. <<From(d, k)>> \o SubSeq(r2, (N + 1) + 1, N + 1) = <<From(d, k)>>
    <3>1. SubSeq(r2, (N + 1) + 1, N + 1) = <<>>
      BY <1>3, <1>4
    <3> DEFINE x == From(d, k)
    <3>2. <<x>> \o <<>> = <<x>>
      BY <2>3
    <3> QED
      BY <3>1, <3>2
  <2>5. \A m \in (N + 1) + 1 .. Len(r2) : FALSE
    BY <1>3, <1>4
  <2>6. N + 1 \in 1 .. Len(r2)
    BY <1>3, <1>4
  <2>7. \E i \in Keys(r2[N + 1]) :
          /\ \A j \in Keys(r2[N + 1]) : j <= i
          /\ \A m \in (N + 1) + 1 .. Len(r2) : Keys(r2[m]) = {}
          /\ b2 = <<From(r2[N + 1], i)>> \o SubSeq(r2, (N + 1) + 1, Len(r2))
    BY <1>2, <1>4, <2>1, <2>2, <2>4, <2>5
  <2> QED
    BY <1>1, <2>6, <2>7 DEF IsIntro
<1> QED
  BY <1>5, <1>6

-----------------------------------------------------------------------------
(* The times *)

\* The blocks of a cluster have times.
LEMMA Times ==
  ASSUME NEW c \in Cluster
  PROVE  Len(c.blocks) \in Nat /\ \A i \in 1 .. Len(c.blocks) : Time(c, i) \in Int
<1>1. c.timecode \in Int /\ c.blocks \in Seq(Block)
  BY DEF Cluster
<1>2. \A i \in 1 .. Len(c.blocks) : c.blocks[i] \in Block
  BY <1>1
<1> QED
  BY <1>1, <1>2 DEF Block, Time

NotAfter(clusters, t) ==
  \A i \in 1 .. Len(clusters) : \A a \in 1 .. Len(clusters[i].blocks) : Time(clusters[i], a) <= t

\* After the first m clusters of v: the stream is in order, ends where the source has
\* come to, and none of the clusters that are left goes back.
TimesInv(s, v, m) ==
  /\ s.last \in Nat
  /\ InOrder(s.relayed)
  /\ NotAfter(s.relayed, prev_sources_offset + s.last)
  /\ \A j \in m + 1 .. Len(v) : \A b \in 1 .. Len(v[j].blocks) :
       NotAfter(s.relayed, prev_sources_offset + Time(v[j], b))

Ordered(v) ==
  /\ InOrder(v)
  /\ \A i \in 1 .. Len(v) : \A a \in 1 .. Len(v[i].blocks) : Time(v[i], a) >= 0

\* Inspection of the next cluster of a source keeps the times in order.
LEMMA TimesKept ==
  ASSUME prev_sources_offset \in Nat, NEW s \in State, NEW v \in Seq(Cluster), Ordered(v),
         NEW m \in Nat, m + 1 <= Len(v), TimesInv(s, v, m)
  PROVE  TimesInv(Continued(s, v[m + 1]), v, m + 1)
<1> DEFINE M == m + 1
           c == v[M]
           r == s.relayed
           N == Len(r)
           d == Stamped(c)
           r2 == Append(r, d)
           t == Continued(s, c)
           offset == prev_sources_offset
<1>1. M \in 1 .. Len(v) /\ M \in m + 1 .. Len(v) /\ M \in Nat /\ Len(v) \in Nat
  OBVIOUS
<1>2. c \in Cluster
  BY <1>1
<1> HIDE DEF c
<1>3. /\ t.relayed = r2
      /\ c.blocks = <<>> => t.last = s.last
      /\ c.blocks # <<>> => /\ Len(c.blocks) \in 1 .. Len(c.blocks)
                            /\ t.last = Time(c, Len(c.blocks))
  BY <1>2, ContinuedIs
<1> HIDE DEF t
<1>4. /\ d \in Cluster /\ d.blocks = c.blocks
      /\ \A a \in 1 .. Len(c.blocks) : Time(d, a) = offset + Time(c, a)
  <2>1. d = [timecode |-> prev_sources_offset + c.timecode, blocks |-> c.blocks]
    BY <1>2, StampedIs
  <2> HIDE DEF d
  <2>2. d.blocks = c.blocks
    BY <2>1
  <2> QED
    BY <1>2, <2>2, StampedIs DEF d
<1> HIDE DEF d
<1>5. r \in Seq(Cluster) /\ N \in Nat
  BY DEF State
<1>6. /\ Len(r2) = N + 1 /\ r2[N + 1] = d
      /\ \A n \in 1 .. N : r2[n] = r[n]
  BY <1>4, <1>5
<1>7. \A n \in 1 .. Len(r2) : n \in 1 .. N \/ n = N + 1
  BY <1>5, <1>6
<1> HIDE DEF r2
<1>8. /\ \A a \in 1 .. Len(c.blocks) : Time(c, a) \in Int /\ Time(c, a) >= 0
      /\ Len(c.blocks) \in Nat
  BY <1>1, <1>2, Times DEF Ordered, c
<1>9. \A j \in 1 .. Len(v) : \A a \in 1 .. Len(c.blocks), b \in 1 .. Len(v[j].blocks) :
        M < j \/ (M = j /\ a <= b) => Time(c, a) <= Time(v[j], b)
  BY <1>1 DEF Ordered, InOrder, c
<1>10. /\ s.last \in Nat
       /\ InOrder(r)
       /\ NotAfter(r, offset + s.last)
       /\ \A j \in m + 1 .. Len(v) : \A b \in 1 .. Len(v[j].blocks) :
            NotAfter(r, offset + Time(v[j], b))
  BY DEF TimesInv
<1>11. \A b \in 1 .. Len(c.blocks) : NotAfter(r, offset + Time(c, b))
  BY <1>1, <1>10 DEF c
<1> HIDE DEF r, N
<1>12. t.last \in Nat
  BY <1>3, <1>8, <1>10
<1>13. InOrder(r2)
  <2> SUFFICES ASSUME NEW i \in 1 .. Len(r2), NEW j \in 1 .. Len(r2),
                      NEW a \in 1 .. Len(r2[i].blocks), NEW b \in 1 .. Len(r2[j].blocks),
                      i < j \/ (i = j /\ a <= b)
               PROVE  Time(r2[i], a) <= Time(r2[j], b)
    BY DEF InOrder
  <2>1. CASE i \in 1 .. N /\ j \in 1 .. N
    BY <1>6, <1>10, <2>1 DEF InOrder, N
  <2>2. CASE i \in 1 .. N /\ j = N + 1
    <3>1. NotAfter(r, offset + Time(c, b)) /\ Time(r2[j], b) = offset + Time(c, b)
      BY <1>4, <1>6, <1>11, <2>2
    <3> QED
      BY <1>6, <2>2, <3>1 DEF NotAfter, N
  <2>3. CASE i = N + 1
    <3>1. j = N + 1 /\ a <= b
      BY <1>5, <1>6, <2>3
    <3>2. a \in 1 .. Len(c.blocks) /\ b \in 1 .. Len(c.blocks)
      BY <1>4, <1>6, <2>3, <3>1
    <3>3. Time(c, a) <= Time(c, b)
      BY <1>1, <1>9, <3>1, <3>2 DEF c
    <3>4. Time(r2[i], a) = offset + Time(c, a) /\ Time(r2[j], b) = offset + Time(c, b)
      BY <1>4, <1>6, <2>3, <3>1, <3>2
    <3> QED
      BY <1>8, <3>2, <3>3, <3>4
  <2> QED
    BY <1>7, <2>1, <2>2, <2>3
<1>14. NotAfter(r2, offset + t.last)
  <2> SUFFICES ASSUME NEW i \in 1 .. Len(r2), NEW a \in 1 .. Len(r2[i].blocks)
               PROVE  Time(r2[i], a) <= offset + t.last
    BY DEF NotAfter
  <2>1. CASE c.blocks = <<>>
    <3>1. i \in 1 .. N
      BY <1>4, <1>6, <1>7, <2>1
    <3> QED
      BY <1>3, <1>6, <1>10, <2>1, <3>1 DEF NotAfter, N
  <2>2. CASE c.blocks # <<>>
    <3>1. Len(c.blocks) \in 1 .. Len(c.blocks) /\ t.last = Time(c, Len(c.blocks))
      BY <1>3, <2>2
    <3>2. CASE i \in 1 .. N
      BY <1>6, <1>11, <3>1, <3>2 DEF NotAfter, N
    <3>3. CASE i = N + 1
      <4>1. a \in 1 .. Len(c.blocks) /\ Time(r2[i], a) = offset + Time(c, a)
        BY <1>4, <1>6, <3>3
      <4>2. Time(c, a) <= Time(c, Len(c.blocks))
        <5>1. a <= Len(c.blocks)
          BY <1>8, <4>1
        <5> QED
          BY <1>1, <1>9, <3>1, <4>1, <5>1 DEF c
      <4> QED
        BY <1>8, <3>1, <4>1, <4>2
    <3> QED
      BY <1>7, <3>2, <3>3
  <2> QED
    BY <2>1, <2>2
<1>15. ASSUME NEW j \in M + 1 .. Len(v), NEW b \in 1 .. Len(v[j].blocks)
       PROVE  NotAfter(r2, offset + Time(v[j], b))
  <2>1. j \in m + 1 .. Len(v) /\ j \in 1 .. Len(v) /\ M < j
    BY <1>1
  <2> SUFFICES ASSUME NEW i \in 1 .. Len(r2), NEW a \in 1 .. Len(r2[i].blocks)
               PROVE  Time(r2[i], a) <= offset + Time(v[j], b)
    BY DEF NotAfter
  <2>2. CASE i \in 1 .. N
    BY <1>6, <1>10, <2>1, <2>2 DEF NotAfter, N
  <2>3. CASE i = N + 1
    <3>1. a \in 1 .. Len(c.blocks) /\ Time(r2[i], a) = offset + Time(c, a)
      BY <1>4, <1>6, <2>3
    <3>2. Time(c, a) <= Time(v[j], b)
      BY <1>9, <2>1, <3>1
    <3>3. Time(v[j], b) \in Int
      <4>1. v[j] \in Cluster
        BY <2>1
      <4> QED
        BY <4>1, Times
    <3> QED
      BY <1>8, <3>1, <3>2, <3>3
  <2> QED
    BY <1>7, <2>2, <2>3
<1> QED
  BY <1>3, <1>12, <1>13, <1>14, <1>15 DEF TimesInv, t, c

-----------------------------------------------------------------------------
(* The clusters in a receive buffer *)

\* f are the streams on the way, from s through the clusters of v after the first n.
Inspecting(f, s, v, n, k) ==
  /\ f[0] = s
  /\ \A i \in 1 .. k : f[i] = Continued(f[i - 1], v[n + i])

\* The recursion of ContinueWith has a solution.
LEMMA ContinueWithIsRecursive ==
  ASSUME prev_sources_offset \in Int, Timeline \in State,
         NEW v \in Seq(Cluster), NEW n \in 0 .. Len(v), ContinueWith(v, n)
  PROVE  \E k \in 0 .. Len(v) - n : \E f :
           /\ Inspecting(f, Timeline, v, n, k)
           /\ video' = v /\ taken' = n + k
           /\ relayed' = f[k].relayed /\ intro' = f[k].intro
           /\ last_observed_timecode' = f[k].last
<1> DEFINE Body(g, i) == IF i = 0 THEN Timeline ELSE Continued(g[i - 1], v[n + i])
           upto(k) == CHOOSE g : g = [i \in 0 .. k |-> Body(g, i)]
<1>1. PICK k \in 0 .. Len(v) - n :
        /\ video' = v /\ taken' = n + k
        /\ relayed' = upto(k)[k].relayed /\ intro' = upto(k)[k].intro
        /\ last_observed_timecode' = upto(k)[k].last
  BY Zenon DEF ContinueWith
<1> DEFINE s == Timeline
           step == [x \in (1 .. k) \X State |-> Continued(x[2], v[n + x[1]])]
<1>2. k \in Nat /\ \A i \in 1 .. k : n + i \in 1 .. Len(v)
  OBVIOUS
<1>3. step \in [(1 .. k) \X State -> State]
  <2> SUFFICES ASSUME NEW x \in (1 .. k) \X State PROVE Continued(x[2], v[n + x[1]]) \in State
    OBVIOUS
  <2>1. x[1] \in 1 .. k /\ x[2] \in State
    OBVIOUS
  <2>2. v[n + x[1]] \in Cluster
    BY <1>2, <2>1
  <2> QED
    BY <2>1, <2>2, ContinuedIs
<1> HIDE DEF s
<1>4. PICK f \in [0 .. k -> State] :
        f[0] = s /\ \A i \in 1 .. k : f[i] = step[<<i, f[i - 1]>>]
  <2> HIDE DEF step
  <2>1. s \in State
    BY DEF s
  <2>2. \E f \in [0 .. k -> State] : Recursive(f, k, s, step)
    BY <1>2, <1>3, <2>1, Recursion, ZenonT(30)
  <2> QED
    BY <2>2 DEF Recursive
<1>5. \A i \in 1 .. k : f[i] = Continued(f[i - 1], v[n + i])
  <2> SUFFICES ASSUME NEW i \in 1 .. k PROVE f[i] = Continued(f[i - 1], v[n + i])
    OBVIOUS
  <2>1. i - 1 \in 0 .. k
    BY <1>2
  <2>2. f[i - 1] \in State
    BY <2>1
  <2> DEFINE x == <<i, f[i - 1]>>
  <2>3. x \in (1 .. k) \X State /\ x[1] = i /\ x[2] = f[i - 1]
    BY <2>2
  <2>4. step[x] = Continued(f[i - 1], v[n + i])
    <3> HIDE DEF x
    <3> QED
      BY <2>3
  <2> QED
    BY <1>4, <2>4
<1>6. \A i \in 0 .. k : f[i] = Body(f, i)
  <2> SUFFICES ASSUME NEW i \in 0 .. k, i # 0 PROVE f[i] = Body(f, i)
    BY <1>4 DEF s
  <2>1. i \in 1 .. k
    BY <1>2
  <2> QED
    BY <1>5, <2>1
<1>7. f = [i \in 0 .. k |-> Body(f, i)]
  <2> HIDE DEF Body
  <2> QED
    BY <1>4, <1>6
<1> DEFINE at == upto(k)
<1>8. at = [i \in 0 .. k |-> Body(at, i)]
  <2> HIDE DEF Body
  <2> QED
    BY <1>7
<1>9. Inspecting(at, Timeline, v, n, k)
  <2> HIDE DEF at
  <2>1. \A i \in 0 .. k : at[i] = Body(at, i)
    <3> HIDE DEF Body
    <3> QED
      BY <1>8
  <2>2. 0 \in 0 .. k /\ \A i \in 1 .. k : i \in 0 .. k /\ i # 0
    BY <1>2
  <2> QED
    BY <2>1, <2>2 DEF Inspecting
<1>10. /\ relayed' = at[k].relayed /\ intro' = at[k].intro
       /\ last_observed_timecode' = at[k].last
  BY <1>1
<1> HIDE DEF at
<1> QED
  BY <1>1, <1>9, <1>10

\* The stream after i clusters more.
Extended(s, s0, v, n, i) ==
  /\ s \in State
  /\ s.relayed = s0.relayed \o [j \in 1 .. i |-> Stamped(v[n + j])]
  /\ IsIntro(s.intro, s.relayed)

\* The patched clusters of a part of a video.
LEMMA StampedAre ==
  ASSUME prev_sources_offset \in Int, NEW v \in Seq(Cluster), NEW n \in Nat,
         NEW i \in Nat, n + i <= Len(v)
  PROVE  LET p == [j \in 1 .. i |-> Stamped(v[n + j])]
         IN p \in Seq(Cluster) /\ Len(p) = i /\ \A j \in 1 .. i : p[j] = Stamped(v[n + j])
<1>1. ASSUME NEW j \in 1 .. i PROVE Stamped(v[n + j]) \in Cluster
  <2>1. n + j \in 1 .. Len(v)
    OBVIOUS
  <2>2. v[n + j] \in Cluster
    BY <2>1
  <2> QED
    BY <2>2, StampedIs
<1> DEFINE h(j) == Stamped(v[n + j])
           p == [j \in 1 .. i |-> h(j)]
<1>2. p \in Seq(Cluster) /\ Len(p) = i /\ \A j \in 1 .. i : p[j] = h(j)
  <2>1. \A j \in 1 .. i : h(j) \in Cluster
    BY <1>1
  <2> HIDE DEF h
  <2>2. p \in [1 .. i -> Cluster]
    BY <2>1
  <2> QED
    BY <2>2
<1> QED
  BY <1>2

\* Sequences of the same elements are the same.
LEMMA SameSeq ==
  ASSUME NEW S, NEW x \in Seq(S), NEW y \in Seq(S), Len(x) = Len(y),
         \A i \in 1 .. Len(x) : x[i] = y[i]
  PROVE  x = y
OBVIOUS

AppendsToLast(r, p, d) == Append(r \o p, d) = r \o Append(p, d)

\* To append to the second part of a sequence is to append to the whole.
LEMMA AppendConcat ==
  ASSUME NEW S, NEW r \in Seq(S), NEW p \in Seq(S), NEW d \in S
  PROVE  AppendsToLast(r, p, d)
<1> DEFINE R == Len(r)
           P == Len(p)
           x == Append(r \o p, d)
           q == Append(p, d)
           y == r \o q
<1>1. /\ q \in Seq(S) /\ Len(q) = P + 1 /\ q[P + 1] = d
      /\ \A i \in 1 .. P : q[i] = p[i]
      /\ R \in Nat /\ P \in Nat
  OBVIOUS
<1>2. /\ x \in Seq(S) /\ Len(x) = R + P + 1 /\ x[R + P + 1] = d
      /\ \A i \in 1 .. R + P : x[i] = (r \o p)[i]
  OBVIOUS
<1>3. \A i \in 1 .. R + P : (r \o p)[i] = IF i <= R THEN r[i] ELSE p[i - R]
  OBVIOUS
<1> HIDE DEF x, q
<1>4. /\ y \in Seq(S) /\ Len(y) = R + (P + 1)
      /\ \A i \in 1 .. R + (P + 1) : y[i] = IF i <= R THEN r[i] ELSE q[i - R]
  BY <1>1
<1> HIDE DEF y, R, P
<1>5. ASSUME NEW i \in 1 .. R + P + 1 PROVE x[i] = y[i]
  <2>1. CASE i = R + P + 1
    <3>1. ~(i <= R) /\ i - R = P + 1 /\ i \in 1 .. R + (P + 1)
      BY <1>1, <2>1
    <3> QED
      BY <1>1, <1>2, <1>4, <2>1, <3>1
  <2>2. CASE i \in 1 .. R /\ i \in 1 .. R + P
    <3>1. i <= R /\ i \in 1 .. R + (P + 1)
      BY <1>1, <2>2
    <3> QED
      BY <1>2, <1>3, <1>4, <2>2, <3>1
  <2>3. CASE i \in R + 1 .. R + P
    <3>1. ~(i <= R) /\ i - R \in 1 .. P /\ i \in 1 .. R + (P + 1) /\ i \in 1 .. R + P
      BY <1>1, <2>3
    <3> QED
      BY <1>1, <1>2, <1>3, <1>4, <3>1
  <2>4. i = R + P + 1 \/ (i \in 1 .. R /\ i \in 1 .. R + P) \/ i \in R + 1 .. R + P
    BY <1>1
  <2> QED
    BY <2>1, <2>2, <2>3, <2>4
<1>6. Len(x) = Len(y)
  BY <1>1, <1>2, <1>4
<1>7. x = y
  <2>1. x \in Seq(S) /\ y \in Seq(S) /\ \A i \in 1 .. Len(x) : x[i] = y[i]
    BY <1>2, <1>4, <1>5
  <2> QED
    BY <1>6, <2>1, SameSeq
<1> QED
  BY <1>7 DEF AppendsToLast, x, y, q

\* By induction on the clusters found: they are appended in order, patched, and both the
\* intro and the times are kept.
LEMMA InspectingExtends ==
  ASSUME prev_sources_offset \in Int, NEW s0 \in State, IsIntro(s0.intro, s0.relayed),
         NEW v \in Seq(Cluster), NEW n \in 0 .. Len(v), NEW k \in 0 .. Len(v) - n,
         NEW f, Inspecting(f, s0, v, n, k)
  PROVE  /\ Extended(f[k], s0, v, n, k)
         /\ prev_sources_offset \in Nat /\ Ordered(v) /\ TimesInv(s0, v, n)
              => TimesInv(f[k], v, n + k)
<1> DEFINE Given == prev_sources_offset \in Nat /\ Ordered(v) /\ TimesInv(s0, v, n)
           Good(i) == Extended(f[i], s0, v, n, i) /\ (Given => TimesInv(f[i], v, n + i))
           D == {i \in Nat : i <= k => Good(i)}
           part(i) == [j \in 1 .. i |-> Stamped(v[n + j])]
<1>0. k \in Nat /\ n \in Nat /\ n + k <= Len(v) /\ Len(v) \in Nat
  OBVIOUS
<1>1. 0 \in D
  <2>1. f[0] = s0 /\ n + 0 = n
    BY <1>0 DEF Inspecting
  <2>2. s0.relayed \o part(0) = s0.relayed
    <3>1. part(0) = <<>> /\ s0.relayed \in Seq(Cluster)
      BY DEF State
    <3> HIDE DEF part
    <3> QED
      BY <3>1
  <2>3. Extended(f[0], s0, v, n, 0)
    <3> HIDE DEF part
    <3>1. s0.relayed = s0.relayed \o part(0)
      BY <2>2
    <3> QED
      BY <2>1, <3>1 DEF Extended, part
  <2> HIDE DEF Given
  <2>4. Given => TimesInv(f[0], v, n + 0)
    BY <2>1 DEF Given
  <2> QED
    BY <2>3, <2>4
<1>2. ASSUME NEW i \in Nat, i \in D PROVE i + 1 \in D
  <2> SUFFICES ASSUME i + 1 <= k PROVE Good(i + 1)
    OBVIOUS
  <2> DEFINE c == v[n + (i + 1)]
             s == f[i]
             m == n + i
  <2>1. i <= k /\ i + 1 \in 1 .. k /\ (i + 1) - 1 = i /\ m \in Nat /\ m + 1 <= Len(v) /\ n + (i + 1) = m + 1
    BY <1>0
  <2>2. Good(i)
    BY <1>2, <2>1
  <2>3. c \in Cluster
    <3>1. n + (i + 1) \in 1 .. Len(v)
      BY <1>0, <2>1
    <3> QED
      BY <3>1
  <2>4. f[i + 1] = Continued(s, c)
    BY <2>1 DEF Inspecting
  <2>5. s \in State /\ s.relayed = s0.relayed \o part(i) /\ IsIntro(s.intro, s.relayed)
    BY <2>2 DEF Extended
  <2>6. /\ Continued(s, c) \in State /\ Continued(s, c).relayed = Append(s.relayed, Stamped(c))
        /\ IsIntro(Continued(s, c).intro, Continued(s, c).relayed)
    <3> HIDE DEF c, s
    <3> QED
      BY <2>3, <2>5, ContinuedIs, IntroKept
  <2>7. Append(s.relayed, Stamped(c)) = s0.relayed \o part(i + 1)
    <3> DEFINE r == s0.relayed
               d == Stamped(c)
               p == part(i)
               q == part(i + 1)
    <3>1. r \in Seq(Cluster) /\ d \in Cluster
      BY <2>3, StampedIs DEF State
    <3>3. p \in Seq(Cluster) /\ Len(p) = i /\ \A j \in 1 .. i : p[j] = Stamped(v[n + j])
      <4>1. n + i <= Len(v)
        BY <1>0, <2>1
      <4> QED
        BY <1>0, <4>1, StampedAre
    <3>4. q \in Seq(Cluster) /\ Len(q) = i + 1 /\ \A j \in 1 .. i + 1 : q[j] = Stamped(v[n + j])
      <4>1. n + (i + 1) <= Len(v) /\ i + 1 \in Nat
        BY <1>0, <2>1
      <4> QED
        BY <1>0, <4>1, StampedAre
    <3>5. q[i + 1] = d
      BY <3>4
    <3> HIDE DEF r, d, p, q
    <3>6. q = Append(p, d)
      <4>1. Append(p, d) \in Seq(Cluster) /\ Len(Append(p, d)) = i + 1
        BY <3>1, <3>3
      <4>2. ASSUME NEW j \in 1 .. i + 1 PROVE q[j] = Append(p, d)[j]
        <5>1. CASE j \in 1 .. i
          BY <3>1, <3>3, <3>4, <5>1
        <5>2. CASE j = i + 1
          BY <3>1, <3>3, <3>5, <5>2
        <5>3. j \in 1 .. i \/ j = i + 1
          OBVIOUS
        <5> QED
          BY <5>1, <5>2, <5>3
      <4> QED
        BY <3>4, <4>1, <4>2
    <3>7. Append(r \o p, d) = r \o Append(p, d)
      <4>1. /\ r \in Seq(Cluster) /\ d \in Cluster
            /\ p \in Seq(Cluster)
        BY <3>1, <3>3
      <4>2. AppendsToLast(r, p, d)
        BY <4>1, AppendConcat
      <4> QED
        BY <4>2 DEF AppendsToLast
    <3> QED
      BY <2>5, <3>6, <3>7 DEF r, d, p, q
  <2>8. Extended(f[i + 1], s0, v, n, i + 1)
    <3> HIDE DEF c, s
    <3> QED
      BY <2>4, <2>6, <2>7 DEF Extended
  <2>9. Given => TimesInv(f[i + 1], v, n + (i + 1))
    <3> SUFFICES ASSUME Given PROVE TimesInv(f[i + 1], v, n + (i + 1))
      OBVIOUS
    <3>1. TimesInv(s, v, m)
      BY <2>2
    <3> HIDE DEF s, m
    <3>2. TimesInv(Continued(s, v[m + 1]), v, m + 1)
      BY <2>1, <2>5, <3>1, TimesKept
    <3> QED
      BY <2>1, <2>4, <3>2
  <2> QED
    BY <2>8, <2>9
<1>3. Nat \subseteq D
  <2> HIDE DEF D
  <2> QED
    BY <1>1, <1>2, SetInduction
<1> QED
  BY <1>0, <1>3

-----------------------------------------------------------------------------
(* Every step *)

\* The stream that the next state has.
Timeline2 == [relayed |-> relayed', intro |-> intro', last |-> last_observed_timecode']

\* A step of the source extends the stream by the clusters it takes.
LEMMA ContinueWithExtends ==
  ASSUME SendClusters, ClustersTypeOK, IntroContinues,
         NEW v \in Videos, NEW n \in 0 .. Len(v), ContinueWith(v, n)
  PROVE  \E k \in 0 .. Len(v) - n :
           /\ video' = v /\ taken' = n + k
           /\ Extended(Timeline2, Timeline, v, n, k)
           /\ prev_sources_offset \in Nat /\ Ordered(v) /\ TimesInv(Timeline, v, n)
                => TimesInv(Timeline2, v, n + k)
<1> DEFINE s == Timeline
<1>1. v \in Seq(Cluster)
  BY DEF SendClusters
<1>2. s \in State /\ s.intro = intro /\ s.relayed = relayed /\ prev_sources_offset \in Int
  BY DEF ClustersTypeOK, State, Timeline
<1>3. IsIntro(s.intro, s.relayed)
  BY <1>2, IntroContinuesIs
<1>4. PICK k \in 0 .. Len(v) - n : \E f :
           /\ Inspecting(f, s, v, n, k)
           /\ video' = v /\ taken' = n + k
           /\ relayed' = f[k].relayed /\ intro' = f[k].intro
           /\ last_observed_timecode' = f[k].last
  BY <1>1, <1>2, ContinueWithIsRecursive
<1>5. PICK f :
           /\ Inspecting(f, s, v, n, k)
           /\ video' = v /\ taken' = n + k
           /\ relayed' = f[k].relayed /\ intro' = f[k].intro
           /\ last_observed_timecode' = f[k].last
  BY <1>4
<1> DEFINE t == f[k]
           Given == prev_sources_offset \in Nat /\ Ordered(v) /\ TimesInv(s, v, n)
<1> HIDE DEF s, Given
<1>6. Extended(t, s, v, n, k) /\ (Given => TimesInv(t, v, n + k))
  BY <1>1, <1>2, <1>3, <1>5, InspectingExtends DEF Given
<1>7. t = Timeline2
  <2>1. t \in State
    BY <1>6 DEF Extended
  <2>2. t = [relayed |-> t.relayed, intro |-> t.intro, last |-> t.last]
    <3> HIDE DEF t
    <3> QED
      BY <2>1 DEF State
  <2> HIDE DEF t
  <2> QED
    BY <1>5, <2>2 DEF Timeline2, t
<1> QED
  BY <1>5, <1>6, <1>7 DEF s, Given

-----------------------------------------------------------------------------
(* The invariant *)

\* While a source is there, what it has left to send is not before what the stream
\* has; afterwards the stream ends before the next source begins.
TimesOK ==
  /\ prev_sources_offset \in Nat /\ last_observed_timecode \in Nat
  /\ IF connected THEN TimesInv(Timeline, video, taken)
     ELSE InOrder(relayed) /\ NotAfter(relayed, prev_sources_offset)

Inv == ClustersTypeOK /\ IntroContinues /\ (SendInOrder => TimesOK)

\* Each source sends in order.
LEMMA SendersOrdered == ASSUME SendInOrder, NEW v \in Videos PROVE Ordered(v)
BY DEF SendInOrder, Ordered

\* The invariant holds in the beginning.
LEMMA InitInv == ASSUME SendClusters, SpliceInit PROVE Inv
<1> USE DEF SpliceInit
<1>1. ClustersTypeOK
  <2>1. video \in Seq(Cluster)
    BY DEF SendClusters
  <2>2. Len(video) \in Nat
    BY <2>1
  <2>3. taken \in 0 .. Len(video)
    BY <2>2
  <2>4. relayed \in Seq(Cluster) /\ intro \in Seq(Cluster)
    <3> HIDE DEF Cluster
    <3> QED
      OBVIOUS
  <2>5. /\ connected \in BOOLEAN /\ video \in Videos
        /\ prev_sources_offset \in Int /\ last_observed_timecode \in Int
    <3>1. prev_sources_offset \in Int /\ last_observed_timecode \in Int
      OBVIOUS
    <3> QED
      BY <3>1, Zenon
  <2> HIDE DEF SpliceInit
  <2> QED
    BY <2>3, <2>4, <2>5, Zenon DEF ClustersTypeOK
<1>2. IntroContinues
  BY DEF IntroContinues
<1>3. TimesOK
  <2>1. 1 .. Len(relayed) = {}
    OBVIOUS
  <2>2. InOrder(relayed) /\ NotAfter(relayed, prev_sources_offset)
    BY <2>1, Zenon DEF InOrder, NotAfter
  <2> QED
    BY <2>2 DEF TimesOK
<1> QED
  BY <1>1, <1>2, <1>3 DEF Inv

\* A source that goes on, or one that begins.
LEMMA ContinueKeeps ==
  ASSUME SendClusters, ClustersTypeOK, IntroContinues, NEW v \in Videos, NEW n \in 0 .. Len(v),
         ContinueWith(v, n), connected' = TRUE, UNCHANGED prev_sources_offset,
         SendInOrder => prev_sources_offset \in Nat /\ TimesInv(Timeline, v, n)
  PROVE  Inv'
<1>1. PICK k \in 0 .. Len(v) - n :
        /\ video' = v /\ taken' = n + k
        /\ Extended(Timeline2, Timeline, v, n, k)
        /\ prev_sources_offset \in Nat /\ Ordered(v) /\ TimesInv(Timeline, v, n)
             => TimesInv(Timeline2, v, n + k)
  BY ContinueWithExtends
<1>2. /\ Timeline2 \in State /\ IsIntro(Timeline2.intro, Timeline2.relayed)
      /\ Timeline2.relayed = relayed' /\ Timeline2.intro = intro'
      /\ Timeline2.last = last_observed_timecode'
  BY <1>1 DEF Extended, Timeline2
<1>3. ClustersTypeOK'
  <2>1. Len(v) \in Nat
    BY DEF SendClusters
  <2>2. n + k \in 0 .. Len(v)
    BY <2>1
  <2>3. relayed' \in Seq(Cluster) /\ intro' \in Seq(Cluster) /\ last_observed_timecode' \in Int
    BY <1>2 DEF State
  <2> QED
    BY <1>1, <2>2, <2>3 DEF ClustersTypeOK
<1>4. IntroContinues'
  <2>1. IsIntro(intro', relayed')
    BY <1>2
  <2>2. IntroContinues' <=> IsIntro(intro', relayed')
    BY DEF IntroContinues, IsIntro, Keys
  <2> QED
    BY <2>1, <2>2
<1>5. ASSUME SendInOrder PROVE TimesOK'
  <2>1. TimesInv(Timeline2, v, n + k) /\ prev_sources_offset' \in Nat
    BY <1>1, <1>5, SendersOrdered
  <2>2. last_observed_timecode' \in Nat
    BY <1>2, <2>1 DEF TimesInv
  <2>3. Timeline' = Timeline2
    BY DEF Timeline, Timeline2
  <2>4. TimesInv(Timeline, video, taken)'
    <3> DEFINE x == Timeline2
    <3>1. TimesInv(x, v, n + k)
      BY <2>1
    <3>2. video' = v /\ taken' = n + k /\ Timeline' = x
      BY <1>1, <2>3
    <3> HIDE DEF x
    <3> QED
      BY <3>1, <3>2 DEF TimesInv
  <2> QED
    BY <1>1, <2>1, <2>2, <2>4 DEF TimesOK
<1>6. (SendInOrder => TimesOK)'
  BY <1>5 DEF SendInOrder, InOrder, Time
<1> QED
  BY <1>3, <1>4, <1>6 DEF Inv

\* Every step keeps the invariant.
LEMMA NextInv == ASSUME SendClusters, Inv, [SpliceNext]_spliceVars PROVE Inv'
<1> USE DEF Inv
<1>1. /\ video \in Videos /\ video \in Seq(Cluster) /\ taken \in 0 .. Len(video)
      /\ \A v \in Videos : 0 \in 0 .. Len(v)
  <2>1. \A v \in Videos : v \in Seq(Cluster) /\ Len(v) \in Nat
    BY DEF SendClusters
  <2> QED
    BY <2>1 DEF ClustersTypeOK
<1>2. CASE SourceBegins
  <2>1. PICK v \in Videos : ContinueWith(v, 0)
    BY <1>2 DEF SourceBegins
  <2>2. ~connected /\ connected' = TRUE /\ UNCHANGED prev_sources_offset
    BY <1>2 DEF SourceBegins
  <2>3. ASSUME SendInOrder PROVE TimesInv(Timeline, v, 0) /\ prev_sources_offset \in Nat
    <3>1. Ordered(v) /\ v \in Seq(Cluster)
      BY <2>3, SendersOrdered DEF SendClusters
    <3>2. /\ InOrder(relayed) /\ NotAfter(relayed, prev_sources_offset)
          /\ prev_sources_offset \in Nat /\ last_observed_timecode \in Nat
          /\ relayed \in Seq(Cluster)
      BY <2>2, <2>3 DEF TimesOK, ClustersTypeOK
    <3>3. Timeline.relayed = relayed /\ Timeline.last = last_observed_timecode
      BY DEF Timeline
    <3>4. ASSUME NEW t \in Nat PROVE NotAfter(relayed, prev_sources_offset + t)
      <4> SUFFICES ASSUME NEW i \in 1 .. Len(relayed), NEW a \in 1 .. Len(relayed[i].blocks)
                   PROVE  Time(relayed[i], a) <= prev_sources_offset + t
        BY DEF NotAfter
      <4>1. Time(relayed[i], a) <= prev_sources_offset
        BY <3>2 DEF NotAfter
      <4>2. relayed[i] \in Cluster
        BY <3>2
      <4>3. Time(relayed[i], a) \in Int
        BY <4>2, Times
      <4> QED
        BY <3>2, <4>1, <4>3
    <3>5. ASSUME NEW j \in 0 + 1 .. Len(v), NEW b \in 1 .. Len(v[j].blocks)
          PROVE  Time(v[j], b) \in Nat
      <4>1. j \in 1 .. Len(v) /\ v[j] \in Cluster
        BY <3>1
      <4>2. Time(v[j], b) \in Int /\ Time(v[j], b) >= 0
        BY <3>1, <4>1, Times DEF Ordered
      <4> QED
        BY <4>2
    <3> QED
      BY <3>2, <3>3, <3>4, <3>5 DEF TimesInv
  <2> QED
    BY <1>1, <2>1, <2>2, <2>3, ContinueKeeps
<1>3. CASE SourceGoesOn
  <2>1. /\ connected /\ connected' = TRUE /\ UNCHANGED prev_sources_offset
        /\ ContinueWith(video, taken)
    BY <1>3 DEF SourceGoesOn, ClustersTypeOK
  <2>2. SendInOrder => prev_sources_offset \in Nat /\ TimesInv(Timeline, video, taken)
    BY <2>1 DEF TimesOK
  <2> QED
    BY <1>1, <2>1, <2>2, ContinueKeeps
<1>4. CASE SourceEnds
  <2>1. /\ connected /\ connected' = FALSE
        /\ prev_sources_offset' = prev_sources_offset + last_observed_timecode
        /\ taken' = 0 /\ UNCHANGED <<video, relayed, intro, last_observed_timecode>>
    BY <1>4 DEF SourceEnds
  <2>2. ClustersTypeOK'
    <3>1. prev_sources_offset' \in Int
      BY <2>1 DEF ClustersTypeOK
    <3>2. taken' \in 0 .. Len(video)
      BY <1>1, <2>1
    <3> QED
      BY <2>1, <3>1, <3>2, Zenon DEF ClustersTypeOK
  <2>3. IntroContinues'
    BY <2>1 DEF IntroContinues
  <2>4. ASSUME SendInOrder PROVE TimesOK'
    <3>1. TimesInv(Timeline, video, taken) /\ prev_sources_offset \in Nat /\ last_observed_timecode \in Nat
      BY <2>1, <2>4 DEF TimesOK
    <3>2. InOrder(relayed) /\ NotAfter(relayed, prev_sources_offset + last_observed_timecode)
      BY <3>1 DEF TimesInv, Timeline
    <3> QED
      BY <2>1, <3>1, <3>2 DEF TimesOK
  <2>5. (SendInOrder => TimesOK)'
    BY <2>4 DEF SendInOrder, InOrder, Time
  <2> QED
    BY <2>2, <2>3, <2>5
<1>5. CASE UNCHANGED spliceVars
  <2>1. UNCHANGED <<connected, video, taken, relayed, intro, prev_sources_offset, last_observed_timecode>>
    BY <1>5 DEF spliceVars
  <2> QED
    BY <2>1 DEF ClustersTypeOK, IntroContinues, SendInOrder, TimesOK, TimesInv, Timeline
<1> QED
  BY <1>2, <1>3, <1>4, <1>5 DEF SpliceNext

\* The invariant always holds.
LEMMA Invariant == ASSUME SendClusters PROVE SpliceSpec => []Inv
<1>1. SpliceInit => Inv
  BY InitInv
<1>2. Inv /\ [SpliceNext]_spliceVars => Inv'
  BY NextInv
<1> QED
  BY <1>1, <1>2, PTL DEF SpliceSpec

\* The variables have the types that the model gives them.
THEOREM TypeCorrect == ASSUME SendClusters PROVE SpliceSpec => []ClustersTypeOK
<1>1. Inv => ClustersTypeOK
  BY DEF Inv
<1> QED
  BY <1>1, Invariant, PTL

\* Whatever the sources send and however often they come, leave and are followed by
\* others, the intro begins at the last keyframe and goes on as the stream does.
THEOREM IntroFollowsStream == ASSUME SendClusters PROVE SpliceSpec => []IntroContinues
<1>1. Inv => IntroContinues
  BY DEF Inv
<1> QED
  BY <1>1, Invariant, PTL

\* For any number of sources that each send in order, the time that a viewer sees
\* never goes back.
THEOREM TimeGoesOn == ASSUME SendClusters, SendInOrder PROVE SpliceSpec => []TimeNeverGoesBack
<1>1. Inv => TimeNeverGoesBack
  BY DEF Inv, TimesOK, TimesInv, Timeline, TimeNeverGoesBack
<1> QED
  BY <1>1, Invariant, PTL

-----------------------------------------------------------------------------
(* The promise of the relay *)

\* A stream with no block after t ends at most then: the recursion of Blocks collects
\* blocks that are not after t.
LEMMA LastTimeBound ==
  ASSUME NEW r \in Seq(Cluster), NEW t \in Nat, NotAfter(r, t)
  PROVE  Promise!LastTime(r) <= t
<1> DEFINE N == Len(r)
           of(c) == [i \in 1 .. Len(c.blocks) |-> [c.blocks[i] EXCEPT !.time = c.timecode + @]]
           Body(g, n) == IF n = 0 THEN <<>> ELSE g[n - 1] \o of(r[n])
           at == CHOOSE g : g = [n \in 0 .. N |-> Body(g, n)]
           B == {b \in Block : b.time <= t}
           V == Seq(B)
           step == [x \in (1 .. N) \X V |-> x[2] \o of(r[x[1]])]
<1>1. Promise!Blocks(r) = at[N]
  BY Zenon DEF Promise!Blocks
<1>2. N \in Nat
  OBVIOUS
<1>3. ASSUME NEW n \in 1 .. N PROVE of(r[n]) \in V
  <2> DEFINE c == r[n]
             s == c.blocks
             moved(b) == [b EXCEPT !.time = c.timecode + @]
             o == [i \in 1 .. Len(s) |-> moved(s[i])]
  <2>1. c \in Cluster
    OBVIOUS
  <2>2. c.timecode \in Int /\ s \in Seq(Block)
    BY <2>1 DEF Cluster
  <2>3. ASSUME NEW i \in 1 .. Len(s) PROVE moved(s[i]) \in B
    <3>1. s[i] \in Block
      BY <2>2
    <3>2. Time(c, i) <= t /\ Time(c, i) = c.timecode + s[i].time
      BY DEF NotAfter, Time
    <3> DEFINE b == s[i]
               x == c.timecode
    <3>3. b = [track |-> b.track, time |-> b.time, key |-> b.key] /\ b.track \in Nat
          /\ b.time \in Int /\ b.key \in BOOLEAN
      BY <3>1 DEF Block
    <3>4. x \in Int /\ x + b.time <= t
      BY <2>2, <3>2
    <3> HIDE DEF b, x
    <3>5. moved(b) = [track |-> b.track, time |-> x + b.time, key |-> b.key]
      BY <3>3 DEF x
    <3>6. moved(b) \in Block /\ moved(b).time = x + b.time
      BY <3>3, <3>4, <3>5 DEF Block
    <3> HIDE DEF moved
    <3>7. moved(b) \in B
      BY <3>4, <3>6
    <3> QED
      BY <3>7 DEF b
  <2>4. Len(s) \in Nat
    BY <2>2
  <2>5. o = of(c)
    OBVIOUS
  <2> HIDE DEF moved, s, B
  <2>6. o \in [1 .. Len(s) -> B]
    BY <2>3
  <2>7. o \in Seq(B)
    BY <2>4, <2>6
  <2> QED
    BY <2>5, <2>7
<1>4. step \in [(1 .. N) \X V -> V]
  <2> SUFFICES ASSUME NEW x \in (1 .. N) \X V PROVE x[2] \o of(r[x[1]]) \in V
    OBVIOUS
  <2>1. x[1] \in 1 .. N /\ x[2] \in V
    OBVIOUS
  <2>2. of(r[x[1]]) \in V
    BY <1>3, <2>1
  <2> HIDE DEF of, B
  <2> QED
    BY <2>1, <2>2
<1>5. PICK f \in [0 .. N -> V] :
        f[0] = <<>> /\ \A n \in 1 .. N : f[n] = step[<<n, f[n - 1]>>]
  <2> HIDE DEF step, N, B
  <2>1. <<>> \in V
    OBVIOUS
  <2> HIDE DEF V
  <2>2. \E f \in [0 .. N -> V] : Recursive(f, N, <<>>, step)
    BY <1>2, <1>4, <2>1, Recursion, ZenonT(30)
  <2> QED
    BY <2>2 DEF Recursive
<1> HIDE DEF V
<1>6. \A n \in 1 .. N : f[n] = f[n - 1] \o of(r[n])
  <2> SUFFICES ASSUME NEW n \in 1 .. N PROVE f[n] = f[n - 1] \o of(r[n])
    OBVIOUS
  <2>1. n - 1 \in 0 .. N
    BY <1>2
  <2>2. f[n - 1] \in V
    BY <2>1
  <2> DEFINE x == <<n, f[n - 1]>>
  <2>3. x \in (1 .. N) \X V /\ x[1] = n /\ x[2] = f[n - 1]
    BY <2>2
  <2>4. step[x] = f[n - 1] \o of(r[n])
    <3> HIDE DEF x, of
    <3> QED
      BY <2>3
  <2> QED
    BY <1>5, <2>4
<1>7. \A n \in 0 .. N : f[n] = Body(f, n)
  <2> SUFFICES ASSUME NEW n \in 0 .. N, n # 0 PROVE f[n] = Body(f, n)
    BY <1>5
  <2>1. n \in 1 .. N
    BY <1>2
  <2> HIDE DEF of
  <2> QED
    BY <1>6, <2>1
<1>8. f = [n \in 0 .. N |-> Body(f, n)]
  <2> HIDE DEF Body
  <2> QED
    BY <1>5, <1>7
<1>9. at = [n \in 0 .. N |-> Body(at, n)]
  <2> HIDE DEF Body
  <2> QED
    BY <1>8
<1>10. \A n \in 0 .. N : at[n] \in V
  <2> DEFINE D == {n \in Nat : n <= N => at[n] \in V}
  <2> HIDE DEF at
  <2>1. 0 \in D
    <3>1. at[0] = <<>>
      <4>1. at[0] = Body(at, 0)
        <5> HIDE DEF Body
        <5> QED
          BY <1>2, <1>9
      <4> QED
        BY <4>1
    <3>2. <<>> \in V
      <4> HIDE DEF B
      <4> QED
        BY DEF V
    <3> HIDE DEF N
    <3> QED
      BY <3>1, <3>2
  <2>2. ASSUME NEW n \in Nat, n \in D PROVE n + 1 \in D
    <3> SUFFICES ASSUME n + 1 <= N PROVE at[n + 1] \in V
      OBVIOUS
    <3>1. at[n] \in V /\ of(r[n + 1]) \in V
      <4>1. n <= N /\ n + 1 \in 1 .. N
        BY <1>2
      <4> HIDE DEF of, N
      <4> QED
        BY <1>3, <2>2, <4>1
    <3>2. n + 1 \in 0 .. N /\ n + 1 # 0 /\ (n + 1) - 1 = n
      BY <1>2
    <3>3. at[n + 1] = Body(at, n + 1)
      <4> HIDE DEF Body
      <4> QED
        BY <1>9, <3>2
    <3> HIDE DEF of, B
    <3>4. at[n + 1] = at[n] \o of(r[n + 1])
      BY <3>2, <3>3
    <3> QED
      BY <3>1, <3>4 DEF V
  <2>3. Nat \subseteq D
    <3> HIDE DEF D
    <3> QED
      BY <2>1, <2>2, SetInduction
  <2> QED
    BY <1>2, <2>3
<1> DEFINE b == Promise!Blocks(r)
<1>11. b \in Seq(B)
  <2> HIDE DEF at, N, B
  <2>1. N \in 0 .. N
    BY <1>2
  <2> QED
    BY <1>1, <1>10, <2>1 DEF V
<1>12. b # <<>> => b[Len(b)] \in B
  <2> HIDE DEF b, B
  <2> QED
    BY <1>11
<1> HIDE DEF b
<1>13. Promise!LastTime(r) = IF b = <<>> THEN 0 ELSE b[Len(b)].time
  BY DEF Promise!LastTime, b
<1> QED
  BY <1>12, <1>13

\* Clusters passed on are taken from what is pending: the first of them, or the first
\* of what earlier ones left.
LEMMA Passes ==
  ASSUME SendClusters, ClustersTypeOK, IntroContinues, NEW v \in Videos, NEW n \in 0 .. Len(v),
         ContinueWith(v, n), connected' = TRUE
  PROVE  Promise!Pass(SubSeq(v, n + 1, Len(v)))
           /\ (n = 0 => Promise!Pass(v))
<1> DEFINE left == SubSeq(v, n + 1, Len(v))
           pending2 == IF connected' THEN SubSeq(video', taken' + 1, Len(video')) ELSE <<>>
<1>1. PICK k \in 0 .. Len(v) - n :
        video' = v /\ taken' = n + k /\ Extended(Timeline2, Timeline, v, n, k)
  BY ContinueWithExtends
<1>2. relayed' = relayed \o [i \in 1 .. k |-> Stamped(v[n + i])]
  BY <1>1 DEF Extended, Timeline, Timeline2
<1>3. v \in Seq(Cluster) /\ Len(v) \in Nat /\ n \in Nat /\ k \in Nat
  BY DEF SendClusters
<1>4. /\ left \in Seq(Cluster) /\ Len(left) = Len(v) - n
      /\ \A i \in 1 .. Len(v) - n : left[i] = v[n + i]
  BY <1>3
<1>5. pending2 = SubSeq(v, n + k + 1, Len(v))
  BY <1>1
<1>6. \A x : Promise!Moved(x) = Stamped(x)
  BY DEF Promise!Moved, Stamped
<1> HIDE DEF left, pending2
<1>7. ASSUME NEW u, \A i \in 1 .. k : u[i] = v[n + i], k \in 0 .. Len(u),
             SubSeq(u, k + 1, Len(u)) = SubSeq(v, n + k + 1, Len(v))
      PROVE  Promise!Pass(u)
  <2>1. [i \in 1 .. k |-> Promise!Moved(u[i])] = [i \in 1 .. k |-> Stamped(v[n + i])]
    BY <1>6, <1>7
  <2>2. relayed' = relayed \o [i \in 1 .. k |-> Promise!Moved(u[i])]
    BY <1>2, <2>1
  <2> QED
    BY <1>5, <1>7, <2>2 DEF Promise!Pass, pending2
<1>8. Promise!Pass(left)
  <2>1. \A i \in 1 .. k : left[i] = v[n + i]
    BY <1>3, <1>4
  <2>2. k \in 0 .. Len(left)
    BY <1>4
  <2>3. SubSeq(left, k + 1, Len(left)) = SubSeq(v, n + k + 1, Len(v))
    <3> DEFINE x == SubSeq(left, k + 1, Len(left))
               y == SubSeq(v, n + k + 1, Len(v))
               L == Len(v) - n - k
    <3>1. L \in Nat
      BY <1>3
    <3>2. x \in Seq(Cluster) /\ Len(x) = L /\ \A i \in 1 .. L : x[i] = left[k + i]
      BY <1>3, <1>4, <2>2
    <3>3. y \in Seq(Cluster) /\ Len(y) = L /\ \A i \in 1 .. L : y[i] = v[n + k + i]
      BY <1>3
    <3>4. \A i \in 1 .. L : left[k + i] = v[n + k + i]
      <4> SUFFICES ASSUME NEW i \in 1 .. L PROVE left[k + i] = v[n + k + i]
        OBVIOUS
      <4>1. k + i \in 1 .. Len(v) - n /\ n + (k + i) = n + k + i
        BY <1>3
      <4> QED
        BY <1>4, <4>1
    <3> HIDE DEF x, y, L
    <3>5. \A i \in 1 .. Len(x) : x[i] = y[i]
      BY <3>2, <3>3, <3>4
    <3>6. x = y
      BY <3>2, <3>3, <3>5, SameSeq
    <3> QED
      BY <3>6 DEF x, y
  <2> QED
    BY <1>7, <2>1, <2>2, <2>3
<1>9. n = 0 => Promise!Pass(v)
  <2> SUFFICES ASSUME n = 0 PROVE Promise!Pass(v)
    OBVIOUS
  <2>1. \A i \in 1 .. k : v[i] = v[n + i]
    OBVIOUS
  <2>2. k \in 0 .. Len(v) /\ n + k + 1 = k + 1
    BY <1>3
  <2> QED
    BY <1>7, <2>1, <2>2
<1> QED
  BY <1>8, <1>9 DEF left

\* For any number of sources that each send in order: the clusters of each are passed
\* on whole and in order, and its time begins after all that the stream already has.
THEOREM ImplementsRelay == ASSUME SendClusters, SendInOrder PROVE SpliceSpec => RelaySpec
<1>1. SpliceInit => Promise!Init
  BY DEF SpliceInit, Promise!Init
<1>2. Inv /\ [SpliceNext]_spliceVars => [Promise!Next]_Promise!vars
  <2> SUFFICES ASSUME Inv, [SpliceNext]_spliceVars PROVE [Promise!Next]_Promise!vars
    OBVIOUS
  <2>1. ClustersTypeOK /\ IntroContinues /\ TimesOK
    BY DEF Inv
  <2>2. /\ video \in Videos /\ taken \in 0 .. Len(video)
        /\ \A v \in Videos : 0 \in 0 .. Len(v)
    <3>1. \A v \in Videos : v \in Seq(Cluster) /\ Len(v) \in Nat
      BY DEF SendClusters
    <3> QED
      BY <2>1, <3>1 DEF ClustersTypeOK
  <2>3. CASE SourceBegins
    <3>1. PICK v \in Videos : ContinueWith(v, 0)
      BY <2>3 DEF SourceBegins
    <3>2. ~connected /\ connected' = TRUE /\ UNCHANGED prev_sources_offset
      BY <2>3 DEF SourceBegins
    <3>3. Promise!Pass(v)
      BY <2>1, <2>2, <3>1, <3>2, Passes
    <3>4. Promise!Connect
      BY <3>2, <3>3, Zenon DEF Promise!Connect
    <3> QED
      BY <3>4 DEF Promise!Next
  <2>4. CASE SourceGoesOn
    <3>1. /\ connected = TRUE /\ connected' = TRUE /\ UNCHANGED prev_sources_offset
          /\ ContinueWith(video, taken)
      BY <2>1, <2>4 DEF SourceGoesOn, ClustersTypeOK
    <3>2. Promise!Pass(SubSeq(video, taken + 1, Len(video)))
      BY <2>1, <2>2, <3>1, Passes
    <3>3. Promise!Continue
      BY <3>1, <3>2, Zenon DEF Promise!Continue
    <3> QED
      BY <3>3 DEF Promise!Next
  <2>5. CASE SourceEnds
    <3>1. /\ connected /\ connected' = FALSE
          /\ prev_sources_offset' = prev_sources_offset + last_observed_timecode
          /\ UNCHANGED <<video, relayed, intro, last_observed_timecode>>
      BY <2>5 DEF SourceEnds
    <3>2. /\ NotAfter(relayed, prev_sources_offset') /\ prev_sources_offset' \in Nat
          /\ relayed \in Seq(Cluster)
      BY <2>1, <3>1 DEF TimesOK, TimesInv, Timeline, ClustersTypeOK
    <3>3. Promise!LastTime(relayed) <= prev_sources_offset'
      BY <3>2, LastTimeBound
    <3>4. prev_sources_offset' >= Promise!LastTime(relayed)
      BY <3>3
    <3>5. Promise!Leave
      BY <3>1, <3>2, <3>4, Zenon DEF Promise!Leave
    <3> QED
      BY <3>5 DEF Promise!Next
  <2>6. CASE UNCHANGED spliceVars
    BY <2>6 DEF spliceVars, Promise!vars
  <2> QED
    BY <2>3, <2>4, <2>5, <2>6 DEF SpliceNext
<1>3. SpliceSpec => []Inv
  BY Invariant
<1> QED
  BY <1>1, <1>2, <1>3, PTL DEF SpliceSpec, RelaySpec, Promise!Spec

=============================================================================
