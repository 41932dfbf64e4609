----------------------------- MODULE EbmlProofs -----------------------------
(***************************************************************************)
(* What the reader and the writer of Ebml do with elements that are there  *)
(* as a whole or cut off, and what the loops and sequences are that they   *)
(* are used in.                                                            *)
(***************************************************************************)
EXTENDS Ebml, Iteration, SequencesExt, SetInduction

-----------------------------------------------------------------------------
(* Loops *)

\* A loop is a sequence of states, each from the one before it.
LEMMA IterateIs ==
  ASSUME NEW step, NEW start, NEW n \in Nat
  PROVE  \E f : /\ f[0] = start
                /\ \A i \in 1 .. n : f[i] = step[f[i - 1]]
                /\ Iterate(step, start, n) = f[n]
<1> DEFINE Body(g, i) == IF i = 0 THEN start ELSE step[g[i - 1]]
           Is(g, m) == g = [i \in 0 .. m |-> Body(g, i)]
           S == {m \in Nat : \E g : Is(g, m)}
           at == CHOOSE g : Is(g, n)
<1>1. 0 \in S
  <2> DEFINE g == [i \in 0 .. 0 |-> start]
  <2>1. g = [i \in 0 .. 0 |-> Body(g, i)]
    OBVIOUS
  <2> QED
    BY <2>1
<1>2. ASSUME NEW m \in Nat, m \in S PROVE m + 1 \in S
  <2>1. PICK g : Is(g, m)
    BY <1>2
  <2> DEFINE last == step[g[m]]
             h == [i \in 0 .. m + 1 |-> IF i = m + 1 THEN last ELSE g[i]]
  <2>2. \A i \in 0 .. m : g[i] = Body(g, i)
    <3> HIDE DEF Body
    <3> QED
      BY <2>1
  <2>3. ASSUME NEW i \in 0 .. m + 1 PROVE h[i] = Body(h, i)
    <3>1. CASE i = m + 1
      <4>1. m \in 0 .. m + 1 /\ m # m + 1 /\ i - 1 = m /\ i # 0
        BY <3>1
      <4>2. h[i] = last /\ h[i - 1] = g[m]
        BY <3>1, <4>1
      <4> HIDE DEF h
      <4> QED
        BY <4>1, <4>2
    <3>2. CASE i \in 1 .. m
      <4>1. i - 1 \in 0 .. m + 1 /\ i - 1 # m + 1 /\ i # m + 1 /\ i \in 0 .. m /\ i # 0
        BY <3>2
      <4>2. h[i] = g[i] /\ h[i - 1] = g[i - 1]
        BY <4>1
      <4>3. g[i] = step[g[i - 1]]
        BY <2>2, <4>1
      <4> HIDE DEF h
      <4> QED
        BY <4>1, <4>2, <4>3
    <3>3. CASE i = 0
      <4>1. h[0] = g[0] /\ g[0] = start
        BY <2>2
      <4> HIDE DEF h
      <4> QED
        BY <3>3, <4>1
    <3> QED
      BY <3>1, <3>2, <3>3
  <2>4. h = [i \in 0 .. m + 1 |-> h[i]]
    OBVIOUS
  <2> HIDE DEF h, Body
  <2>5. Is(h, m + 1)
    BY <2>3, <2>4
  <2> QED
    BY <2>5
<1>3. Nat \subseteq S
  <2> HIDE DEF S
  <2> QED
    BY <1>1, <1>2, SetInduction
<1>4. Is(at, n)
  <2> HIDE DEF Is
  <2> QED
    BY <1>3
<1>5. Iterate(step, start, n) = at[n]
  BY DEF Iterate
<1> HIDE DEF at
<1>6. \A i \in 0 .. n : at[i] = Body(at, i)
  <2> HIDE DEF Body
  <2> QED
    BY <1>4
<1> QED
  BY <1>5, <1>6

\* A loop that stays in I and comes nearer to its end in each round ends, if there are
\* enough of them.
LEMMA IterateEnds ==
  ASSUME NEW I, NEW step, NEW start \in I, NEW n \in Nat, NEW left \in [I -> Nat],
         left[start] <= n,
         \A s \in I : step[s] \in I /\ (step[s] = s \/ left[step[s]] < left[s])
  PROVE  LET end == Iterate(step, start, n) IN end \in I /\ step[end] = end
<1>1. PICK f : /\ f[0] = start
               /\ \A i \in 1 .. n : f[i] = step[f[i - 1]]
               /\ Iterate(step, start, n) = f[n]
  BY IterateIs
<1> DEFINE S == {i \in Nat : i <= n =>
                   f[i] \in I /\ (step[f[i]] = f[i] \/ left[f[i]] <= left[start] - i)}
<1>2. 0 \in S
  BY <1>1
<1>3. ASSUME NEW i \in Nat, i \in S PROVE i + 1 \in S
  <2> SUFFICES ASSUME i + 1 <= n
               PROVE  f[i + 1] \in I /\ (step[f[i + 1]] = f[i + 1] \/ left[f[i + 1]] <= left[start] - (i + 1))
    OBVIOUS
  <2>1. f[i] \in I /\ (step[f[i]] = f[i] \/ left[f[i]] <= left[start] - i)
    BY <1>3
  <2>2. f[i + 1] = step[f[i]]
    BY <1>1
  <2>3. left[f[i]] \in Nat /\ left[f[i + 1]] \in Nat /\ left[start] \in Nat
    BY <2>1, <2>2
  <2> QED
    BY <2>1, <2>2, <2>3
<1>4. Nat \subseteq S
  <2> HIDE DEF S
  <2> QED
    BY <1>2, <1>3, SetInduction
<1>5. f[n] \in I /\ (step[f[n]] = f[n] \/ left[f[n]] <= left[start] - n)
  BY <1>4
<1>6. left[f[n]] \in Nat /\ left[step[f[n]]] \in Nat /\ left[start] \in Nat
  BY <1>5
<1> QED
  BY <1>1, <1>5, <1>6

\* The first round.
LEMMA IterateFirst ==
  ASSUME NEW step, NEW start, NEW n \in Nat, n > 0
  PROVE  Iterate(step, start, n) = Iterate(step, step[start], n - 1)
<1>1. PICK f : /\ f[0] = start
               /\ \A i \in 1 .. n : f[i] = step[f[i - 1]]
               /\ Iterate(step, start, n) = f[n]
  BY IterateIs
<1> DEFINE m == n - 1
           second == step[start]
<1>2. m \in Nat /\ m + 1 = n
  OBVIOUS
<1> HIDE DEF m, second
<1>3. PICK g : /\ g[0] = second
               /\ \A i \in 1 .. m : g[i] = step[g[i - 1]]
               /\ Iterate(step, second, m) = g[m]
  BY <1>2, IterateIs
<1> DEFINE S == {i \in Nat : i <= m => f[i + 1] = g[i]}
<1>4. 0 \in S
  <2>1. f[1] = step[f[1 - 1]] /\ 1 - 1 = 0
    BY <1>1
  <2> QED
    BY <1>1, <1>3, <2>1 DEF second
<1>5. ASSUME NEW i \in Nat, i \in S PROVE i + 1 \in S
  <2> SUFFICES ASSUME i + 1 <= m PROVE f[(i + 1) + 1] = g[i + 1]
    OBVIOUS
  <2>1. (i + 1) + 1 \in 1 .. n /\ ((i + 1) + 1) - 1 = i + 1 /\ i + 1 \in 1 .. m /\ (i + 1) - 1 = i
    BY <1>2
  <2>2. f[i + 1] = g[i]
    BY <1>2, <1>5
  <2> QED
    BY <1>1, <1>3, <2>1, <2>2
<1>6. Nat \subseteq S
  <2> HIDE DEF S
  <2> QED
    BY <1>4, <1>5, SetInduction
<1>7. f[n] = g[m]
  <2>1. m \in S
    BY <1>2, <1>6
  <2> QED
    BY <1>2, <2>1
<1> QED
  BY <1>1, <1>3, <1>7 DEF m, second

\* A loop whose body changes nothing.
LEMMA IterateStays ==
  ASSUME NEW step, NEW start, step[start] = start, NEW n \in Nat
  PROVE  Iterate(step, start, n) = start
<1> DEFINE I == {start}
           left == [s \in I |-> 0]
           end == Iterate(step, start, n)
<1>1. start \in I /\ left \in [I -> Nat] /\ left[start] = 0
  OBVIOUS
<1>2. \A s \in I : step[s] \in I /\ (step[s] = s \/ left[step[s]] < left[s])
  OBVIOUS
<1>3. left[start] <= n
  BY <1>1
<1>4. end \in I
  <2> HIDE DEF I, left
  <2> QED
    BY <1>1, <1>2, <1>3, IterateEnds
<1> QED
  BY <1>4

-----------------------------------------------------------------------------
(* Sequences of sequences *)

\* f has the concatenations of the first of them.
Concatenates(f, parts) ==
  f[0] = <<>> /\ \A i \in 1 .. Len(parts) : f[i] = f[i - 1] \o parts[i]

\* FlattenSeq is the last of these.
LEMMA FlattenIs ==
  ASSUME NEW S, NEW parts \in Seq(Seq(S))
  PROVE  \E f \in [0 .. Len(parts) -> Seq(S)] :
           Concatenates(f, parts) /\ FlattenSeq(parts) = f[Len(parts)]
<1> DEFINE N == Len(parts)
           V == Seq(S)
           step == [x \in (1 .. N) \X V |-> x[2] \o parts[x[1]]]
           Body(g, i) == IF i = 1 THEN parts[i] ELSE g[i - 1] \o parts[i]
           at == CHOOSE g : g = [i \in 1 .. N |-> Body(g, i)]
<1>1. /\ N \in Nat /\ \A i \in 1 .. N : parts[i] \in V
      /\ <<>> \in V /\ \A p \in V, q \in V : p \o q \in V
      /\ \A p \in V : <<>> \o p = p
      /\ N = 0 => parts = <<>>
  OBVIOUS
<1> HIDE DEF N, V
<1>2. step \in [(1 .. N) \X V -> V]
  <2> SUFFICES ASSUME NEW x \in (1 .. N) \X V PROVE x[2] \o parts[x[1]] \in V
    OBVIOUS
  <2>1. x[1] \in 1 .. N /\ x[2] \in V
    OBVIOUS
  <2>2. parts[x[1]] \in V
    BY <1>1, <2>1
  <2> QED
    BY <1>1, <2>1, <2>2
<1>3. PICK f \in [0 .. N -> V] : Recursive(f, N, <<>>, step)
  <2> HIDE DEF step
  <2> QED
    BY <1>1, <1>2, Recursion
<1>4. \A i \in 1 .. N : f[i] = f[i - 1] \o parts[i]
  <2> SUFFICES ASSUME NEW i \in 1 .. N PROVE f[i] = f[i - 1] \o parts[i]
    OBVIOUS
  <2>1. i - 1 \in 0 .. N /\ f[i - 1] \in V
    BY <1>1, <1>3
  <2> DEFINE x == <<i, f[i - 1]>>
  <2>2. x \in (1 .. N) \X V /\ x[1] = i /\ x[2] = f[i - 1]
    BY <2>1
  <2>3. step[x] = f[i - 1] \o parts[i]
    <3> HIDE DEF x
    <3> QED
      BY <2>2
  <2> QED
    BY <1>3, <2>3 DEF Recursive
<1>5. f[0] = <<>>
  BY <1>3 DEF Recursive
<1>6. CASE N = 0
  <2>1. FlattenSeq(parts) = <<>>
    BY <1>1, <1>6 DEF FlattenSeq
  <2>2. FlattenSeq(parts) = f[N]
    BY <1>5, <1>6, <2>1
  <2> QED
    BY <1>3, <1>4, <1>5, <2>2 DEF Concatenates, N, V
<1>7. CASE N # 0
  <2>1. FlattenSeq(parts) = at[N]
    BY <1>7, Zenon DEF FlattenSeq, N
  <2> DEFINE g == [i \in 1 .. N |-> f[i]]
  <2>2. \A i \in 1 .. N : g[i] = Body(g, i)
    <3> SUFFICES ASSUME NEW i \in 1 .. N PROVE g[i] = Body(g, i)
      OBVIOUS
    <3>1. g[i] = f[i]
      OBVIOUS
    <3>2. CASE i = 1
      <4> HIDE DEF g, Body, at
      <4>1. f[i] = f[i - 1] \o parts[i]
        BY <1>4
      <4>2. i - 1 = 0
        BY <3>2
      <4>3. f[1] = <<>> \o parts[1] /\ parts[1] \in V
        BY <1>1, <1>5, <3>2, <4>1, <4>2
      <4>4. f[1] = parts[1]
        BY <1>1, <4>3
      <4> QED
        BY <3>1, <3>2, <4>4 DEF Body
    <3>3. CASE i # 1
      <4>1. i - 1 \in 1 .. N
        BY <1>1, <3>3
      <4>2. g[i - 1] = f[i - 1]
        BY <4>1
      <4>3. f[i] = f[i - 1] \o parts[i]
        BY <1>4
      <4> HIDE DEF g
      <4> QED
        BY <3>1, <3>3, <4>2, <4>3
    <3> QED
      BY <3>2, <3>3
  <2>3. g = [i \in 1 .. N |-> Body(g, i)]
    <3> HIDE DEF Body
    <3> QED
      BY <2>2
  <2>4. at = [i \in 1 .. N |-> Body(at, i)]
    <3> HIDE DEF Body, g
    <3> QED
      BY <2>3
  <2>5. \A i \in 1 .. N : at[i] = Body(at, i)
    <3> HIDE DEF at, Body
    <3> QED
      BY <2>4
  <2> DEFINE D == {i \in Nat : i + 1 <= N => at[i + 1] = f[i + 1]}
  <2> HIDE DEF at
  <2>6. 0 \in D
    <3>1. at[1] = parts[1]
      BY <1>1, <1>7, <2>5
    <3>2. 1 \in 1 .. N /\ 1 - 1 = 0
      BY <1>1, <1>7
    <3>3. f[1] = <<>> \o parts[1] /\ parts[1] \in V
      BY <1>1, <1>4, <1>5, <3>2
    <3> QED
      BY <1>1, <3>1, <3>3
  <2>7. ASSUME NEW i \in Nat, i \in D PROVE i + 1 \in D
    <3> SUFFICES ASSUME (i + 1) + 1 <= N PROVE at[(i + 1) + 1] = f[(i + 1) + 1]
      OBVIOUS
    <3>1. (i + 1) + 1 \in 1 .. N /\ (i + 1) + 1 # 1 /\ ((i + 1) + 1) - 1 = i + 1 /\ i + 1 <= N
      BY <1>1
    <3>2. at[i + 1] = f[i + 1]
      BY <2>7, <3>1
    <3>3. at[(i + 1) + 1] = at[i + 1] \o parts[(i + 1) + 1]
      BY <2>5, <3>1
    <3>4. f[(i + 1) + 1] = f[i + 1] \o parts[(i + 1) + 1]
      BY <1>4, <3>1
    <3> QED
      BY <3>2, <3>3, <3>4
  <2>8. Nat \subseteq D
    <3> HIDE DEF D
    <3> QED
      BY <2>6, <2>7, SetInduction
  <2>9. at[N] = f[N]
    <3>1. N - 1 \in Nat /\ (N - 1) + 1 = N
      BY <1>1, <1>7
    <3>2. N - 1 \in D
      BY <2>8, <3>1
    <3> QED
      BY <3>1, <3>2
  <2> QED
    BY <1>3, <1>4, <1>5, <2>1, <2>9 DEF Concatenates, N, V
<1> QED
  BY <1>6, <1>7

\* There is one way to flatten.
LEMMA FlattenUnique ==
  ASSUME NEW S, NEW parts \in Seq(Seq(S)), NEW f, Concatenates(f, parts)
  PROVE  /\ \A i \in 0 .. Len(parts) : f[i] \in Seq(S)
         /\ FlattenSeq(parts) = f[Len(parts)]
<1> DEFINE N == Len(parts)
<1>1. N \in Nat /\ \A i \in 1 .. N : parts[i] \in Seq(S)
  OBVIOUS
<1>2. PICK g \in [0 .. N -> Seq(S)] : Concatenates(g, parts) /\ FlattenSeq(parts) = g[N]
  BY FlattenIs
<1> DEFINE D == {i \in Nat : i <= N => f[i] = g[i]}
<1>3. 0 \in D
  BY <1>2 DEF Concatenates
<1>4. ASSUME NEW i \in Nat, i \in D PROVE i + 1 \in D
  <2> SUFFICES ASSUME i + 1 <= N PROVE f[i + 1] = g[i + 1]
    OBVIOUS
  <2>1. i + 1 \in 1 .. N /\ (i + 1) - 1 = i /\ f[i] = g[i]
    BY <1>1, <1>4
  <2> QED
    BY <1>2, <2>1 DEF Concatenates
<1>5. Nat \subseteq D
  <2> HIDE DEF D
  <2> QED
    BY <1>3, <1>4, SetInduction
<1>6. \A i \in 0 .. N : f[i] = g[i]
  BY <1>1, <1>5
<1>7. N \in 0 .. N
  BY <1>1
<1> HIDE DEF N
<1>8. \A i \in 0 .. N : f[i] \in Seq(S)
  BY <1>2, <1>6
<1>9. FlattenSeq(parts) = f[N]
  BY <1>2, <1>6, <1>7
<1> QED
  BY <1>8, <1>9 DEF N

\* Flattened sequences of elements of a set are such a sequence.
LEMMA FlattenType ==
  ASSUME NEW S, NEW parts \in Seq(Seq(S))
  PROVE  FlattenSeq(parts) \in Seq(S)
BY FlattenIs, SMTT(20)

\* Nothing flattened is nothing.
LEMMA FlattenEmpty == FlattenSeq(<<>>) = <<>>
BY DEF FlattenSeq

\* One part more goes to the end.
LEMMA FlattenAppend ==
  ASSUME NEW S, NEW parts \in Seq(Seq(S)), NEW part \in Seq(S)
  PROVE  FlattenSeq(Append(parts, part)) = FlattenSeq(parts) \o part
<1> DEFINE N == Len(parts)
           more == Append(parts, part)
<1>1. PICK f \in [0 .. N -> Seq(S)] : Concatenates(f, parts) /\ FlattenSeq(parts) = f[N]
  BY FlattenIs
<1>2. N \in Nat /\ more \in Seq(Seq(S)) /\ Len(more) = N + 1 /\ more[N + 1] = part
      /\ \A i \in 1 .. N : more[i] = parts[i]
  OBVIOUS
<1> HIDE DEF more
<1> DEFINE last == f[N] \o part
           g == [i \in 0 .. N + 1 |-> IF i = N + 1 THEN last ELSE f[i]]
<1>3. g[N + 1] = last /\ \A i \in 0 .. N : g[i] = f[i]
  <2> HIDE DEF last
  <2> QED
    BY <1>2
<1> HIDE DEF g
<1>4. Concatenates(g, more)
  <2>1. g[0] = <<>>
    BY <1>1, <1>2, <1>3 DEF Concatenates
  <2>2. ASSUME NEW i \in 1 .. N + 1 PROVE g[i] = g[i - 1] \o more[i]
    <3>1. CASE i = N + 1
      <4>1. i - 1 = N /\ N \in 0 .. N
        BY <1>2, <3>1
      <4>2. g[i] = f[N] \o part /\ g[i - 1] = f[N] /\ more[i] = part
        BY <1>2, <1>3, <3>1, <4>1
      <4> QED
        BY <4>2
    <3>2. CASE i \in 1 .. N
      <4>1. i - 1 \in 0 .. N /\ i \in 0 .. N
        BY <1>2, <3>2
      <4>2. g[i] = f[i] /\ g[i - 1] = f[i - 1] /\ more[i] = parts[i]
        BY <1>2, <1>3, <3>2, <4>1
      <4>3. f[i] = f[i - 1] \o parts[i]
        BY <1>1, <3>2 DEF Concatenates
      <4> QED
        BY <4>2, <4>3
    <3> QED
      BY <1>2, <3>1, <3>2
  <2> QED
    BY <1>2, <2>1, <2>2 DEF Concatenates
<1> HIDE DEF last, N
<1>5. FlattenSeq(more) = g[Len(more)]
  BY <1>2, <1>4, FlattenUnique
<1> QED
  BY <1>1, <1>2, <1>3, <1>5 DEF last, more

\* One part flattened is the part.
LEMMA FlattenSingle ==
  ASSUME NEW S, NEW part \in Seq(S)
  PROVE  FlattenSeq(<<part>>) = part
<1>1. <<>> \in Seq(Seq(S)) /\ Append(<<>>, part) = <<part>>
  OBVIOUS
<1>2. FlattenSeq(Append(<<>>, part)) = <<>> \o part
  BY <1>1, FlattenAppend, FlattenEmpty
<1> QED
  BY <1>1, <1>2

\* The elements of two sequences one after the other.
LEMMA Concatenated ==
  ASSUME NEW S, NEW a \in Seq(S), NEW b \in Seq(S)
  PROVE  /\ a \o b \in Seq(S) /\ Len(a \o b) = Len(a) + Len(b)
         /\ \A i \in 1 .. Len(a) : (a \o b)[i] = a[i]
         /\ \A i \in 1 .. Len(b) : (a \o b)[Len(a) + i] = b[i]
<1>1. a \o b \in Seq(S) /\ Len(a \o b) = Len(a) + Len(b)
  OBVIOUS
<1>2. \A i \in 1 .. Len(a) : (a \o b)[i] = a[i]
  OBVIOUS
<1>3. \A i \in 1 .. Len(b) : (a \o b)[Len(a) + i] = b[i]
  OBVIOUS
<1> QED
  BY <1>1, <1>2, <1>3

\* Concatenation does not depend on the parentheses.
LEMMA Associative ==
  ASSUME NEW S, NEW a \in Seq(S), NEW b \in Seq(S), NEW c \in Seq(S)
  PROVE  (a \o b) \o c = a \o (b \o c)
OBVIOUS

\* Concatenation as a law that the provers do not unfold.
IsAssociative(S) ==
  \A a \in Seq(S), b \in Seq(S), c \in Seq(S) : (a \o b) \o c = a \o (b \o c)

\* It holds for sequences of any elements.
LEMMA AllAssociative ==
  ASSUME NEW S
  PROVE  IsAssociative(S)
<1> SUFFICES ASSUME NEW a \in Seq(S), NEW b \in Seq(S), NEW c \in Seq(S)
             PROVE  (a \o b) \o c = a \o (b \o c)
  BY Zenon DEF IsAssociative
<1> QED
  BY Associative

\* The same for three sequences.
Regroups(a, b, c) == (a \o b) \o c = a \o (b \o c)

\* Sequences can be regrouped.
LEMMA Regroup ==
  ASSUME NEW S, NEW a \in Seq(S), NEW b \in Seq(S), NEW c \in Seq(S)
  PROVE  Regroups(a, b, c)
BY Associative DEF Regroups

\* Nothing in front of a sequence or behind it.
LEMMA EmptyConcat ==
  ASSUME NEW S, NEW a \in Seq(S)
  PROVE  <<>> \o a = a /\ a \o <<>> = a /\ <<>> \in Seq(S)
OBVIOUS

\* The lengths of three sequences add up.
LEMMA LengthOf3 ==
  ASSUME NEW S, NEW a \in Seq(S), NEW b \in Seq(S), NEW c \in Seq(S)
  PROVE  /\ a \o b \o c \in Seq(S) /\ Len(a \o b \o c) = Len(a) + Len(b) + Len(c)
         /\ Len(a) \in Nat /\ Len(b) \in Nat /\ Len(c) \in Nat
OBVIOUS

\* A part of the whole, between two others.
IsPart(whole, pre, part, post) == whole = pre \o part \o post

\* The elements of a part are those of the whole, behind what is in front of it.
LEMMA PartIs ==
  ASSUME NEW S, NEW w, NEW a \in Seq(S), NEW b \in Seq(S), NEW c \in Seq(S), IsPart(w, a, b, c)
  PROVE  /\ w \in Seq(S) /\ Len(w) = Len(a) + Len(b) + Len(c)
         /\ Len(a) \in Nat /\ Len(b) \in Nat /\ Len(c) \in Nat
         /\ \A i \in 1 .. Len(b) : w[Len(a) + i] = b[i]
         /\ SubSeq(w, Len(a) + 1, Len(a) + Len(b)) = b
<1> DEFINE v == a \o b \o c
           u == SubSeq(v, Len(a) + 1, Len(a) + Len(b))
<1>1. v \in Seq(S) /\ Len(v) = Len(a) + Len(b) + Len(c)
  BY LengthOf3
<1>2. \A i \in 1 .. Len(b) : v[Len(a) + i] = b[i]
  OBVIOUS
<1>3. Len(a) \in Nat /\ Len(b) \in Nat /\ Len(c) \in Nat
  OBVIOUS
<1>4. w = v
  BY Zenon DEF IsPart
<1> HIDE DEF v
<1>5. u \in Seq(S) /\ Len(u) = Len(b) /\ \A i \in 1 .. Len(b) : u[i] = v[Len(a) + i]
  BY <1>1, <1>3
<1> HIDE DEF u
<1>6. \A i \in 1 .. Len(b) : u[i] = b[i]
  BY <1>2, <1>5
<1>7. u = b
  BY <1>5, <1>6
<1> QED
  BY <1>1, <1>2, <1>3, <1>4, <1>7 DEF u

\* A part of a part.
LEMMA PartOfPart ==
  ASSUME NEW S, NEW w, NEW b, NEW p \in Seq(S), NEW q \in Seq(S),
         NEW x \in Seq(S), NEW y \in Seq(S), NEW z \in Seq(S), IsPart(w, p, b, q), IsPart(b, x, y, z)
  PROVE  IsPart(w, p \o x, y, z \o q)
<1> DEFINE V == Seq(S)
           cat(r, s) == r \o s
<1>1. \A r \in V, s \in V : cat(r, s) \in V
  OBVIOUS
<1>2. \A r \in V, s \in V, t \in V : cat(cat(r, s), t) = cat(r, cat(s, t))
  <2>1. IsAssociative(S)
    BY AllAssociative
  <2> QED
    BY <2>1, Zenon DEF IsAssociative
<1>3. p \in V /\ q \in V /\ x \in V /\ y \in V /\ z \in V
  OBVIOUS
<1>4. w = cat(cat(p, b), q) /\ b = cat(cat(x, y), z)
  BY DEF IsPart
<1> HIDE DEF V, cat
<1>5. cat(x, y) \in V /\ cat(p, x) \in V /\ cat(cat(p, x), y) \in V
  BY <1>1, <1>3
<1>6. cat(p, cat(cat(x, y), z)) = cat(cat(cat(p, x), y), z)
  BY <1>2, <1>3, <1>5
<1>7. cat(cat(cat(cat(p, x), y), z), q) = cat(cat(cat(p, x), y), cat(z, q))
  BY <1>2, <1>3, <1>5
<1>8. w = cat(cat(cat(p, x), y), cat(z, q))
  BY <1>4, <1>6, <1>7
<1> QED
  BY <1>8, Zenon DEF cat, IsPart

\* A sequence in two pieces.
IsCut(a, b, w) == w = a \o b

\* The elements of a whole are those of both sides of a cut.
LEMMA CutIs ==
  ASSUME NEW S, NEW w, NEW a \in Seq(S), NEW b \in Seq(S), IsCut(a, b, w)
  PROVE  /\ w \in Seq(S) /\ Len(w) = Len(a) + Len(b) /\ Len(a) \in Nat /\ Len(b) \in Nat
         /\ \A i \in 1 .. Len(a) : w[i] = a[i]
         /\ \A i \in 1 .. Len(b) : w[Len(a) + i] = b[i]
<1> DEFINE v == a \o b
<1>1. /\ v \in Seq(S) /\ Len(v) = Len(a) + Len(b)
      /\ \A i \in 1 .. Len(a) : v[i] = a[i]
      /\ \A i \in 1 .. Len(b) : v[Len(a) + i] = b[i]
  BY Concatenated
<1>2. Len(a) \in Nat /\ Len(b) \in Nat
  OBVIOUS
<1>3. w = v
  BY Zenon DEF IsCut
<1> HIDE DEF v
<1> QED
  BY <1>1, <1>2, <1>3

\* What a sequence begins with.
Begins(b, a) == SubSeq(b, 1, Len(a)) = a

\* The first piece without its beginning.
LEMMA Removed ==
  ASSUME NEW S, NEW w, NEW b \in Seq(S), NEW rest \in Seq(S), NEW a \in Seq(S), NEW c \in Seq(S),
         IsCut(b, rest, w), IsCut(a, c, w), Len(a) <= Len(b)
  PROVE  LET z == SubSeq(b, Len(a) + 1, Len(b)) IN
         /\ z \in Seq(S) /\ Len(z) = Len(b) - Len(a)
         /\ Begins(b, a)
         /\ IsCut(z, rest, c)
<1> DEFINE N == Len(b)
           A == Len(a)
           z == SubSeq(b, A + 1, N)
           y == SubSeq(b, 1, A)
           v == z \o rest
<1>1. N \in Nat /\ A \in Nat /\ Len(c) \in Nat /\ Len(rest) \in Nat /\ A <= N
  OBVIOUS
<1>2. /\ Len(w) = N + Len(rest) /\ Len(w) = A + Len(c)
      /\ \A i \in 1 .. N : w[i] = b[i]
      /\ \A i \in 1 .. Len(rest) : w[N + i] = rest[i]
      /\ \A i \in 1 .. A : w[i] = a[i]
      /\ \A i \in 1 .. Len(c) : w[A + i] = c[i]
  <2>1. /\ Len(w) = N + Len(rest)
        /\ \A i \in 1 .. N : w[i] = b[i]
        /\ \A i \in 1 .. Len(rest) : w[N + i] = rest[i]
    BY CutIs, SMTT(20)
  <2>2. /\ Len(w) = A + Len(c)
        /\ \A i \in 1 .. A : w[i] = a[i]
        /\ \A i \in 1 .. Len(c) : w[A + i] = c[i]
    BY CutIs
  <2> QED
    BY <2>1, <2>2
<1>3. z \in Seq(S) /\ Len(z) = N - A /\ \A i \in 1 .. N - A : z[i] = b[A + i]
  OBVIOUS
<1>4. y \in Seq(S) /\ Len(y) = A /\ \A i \in 1 .. A : y[i] = b[i]
  OBVIOUS
<1> HIDE DEF N, A, y, z
<1>5. y = a
  <2>1. \A i \in 1 .. A : y[i] = a[i]
    <3>1. \A i \in 1 .. A : i \in 1 .. N
      BY <1>1
    <3> QED
      BY <1>2, <1>4, <3>1
  <2>2. Len(y) = Len(a)
    BY <1>4 DEF A
  <2> QED
    BY <1>4, <2>1, <2>2, SMTT(20)
<1>6. /\ v \in Seq(S) /\ Len(v) = Len(z) + Len(rest)
      /\ \A i \in 1 .. Len(z) : v[i] = z[i]
      /\ \A i \in 1 .. Len(rest) : v[Len(z) + i] = rest[i]
  <2>1. z \in Seq(S)
    BY <1>3
  <2> QED
    BY <2>1, Concatenated
<1> HIDE DEF v
<1>7. Len(v) = Len(c)
  <2>1. N + Len(rest) = A + Len(c)
    BY <1>2
  <2>2. Len(v) = (N - A) + Len(rest)
    BY <1>3, <1>6
  <2> QED
    BY <1>1, <2>1, <2>2
<1>8. ASSUME NEW i \in 1 .. Len(c) PROVE v[i] = c[i]
  <2>1. CASE i \in 1 .. N - A
    <3>1. A + i \in 1 .. N
      BY <1>1, <2>1
    <3> QED
      BY <1>2, <1>3, <1>6, <2>1, <3>1
  <2>2. CASE i \in N - A + 1 .. Len(c)
    <3> DEFINE j == i - (N - A)
    <3>1. j \in 1 .. Len(rest) /\ N + j = A + i /\ (N - A) + j = i
      BY <1>1, <1>2, <2>2
    <3>2. v[(N - A) + j] = rest[j] /\ w[N + j] = rest[j]
      BY <1>2, <1>3, <1>6, <3>1
    <3> HIDE DEF j
    <3> QED
      BY <1>2, <3>1, <3>2
  <2>3. i \in 1 .. N - A \/ i \in N - A + 1 .. Len(c)
    BY <1>1
  <2> QED
    BY <2>1, <2>2, <2>3
<1>9. v = c
  BY <1>6, <1>7, <1>8
<1>10. IsCut(z, rest, c)
  BY <1>9 DEF IsCut, v
<1>11. Begins(b, a)
  BY <1>5, Zenon DEF Begins, y, A
<1> QED
  BY <1>3, <1>10, <1>11 DEF N, A, z

\* Three pieces.
LEMMA CutCut ==
  ASSUME NEW S, NEW w, NEW v, NEW a \in Seq(S), NEW b \in Seq(S), NEW c \in Seq(S),
         IsCut(v, c, w), IsCut(a, b, v)
  PROVE  IsCut(a, b \o c, w)
<1>1. (a \o b) \o c = a \o (b \o c)
  BY Associative
<1>2. w = v \o c /\ v = a \o b
  BY Zenon DEF IsCut
<1> QED
  BY <1>1, <1>2, Zenon DEF IsCut

\* A cut in the second side of a cut is one of the whole.
LEMMA CutCut2 ==
  ASSUME NEW S, NEW w, NEW v, NEW a \in Seq(S), NEW b \in Seq(S), NEW c \in Seq(S),
         IsCut(a, v, w), IsCut(b, c, v)
  PROVE  IsCut(a \o b, c, w)
<1>1. (a \o b) \o c = a \o (b \o c)
  BY Associative
<1>2. w = a \o v /\ v = b \o c
  BY Zenon DEF IsCut
<1> QED
  BY <1>1, <1>2, Zenon DEF IsCut

\* Two sequences cut what they are concatenated to.
LEMMA CutConcat ==
  ASSUME NEW a, NEW b
  PROVE  IsCut(a, b, a \o b)
BY DEF IsCut

\* A part is between two cuts.
LEMMA PartCut ==
  ASSUME NEW S, NEW w, NEW a \in Seq(S), NEW b \in Seq(S), NEW c \in Seq(S)
  PROVE  /\ IsPart(w, a, b, c) <=> IsCut(a \o b, c, w)
         /\ IsPart(w, a, b, c) <=> IsCut(a, b \o c, w)
         /\ IsPart(w, <<>>, b, c) <=> IsCut(b, c, w)
<1>1. (a \o b) \o c = a \o (b \o c)
  BY Associative
<1>2. <<>> \o b = b
  BY EmptyConcat
<1>3. IsPart(w, a, b, c) <=> w = (a \o b) \o c
  BY DEF IsPart
<1>4. IsPart(w, <<>>, b, c) <=> w = (<<>> \o b) \o c
  BY DEF IsPart
<1> QED
  BY <1>1, <1>2, <1>3, <1>4, Zenon DEF IsCut

\* Flattening goes through concatenation.
LEMMA FlattenConcat ==
  ASSUME NEW S, NEW a \in Seq(Seq(S)), NEW b \in Seq(Seq(S))
  PROVE  FlattenSeq(a \o b) = FlattenSeq(a) \o FlattenSeq(b)
<1> DEFINE V == Seq(S)
           N == Len(b)
           first(i) == SubSeq(b, 1, i)
           D == {i \in Nat : i <= N => FlattenSeq(a \o first(i)) = FlattenSeq(a) \o FlattenSeq(first(i))}
<1>1. a \in Seq(V) /\ b \in Seq(V) /\ N \in Nat
  OBVIOUS
<1> HIDE DEF V
<1>2. FlattenSeq(a) \in V
  BY FlattenType DEF V
<1>3. 0 \in D
  <2>1. first(0) = <<>> /\ a \o <<>> = a
    BY <1>1
  <2>2. FlattenSeq(a) \o <<>> = FlattenSeq(a)
    BY <1>2 DEF V
  <2> HIDE DEF first
  <2> QED
    BY <2>1, <2>2, FlattenEmpty
<1>4. ASSUME NEW i \in Nat, i \in D PROVE i + 1 \in D
  <2> SUFFICES ASSUME i + 1 <= N
               PROVE  FlattenSeq(a \o first(i + 1)) = FlattenSeq(a) \o FlattenSeq(first(i + 1))
    OBVIOUS
  <2> DEFINE p == b[i + 1]
  <2>1. p \in V /\ first(i) \in Seq(V) /\ i <= N
    BY <1>1
  <2>2. first(i + 1) = Append(first(i), p)
    BY <1>1
  <2>3. FlattenSeq(a \o first(i)) = FlattenSeq(a) \o FlattenSeq(first(i))
    BY <1>4, <2>1
  <2> HIDE DEF first, p
  <2>4. a \o Append(first(i), p) = Append(a \o first(i), p) /\ a \o first(i) \in Seq(V)
    BY <1>1, <2>1, SMTT(20)
  <2>5. FlattenSeq(Append(a \o first(i), p)) = FlattenSeq(a \o first(i)) \o p
    BY <2>1, <2>4, FlattenAppend DEF V
  <2>6. FlattenSeq(Append(first(i), p)) = FlattenSeq(first(i)) \o p /\ FlattenSeq(first(i)) \in V
    BY <2>1, FlattenAppend, FlattenType DEF V
  <2>7. (FlattenSeq(a) \o FlattenSeq(first(i))) \o p = FlattenSeq(a) \o (FlattenSeq(first(i)) \o p)
    <3>1. FlattenSeq(a) \in Seq(S) /\ FlattenSeq(first(i)) \in Seq(S) /\ p \in Seq(S)
      BY <1>2, <2>1, <2>6 DEF V
    <3>2. Regroups(FlattenSeq(a), FlattenSeq(first(i)), p)
      BY <3>1, Regroup, Zenon
    <3> QED
      BY <3>2, Zenon DEF Regroups
  <2> QED
    BY <2>2, <2>3, <2>4, <2>5, <2>6, <2>7
<1>5. Nat \subseteq D
  <2> HIDE DEF D
  <2> QED
    BY <1>3, <1>4, SetInduction
<1>6. first(N) = b
  BY <1>1
<1> HIDE DEF first, N
<1>7. N \in D
  BY <1>1, <1>5
<1>8. FlattenSeq(a \o first(N)) = FlattenSeq(a) \o FlattenSeq(first(N))
  BY <1>7
<1> QED
  BY <1>6, <1>8

\* Where a part is in the whole.
Before(parts, i) == FlattenSeq(SubSeq(parts, 1, i - 1))
After(parts, i)  == FlattenSeq(SubSeq(parts, i + 1, Len(parts)))

\* The whole around a part.
LEMMA FlattenAround ==
  ASSUME NEW S, NEW parts \in Seq(Seq(S)), NEW i \in 1 .. Len(parts)
  PROVE  /\ Before(parts, i) \in Seq(S) /\ After(parts, i) \in Seq(S) /\ parts[i] \in Seq(S)
         /\ FlattenSeq(parts) = Before(parts, i) \o parts[i] \o After(parts, i)
         /\ FlattenSeq(SubSeq(parts, 1, i)) = Before(parts, i) \o parts[i]
<1> DEFINE V == Seq(S)
           a == SubSeq(parts, 1, i - 1)
           p == parts[i]
           c == SubSeq(parts, i + 1, Len(parts))
           b == SubSeq(parts, 1, i)
<1>1. parts \in Seq(V)
  OBVIOUS
<1> HIDE DEF V
<1>2. a \in Seq(V) /\ p \in V /\ c \in Seq(V) /\ b \in Seq(V)
  BY <1>1
<1>3. b = Append(a, p)
  BY <1>1
<1>4. parts = b \o c
  BY <1>1
<1> HIDE DEF a, b, c, p
<1>5. FlattenSeq(b) = FlattenSeq(a) \o p
  BY <1>2, <1>3, FlattenAppend DEF V
<1>6. FlattenSeq(b \o c) = FlattenSeq(b) \o FlattenSeq(c)
  BY <1>2, FlattenConcat DEF V
<1>7. FlattenSeq(a) \in V /\ FlattenSeq(c) \in V
  BY <1>2, FlattenType DEF V
<1> QED
  BY <1>2, <1>4, <1>5, <1>6, <1>7 DEF Before, After, a, b, c, p, V

\* What is between two places of a sequence of parts.
Between(parts, i, k) == FlattenSeq(SubSeq(parts, i + 1, k))

\* A sequence in two.
LEMMA SubSeqSplit ==
  ASSUME NEW S, NEW s \in Seq(S), NEW i \in Nat, NEW k \in Nat, NEW m \in Nat,
         i <= k, k <= m, m <= Len(s)
  PROVE  /\ SubSeq(s, i + 1, k) \in Seq(S) /\ SubSeq(s, k + 1, m) \in Seq(S)
         /\ SubSeq(s, i + 1, m) = SubSeq(s, i + 1, k) \o SubSeq(s, k + 1, m)
<1> DEFINE a == SubSeq(s, i + 1, k)
           b == SubSeq(s, k + 1, m)
           c == SubSeq(s, i + 1, m)
<1>1. /\ a \in Seq(S) /\ Len(a) = k - i /\ \A j \in 1 .. k - i : a[j] = s[i + j]
      /\ b \in Seq(S) /\ Len(b) = m - k /\ \A j \in 1 .. m - k : b[j] = s[k + j]
      /\ c \in Seq(S) /\ Len(c) = m - i /\ \A j \in 1 .. m - i : c[j] = s[i + j]
  <2>1. \A x \in Nat, y \in Nat : x <= y /\ y <= Len(s) =>
          /\ SubSeq(s, x + 1, y) \in Seq(S) /\ Len(SubSeq(s, x + 1, y)) = y - x
          /\ \A j \in 1 .. y - x : SubSeq(s, x + 1, y)[j] = s[x + j]
    OBVIOUS
  <2>2. i <= m
    OBVIOUS
  <2> QED
    BY <2>1, <2>2
<1> HIDE DEF a, b, c
<1>2. /\ a \o b \in Seq(S) /\ Len(a \o b) = Len(a) + Len(b)
      /\ \A j \in 1 .. Len(a) : (a \o b)[j] = a[j]
      /\ \A j \in 1 .. Len(b) : (a \o b)[Len(a) + j] = b[j]
  <2>1. a \in Seq(S) /\ b \in Seq(S)
    BY <1>1
  <2> QED
    BY <2>1, Concatenated
<1> DEFINE d == a \o b
<1>3. d \in Seq(S) /\ Len(d) = Len(c)
  BY <1>1, <1>2
<1>4. ASSUME NEW j \in 1 .. Len(c) PROVE c[j] = d[j]
  <2>1. CASE j <= k - i
    <3>1. j \in 1 .. k - i
      BY <2>1
    <3>2. d[j] = a[j]
      BY <1>1, <1>2, <3>1
    <3> QED
      BY <1>1, <3>1, <3>2
  <2>2. CASE j > k - i
    <3> DEFINE q == j - (k - i)
    <3>1. q \in 1 .. m - k /\ Len(a) + q = j /\ k + q = i + j /\ j \in 1 .. m - i
      BY <1>1, <2>2
    <3>2. d[Len(a) + q] = b[q]
      BY <1>1, <1>2, <3>1
    <3> HIDE DEF q, d
    <3> QED
      BY <1>1, <3>1, <3>2
  <2> QED
    BY <1>1, <2>1, <2>2
<1> HIDE DEF d
<1>5. c = d
  BY <1>1, <1>3, <1>4
<1> QED
  BY <1>1, <1>5, Zenon DEF a, b, c, d

\* The parts up to one, and from it on.
LEMMA FlattenSplit ==
  ASSUME NEW S, NEW parts \in Seq(Seq(S)), NEW i \in Nat, NEW k \in Nat, NEW m \in Nat,
         i <= k, k <= m, m <= Len(parts)
  PROVE  /\ Between(parts, i, k) \in Seq(S) /\ Between(parts, k, m) \in Seq(S)
         /\ IsCut(Between(parts, i, k), Between(parts, k, m), Between(parts, i, m))
<1> DEFINE T == Seq(S)
           a == SubSeq(parts, i + 1, k)
           b == SubSeq(parts, k + 1, m)
           c == SubSeq(parts, i + 1, m)
<1>1. a \in Seq(T) /\ b \in Seq(T) /\ c = a \o b
  <2>1. parts \in Seq(T)
    OBVIOUS
  <2> HIDE DEF T
  <2> QED
    BY <2>1, SubSeqSplit
<1> HIDE DEF a, b, c
<1>2. FlattenSeq(a \o b) = FlattenSeq(a) \o FlattenSeq(b)
  BY <1>1, FlattenConcat
<1>3. FlattenSeq(a) \in Seq(S) /\ FlattenSeq(b) \in Seq(S)
  BY <1>1, FlattenType
<1> QED
  BY <1>1, <1>2, <1>3, Zenon DEF Between, IsCut, a, b, c

\* One part, and none.
LEMMA FlattenOne ==
  ASSUME NEW S, NEW parts \in Seq(Seq(S)), NEW k \in Nat, k + 1 <= Len(parts)
  PROVE  Between(parts, k, k + 1) = parts[k + 1] /\ parts[k + 1] \in Seq(S)
<1> DEFINE T == Seq(S)
<1>1. parts \in Seq(T) /\ k + 1 \in 1 .. Len(parts)
  OBVIOUS
<1> HIDE DEF T
<1>2. SubSeq(parts, k + 1, k + 1) = <<parts[k + 1]>> /\ parts[k + 1] \in T
  <2> DEFINE x == parts[k + 1]
             d == SubSeq(parts, k + 1, k + 1)
  <2>1. x \in T
    BY <1>1
  <2>2. d \in Seq(T) /\ Len(d) = 1 /\ d[1] = x
    BY <1>1
  <2> HIDE DEF x, d
  <2>3. d = <<x>>
    BY <2>1, <2>2
  <2> QED
    BY <2>1, <2>3 DEF x, d
<1>3. parts[k + 1] \in Seq(S)
  BY <1>2 DEF T
<1>4. FlattenSeq(<<parts[k + 1]>>) = parts[k + 1]
  BY <1>3, FlattenSingle
<1> QED
  BY <1>2, <1>3, <1>4, Zenon DEF Between

\* Between a part and itself there is nothing.
LEMMA FlattenNone ==
  ASSUME NEW parts, NEW k \in Nat
  PROVE  Between(parts, k, k) = <<>>
<1>1. SubSeq(parts, k + 1, k) = <<>>
  OBVIOUS
<1> QED
  BY <1>1, FlattenEmpty, Zenon DEF Between

-----------------------------------------------------------------------------
(* Numbers *)

\* The tables of Ebml.
LEMMA Tables ==
  /\ Marker[1] = 128 /\ Marker[2] = 64 /\ Marker[3] = 32 /\ Marker[4] = 16
  /\ Marker[5] = 8 /\ Marker[6] = 4 /\ Marker[7] = 2 /\ Marker[8] = 1
  /\ Place[1] = 1 /\ Place[2] = 256 /\ Place[3] = 65536 /\ Place[4] = 16777216
BY SMT DEF Marker, Place

\* The bytes of a sequence are numbers.
LEMMA ByteAt ==
  ASSUME NEW s \in Seq(Byte)
  PROVE  \A i \in 1 .. Len(s) : s[i] \in Byte /\ s[i] \in Nat /\ s[i] < 256
<1>1. \A i \in 1 .. Len(s) : s[i] \in Byte
  OBVIOUS
<1>2. \A b \in Byte : b \in Nat /\ b < 256
  BY DEF Byte
<1> QED
  BY <1>1, <1>2

\* The length of a number by its first byte.
LEMMA OctetCountIs ==
  ASSUME NEW b \in Nat, NEW n \in 1 .. 8, Marker[n] <= b, b < 2 * Marker[n]
  PROVE  OctetCount(b) = n
<1>1. /\ Marker[1] = 128 /\ Marker[2] = 64 /\ Marker[3] = 32 /\ Marker[4] = 16
      /\ Marker[5] = 8 /\ Marker[6] = 4 /\ Marker[7] = 2 /\ Marker[8] = 1
  BY DEF Marker
<1>2. \A m \in 1 .. 8 : m = 1 \/ m = 2 \/ m = 3 \/ m = 4 \/ m = 5 \/ m = 6 \/ m = 7 \/ m = 8
  OBVIOUS
<1>3. ASSUME NEW m \in 1 .. 8, Marker[m] <= b, b < 2 * Marker[m] PROVE m = n
  BY <1>1, <1>2, <1>3
<1> QED
  BY <1>3 DEF OctetCount

\* Every byte but 0 tells how long its number is.
LEMMA OctetCountType ==
  ASSUME NEW b \in 1 .. 255
  PROVE  OctetCount(b) \in 1 .. 8
<1>1. /\ Marker[1] = 128 /\ Marker[2] = 64 /\ Marker[3] = 32 /\ Marker[4] = 16
      /\ Marker[5] = 8 /\ Marker[6] = 4 /\ Marker[7] = 2 /\ Marker[8] = 1
  BY DEF Marker
<1>2. \E n \in 1 .. 8 : Marker[n] <= b /\ b < 2 * Marker[n]
  <2>1. CASE b >= 128
    BY <1>1, <2>1
  <2>2. CASE b < 128 /\ b >= 64
    BY <1>1, <2>2
  <2>3. CASE b < 64 /\ b >= 32
    BY <1>1, <2>3
  <2>4. CASE b < 32 /\ b >= 16
    BY <1>1, <2>4
  <2>5. CASE b < 16 /\ b >= 8
    BY <1>1, <2>5
  <2>6. CASE b < 8 /\ b >= 4
    BY <1>1, <2>6
  <2>7. CASE b < 4 /\ b >= 2
    BY <1>1, <2>7
  <2>8. CASE b < 2
    BY <1>1, <2>8
  <2> QED
    BY <2>1, <2>2, <2>3, <2>4, <2>5, <2>6, <2>7, <2>8
<1> QED
  BY <1>2 DEF OctetCount

\* The value of bytes is that of each from the one of those in front of it.
LEMMA BigEndianIs ==
  ASSUME NEW bytes \in Seq(Byte)
  PROVE  \E f \in [0 .. Len(bytes) -> Nat] :
           /\ f[0] = 0
           /\ \A i \in 1 .. Len(bytes) : f[i] = 256 * f[i - 1] + bytes[i]
           /\ BigEndian(bytes) = f[Len(bytes)]
<1> DEFINE N == Len(bytes)
           step == [x \in (1 .. N) \X Nat |-> 256 * x[2] + bytes[x[1]]]
           Body(g, i) == IF i = 0 THEN 0 ELSE 256 * g[i - 1] + bytes[i]
           at == CHOOSE g : g = [i \in 0 .. N |-> Body(g, i)]
<1>1. N \in Nat /\ \A i \in 1 .. N : bytes[i] \in Nat
  <2>1. N \in Nat /\ \A i \in 1 .. N : bytes[i] \in Byte
    OBVIOUS
  <2>2. \A b \in Byte : b \in Nat
    BY DEF Byte
  <2> HIDE DEF N
  <2> QED
    BY <2>1, <2>2
<1>2. BigEndian(bytes) = at[N]
  BY Zenon DEF BigEndian
<1> HIDE DEF N
<1>3. step \in [(1 .. N) \X Nat -> Nat]
  <2> SUFFICES ASSUME NEW x \in (1 .. N) \X Nat PROVE 256 * x[2] + bytes[x[1]] \in Nat
    OBVIOUS
  <2>1. x[1] \in 1 .. N /\ x[2] \in Nat
    OBVIOUS
  <2> QED
    BY <1>1, <2>1
<1>4. PICK f \in [0 .. N -> Nat] : Recursive(f, N, 0, step)
  <2> HIDE DEF step
  <2> QED
    BY <1>1, <1>3, Recursion
<1>5. f[0] = 0 /\ \A i \in 1 .. N : f[i] = 256 * f[i - 1] + bytes[i]
  <2> SUFFICES ASSUME NEW i \in 1 .. N PROVE f[i] = 256 * f[i - 1] + bytes[i]
    BY <1>4 DEF Recursive
  <2> DEFINE x == <<i, f[i - 1]>>
  <2>1. x \in (1 .. N) \X Nat /\ x[1] = i /\ x[2] = f[i - 1]
    BY <1>1, <1>4
  <2>2. step[x] = 256 * x[2] + bytes[x[1]]
    <3> HIDE DEF x
    <3> QED
      BY <2>1
  <2> QED
    BY <1>4, <2>1, <2>2 DEF Recursive
<1>6. \A i \in 0 .. N : f[i] = Body(f, i)
  BY <1>5
<1>7. f = [i \in 0 .. N |-> Body(f, i)]
  <2> HIDE DEF Body
  <2> QED
    BY <1>4, <1>6
<1>8. at = [i \in 0 .. N |-> Body(at, i)]
  <2> HIDE DEF Body
  <2> QED
    BY <1>7
<1>9. \A i \in 0 .. N : at[i] = Body(at, i)
  <2> HIDE DEF at, Body
  <2> QED
    BY <1>8
<1> HIDE DEF at
<1> DEFINE D == {i \in Nat : i <= N => at[i] = f[i]}
<1>10. 0 \in D
  BY <1>1, <1>5, <1>9
<1>11. ASSUME NEW i \in Nat, i \in D PROVE i + 1 \in D
  <2> SUFFICES ASSUME i + 1 <= N PROVE at[i + 1] = f[i + 1]
    OBVIOUS
  <2>1. i + 1 \in 1 .. N /\ i + 1 \in 0 .. N /\ (i + 1) - 1 = i /\ i <= N
    BY <1>1
  <2>2. at[i] = f[i]
    BY <1>11, <2>1
  <2> QED
    BY <1>5, <1>9, <2>1, <2>2
<1>12. Nat \subseteq D
  <2> HIDE DEF D
  <2> QED
    BY <1>10, <1>11, SetInduction
<1>13. at[N] = f[N]
  BY <1>1, <1>12
<1> QED
  BY <1>2, <1>4, <1>5, <1>13 DEF N

\* A number is a natural.
LEMMA BigEndianType ==
  ASSUME NEW bytes \in Seq(Byte)
  PROVE  BigEndian(bytes) \in Nat
<1>1. PICK f \in [0 .. Len(bytes) -> Nat] : BigEndian(bytes) = f[Len(bytes)]
  BY BigEndianIs
<1> QED
  BY <1>1

\* No bytes are the number 0.
LEMMA BigEndianEmpty == BigEndian(<<>>) = 0
<1>1. <<>> \in Seq(Byte) /\ Len(<<>>) = 0
  OBVIOUS
<1>2. PICK f : f[0] = 0 /\ BigEndian(<<>>) = f[Len(<<>>)]
  BY <1>1, BigEndianIs, ZenonT(30)
<1> QED
  BY <1>1, <1>2, Zenon

\* Any function that goes through the bytes so ends at their value.
LEMMA BigEndianUnique ==
  ASSUME NEW bytes \in Seq(Byte), NEW f, f[0] = 0,
         \A i \in 1 .. Len(bytes) : f[i] = 256 * f[i - 1] + bytes[i]
  PROVE  BigEndian(bytes) = f[Len(bytes)]
<1> DEFINE N == Len(bytes)
<1>1. N \in Nat
  OBVIOUS
<1>2. PICK g \in [0 .. N -> Nat] :
        /\ g[0] = 0
        /\ \A i \in 1 .. N : g[i] = 256 * g[i - 1] + bytes[i]
        /\ BigEndian(bytes) = g[N]
  BY BigEndianIs
<1>3. \A i \in 1 .. N : f[i] = 256 * f[i - 1] + bytes[i]
  OBVIOUS
<1> HIDE DEF N
<1> DEFINE D == {i \in Nat : i <= N => f[i] = g[i]}
<1>4. 0 \in D
  BY <1>2
<1>5. ASSUME NEW i \in Nat, i \in D PROVE i + 1 \in D
  <2> SUFFICES ASSUME i + 1 <= N PROVE f[i + 1] = g[i + 1]
    OBVIOUS
  <2>1. i + 1 \in 1 .. N /\ (i + 1) - 1 = i /\ f[i] = g[i]
    BY <1>1, <1>5
  <2> QED
    BY <1>2, <1>3, <2>1
<1>6. Nat \subseteq D
  <2> HIDE DEF D
  <2> QED
    BY <1>4, <1>5, SetInduction
<1> QED
  BY <1>1, <1>2, <1>6 DEF N

\* One byte more shifts the number by 8 bits.
LEMMA BigEndianAppend ==
  ASSUME NEW bytes \in Seq(Byte), NEW b \in Byte
  PROVE  BigEndian(Append(bytes, b)) = 256 * BigEndian(bytes) + b
<1> DEFINE N == Len(bytes)
           more == Append(bytes, b)
<1>1. N \in Nat /\ more \in Seq(Byte) /\ Len(more) = N + 1 /\ more[N + 1] = b
      /\ \A i \in 1 .. N : more[i] = bytes[i]
  OBVIOUS
<1>2. PICK f \in [0 .. N -> Nat] :
        /\ f[0] = 0
        /\ \A i \in 1 .. N : f[i] = 256 * f[i - 1] + bytes[i]
        /\ BigEndian(bytes) = f[N]
  BY BigEndianIs
<1> HIDE DEF N, more
<1> DEFINE last == 256 * f[N] + b
           g == [i \in 0 .. N + 1 |-> IF i = N + 1 THEN last ELSE f[i]]
<1>3. g[N + 1] = last /\ \A i \in 0 .. N : g[i] = f[i]
  <2> HIDE DEF last
  <2> QED
    BY <1>1
<1> HIDE DEF g
<1>4. ASSUME NEW i \in 1 .. N + 1 PROVE g[i] = 256 * g[i - 1] + more[i]
  <2>1. CASE i = N + 1
    <3>1. i - 1 = N /\ N \in 0 .. N
      BY <1>1, <2>1
    <3> QED
      BY <1>1, <1>3, <2>1, <3>1
  <2>2. CASE i \in 1 .. N
    <3>1. i - 1 \in 0 .. N /\ i \in 0 .. N
      BY <1>1, <2>2
    <3> QED
      BY <1>1, <1>2, <1>3, <2>2, <3>1, SMTT(20)
  <2> QED
    BY <1>1, <2>1, <2>2
<1>5. g[0] = 0
  BY <1>1, <1>2, <1>3
<1>6. BigEndian(more) = g[Len(more)]
  BY <1>1, <1>4, <1>5, BigEndianUnique, ZenonT(30)
<1> QED
  BY <1>1, <1>2, <1>3, <1>6 DEF more

\* The values of few bytes.
LEMMA BigEndian1 ==
  ASSUME NEW s \in Seq(Byte), Len(s) = 1
  PROVE  BigEndian(s) = s[1]
<1>1. \A i \in 1 .. 1 : s[i] \in Nat
  BY ByteAt
<1>2. PICK f : f[0] = 0 /\ (\A i \in 1 .. 1 : f[i] = 256 * f[i - 1] + s[i]) /\ BigEndian(s) = f[1]
  BY BigEndianIs
<1>3. s[1] \in Nat
  BY <1>1
<1>4. f[1] = 256 * f[0] + s[1]
  BY <1>2
<1> QED
  BY <1>2, <1>3, <1>4

\* Numbers of 2 bytes.
LEMMA BigEndian2 ==
  ASSUME NEW s \in Seq(Byte), Len(s) = 2
  PROVE  BigEndian(s) = 256 * s[1] + s[2]
<1>1. \A i \in 1 .. 2 : s[i] \in Nat
  BY ByteAt
<1>2. PICK f : f[0] = 0 /\ (\A i \in 1 .. 2 : f[i] = 256 * f[i - 1] + s[i]) /\ BigEndian(s) = f[2]
  BY BigEndianIs
<1>3. s[1] \in Nat /\ s[2] \in Nat
  BY <1>1
<1>4. f[1] = 256 * f[0] + s[1] /\ f[2] = 256 * f[1] + s[2]
  BY <1>2
<1> QED
  BY <1>2, <1>3, <1>4

\* Numbers of 3 bytes.
LEMMA BigEndian3 ==
  ASSUME NEW s \in Seq(Byte), Len(s) = 3
  PROVE  BigEndian(s) = 256 * (256 * s[1] + s[2]) + s[3]
<1>1. \A i \in 1 .. 3 : s[i] \in Nat
  BY ByteAt
<1>2. PICK f : f[0] = 0 /\ (\A i \in 1 .. 3 : f[i] = 256 * f[i - 1] + s[i]) /\ BigEndian(s) = f[3]
  BY BigEndianIs
<1>3. s[1] \in Nat /\ s[2] \in Nat /\ s[3] \in Nat
  BY <1>1
<1>4. f[1] = 256 * f[0] + s[1] /\ f[2] = 256 * f[1] + s[2] /\ f[3] = 256 * f[2] + s[3]
  BY <1>2
<1> QED
  BY <1>2, <1>3, <1>4

\* Numbers of 4 bytes.
LEMMA BigEndian4 ==
  ASSUME NEW s \in Seq(Byte), Len(s) = 4
  PROVE  BigEndian(s) = 256 * (256 * (256 * s[1] + s[2]) + s[3]) + s[4]
<1>1. \A i \in 1 .. 4 : s[i] \in Nat
  BY ByteAt
<1>2. PICK f : f[0] = 0 /\ (\A i \in 1 .. 4 : f[i] = 256 * f[i - 1] + s[i]) /\ BigEndian(s) = f[4]
  BY BigEndianIs, SMTT(20)
<1>3. s[1] \in Nat /\ s[2] \in Nat /\ s[3] \in Nat /\ s[4] \in Nat
  BY <1>1
<1>4. f[1] = 256 * f[0] + s[1] /\ f[2] = 256 * f[1] + s[2] /\ f[3] = 256 * f[2] + s[3] /\ f[4] = 256 * f[3] + s[4]
  BY <1>2
<1> QED
  BY <1>2, <1>3, <1>4

\* Bytes of 0 are the number 0.
LEMMA BigEndianZeros ==
  ASSUME NEW bytes \in Seq(Byte), \A i \in 1 .. Len(bytes) : bytes[i] = 0
  PROVE  BigEndian(bytes) = 0
<1> DEFINE f == [i \in 0 .. Len(bytes) |-> 0]
<1>1. f[0] = 0 /\ f[Len(bytes)] = 0 /\ \A i \in 1 .. Len(bytes) : f[i] = 0 /\ f[i - 1] = 0
  OBVIOUS
<1> HIDE DEF f
<1>2. \A i \in 1 .. Len(bytes) : f[i] = 256 * f[i - 1] + bytes[i]
  BY <1>1
<1>3. BigEndian(bytes) = f[Len(bytes)]
  BY <1>1, <1>2, BigEndianUnique
<1> QED
  BY <1>1, <1>3

-----------------------------------------------------------------------------
(* The reader *)

\* The bytes of an ID or a size.
IsOctets(o) == o \in Seq(Byte) /\ o # <<>> /\ o[1] # 0 /\ OctetCount(o[1]) = Len(o)

\* They are in buf, from position p on.
At(buf, p, o) == p + Len(o) <= Len(buf) /\ \A i \in 1 .. Len(o) : buf[p + i] = o[i]

\* They are there, but the buffer ends before they do.
CutAt(buf, p, o) ==
  p + Len(o) > Len(buf) /\ \A i \in 1 .. Len(o) : p + i <= Len(buf) => buf[p + i] = o[i]

\* An ID or a size has 1 to 8 bytes, and the first is not 0.
LEMMA OctetsLength ==
  ASSUME NEW o, IsOctets(o)
  PROVE  o \in Seq(Byte) /\ Len(o) \in 1 .. 8 /\ o[1] \in 1 .. 255 /\ 1 \in 1 .. Len(o)
<1>1. o \in Seq(Byte) /\ Len(o) \in Nat /\ Len(o) # 0
  BY DEF IsOctets
<1>2. o[1] \in Byte
  BY <1>1
<1>3. o[1] \in 1 .. 255
  BY <1>2 DEF IsOctets, Byte
<1>4. OctetCount(o[1]) \in 1 .. 8
  BY <1>3, OctetCountType
<1> QED
  BY <1>1, <1>3, <1>4 DEF IsOctets

\* The bytes of an ID or a size are found where they are.
LEMMA OctetsAt ==
  ASSUME NEW buf \in Seq(Byte), NEW p \in Nat, NEW o, IsOctets(o), At(buf, p, o)
  PROVE  Octets(buf, p) = o
<1> DEFINE n == Len(o)
           u == SubSeq(buf, p + 1, p + n)
<1>1. o \in Seq(Byte) /\ n \in 1 .. 8 /\ OctetCount(o[1]) = n /\ 1 \in 1 .. n
  BY OctetsLength DEF IsOctets
<1>2. buf[p + 1] = o[1] /\ p < Len(buf) /\ p + n <= Len(buf)
  BY <1>1 DEF At
<1>3. Octets(buf, p) = u
  BY <1>1, <1>2 DEF Octets
<1>4. u \in Seq(Byte) /\ Len(u) = n /\ \A i \in 1 .. n : u[i] = buf[p + i]
  BY <1>1, <1>2
<1> HIDE DEF u
<1>5. \A i \in 1 .. n : u[i] = o[i]
  BY <1>4 DEF At
<1>6. u = o
  BY <1>1, <1>4, <1>5
<1> QED
  BY <1>3, <1>6

\* None are found where they are cut off.
LEMMA OctetsCut ==
  ASSUME NEW buf \in Seq(Byte), NEW p \in Nat, NEW o, IsOctets(o), CutAt(buf, p, o)
  PROVE  Octets(buf, p) = <<>>
<1>1. Len(o) \in 1 .. 8 /\ OctetCount(o[1]) = Len(o) /\ 1 \in 1 .. Len(o)
  BY OctetsLength DEF IsOctets
<1>2. p < Len(buf) => buf[p + 1] = o[1] /\ ~(p + Len(o) <= Len(buf))
  BY <1>1 DEF CutAt
<1> QED
  BY <1>1, <1>2 DEF Octets

\* An ID that is there is read.
LEMMA IdAt ==
  ASSUME NEW buf \in Seq(Byte), NEW p \in Nat, NEW o, IsOctets(o), Len(o) <= 4, At(buf, p, o)
  PROVE  ReadElementId(buf, p) = [value |-> BigEndian(o), pos |-> p + Len(o)]
<1>1. Octets(buf, p) = o
  BY OctetsAt
<1>2. o \in Seq(Byte) /\ Len(o) \in Nat
  BY OctetsLength
<1>3. SubSeq(o, 1, Len(o)) = o
  BY <1>2
<1>4. (IF Len(o) > 4 THEN Len(o) - 3 ELSE 1) = 1
  BY <1>2
<1>5. ReadElementId(buf, p) =
        [value |-> BigEndian(SubSeq(o, IF Len(o) > 4 THEN Len(o) - 3 ELSE 1, Len(o))),
         pos |-> p + Len(o)]
  BY <1>1 DEF ReadElementId
<1> QED
  BY <1>3, <1>4, <1>5

\* Of an ID that is cut off the reader does not move.
LEMMA IdCut ==
  ASSUME NEW buf \in Seq(Byte), NEW p \in Nat, NEW o, IsOctets(o), CutAt(buf, p, o)
  PROVE  ReadElementId(buf, p).pos = p
<1>1. Octets(buf, p) = <<>>
  BY OctetsCut
<1> QED
  BY <1>1 DEF ReadElementId

\* What a size is, wherever it is read.
SizeOf(o) == ReadDataSize(o, 0).value

\* A size is read where it is.
LEMMA SizeAt ==
  ASSUME NEW buf \in Seq(Byte), NEW p \in Nat, NEW o, IsOctets(o), At(buf, p, o)
  PROVE  ReadDataSize(buf, p) = [value |-> SizeOf(o), pos |-> p + Len(o)]
<1>1. Octets(buf, p) = o
  BY OctetsAt
<1>2. At(o, 0, o) /\ o \in Seq(Byte)
  BY OctetsLength DEF At
<1>3. Octets(o, 0) = o
  BY <1>2, OctetsAt
<1> QED
  BY <1>1, <1>3 DEF ReadDataSize, SizeOf

\* Of a size that is cut off the reader does not move and reads 0.
LEMMA SizeCut ==
  ASSUME NEW buf \in Seq(Byte), NEW p \in Nat, NEW o, IsOctets(o), CutAt(buf, p, o)
  PROVE  ReadDataSize(buf, p) = [value |-> 0, pos |-> p]
<1>1. Octets(buf, p) = <<>> /\ Len(<<>>) = 0
  BY OctetsCut
<1> QED
  BY <1>1 DEF ReadDataSize

\* A sequence with another first byte.
LEMMA FirstReplaced ==
  ASSUME NEW S, NEW o \in Seq(S), Len(o) >= 1, NEW x \in S
  PROVE  /\ <<x>> \o Tail(o) \in Seq(S) /\ Len(<<x>> \o Tail(o)) = Len(o)
         /\ (<<x>> \o Tail(o))[1] = x
         /\ \A i \in 2 .. Len(o) : (<<x>> \o Tail(o))[i] = o[i]
<1> DEFINE n == Len(o)
           t == Tail(o)
           h == <<x>>
<1>1. n \in Nat /\ n >= 1
  OBVIOUS
<1>2. o # <<>>
  BY <1>1
<1>3. t \in Seq(S) /\ Len(t) = n - 1 /\ \A i \in 1 .. n - 1 : t[i] = o[i + 1]
  BY <1>2
<1>4. h \in Seq(S) /\ Len(h) = 1 /\ h[1] = x
  OBVIOUS
<1> HIDE DEF n, t, h
<1>5. /\ h \o t \in Seq(S) /\ Len(h \o t) = 1 + (n - 1) /\ (h \o t)[1] = x
      /\ \A i \in 1 .. n - 1 : (h \o t)[1 + i] = t[i]
  <2>1. /\ h \o t \in Seq(S) /\ Len(h \o t) = Len(h) + Len(t)
        /\ \A i \in 1 .. Len(h) : (h \o t)[i] = h[i]
        /\ \A i \in 1 .. Len(t) : (h \o t)[Len(h) + i] = t[i]
    <3>1. h \in Seq(S) /\ t \in Seq(S)
      BY <1>3, <1>4
    <3> QED
      BY <3>1, Concatenated
  <2> QED
    BY <1>1, <1>3, <1>4, <2>1
<1>6. ASSUME NEW i \in 2 .. n PROVE (h \o t)[i] = o[i]
  <2>1. i - 1 \in 1 .. n - 1 /\ 1 + (i - 1) = i /\ (i - 1) + 1 = i
    BY <1>1
  <2> QED
    BY <1>3, <1>5, <2>1
<1>7. Len(h \o t) = n
  BY <1>1, <1>5
<1> QED
  BY <1>5, <1>6, <1>7 DEF n, t, h

\* A size that is not unknown.
LEMMA SizeIs ==
  ASSUME NEW o, IsOctets(o), NEW n, n = Len(o),
         ~(o[1] % Marker[n] = Marker[n] - 1 /\ \A i \in 2 .. n : o[i] = 255)
  PROVE  SizeOf(o) = BigEndian(<<o[1] % Marker[n]>> \o Tail(o))
<1>1. At(o, 0, o) /\ o \in Seq(Byte) /\ n # 0
  BY OctetsLength DEF At
<1>2. Octets(o, 0) = o
  BY <1>1, OctetsAt
<1> QED
  BY <1>1, <1>2 DEF ReadDataSize, SizeOf

\* The first byte of a size without the bit for its length.
LEMMA ByteRemains ==
  ASSUME NEW b \in 1 .. 255, NEW n \in 1 .. 8
  PROVE  b % Marker[n] \in Byte
<1> DEFINE m == Marker[n]
<1>1. n = 1 \/ n = 2 \/ n = 3 \/ n = 4 \/ n = 5 \/ n = 6 \/ n = 7 \/ n = 8
  OBVIOUS
<1>2. m \in 1 .. 128
  BY <1>1, Tables
<1> HIDE DEF m
<1>3. b % m \in 0 .. m - 1
  BY <1>2
<1>4. b % m \in Byte
  BY <1>2, <1>3 DEF Byte
<1> QED
  BY <1>4 DEF m

\* A size is a number.
LEMMA SizeType ==
  ASSUME NEW o, IsOctets(o)
  PROVE  SizeOf(o) \in Int
<1> DEFINE n == Len(o)
           first == o[1] % Marker[n]
           t == <<first>> \o Tail(o)
<1>1. At(o, 0, o) /\ o \in Seq(Byte) /\ n \in 1 .. 8 /\ o[1] \in 1 .. 255
  BY OctetsLength DEF At
<1>2. Octets(o, 0) = o
  BY <1>1, OctetsAt, SMTT(20)
<1>3. first \in Byte
  BY <1>1, ByteRemains
<1>4. SizeOf(o) \in {0, Unknown, BigEndian(t)}
  BY <1>2, Zenon DEF ReadDataSize, SizeOf
<1> HIDE DEF first
<1>5. t \in Seq(Byte)
  <2>1. o \in Seq(Byte) /\ Len(o) >= 1 /\ first \in Byte
    BY <1>1, <1>3
  <2> QED
    BY <2>1, FirstReplaced
<1> HIDE DEF t
<1>6. BigEndian(t) \in Nat
  BY <1>5, BigEndianType
<1> QED
  BY <1>4, <1>6 DEF Unknown

\* What follows a first part in a buffer that has the beginning of the whole.
LEMMA PartAt ==
  ASSUME NEW b \in Seq(Byte), NEW rest \in Seq(Byte), NEW pre \in Seq(Byte), NEW o \in Seq(Byte),
         NEW post \in Seq(Byte), IsPart(b \o rest, pre, o, post)
  PROVE  /\ Len(pre) + Len(o) <= Len(b) => At(b, Len(pre), o)
         /\ Len(pre) + Len(o) > Len(b) => CutAt(b, Len(pre), o)
<1> DEFINE w == b \o rest
           p == Len(pre)
<1>1. p \in Nat /\ Len(b) \in Nat /\ Len(o) \in Nat
  OBVIOUS
<1>2. \A i \in 1 .. Len(b) : w[i] = b[i]
  OBVIOUS
<1> HIDE DEF w
<1>3. \A i \in 1 .. Len(o) : w[p + i] = o[i]
  <2>1. IsPart(w, pre, o, post)
    BY DEF w
  <2> QED
    BY <2>1, PartIs, SMTT(20)
<1> HIDE DEF p
<1>4. \A i \in 1 .. Len(o) : p + i <= Len(b) => b[p + i] = o[i]
  <2> SUFFICES ASSUME NEW i \in 1 .. Len(o), p + i <= Len(b) PROVE b[p + i] = o[i]
    OBVIOUS
  <2>1. p + i \in 1 .. Len(b)
    BY <1>1
  <2> QED
    BY <1>2, <1>3, <2>1
<1> QED
  BY <1>1, <1>4 DEF At, CutAt, p

\* A header that is there is read.
LEMMA HeaderAt ==
  ASSUME NEW buf \in Seq(Byte), NEW p \in Nat, NEW id, IsOctets(id), Len(id) <= 4,
         NEW size, IsOctets(size), At(buf, p, id), At(buf, p + Len(id), size)
  PROVE  ReadElementHeader(buf, p) =
           [id |-> BigEndian(id), data_size |-> SizeOf(size),
            header_size |-> Len(id) + Len(size), pos |-> p + Len(id) + Len(size)]
<1>1. Len(id) \in 1 .. 8 /\ Len(size) \in 1 .. 8
  BY OctetsLength
<1>2. ReadElementId(buf, p) = [value |-> BigEndian(id), pos |-> p + Len(id)]
  BY IdAt
<1>3. ReadDataSize(buf, p + Len(id)) = [value |-> SizeOf(size), pos |-> (p + Len(id)) + Len(size)]
  BY <1>1, SizeAt
<1> DEFINE k == Len(id)
           l == Len(size)
<1>4. \A x, y \in 1 .. 8 : p + x # p /\ ((p + x) + y) - p = x + y
  OBVIOUS
<1>5. p + k # p /\ ((p + k) + l) - p = k + l
  BY <1>1, <1>4
<1> HIDE DEF k, l
<1>6. ReadElementId(buf, p) = [value |-> BigEndian(id), pos |-> p + k]
      /\ ReadDataSize(buf, p + k) = [value |-> SizeOf(size), pos |-> (p + k) + l]
  BY <1>2, <1>3 DEF k, l
<1>7. ReadElementHeader(buf, p) =
        [id |-> BigEndian(id), data_size |-> SizeOf(size), header_size |-> k + l, pos |-> (p + k) + l]
  BY <1>5, <1>6 DEF ReadElementHeader
<1> QED
  BY <1>7 DEF k, l

-----------------------------------------------------------------------------
(* The writer *)

\* A value, its first byte and the rest, for each length.
LEMMA Split ==
  ASSUME NEW v \in Nat
  PROVE  /\ v = 256 * (v \div 256) + (v % 256)
         /\ v \div 256 = 256 * (v \div 65536) + ((v \div 256) % 256)
         /\ v \div 65536 = 256 * (v \div 16777216) + ((v \div 65536) % 256)
<1>1. v = 256 * (v \div 256) + (v % 256)
  BY SMT
<1>2. v \div 256 = 256 * (v \div 65536) + ((v \div 256) % 256)
  BY SMT
<1>3. v \div 65536 = 256 * (v \div 16777216) + ((v \div 65536) % 256)
  BY SMT
<1> QED
  BY <1>1, <1>2, <1>3

\* A value in enough bytes.
LEMMA BytesIs ==
  ASSUME NEW v \in Nat, NEW n \in 1 .. 4, v \div Place[n] < 256
  PROVE  /\ Bytes(v, n) \in Seq(Byte) /\ Len(Bytes(v, n)) = n
         /\ Bytes(v, n)[1] = v \div Place[n]
         /\ BigEndian(Bytes(v, n)) = v
<1> DEFINE s == Bytes(v, n)
<1>1. n = 1 \/ n = 2 \/ n = 3 \/ n = 4
  OBVIOUS
<1>2. s = [i \in 1 .. n |-> (v \div Place[n + 1 - i]) % 256]
  BY DEF Bytes
<1> HIDE DEF s
<1>3. \A i \in 1 .. n : s[i] = (v \div Place[n + 1 - i]) % 256
  BY <1>2
<1>4. \A i \in 1 .. n : s[i] \in Byte
  <2> SUFFICES ASSUME NEW i \in 1 .. n PROVE (v \div Place[n + 1 - i]) % 256 \in Byte
    BY <1>3
  <2> DEFINE q == v \div Place[n + 1 - i]
  <2>1. q \in Nat
    <3>1. n + 1 - i = 1 \/ n + 1 - i = 2 \/ n + 1 - i = 3 \/ n + 1 - i = 4
      OBVIOUS
    <3> QED
      BY <3>1, Tables
  <2> HIDE DEF q
  <2>2. q % 256 \in Byte
    BY <2>1, SMT DEF Byte
  <2> QED
    BY <2>2 DEF q
<1>5. s \in Seq(Byte) /\ Len(s) = n
  <2>1. s \in [1 .. n -> Byte]
    BY <1>2, <1>3, <1>4
  <2> QED
    BY <2>1
<1> DEFINE x == v \div 256
           y == v \div 65536
           z == v \div 16777216
<1>6. v \in Nat /\ x \in Nat /\ y \in Nat /\ z \in Nat
  BY SMT
<1>7. v = 256 * x + (v % 256) /\ x = 256 * y + (x % 256) /\ y = 256 * z + (y % 256)
  BY Split
<1>8. \A q \in Nat : q < 256 => q % 256 = q
  BY SMT
<1>9. Place[1] = 1 /\ Place[2] = 256 /\ Place[3] = 65536 /\ Place[4] = 16777216 /\ v \div 1 = v
  BY Tables
<1> HIDE DEF x, y, z
<1>10. CASE n = 1
  <2>1. v < 256 /\ s[1] = v % 256
    BY <1>3, <1>9, <1>10
  <2>2. BigEndian(s) = s[1]
    BY <1>5, <1>10, BigEndian1
  <2>3. v % 256 = v /\ v \div Place[n] = v
    BY <1>8, <1>9, <1>10, <2>1
  <2> QED
    BY <1>5, <2>1, <2>2, <2>3 DEF s
<1>11. CASE n = 2
  <2>1. x < 256 /\ s[1] = x % 256 /\ s[2] = v % 256 /\ v \div Place[n] = x
    BY <1>3, <1>9, <1>11 DEF x
  <2>2. BigEndian(s) = 256 * s[1] + s[2]
    BY <1>5, <1>11, BigEndian2
  <2>3. x % 256 = x
    BY <1>6, <1>8, <2>1
  <2>4. BigEndian(s) = 256 * x + (v % 256)
    BY <2>1, <2>2, <2>3
  <2> QED
    BY <1>5, <1>7, <2>1, <2>3, <2>4 DEF s
<1>12. CASE n = 3
  <2>1. y < 256 /\ s[1] = y % 256 /\ s[2] = x % 256 /\ s[3] = v % 256 /\ v \div Place[n] = y
    BY <1>3, <1>9, <1>12 DEF x, y
  <2>2. BigEndian(s) = 256 * (256 * s[1] + s[2]) + s[3]
    BY <1>5, <1>12, BigEndian3
  <2>3. y % 256 = y
    BY <1>6, <1>8, <2>1
  <2>4. BigEndian(s) = 256 * (256 * y + (x % 256)) + (v % 256)
    BY <2>1, <2>2, <2>3
  <2>5. BigEndian(s) = v
    BY <1>7, <2>4
  <2> QED
    BY <1>5, <2>1, <2>3, <2>5 DEF s
<1>13. CASE n = 4
  <2>1. /\ z < 256 /\ s[1] = z % 256 /\ s[2] = y % 256 /\ s[3] = x % 256 /\ s[4] = v % 256
        /\ v \div Place[n] = z
    BY <1>3, <1>9, <1>13 DEF x, y, z
  <2>2. BigEndian(s) = 256 * (256 * (256 * s[1] + s[2]) + s[3]) + s[4]
    BY <1>5, <1>13, BigEndian4
  <2>3. z % 256 = z
    BY <1>6, <1>8, <2>1
  <2>4. BigEndian(s) = 256 * (256 * (256 * z + (y % 256)) + (x % 256)) + (v % 256)
    BY <2>1, <2>2, <2>3
  <2>5. BigEndian(s) = v
    BY <1>7, <2>4
  <2> QED
    BY <1>5, <2>1, <2>3, <2>5 DEF s
<1> QED
  BY <1>1, <1>10, <1>11, <1>12, <1>13

\* An ID of four bytes or one, as a writer writes it and the reader takes it.
IsId(o, id, n) == IsOctets(o) /\ Len(o) = n /\ BigEndian(o) = id

\* IDs of 4 bytes are written so that they are read as they were.
LEMMA IdOf4 ==
  ASSUME NEW id \in Nat, id \div Place[4] \in 16 .. 31
  PROVE  IsId(ElementId(id), id, 4)
<1>1. /\ id \div Place[4] \in 16 .. 31 /\ id \div Place[3] > 255 /\ id \div Place[2] > 255
      /\ id \div Place[1] > 255
  BY Tables, SMT
<1>3. \A n \in 1 .. 4 : id \div Place[n] \in 1 .. 255 <=> n = 4
  <2> SUFFICES ASSUME NEW n \in 1 .. 4 PROVE id \div Place[n] \in 1 .. 255 <=> n = 4
    OBVIOUS
  <2>1. n = 1 \/ n = 2 \/ n = 3 \/ n = 4
    OBVIOUS
  <2> QED
    BY <1>1, <2>1
<1>4. (CHOOSE n \in 1 .. 4 : id \div Place[n] \in 1 .. 255) = 4
  BY <1>3, SMTT(20)
<1>5. ElementId(id) = Bytes(id, 4)
  BY <1>4 DEF ElementId
<1>6. id \div Place[4] < 256 /\ id \div Place[4] \in 16 .. 31
  BY <1>1
<1> DEFINE o == Bytes(id, 4)
           b == o[1]
<1>7. o \in Seq(Byte) /\ Len(o) = 4 /\ b = id \div Place[4] /\ BigEndian(o) = id
  BY <1>6, BytesIs
<1> HIDE DEF o, b
<1>8. b \in Nat /\ Marker[4] <= b /\ b < 2 * Marker[4] /\ b # 0
  BY <1>6, <1>7, Tables, SMT
<1>9. OctetCount(b) = 4
  BY <1>8, OctetCountIs
<1>10. IsOctets(o)
  BY <1>7, <1>8, <1>9 DEF IsOctets, b
<1> QED
  BY <1>5, <1>7, <1>10 DEF IsId, o

\* IDs of 1 byte are written so that they are read as they were.
LEMMA IdOf1 ==
  ASSUME NEW id \in 128 .. 255
  PROVE  IsId(ElementId(id), id, 1)
<1>1. id \div Place[4] = 0 /\ id \div Place[3] = 0 /\ id \div Place[2] = 0 /\ id \div Place[1] = id
  BY Tables, SMT
<1>3. \A n \in 1 .. 4 : id \div Place[n] \in 1 .. 255 <=> n = 1
  <2> SUFFICES ASSUME NEW n \in 1 .. 4 PROVE id \div Place[n] \in 1 .. 255 <=> n = 1
    OBVIOUS
  <2>1. n = 1 \/ n = 2 \/ n = 3 \/ n = 4
    OBVIOUS
  <2> QED
    BY <1>1, <2>1
<1>4. (CHOOSE n \in 1 .. 4 : id \div Place[n] \in 1 .. 255) = 1
  BY <1>3, SMTT(20)
<1>5. ElementId(id) = Bytes(id, 1)
  BY <1>4 DEF ElementId
<1>6. id \div Place[1] < 256 /\ id \div Place[1] = id
  BY <1>1
<1> DEFINE o == Bytes(id, 1)
           b == o[1]
<1>7. o \in Seq(Byte) /\ Len(o) = 1 /\ b = id /\ BigEndian(o) = id
  BY <1>6, BytesIs
<1> HIDE DEF o, b
<1>8. b \in Nat /\ Marker[1] <= b /\ b < 2 * Marker[1] /\ b # 0
  BY <1>7, Tables, SMT
<1>9. OctetCount(b) = 1
  BY <1>8, OctetCountIs
<1>10. IsOctets(o)
  BY <1>7, <1>8, <1>9, SMTT(20) DEF IsOctets, b
<1> QED
  BY <1>5, <1>7, <1>10 DEF IsId, o

\* The IDs of the code.
LEMMA Ids ==
  /\ IsId(ElementId(MKV_EBML), MKV_EBML, 4)
  /\ IsId(ElementId(MKV_Segment), MKV_Segment, 4)
  /\ IsId(ElementId(MKV_Tracks), MKV_Tracks, 4)
  /\ IsId(ElementId(MKV_Cluster), MKV_Cluster, 4)
  /\ IsId(ElementId(MKV_Timecode), MKV_Timecode, 1)
  /\ IsId(ElementId(MKV_SimpleBlock), MKV_SimpleBlock, 1)
  /\ IsId(ElementId(167), 167, 1)
<1>1. /\ MKV_EBML \in Nat /\ MKV_EBML \div Place[4] \in 16 .. 31
      /\ MKV_Segment \in Nat /\ MKV_Segment \div Place[4] \in 16 .. 31
      /\ MKV_Tracks \in Nat /\ MKV_Tracks \div Place[4] \in 16 .. 31
      /\ MKV_Cluster \in Nat /\ MKV_Cluster \div Place[4] \in 16 .. 31
  BY Tables, SMT DEF MKV_EBML, MKV_Segment, MKV_Tracks, MKV_Cluster
<1>2. MKV_Timecode \in 128 .. 255 /\ MKV_SimpleBlock \in 128 .. 255 /\ 167 \in 128 .. 255
  BY SMT DEF MKV_Timecode, MKV_SimpleBlock
<1>3. /\ IsId(ElementId(MKV_EBML), MKV_EBML, 4)
      /\ IsId(ElementId(MKV_Segment), MKV_Segment, 4)
      /\ IsId(ElementId(MKV_Tracks), MKV_Tracks, 4)
      /\ IsId(ElementId(MKV_Cluster), MKV_Cluster, 4)
  BY <1>1, IdOf4
<1>4. /\ IsId(ElementId(MKV_Timecode), MKV_Timecode, 1)
      /\ IsId(ElementId(MKV_SimpleBlock), MKV_SimpleBlock, 1)
      /\ IsId(ElementId(167), 167, 1)
  BY <1>2, IdOf1
<1> QED
  BY <1>3, <1>4

\* They are different, and none is the sign of a missing header.
LEMMA IdsDiffer ==
  /\ MKV_EBML \in Nat /\ MKV_Segment \in Nat /\ MKV_Tracks \in Nat /\ MKV_Cluster \in Nat
  /\ MKV_Timecode \in Nat /\ MKV_SimpleBlock \in Nat
  /\ MKV_EBML \notin {0, MKV_Segment, MKV_Tracks}
  /\ MKV_Segment \notin {0, MKV_Tracks} /\ MKV_Tracks # 0 /\ MKV_Cluster # 0
  /\ MKV_Timecode \notin {0, MKV_SimpleBlock, 167} /\ MKV_SimpleBlock \notin {0, 167}
BY SMT DEF MKV_EBML, MKV_Segment, MKV_Tracks, MKV_Cluster, MKV_Timecode, MKV_SimpleBlock

\* Sizes that the writer writes, of an element that is not too long, and of a number.
IsSize(o, value, n) == IsOctets(o) /\ Len(o) = n /\ SizeOf(o) = value

\* A size written into 4 bytes, as ebml_element_end does, is read as it was.
LEMMA DataSizeIs ==
  ASSUME NEW v \in Nat, v < Marker[4] * Place[4] - 1
  PROVE  IsSize(DataSize(v, 4), v, 4)
<1> DEFINE x == v + Marker[4] * Place[4]
           o == Bytes(x, 4)
           t == <<o[1] % Marker[4]>> \o Tail(o)
           top == v \div Place[4]
<1>1. Marker[4] = 16
  BY Tables, SMT
<1>2. x \in Nat /\ x = v + Marker[4] * Place[4]
  BY Tables, SMT
<1>3. DataSize(v, 4) = o
  <2>1. v # Marker[4] * Place[4] - 1
    BY Tables, SMT
  <2> QED
    BY <2>1 DEF DataSize
<1>4. x \div Place[4] = 16 + top /\ top \in 0 .. 15 /\ (16 + top) % 16 = top
  BY Tables, SMT
<1> HIDE DEF top
<1>5. x \div Place[4] < 256
  BY <1>4
<1> HIDE DEF x
<1>6. o \in Seq(Byte) /\ Len(o) = 4 /\ o[1] = 16 + top /\ BigEndian(o) = x
  BY <1>2, <1>4, <1>5, BytesIs
<1> HIDE DEF o
<1>7. IsOctets(o)
  <2>1. 16 + top \in Nat /\ Marker[4] <= 16 + top /\ 16 + top < 2 * Marker[4] /\ 16 + top # 0
    BY <1>1, <1>4, SMT
  <2>2. OctetCount(16 + top) = 4
    BY <2>1, OctetCountIs
  <2>3. o # <<>>
    <3>1. Len(o) = 4 /\ Len(<<>>) = 0
      BY <1>6
    <3> QED
      BY <3>1
  <2> QED
    BY <1>6, <2>1, <2>2, <2>3 DEF IsOctets
<1>8. o[1] % Marker[4] = top
  BY <1>1, <1>4, <1>6
<1>9. t = <<top>> \o Tail(o)
  BY <1>8
<1> HIDE DEF t
<1>10. t \in Seq(Byte) /\ Len(t) = 4 /\ t[1] = top /\ t[2] = o[2] /\ t[3] = o[3] /\ t[4] = o[4]
  <2>1. top \in Byte
    BY <1>4 DEF Byte
  <2>2. /\ <<top>> \o Tail(o) \in Seq(Byte) /\ Len(<<top>> \o Tail(o)) = Len(o)
        /\ (<<top>> \o Tail(o))[1] = top
        /\ \A i \in 2 .. Len(o) : (<<top>> \o Tail(o))[i] = o[i]
    <3>1. o \in Seq(Byte) /\ Len(o) >= 1
      BY <1>6
    <3> QED
      BY <2>1, <3>1, FirstReplaced
  <2>3. t \in Seq(Byte) /\ Len(t) = 4 /\ t[1] = top /\ \A i \in 2 .. 4 : t[i] = o[i]
    BY <1>6, <1>9, <2>2
  <2> QED
    BY <2>3
<1>11. BigEndian(t) = v
  <2>1. BigEndian(t) = 256 * (256 * (256 * t[1] + t[2]) + t[3]) + t[4]
    BY <1>10, BigEndian4
  <2>2. BigEndian(o) = 256 * (256 * (256 * o[1] + o[2]) + o[3]) + o[4]
    BY <1>6, BigEndian4
  <2>3. \A i \in 1 .. 4 : o[i] \in Nat
    BY <1>6, ByteAt
  <2>4. x = 256 * (256 * (256 * (16 + top) + o[2]) + o[3]) + o[4]
    BY <1>6, <2>2
  <2>5. BigEndian(t) = 256 * (256 * (256 * top + o[2]) + o[3]) + o[4]
    BY <1>10, <2>1
  <2>6. o[2] \in Nat /\ o[3] \in Nat /\ o[4] \in Nat /\ top \in Nat
    BY <1>4, <2>3
  <2> QED
    BY <1>2, <2>4, <2>5, <2>6, Tables, SMT
<1>12. ~(o[1] % Marker[4] = Marker[4] - 1 /\ \A i \in 2 .. 4 : o[i] = 255)
  <2> SUFFICES ASSUME top = 15, \A i \in 2 .. 4 : o[i] = 255 PROVE FALSE
    BY <1>1, <1>8
  <2>1. BigEndian(t) = 256 * (256 * (256 * t[1] + t[2]) + t[3]) + t[4]
    BY <1>10, BigEndian4
  <2>2. t[1] = 15 /\ t[2] = 255 /\ t[3] = 255 /\ t[4] = 255
    BY <1>10
  <2> QED
    BY <1>11, <2>1, <2>2, Tables, SMT
<1>13. SizeOf(o) = BigEndian(t)
  BY <1>6, <1>7, <1>12, SizeIs, ZenonT(30) DEF t
<1> QED
  BY <1>3, <1>6, <1>7, <1>11, <1>13 DEF IsSize

\* A size of one byte.
LEMMA SizeOf1 ==
  ASSUME NEW o \in Seq(Byte), Len(o) = 1, NEW v \in 0 .. 126, o[1] = 128 + v
  PROVE  IsSize(o, v, 1)
<1>1. Marker[1] = 128
  BY Tables, SMT
<1>2. IsOctets(o)
  <2>1. 128 + v \in Nat /\ Marker[1] <= 128 + v /\ 128 + v < 2 * Marker[1] /\ 128 + v # 0
    BY <1>1
  <2>2. OctetCount(128 + v) = 1
    BY <2>1, OctetCountIs
  <2>3. o # <<>>
    <3>1. Len(<<>>) = 0
      OBVIOUS
    <3> QED
      BY <3>1, SMTT(20)
  <2> QED
    BY <2>1, <2>2, <2>3 DEF IsOctets
<1>3. o[1] % Marker[1] = v /\ v # Marker[1] - 1
  BY <1>1
<1> DEFINE t == <<v>> \o Tail(o)
<1>4. t \in Seq(Byte) /\ Len(t) = 1 /\ t[1] = v
  <2>1. v \in Byte /\ Len(o) >= 1
    BY DEF Byte
  <2> QED
    BY <2>1, FirstReplaced
<1> HIDE DEF t
<1>5. BigEndian(t) = v
  BY <1>4, BigEndian1
<1>6. ~(o[1] % Marker[1] = Marker[1] - 1 /\ \A i \in 2 .. 1 : o[i] = 255)
  BY <1>3
<1>7. SizeOf(o) = BigEndian(<<o[1] % Marker[1]>> \o Tail(o))
  BY <1>2, <1>6, SizeIs
<1> QED
  BY <1>2, <1>3, <1>5, <1>7 DEF IsSize, t

\* The sizes of numbers are written into 1 byte.
LEMMA SmallDataSize ==
  ASSUME NEW v \in 1 .. 4
  PROVE  IsSize(DataSize(v, 0), v, 1)
<1>1. Marker[1] * Place[1] = 128 /\ \A m \in 2 .. 4 : v < Marker[m - 1] * Place[m - 1]
  <2>1. \A m \in 2 .. 4 : m - 1 = 1 \/ m - 1 = 2 \/ m - 1 = 3
    OBVIOUS
  <2>2. v < Marker[1] * Place[1] /\ v < Marker[2] * Place[2] /\ v < Marker[3] * Place[3]
    BY Tables, SMT
  <2>3. Marker[1] * Place[1] = 128
    BY Tables, SMT
  <2> QED
    BY <2>1, <2>2, <2>3
<1>2. EncodedRequiredBytes(v) = 1
  <2>1. ASSUME NEW m \in 1 .. 4
        PROVE  (v < Marker[m] * Place[m] /\ (m > 1 => v >= Marker[m - 1] * Place[m - 1])) <=> m = 1
    <3>1. CASE m = 1
      BY <1>1, <3>1
    <3>2. CASE m \in 2 .. 4
      <4>1. v < Marker[m - 1] * Place[m - 1] /\ Marker[m - 1] * Place[m - 1] \in Nat
        <5>1. m - 1 = 1 \/ m - 1 = 2 \/ m - 1 = 3
          BY <3>2
        <5>2. Marker[1] * Place[1] \in Nat /\ Marker[2] * Place[2] \in Nat /\ Marker[3] * Place[3] \in Nat
          BY Tables, SMT
        <5> QED
          BY <1>1, <3>2, <5>1, <5>2
      <4> QED
        BY <3>2, <4>1
    <3> QED
      BY <3>1, <3>2
  <2>2. 1 \in 1 .. 4
    OBVIOUS
  <2> QED
    BY <2>1, <2>2, Zenon DEF EncodedRequiredBytes
<1> DEFINE x == v + 128
           o == Bytes(x, 1)
<1>3. DataSize(v, 0) = o
  BY <1>1, <1>2 DEF DataSize
<1>4. x \in Nat /\ x \div Place[1] = x /\ x < 256
  BY Tables, SMT
<1> HIDE DEF x
<1>5. o \in Seq(Byte) /\ Len(o) = 1 /\ o[1] = x
  <2>1. x \div Place[1] < 256 /\ 1 \in 1 .. 4
    BY <1>4
  <2> QED
    BY <1>4, <2>1, BytesIs
<1> HIDE DEF o
<1>6. o[1] = 128 + v /\ v \in 0 .. 126
  BY <1>5 DEF x
<1>7. IsSize(o, v, 1)
  BY <1>5, <1>6, SizeOf1
<1> QED
  BY <1>3, <1>7

\* An unsigned integer that the writer has put into the bytes it needs (ebml_writer.c) is
\* the one that the reader gets (ebml_reader.c).
THEOREM UintIs ==
  ASSUME NEW v \in Nat, v < 256 * Place[4]
  PROVE  LET n == UnencodedRequiredBytes(v) IN
         n \in 1 .. 4 /\ Bytes(v, n) \in Seq(Byte) /\ Len(Bytes(v, n)) = n /\ ReadUint(Bytes(v, n)) = v
<1> DEFINE Enough(m) == v \div Place[m] \in (IF m = 1 THEN 0 ELSE 1) .. 255
           n == CHOOSE m \in 1 .. 4 : Enough(m)
<1>1. Place[1] = 1 /\ Place[2] = 256 /\ Place[3] = 65536 /\ Place[4] = 16777216
  BY Tables
<1>2. \E m \in 1 .. 4 : Enough(m)
  <2>1. Enough(1) \/ Enough(2) \/ Enough(3) \/ Enough(4)
    <3>1. CASE v < 256
      <4>1. v \div 1 = v
        BY SMT
      <4> QED
        BY <1>1, <3>1, <4>1, SMT
    <3>2. CASE v >= 256 /\ v < 65536
      <4>1. v \div 256 \in 1 .. 255
        BY <3>2, SMT
      <4> QED
        BY <1>1, <4>1, SMT
    <3>3. CASE v >= 65536 /\ v < 16777216
      <4>1. v \div 65536 \in 1 .. 255
        BY <3>3, SMT
      <4> QED
        BY <1>1, <4>1, SMT
    <3>4. CASE v >= 16777216
      <4>1. v \div 16777216 \in 1 .. 255
        BY <1>1, <3>4, SMT
      <4> QED
        BY <1>1, <4>1, SMT
    <3> QED
      BY <3>1, <3>2, <3>3, <3>4, SMTT(20)
  <2> HIDE DEF Enough
  <2> QED
    BY <2>1
<1>3. n \in 1 .. 4 /\ Enough(n)
  <2> HIDE DEF Enough
  <2> QED
    BY <1>2
<1>4. UnencodedRequiredBytes(v) = n
  BY Zenon DEF UnencodedRequiredBytes
<1> HIDE DEF n
<1>5. v \div Place[n] < 256
  BY <1>3
<1> QED
  BY <1>3, <1>4, <1>5, BytesIs DEF ReadUint

-----------------------------------------------------------------------------
(* Elements *)

\* An element as its three parts, and its bytes.
IsElement(e) ==
  /\ IsOctets(e.id) /\ Len(e.id) <= 4
  /\ e.data \in Seq(Byte)
  /\ IsOctets(e.size) /\ SizeOf(e.size) = Len(e.data)

\* The bytes of an element.
Whole(e) == e.id \o e.size \o e.data

\* Their types and lengths.
LEMMA WholeIs ==
  ASSUME NEW e, IsElement(e)
  PROVE  /\ e.id \in Seq(Byte) /\ e.size \in Seq(Byte) /\ e.data \in Seq(Byte)
         /\ Len(e.id) \in 1 .. 4 /\ Len(e.size) \in 1 .. 8 /\ Len(e.data) \in Nat
         /\ Whole(e) \in Seq(Byte)
         /\ Len(Whole(e)) = Len(e.id) + Len(e.size) + Len(e.data)
<1>1. /\ e.id \in Seq(Byte) /\ Len(e.id) \in 1 .. 8
      /\ e.size \in Seq(Byte) /\ Len(e.size) \in 1 .. 8
  BY OctetsLength DEF IsElement
<1>2. e.data \in Seq(Byte) /\ Len(e.id) <= 4
  BY DEF IsElement
<1>3. Len(e.id) \in 1 .. 4
  <2>1. \A n \in 1 .. 8 : n <= 4 => n \in 1 .. 4
    OBVIOUS
  <2> QED
    BY <1>1, <1>2, <2>1, Zenon
<1> DEFINE a == e.id
           b == e.size
           c == e.data
           w == Whole(e)
<1>4. IsPart(w, a, b, c)
  BY Zenon DEF Whole, IsPart
<1>5. a \in Seq(Byte) /\ b \in Seq(Byte) /\ c \in Seq(Byte)
  BY <1>1, <1>2
<1> HIDE DEF a, b, c, w
<1>6. w \in Seq(Byte) /\ Len(w) = Len(a) + Len(b) + Len(c) /\ Len(c) \in Nat
  BY <1>4, <1>5, PartIs
<1> QED
  BY <1>1, <1>2, <1>3, <1>6 DEF a, b, c, w

\* Its parts as such.
LEMMA WholeParts ==
  ASSUME NEW e, IsElement(e)
  PROVE  /\ IsPart(Whole(e), <<>>, e.id, e.size \o e.data)
         /\ IsPart(Whole(e), e.id, e.size, e.data)
         /\ IsPart(Whole(e), e.id \o e.size, e.data, <<>>)
<1> DEFINE x == e.id
           y == e.size
           z == e.data
<1>1. x \in Seq(Byte) /\ y \in Seq(Byte) /\ z \in Seq(Byte)
  BY WholeIs
<1>2. Whole(e) = x \o y \o z
  BY DEF Whole
<1> HIDE DEF x, y, z
<1>3. (x \o y) \o z = x \o (y \o z)
  BY <1>1, Associative
<1>4. x \o (y \o z) = <<>> \o x \o (y \o z) /\ (x \o y) \o z = (x \o y) \o z \o <<>>
  <2> DEFINE u == y \o z
             v == (x \o y) \o z
  <2>1. <<>> \o x = x
    BY <1>1
  <2>2. v \in Seq(Byte)
    BY <1>1, LengthOf3
  <2> HIDE DEF v, u
  <2>3. v \o <<>> = v
    BY <2>2
  <2>4. x \o u = (<<>> \o x) \o u
    BY <2>1
  <2> QED
    BY <2>3, <2>4, Zenon DEF u, v
<1> QED
  BY <1>2, <1>3, <1>4, Zenon DEF x, y, z, IsPart

\* The parts of an element in a buffer that has at least the beginning of it.
LEMMA ElementParts ==
  ASSUME NEW b \in Seq(Byte), NEW rest \in Seq(Byte), NEW pre \in Seq(Byte), NEW post \in Seq(Byte),
         NEW e, IsElement(e), IsPart(b \o rest, pre, Whole(e), post)
  PROVE  LET p == Len(pre)
             q == Len(pre) + Len(e.id)
         IN /\ q <= Len(b) => At(b, p, e.id)
            /\ q > Len(b) => CutAt(b, p, e.id)
            /\ q + Len(e.size) <= Len(b) => At(b, q, e.size)
            /\ q + Len(e.size) > Len(b) => CutAt(b, q, e.size)
<1> DEFINE x == e.id
           y == e.size
           z == e.data
           w == Whole(e)
<1>0. <<>> \in Seq(Byte)
  OBVIOUS
<1>1. x \in Seq(Byte) /\ y \in Seq(Byte) /\ z \in Seq(Byte)
  BY WholeIs
<1>2. IsPart(w, <<>>, x, y \o z) /\ IsPart(w, x, y, z) /\ IsPart(b \o rest, pre, w, post)
  BY WholeParts
<1> HIDE DEF x, y, z, w
<1>3. y \o z \in Seq(Byte)
  BY <1>1, Concatenated
<1>4. IsPart(b \o rest, pre, x, (y \o z) \o post)
  <2> DEFINE t == b \o rest
             u == y \o z
  <2>1. IsPart(t, pre, w, post) /\ IsPart(w, <<>>, x, u) /\ u \in Seq(Byte)
    BY <1>2, <1>3
  <2> HIDE DEF t, u
  <2>2. IsPart(t, pre \o <<>>, x, u \o post)
    BY <1>0, <1>1, <2>1, PartOfPart
  <2>3. pre \o <<>> = pre
    BY EmptyConcat
  <2>4. IsPart(t, pre, x, u \o post)
    BY <2>2, <2>3, Zenon
  <2> QED
    BY <2>4 DEF t, u
<1>5. IsPart(b \o rest, pre \o x, y, z \o post)
  <2> DEFINE t == b \o rest
  <2>1. IsPart(t, pre, w, post) /\ IsPart(w, x, y, z)
    BY <1>2
  <2> HIDE DEF t
  <2>2. IsPart(t, pre \o x, y, z \o post)
    BY <1>1, <2>1, PartOfPart
  <2> QED
    BY <2>2 DEF t
<1>6. /\ (y \o z) \o post \in Seq(Byte) /\ z \o post \in Seq(Byte)
      /\ pre \o x \in Seq(Byte) /\ Len(pre \o x) = Len(pre) + Len(x)
  BY <1>1, <1>3, Concatenated
<1>7. /\ Len(pre) + Len(x) <= Len(b) => At(b, Len(pre), x)
      /\ Len(pre) + Len(x) > Len(b) => CutAt(b, Len(pre), x)
  <2>1. IsPart(b \o rest, pre, x, (y \o z) \o post)
    BY <1>4
  <2> QED
    BY <1>1, <1>6, <2>1, PartAt
<1>8. /\ Len(pre \o x) + Len(y) <= Len(b) => At(b, Len(pre \o x), y)
      /\ Len(pre \o x) + Len(y) > Len(b) => CutAt(b, Len(pre \o x), y)
  BY <1>1, <1>5, <1>6, PartAt
<1> QED
  BY <1>6, <1>7, <1>8 DEF x, y

\* An element that is there is read, and its bytes are found by its header.
HeaderOf(e, p) ==
  [id |-> BigEndian(e.id), data_size |-> Len(e.data),
   header_size |-> Len(e.id) + Len(e.size), pos |-> p + Len(e.id) + Len(e.size)]

\* An element anywhere in a buffer is read as it is, its data and its bytes too.
LEMMA ElementAt ==
  ASSUME NEW buf \in Seq(Byte), NEW pre \in Seq(Byte), NEW post \in Seq(Byte),
         NEW e, IsElement(e), IsPart(buf, pre, Whole(e), post)
  PROVE  LET h == HeaderOf(e, Len(pre)) IN
         /\ ReadElementHeader(buf, Len(pre)) = h /\ h \in ElementHeader
         /\ h.pos + h.data_size = Len(pre) + Len(Whole(e))
         /\ Len(pre) + Len(Whole(e)) <= Len(buf) /\ Len(Whole(e)) >= 2
         /\ SubSeq(buf, h.pos + 1, h.pos + h.data_size) = e.data
         /\ SubSeq(buf, h.pos - h.header_size + 1, h.pos + h.data_size) = Whole(e)
<1> DEFINE p == Len(pre)
           x == e.id
           y == e.size
           z == e.data
           w == Whole(e)
           i == Len(x)
           j == Len(y)
           k == Len(z)
<1>1. /\ x \in Seq(Byte) /\ y \in Seq(Byte) /\ z \in Seq(Byte) /\ w \in Seq(Byte)
      /\ i \in 1 .. 4 /\ j \in 1 .. 8 /\ k \in Nat /\ Len(w) = i + j + k
  BY WholeIs
<1>2. /\ IsOctets(x) /\ i <= 4 /\ IsOctets(y) /\ SizeOf(y) = k
  BY DEF IsElement
<1>3. IsPart(buf, pre, w, post) /\ IsPart(w, x \o y, z, <<>>)
  BY WholeParts
<1>4. BigEndian(x) \in Nat
  BY <1>1, BigEndianType
<1>5. /\ Len(buf) = p + Len(w) + Len(post) /\ Len(post) \in Nat /\ p \in Nat
      /\ SubSeq(buf, p + 1, p + Len(w)) = w
  <2>1. w \in Seq(Byte) /\ IsPart(buf, pre, w, post)
    BY <1>1, <1>3
  <2> HIDE DEF w, x, y, z, i, j, k
  <2> QED
    BY <2>1, PartIs
<1>6. p + i <= Len(buf) /\ p + i + j <= Len(buf)
  <2> HIDE DEF p, i, j, k, w
  <2> QED
    BY <1>1, <1>5
<1>7. At(buf, p, x) /\ At(buf, p + i, y)
  <2>1. buf \o <<>> = buf /\ <<>> \in Seq(Byte)
    OBVIOUS
  <2>2. IsPart(buf \o <<>>, pre, Whole(e), post)
    BY <2>1
  <2>3. /\ p + i <= Len(buf) => At(buf, p, x)
        /\ p + i + j <= Len(buf) => At(buf, p + i, y)
    BY <2>1, <2>2, ElementParts
  <2> QED
    BY <1>6, <2>3
<1>8. ReadElementHeader(buf, p) =
        [id |-> BigEndian(x), data_size |-> SizeOf(y), header_size |-> i + j, pos |-> p + i + j]
  <2> HIDE DEF p, x, y, i, j
  <2>1. p \in Nat
    BY <1>5
  <2> QED
    BY <1>1, <1>2, <1>7, <2>1, HeaderAt DEF i, j
<1>9. SubSeq(buf, p + i + j + 1, p + i + j + k) = z
  <2> HIDE DEF w, x, y, z
  <2> DEFINE a == pre \o (x \o y)
             c == <<>> \o post
  <2>1. x \o y \in Seq(Byte) /\ Len(x \o y) = Len(x) + Len(y) /\ <<>> \in Seq(Byte)
    BY <1>1, Concatenated
  <2>2. a \in Seq(Byte) /\ Len(a) = Len(pre) + Len(x \o y) /\ c \in Seq(Byte)
    BY <2>1, Concatenated
  <2>3. IsPart(buf, a, z, c)
    <3> DEFINE v == x \o y
    <3>1. v \in Seq(Byte) /\ IsPart(w, v, z, <<>>) /\ IsPart(buf, pre, w, post)
      BY <1>3, <2>1
    <3> HIDE DEF v
    <3>2. IsPart(buf, pre \o v, z, <<>> \o post)
      BY <1>1, <2>1, <3>1, PartOfPart
    <3> QED
      BY <3>2 DEF v
  <2> HIDE DEF a, c
  <2>4. SubSeq(buf, Len(a) + 1, Len(a) + Len(z)) = z
    <3>1. a \in Seq(Byte) /\ c \in Seq(Byte) /\ z \in Seq(Byte) /\ IsPart(buf, a, z, c)
      BY <1>1, <2>2, <2>3
    <3> QED
      BY <3>1, PartIs
  <2>5. Len(a) = p + i + j
    BY <1>1, <1>5, <2>1, <2>2
  <2> QED
    BY <2>4, <2>5
<1> DEFINE n == BigEndian(x)
           h == [id |-> n, data_size |-> k, header_size |-> i + j, pos |-> p + i + j]
<1>10. HeaderOf(e, p) = h /\ ReadElementHeader(buf, p) = h
  BY <1>2, <1>8 DEF HeaderOf
<1> HIDE DEF n, i, j, k, p, w
<1>11. h \in ElementHeader
  BY <1>1, <1>4, <1>5 DEF ElementHeader, n
<1>12. /\ h.pos + h.data_size = p + Len(w) /\ p + Len(w) <= Len(buf) /\ Len(w) >= 2
       /\ h.pos - h.header_size + 1 = p + 1 /\ h.pos + 1 = p + i + j + 1
       /\ h.pos + h.data_size = p + i + j + k
  BY <1>1, <1>5
<1> HIDE DEF h
<1>13. /\ SubSeq(buf, h.pos + 1, h.pos + h.data_size) = z
       /\ SubSeq(buf, h.pos - h.header_size + 1, h.pos + h.data_size) = w
  BY <1>5, <1>9, <1>12
<1> QED
  BY <1>10, <1>11, <1>12, <1>13 DEF p, w

\* ebml_read_element finds the first element of a buffer when as many bytes follow it as
\* its header has, with its ID and its end, and not before, wherever the buffer ends; also
\* in the middle of the header, unless the size is longer than the ID.
THEOREM ReadElementIs ==
  ASSUME NEW b \in Seq(Byte), NEW rest \in Seq(Byte), NEW post \in Seq(Byte),
         NEW e, IsElement(e), BigEndian(e.id) # 0, Len(e.size) <= Len(e.id),
         IsPart(b \o rest, <<>>, Whole(e), post)
  PROVE  LET r == ReadElement(b, 0)
             n == Len(Whole(e)) + Len(e.id) + Len(e.size)
         IN /\ r \in ElementHeader
            /\ n <= Len(b) => r.id = BigEndian(e.id) /\ r.pos = Len(Whole(e))
            /\ n > Len(b) => r.id = 0
<1> DEFINE i == Len(e.id)
           j == Len(e.size)
           k == Len(e.data)
           N == Len(b)
           id == BigEndian(e.id)
           h == ReadElementHeader(b, 0)
           r == ReadElement(b, 0)
           x == e.id
           y == e.size
           w == Len(Whole(e))
           Result == /\ r \in ElementHeader
                     /\ w + i + j <= N => r.id = id /\ r.pos = w
                     /\ w + i + j > N => r.id = 0
<1>1. i \in 1 .. 4 /\ j \in 1 .. 8 /\ k \in Nat /\ w = i + j + k /\ j <= i
  BY WholeIs
<1>2. N \in Nat /\ id # 0
  OBVIOUS
<1>3. id \in Nat
  <2>1. e.id \in Seq(Byte)
    BY WholeIs
  <2> QED
    BY <2>1, BigEndianType
<1>4. IsOctets(e.id) /\ i <= 4 /\ IsOctets(e.size) /\ SizeOf(e.size) = k
  BY DEF IsElement
<1>5. /\ i <= N => At(b, 0, e.id)
      /\ i > N => CutAt(b, 0, e.id)
      /\ i + j <= N => At(b, i, e.size)
      /\ i + j > N => CutAt(b, i, e.size)
  <2>1. <<>> \in Seq(Byte) /\ Len(<<>>) = 0
    OBVIOUS
  <2>2. /\ 0 + i <= N => At(b, 0, e.id)
        /\ 0 + i > N => CutAt(b, 0, e.id)
        /\ (0 + i) + j <= N => At(b, 0 + i, e.size)
        /\ (0 + i) + j > N => CutAt(b, 0 + i, e.size)
    BY <2>1, ElementParts
  <2>3. 0 + i = i
    BY <1>1
  <2> QED
    BY <2>2, <2>3
<1>6. r = IF h.id # 0 /\ h.pos + h.header_size + h.data_size <= N
          THEN [h EXCEPT !.pos = @ + h.data_size] ELSE [h EXCEPT !.id = 0]
  BY DEF ReadElement
<1>7. 0 \in Nat /\ i \in Nat /\ 0 + i = i
  BY <1>1
<1>12. /\ IsOctets(x) /\ i = Len(x) /\ id = BigEndian(x)
       /\ IsOctets(y) /\ j = Len(y) /\ SizeOf(y) = k
  BY <1>4
<1>13. /\ i <= N => At(b, 0, x)
       /\ i > N => CutAt(b, 0, x)
       /\ i + j <= N => At(b, i, y)
       /\ i + j > N => CutAt(b, i, y)
  BY <1>5
<1> HIDE DEF i, j, k, N, id, h, r, x, y, w
<1>8. ASSUME i > N PROVE Result
  <2>1. ReadElementId(b, 0).pos = 0
    BY <1>7, <1>8, <1>12, <1>13, IdCut
  <2>2. h = [id |-> 0, data_size |-> 0, header_size |-> 0, pos |-> 0]
    BY <2>1 DEF ReadElementHeader, h
  <2>3. r = [id |-> 0, data_size |-> 0, header_size |-> 0, pos |-> 0]
    BY <1>6, <2>2
  <2>4. r \in ElementHeader /\ r.id = 0
    BY <2>3 DEF ElementHeader
  <2> QED
    BY <1>1, <1>2, <1>8, <2>4
<1>9. ASSUME i <= N /\ i + j > N PROVE Result
  <2>1. ReadElementId(b, 0) = [value |-> id, pos |-> i]
    <3>1. i <= 4
      BY <1>1
    <3>2. ReadElementId(b, 0) = [value |-> BigEndian(x), pos |-> 0 + Len(x)]
      BY <1>7, <1>9, <1>12, <1>13, <3>1, IdAt
    <3> QED
      BY <1>7, <1>12, <3>2
  <2>2. ReadDataSize(b, i) = [value |-> 0, pos |-> i]
    BY <1>7, <1>9, <1>12, <1>13, SizeCut
  <2>3. h = [id |-> id, data_size |-> 0, header_size |-> i - 0, pos |-> i]
    <3>1. i # 0
      BY <1>1
    <3> QED
      BY <2>1, <2>2, <3>1 DEF ReadElementHeader, h
  <2>4. ~(i + (i - 0) + 0 <= N)
    BY <1>1, <1>2, <1>9
  <2>5. r = [id |-> 0, data_size |-> 0, header_size |-> i - 0, pos |-> i]
    BY <1>6, <2>3, <2>4
  <2>6. r \in ElementHeader /\ r.id = 0
    BY <1>7, <2>5 DEF ElementHeader
  <2> QED
    BY <1>1, <1>2, <1>9, <2>6
<1>10. ASSUME i + j <= N PROVE Result
  <2>1. i <= N
    BY <1>1, <1>2, <1>10
  <2>2. h = [id |-> id, data_size |-> k, header_size |-> i + j, pos |-> i + j]
    <3>1. At(b, 0, x) /\ At(b, 0 + Len(x), y) /\ Len(x) <= 4
      <4>1. 0 + Len(x) = i /\ Len(x) <= 4
        <5>1. 0 + i = i /\ i <= 4
          BY <1>1, <1>7
        <5> QED
          BY <1>12, <5>1, Zenon
      <4>2. At(b, 0, x) /\ At(b, i, y)
        BY <1>10, <1>13, <2>1, Zenon
      <4> QED
        BY <4>1, <4>2, Zenon
    <3>2. h = [id |-> BigEndian(x), data_size |-> SizeOf(y),
               header_size |-> Len(x) + Len(y), pos |-> 0 + Len(x) + Len(y)]
      BY <1>7, <1>12, <3>1, HeaderAt DEF h
    <3> QED
      BY <1>7, <1>12, <3>2
  <2>3. CASE (i + j) + (i + j) + k <= N
    <3>1. r = [id |-> id, data_size |-> k, header_size |-> i + j, pos |-> (i + j) + k]
      BY <1>2, <1>6, <2>2, <2>3
    <3>2. r \in ElementHeader /\ r.id = id /\ r.pos = (i + j) + k
      BY <1>1, <1>3, <3>1 DEF ElementHeader
    <3> QED
      BY <1>1, <1>2, <2>3, <3>2
  <2>4. CASE ~((i + j) + (i + j) + k <= N)
    <3>1. r = [id |-> 0, data_size |-> k, header_size |-> i + j, pos |-> i + j]
      BY <1>2, <1>6, <2>2, <2>4
    <3>2. r \in ElementHeader /\ r.id = 0
      BY <1>1, <1>3, <3>1 DEF ElementHeader
    <3> QED
      BY <1>1, <1>2, <2>4, <3>2
  <2> QED
    BY <2>3, <2>4
<1>11. i > N \/ (i <= N /\ i + j > N) \/ i + j <= N
  BY <1>1, <1>2
<1>14. Result
  BY <1>8, <1>9, <1>10, <1>11
<1> QED
  BY <1>14, Zenon DEF i, j, N, id, r, w

-----------------------------------------------------------------------------
(* Times of blocks *)

\* They are numbers.
LEMMA TimesWhole == Int16 \subseteq Int
BY DEF Int16

\* A time of 16 bits with a sign, in two bytes.
LEMMA TimeRead ==
  ASSUME NEW time \in Int16
  PROVE  LET s == <<(time \div 256) % 256, time % 256>> IN
         s \in Seq(Byte) /\ ReadInt(s) = time
<1> DEFINE y == (time \div 256) % 256
           z == time % 256
           q == time \div 256
           s == <<y, z>>
<1>1. /\ time \in Int /\ z \in 0 .. 255 /\ q \in -128 .. 127 /\ time = 256 * q + z
      /\ y = IF q < 0 THEN q + 256 ELSE q
  BY DEF Int16
<1> HIDE DEF q, y, z
<1>2. y \in Byte /\ z \in Byte
  BY <1>1, SMT DEF Byte
<1>3. s \in Seq(Byte) /\ Len(s) = 2 /\ s[1] = y /\ s[2] = z
  BY <1>2
<1> HIDE DEF s
<1>4. BigEndian(s) = 256 * y + z
  BY <1>3, BigEndian2
<1>5. Place[Len(s) + 1] = 65536
  BY <1>3, Tables, SMT
<1>6. ReadInt(s) = IF y < 128 THEN 256 * y + z ELSE 256 * y + z - 65536
  <2>1. ReadInt(s) = IF s[1] < 128 THEN BigEndian(s) ELSE BigEndian(s) - Place[Len(s) + 1]
    BY DEF ReadInt
  <2> QED
    BY <1>1, <1>3, <1>4, <1>5, <2>1
<1>7. ReadInt(s) = time
  BY <1>1, <1>6, SMT
<1> QED
  BY <1>3, <1>7, Zenon DEF s, y, z

=============================================================================
