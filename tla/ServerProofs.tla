---------------------------- MODULE ServerProofs ----------------------------
(***************************************************************************)
(* Theorems about Server, for any number of descriptors, paths and streams *)
(* and any timeout.                                                        *)
(***************************************************************************)
EXTENDS Server, SetInduction, FiniteSetTheorems, TLAPS

Entries(seq) == {seq[i] : i \in 1 .. Len(seq)}

Distinct(seq) == \A i, j \in 1 .. Len(seq) : seq[i] = seq[j] => i = j

-----------------------------------------------------------------------------
(* The order of the clients *)

\* The recursion in Kept has a solution.
LEMMA KeptUpTo ==
  ASSUME NEW S, NEW seq \in Seq(S), NEW C
  PROVE  \E kept : /\ kept = [n \in 0 .. Len(seq) |->
                       IF n = 0 THEN <<>>
                       ELSE IF seq[n] \in C THEN Append(kept[n - 1], seq[n])
                       ELSE kept[n - 1]]
                   /\ Kept(seq, C) = kept[Len(seq)]
<1> DEFINE N == Len(seq)
           step == [x \in (1 .. N) \X Seq(S) |->
                      IF seq[x[1]] \in C THEN Append(x[2], seq[x[1]]) ELSE x[2]]
           Body(f, n) == IF n = 0 THEN <<>>
                         ELSE IF seq[n] \in C THEN Append(f[n - 1], seq[n])
                         ELSE f[n - 1]
<1>1. N \in Nat /\ <<>> \in Seq(S)
  OBVIOUS
<1>2. step \in [(1 .. N) \X Seq(S) -> Seq(S)]
  <2> SUFFICES ASSUME NEW x \in (1 .. N) \X Seq(S)
               PROVE  (IF seq[x[1]] \in C THEN Append(x[2], seq[x[1]]) ELSE x[2]) \in Seq(S)
    OBVIOUS
  <2>1. x[1] \in 1 .. N /\ x[2] \in Seq(S)
    OBVIOUS
  <2>2. seq[x[1]] \in S
    BY <2>1
  <2> QED
    BY <2>1, <2>2
<1>3. PICK f \in [0 .. N -> Seq(S)] :
        f[0] = <<>> /\ \A n \in 1 .. N : f[n] = step[<<n, f[n - 1]>>]
  <2> DEFINE base == <<>>
             V == Seq(S)
  <2>1. N \in Nat /\ base \in V /\ step \in [(1 .. N) \X V -> V]
    BY <1>1, <1>2
  <2> HIDE DEF step, N, base, V
  <2>2. \E f \in [0 .. N -> V] : Recursive(f, N, base, step)
    BY <2>1, Recursion, Zenon
  <2> QED
    BY <2>2 DEF Recursive, base, V
<1>4. \A n \in 0 .. N : f[n] = Body(f, n)
  <2> SUFFICES ASSUME NEW n \in 0 .. N, n # 0 PROVE f[n] = Body(f, n)
    BY <1>3
  <2>1. n \in 1 .. N /\ n - 1 \in 0 .. N
    BY <1>1
  <2>2. f[n - 1] \in Seq(S)
    BY <2>1
  <2> DEFINE x == <<n, f[n - 1]>>
  <2>3. x \in (1 .. N) \X Seq(S) /\ x[1] = n /\ x[2] = f[n - 1]
    BY <2>1, <2>2
  <2>4. step[x] = IF seq[n] \in C THEN Append(f[n - 1], seq[n]) ELSE f[n - 1]
    <3> HIDE DEF x
    <3> QED
      BY <2>3
  <2> QED
    BY <1>3, <2>1, <2>4
<1>5. \E g : g = [n \in 0 .. N |-> Body(g, n)]
  BY <1>3, <1>4
<1> DEFINE kept == CHOOSE g : g = [n \in 0 .. N |-> Body(g, n)]
<1>6. kept = [n \in 0 .. N |-> Body(kept, n)]
  BY <1>5
<1>7. Kept(seq, C) = kept[N]
  BY DEF Kept
<1> QED
  BY <1>6, <1>7

\* Kept leaves the entries that are in C, and none twice.
LEMMA KeptProperties ==
  ASSUME NEW S, NEW seq \in Seq(S), NEW C
  PROVE  /\ Kept(seq, C) \in Seq(S)
         /\ Entries(Kept(seq, C)) = Entries(seq) \cap C
         /\ Distinct(seq) => Distinct(Kept(seq, C))
<1>1. PICK kept : /\ kept = [n \in 0 .. Len(seq) |->
                       IF n = 0 THEN <<>>
                       ELSE IF seq[n] \in C THEN Append(kept[n - 1], seq[n])
                       ELSE kept[n - 1]]
                  /\ Kept(seq, C) = kept[Len(seq)]
  BY KeptUpTo
<1>2. /\ kept[0] = <<>>
      /\ \A n \in 0 .. Len(seq) - 1 :
           kept[n + 1] = IF seq[n + 1] \in C THEN Append(kept[n], seq[n + 1]) ELSE kept[n]
  <2>1. \A n \in 0 .. Len(seq) : kept[n] = IF n = 0 THEN <<>>
                       ELSE IF seq[n] \in C THEN Append(kept[n - 1], seq[n])
                       ELSE kept[n - 1]
    BY <1>1
  <2> QED
    BY <2>1
<1> DEFINE Good(n) == /\ kept[n] \in Seq(S)
                      /\ Entries(kept[n]) = {seq[i] : i \in 1 .. n} \cap C
                      /\ Distinct(seq) => Distinct(kept[n])
           Upto == {n \in Nat : n <= Len(seq) => Good(n)}
<1>3. 0 \in Upto
  <2>1. Entries(<<>>) = {} /\ Distinct(<<>>) /\ <<>> \in Seq(S)
    BY DEF Entries, Distinct
  <2>2. {seq[i] : i \in 1 .. 0} = {}
    OBVIOUS
  <2> QED
    BY <1>2, <2>1, <2>2
<1>4. ASSUME NEW n \in Nat, n \in Upto
      PROVE  n + 1 \in Upto
  <2> SUFFICES ASSUME n + 1 <= Len(seq) PROVE Good(n + 1)
    OBVIOUS
  <2>1. Good(n) /\ n \in 0 .. Len(seq) - 1 /\ n + 1 \in 1 .. Len(seq)
    BY <1>4
  <2>2. seq[n + 1] \in S
    BY <2>1
  <2>3. {seq[i] : i \in 1 .. n + 1} = {seq[i] : i \in 1 .. n} \cup {seq[n + 1]}
    OBVIOUS
  <2>4. CASE seq[n + 1] \notin C
    BY <1>2, <2>1, <2>3, <2>4
  <2>5. CASE seq[n + 1] \in C
    <3> DEFINE t == kept[n]
               u == Append(t, seq[n + 1])
    <3>1. kept[n + 1] = u
      BY <1>2, <2>1, <2>5
    <3>2. /\ u \in Seq(S) /\ Len(u) = Len(t) + 1 /\ Len(t) \in Nat
          /\ u[Len(t) + 1] = seq[n + 1]
          /\ \A i \in 1 .. Len(t) : u[i] = t[i]
      BY <2>1, <2>2
    <3>3. Entries(u) = Entries(t) \cup {seq[n + 1]}
      <4> HIDE DEF u
      <4>1. 1 .. Len(u) = (1 .. Len(t)) \cup {Len(t) + 1}
        BY <3>2
      <4> QED
        BY <3>2, <4>1 DEF Entries
    <3>4. ASSUME Distinct(seq) PROVE Distinct(u)
      <4>1. seq[n + 1] \notin Entries(t)
        <5>1. \A i \in 1 .. n : seq[i] # seq[n + 1]
          BY <3>4, <2>1 DEF Distinct
        <5> QED
          BY <5>1, <2>1
      <4>2. Distinct(t)
        BY <3>4, <2>1
      <4> HIDE DEF u, t
      <4> QED
        BY <3>2, <4>1, <4>2 DEF Distinct, Entries
    <3> QED
      BY <3>1, <3>2, <3>3, <3>4, <2>1, <2>3, <2>5
  <2> QED
    BY <2>4, <2>5
<1>5. Len(seq) \in Upto
  <2> HIDE DEF Upto
  <2> QED
    BY <1>3, <1>4, SetInduction
<1>6. Good(Len(seq))
  BY <1>5
<1>7. Entries(seq) = {seq[i] : i \in 1 .. Len(seq)}
  BY DEF Entries
<1> QED
  BY <1>1, <1>6, <1>7, Zenon

-----------------------------------------------------------------------------
(* The fields of a client *)

\* client_t with all its fields.
Fields == {"state", "poll_for", "stalled", "request", "stream", "buffer", "moved"}

\* A client of the server is polled for one direction, or waits for data of its stream.
PolledRight(r) ==
  /\ r.state # "none"
  /\ r.poll_for # {"in", "out"}
  /\ r.poll_for = {} <=> r.state = "send_stream" /\ r.stalled

\* A client without connection has the type of one.
LEMMA BlankType == Blank \in ClientType
BY DEF Blank, ClientType

\* What the states have in common.
LEMMA ClientFields ==
  ASSUME NEW r \in ClientType
  PROVE  /\ DOMAIN r = Fields
         /\ r.poll_for \subseteq {"in", "out"} /\ r.stalled \in BOOLEAN /\ r.moved \in BOOLEAN
         /\ r.stream \in Stream \cup {NULL}
         /\ r.state \in Receiving \cup {"send_stream"} <=> r.stream \in Stream
         /\ r.state = "http_request_headers" => r.request \in Request
         /\ r.state # "http_request_headers" => r.request = NULL
         /\ r.state # "send_buffer_and_disconnect" => r.buffer = NULL
         /\ r.state = "send_buffer_and_disconnect" => r.buffer \in {"heap", "literal"}
         /\ r.state \in {"none", "http_request_headline", "http_request_headers",
                         "receive_stream_header", "receive_stream", "send_stream",
                         "send_buffer_and_disconnect"}
BY ServerAssumption DEF ClientType, Fields, Receiving

\* Become makes the record that has the new fields and the old ones.
LEMMA BecomeIs ==
  ASSUME client \in [Fd -> ClientType], NEW c \in Fd, NEW fields, NEW r,
         r = [f \in Fields |-> r[f]],
         \A f \in Fields : r[f] = IF f \in DOMAIN fields THEN fields[f] ELSE client[c][f]
  PROVE  Become(fields, c) = [client EXCEPT ![c] = r]
<1>1. DOMAIN client[c] = Fields
  BY ClientFields
<1>2. r = [f \in DOMAIN client[c] |-> IF f \in DOMAIN fields THEN fields[f] ELSE client[c][f]]
  BY <1>1
<1> QED
  BY <1>2 DEF Become

\* The new fields of a client in each of the states that a handler enters.
BufferFields(b) == [state |-> "send_buffer_and_disconnect", poll_for |-> {"out"},
                    request |-> NULL, buffer |-> b]
HeadersFields(request) == [state |-> "http_request_headers", request |-> request]
SourceFields(s) == [state |-> "receive_stream_header", poll_for |-> {"in"},
                    request |-> NULL, stream |-> s]
ViewerFields(s, stalled) == [state |-> "send_stream", request |-> NULL, stream |-> s,
                             stalled |-> stalled, poll_for |-> IF stalled THEN {} ELSE {"out"}]

\* A client that gets an answer waits for output, and has no stream.
LEMMA BecomeBuffer ==
  ASSUME client \in [Fd -> ClientType], NEW c \in Fd, NEW b \in {"heap", "literal"},
         client[c].stream = NULL
  PROVE  \E r \in ClientType :
           /\ r.state = "send_buffer_and_disconnect" /\ r.poll_for = {"out"} /\ r.stream = NULL
           /\ Become(BufferFields(b), c) = [client EXCEPT ![c] = r]
<1> DEFINE r == [state |-> "send_buffer_and_disconnect", poll_for |-> {"out"},
                 stalled |-> client[c].stalled, request |-> NULL, stream |-> NULL,
                 buffer |-> b, moved |-> client[c].moved]
           fields == BufferFields(b)
<1>1. r \in ClientType
  BY ClientFields DEF ClientType
<1>2. r = [f \in Fields |-> r[f]]
  BY DEF Fields
<1>3. \A f \in Fields : r[f] = IF f \in DOMAIN fields THEN fields[f] ELSE client[c][f]
  BY DEF Fields, BufferFields
<1>4. Become(fields, c) = [client EXCEPT ![c] = r]
  <2> HIDE DEF r, fields
  <2> QED
    BY <1>2, <1>3, BecomeIs
<1> QED
  BY <1>1, <1>4

\* A client whose request line was read goes on with the headers.
LEMMA BecomeHeaders ==
  ASSUME client \in [Fd -> ClientType], NEW c \in Fd, NEW request \in Request,
         client[c].state = "http_request_headline"
  PROVE  \E r \in ClientType :
           /\ r.state = "http_request_headers" /\ r.poll_for = client[c].poll_for /\ r.stream = NULL
           /\ Become(HeadersFields(request), c)
                = [client EXCEPT ![c] = r]
<1> DEFINE r == [state |-> "http_request_headers", poll_for |-> client[c].poll_for,
                 stalled |-> client[c].stalled, request |-> request, stream |-> client[c].stream,
                 buffer |-> client[c].buffer, moved |-> client[c].moved]
           fields == HeadersFields(request)
<1>1. r \in ClientType /\ r.stream = NULL
  BY ClientFields DEF ClientType, Receiving
<1>2. r = [f \in Fields |-> r[f]]
  BY DEF Fields
<1>3. \A f \in Fields : r[f] = IF f \in DOMAIN fields THEN fields[f] ELSE client[c][f]
  BY DEF Fields, HeadersFields
<1>4. Become(fields, c) = [client EXCEPT ![c] = r]
  <2> HIDE DEF r, fields
  <2> QED
    BY <1>2, <1>3, BecomeIs
<1> QED
  BY <1>1, <1>4

\* A source waits for input, and has its stream.
LEMMA BecomeSource ==
  ASSUME client \in [Fd -> ClientType], NEW c \in Fd, NEW s \in Stream,
         client[c].state # "send_buffer_and_disconnect"
  PROVE  \E r \in ClientType :
           /\ r.state = "receive_stream_header" /\ r.poll_for = {"in"} /\ r.stream = s
           /\ Become(SourceFields(s), c) = [client EXCEPT ![c] = r]
<1> DEFINE r == [state |-> "receive_stream_header", poll_for |-> {"in"},
                 stalled |-> client[c].stalled, request |-> NULL, stream |-> s,
                 buffer |-> client[c].buffer, moved |-> client[c].moved]
           fields == SourceFields(s)
<1>1. r \in ClientType
  BY ClientFields DEF ClientType, Receiving
<1>2. r = [f \in Fields |-> r[f]]
  BY DEF Fields
<1>3. \A f \in Fields : r[f] = IF f \in DOMAIN fields THEN fields[f] ELSE client[c][f]
  <2>1. /\ DOMAIN fields = {"state", "poll_for", "request", "stream"}
        /\ fields["state"] = r["state"] /\ fields["poll_for"] = r["poll_for"]
        /\ fields["request"] = r["request"] /\ fields["stream"] = r["stream"]
    BY DEF SourceFields
  <2>2. /\ r["stalled"] = client[c]["stalled"] /\ r["buffer"] = client[c]["buffer"]
        /\ r["moved"] = client[c]["moved"]
    OBVIOUS
  <2> HIDE DEF r, fields
  <2> QED
    BY <2>1, <2>2 DEF Fields
<1>4. Become(fields, c) = [client EXCEPT ![c] = r]
  <2> HIDE DEF r, fields
  <2> QED
    BY <1>2, <1>3, BecomeIs
<1> QED
  BY <1>1, <1>4

\* A viewer has its stream, and does not wait for both directions.
LEMMA BecomeViewer ==
  ASSUME client \in [Fd -> ClientType], NEW c \in Fd, NEW s \in Stream,
         client[c].state # "send_buffer_and_disconnect", SendStream(c, s)
  PROVE  \E r \in ClientType :
           /\ r.state = "send_stream" /\ r.stream = s /\ PolledRight(r)
           /\ client' = [client EXCEPT ![c] = r]
<1>1. PICK stalled \in BOOLEAN : client' = Become(ViewerFields(s, stalled), c)
  BY DEF SendStream, ViewerFields
<1> DEFINE polled == IF stalled THEN {} ELSE {"out"}
           r == [state |-> "send_stream", poll_for |-> polled,
                 stalled |-> stalled, request |-> NULL, stream |-> s,
                 buffer |-> client[c].buffer, moved |-> client[c].moved]
           fields == ViewerFields(s, stalled)
<1>2. polled \in SUBSET {"in", "out"}
  OBVIOUS
<1> HIDE DEF polled
<1>3. r \in ClientType
  BY <1>2, ClientFields DEF ClientType, Receiving
<1>4. r = [f \in Fields |-> r[f]]
  BY DEF Fields
<1>5. \A f \in Fields : r[f] = IF f \in DOMAIN fields THEN fields[f] ELSE client[c][f]
  BY DEF Fields, ViewerFields, polled
<1>6. Become(fields, c) = [client EXCEPT ![c] = r]
  <2> HIDE DEF r, fields
  <2> QED
    BY <1>4, <1>5, BecomeIs
<1>7. r.poll_for = polled /\ r.state = "send_stream" /\ r.stalled = stalled /\ r.stream = s
  OBVIOUS
<1>8. PolledRight(r)
  BY <1>7 DEF PolledRight, polled
<1> QED
  BY <1>1, <1>3, <1>6, <1>7, <1>8

\* Writing a part of an answer changes nothing that the poll loop looks at.
LEMMA BecomeMoved ==
  ASSUME client \in [Fd -> ClientType], NEW c \in Fd
  PROVE  \E r \in ClientType :
           /\ r.state = client[c].state /\ r.poll_for = client[c].poll_for
           /\ r.stalled = client[c].stalled /\ r.stream = client[c].stream
           /\ Become([moved |-> TRUE], c) = [client EXCEPT ![c] = r]
<1> DEFINE q == client[c]
           r == [state |-> q.state, poll_for |-> q.poll_for, stalled |-> q.stalled,
                 request |-> q.request, stream |-> q.stream, buffer |-> q.buffer, moved |-> TRUE]
           fields == [moved |-> TRUE]
<1>1. r \in ClientType
  <2>1. q \in ClientType
    OBVIOUS
  <2> HIDE DEF q
  <2> QED
    BY <2>1 DEF ClientType, Receiving
<1>2. r = [f \in Fields |-> r[f]]
  BY DEF Fields
<1>3. \A f \in Fields : r[f] = IF f \in DOMAIN fields THEN fields[f] ELSE client[c][f]
  <2>1. DOMAIN fields = {"moved"} /\ fields["moved"] = TRUE
    OBVIOUS
  <2>2. /\ r["moved"] = TRUE /\ r["state"] = q["state"] /\ r["poll_for"] = q["poll_for"]
        /\ r["stalled"] = q["stalled"] /\ r["request"] = q["request"]
        /\ r["stream"] = q["stream"] /\ r["buffer"] = q["buffer"]
    OBVIOUS
  <2> HIDE DEF r, fields
  <2> QED
    BY <2>1, <2>2 DEF Fields
<1>4. Become(fields, c) = [client EXCEPT ![c] = r]
  <2> HIDE DEF r, fields
  <2> QED
    BY <1>2, <1>3, BecomeIs
<1> QED
  BY <1>1, <1>4

-----------------------------------------------------------------------------
(* What a call of the handler does *)

\* A client that nothing happens to, or a viewer that is woken up.
Woken(r, q) == q = r \/ (r.stalled /\ q = [r EXCEPT !.stalled = FALSE, !.poll_for = {"out"}])

\* Waking viewers up leaves everyone's state and stream alone.
LEMMA WokenFields ==
  ASSUME NEW r \in ClientType, NEW q, Woken(r, q)
  PROVE  /\ q \in ClientType
         /\ q.state = r.state /\ q.stream = r.stream
         /\ PolledRight(r) => PolledRight(q)
         /\ r = Blank => q = Blank
<1>1. CASE q = r
  BY <1>1
<1>2. CASE r.stalled /\ q = [r EXCEPT !.stalled = FALSE, !.poll_for = {"out"}]
  <2>1. q = [state |-> r.state, poll_for |-> {"out"}, stalled |-> FALSE, request |-> r.request,
             stream |-> r.stream, buffer |-> r.buffer, moved |-> r.moved]
    BY <1>2 DEF ClientType
  <2>2. q \in ClientType
    BY <2>1 DEF ClientType, Receiving
  <2>3. r # Blank
    BY <1>2 DEF Blank
  <2> QED
    BY <2>1, <2>2, <2>3 DEF PolledRight
<1> QED
  BY <1>1, <1>2 DEF Woken

\* The video of a source goes on, and its viewers may be woken up.
LEMMA BufferFilledEffect ==
  ASSUME NEW f \in [Fd -> ClientType], NEW c \in Fd, f[c].state \in Receiving,
         PolledRight(f[c]), BufferFilled(c, f)
  PROVE  /\ client' \in [Fd -> ClientType]
         /\ client'[c].state \in Receiving /\ client'[c].stream = f[c].stream
         /\ PolledRight(client'[c])
         /\ \A d \in Fd : d # c => Woken(f[d], client'[d])
<1> DEFINE r == [f[c] EXCEPT !.state = "receive_stream"]
           g == [f EXCEPT ![c] = r]
<1>1. /\ r \in ClientType /\ r.state = "receive_stream" /\ r.stream = f[c].stream
      /\ r.poll_for = f[c].poll_for
  <2> DEFINE q == f[c]
  <2>1. q \in ClientType /\ q.state \in Receiving
    OBVIOUS
  <2>2. r = [state |-> "receive_stream", poll_for |-> q.poll_for, stalled |-> q.stalled,
             request |-> q.request, stream |-> q.stream, buffer |-> q.buffer, moved |-> q.moved]
    BY <2>1 DEF ClientType
  <2> HIDE DEF q
  <2>3. r \in ClientType
    BY <2>1, <2>2, ClientFields DEF ClientType, Receiving
  <2> QED
    BY <2>2, <2>3 DEF q
<1>2. PolledRight(r)
  BY <1>1, ClientFields DEF PolledRight, Receiving
<1>3. CASE client' = f
  BY <1>3 DEF Woken
<1>4. CASE client' = g
  BY <1>1, <1>2, <1>4 DEF Woken, Receiving
<1>5. CASE client' = Unstalled(g, c)
  <2> HIDE DEF r
  <2>1. client'[c] = r
    BY <1>5 DEF Unstalled
  <2>2. /\ client' = [d \in Fd |-> client'[d]]
        /\ \A d \in Fd : d # c => Woken(f[d], client'[d])
    BY <1>5 DEF Unstalled, Woken
  <2>3. \A d \in Fd : client'[d] \in ClientType
    BY <1>1, <2>1, <2>2, WokenFields
  <2> QED
    BY <1>1, <1>2, <2>1, <2>2, <2>3 DEF Receiving
<1> QED
  BY <1>3, <1>4, <1>5 DEF BufferFilled

\* The client neither joins nor leaves a stream.
StaysInRole(c) ==
  /\ client'[c].state \in Receiving <=> client[c].state \in Receiving
  /\ client'[c].state = "send_stream" <=> client[c].state = "send_stream"
  /\ client'[c].stream = client[c].stream
  /\ UNCHANGED <<streams, live, idle>>

BecomesSource(c) ==
  /\ client[c].stream = NULL
  /\ \E s \in Stream, path \in Path :
       /\ client'[c].state \in Receiving /\ client'[c].stream = s
       /\ live' = live \cup {s}
       /\ idle' = [idle EXCEPT ![s] = 0]
       /\ \/ s \in live /\ streams' = streams
          \/ s \notin live /\ ~Found(path) /\ streams' = Listed(path, s)

BecomesViewer(c) ==
  /\ client[c].stream = NULL
  /\ client'[c].state = "send_stream" /\ client'[c].stream \in live
  /\ UNCHANGED <<streams, live, idle>>

\* The handler returned 0 for c.
Served(c) ==
  /\ client' \in [Fd -> ClientType]
  /\ PolledRight(client'[c])
  /\ \A d \in Fd : d # c => Woken(client[d], client'[d])
  /\ StaysInRole(c) \/ BecomesSource(c) \/ BecomesViewer(c)

\* Streams in the dict are allocated.
ListedLive == \A p \in DOMAIN streams : streams[p] \in live

\* A stream found in the table exists.
LEMMA FoundLive ==
  ASSUME TypeOK, ListedLive, NEW path, Found(path)
  PROVE  StreamAt(path) \in live /\ StreamAt(path) \in Stream
BY DEF Found, StreamAt, ListedLive, TypeOK

\* However a request is dispatched, only the client itself and streams that exist change.
LEMMA DispatchServes ==
  ASSUME TypeOK, ListedLive, NEW c \in Fd, NEW request \in Request,
         client[c].state \in {"http_request_headline", "http_request_headers"},
         Dispatch(c, request)
  PROVE  Served(c)
<1> client \in [Fd -> ClientType] /\ live \subseteq Stream
  BY DEF TypeOK
<1>1. /\ client[c].stream = NULL /\ client[c].state # "send_buffer_and_disconnect"
      /\ client[c].state \notin Receiving /\ client[c].state # "send_stream"
  BY ClientFields, ServerAssumption DEF Receiving
<1>2. ASSUME NEW b \in {"heap", "literal"}, SendBuffer(c, b)
      PROVE  Served(c)
  <2>0. \E r \in ClientType :
          /\ r.state = "send_buffer_and_disconnect" /\ r.poll_for = {"out"} /\ r.stream = NULL
          /\ Become(BufferFields(b), c) = [client EXCEPT ![c] = r]
    BY <1>1, BecomeBuffer, ZenonT(30)
  <2>1. PICK r \in ClientType :
          /\ r.state = "send_buffer_and_disconnect" /\ r.poll_for = {"out"} /\ r.stream = NULL
          /\ client' = [client EXCEPT ![c] = r]
    BY <1>2, <2>0 DEF SendBuffer, BufferFields
  <2>2. StaysInRole(c)
    BY <1>1, <1>2, <2>1 DEF StaysInRole, SendBuffer, Receiving
  <2> QED
    BY <2>1, <2>2 DEF Served, Woken, PolledRight
<1>3. ASSUME EnterReceiveStream(c, request.path)
      PROVE  Served(c)
  <2> DEFINE path == request.path
  <2>1. path \in Path
    BY DEF Request
  <2>2. PICK s \in IF Found(path) THEN {StreamAt(path)} ELSE Stream \ live :
         /\ streams' = IF s \in live THEN streams ELSE Listed(path, s)
         /\ live' = live \cup {s}
         /\ idle' = [idle EXCEPT ![s] = 0]
         /\ BufferFilled(c, Become(SourceFields(s), c))
    BY <1>3 DEF EnterReceiveStream, SourceFields
  <2> HIDE DEF path
  <2>3. s \in Stream /\ (Found(path) <=> s \in live)
    BY <2>2, FoundLive
  <2>4. PICK r \in ClientType :
         /\ r.state = "receive_stream_header" /\ r.poll_for = {"in"} /\ r.stream = s
         /\ Become(SourceFields(s), c) = [client EXCEPT ![c] = r]
    <3>1. /\ client \in [Fd -> ClientType] /\ s \in Stream
          /\ client[c].state # "send_buffer_and_disconnect"
      BY <1>1, <2>3
    <3> HIDE <1>3
    <3> QED
      BY <3>1, BecomeSource, ZenonT(30)
  <2> DEFINE f == [client EXCEPT ![c] = r]
  <2>5. /\ f \in [Fd -> ClientType] /\ f[c] = r /\ BufferFilled(c, f)
        /\ \A d \in Fd : d # c => f[d] = client[d]
    BY <2>2, <2>4
  <2>6. PolledRight(r) /\ r.state \in Receiving
    BY <2>4 DEF PolledRight, Receiving
  <2> HIDE DEF f
  <2>7. /\ client' \in [Fd -> ClientType]
        /\ client'[c].state \in Receiving /\ client'[c].stream = s
        /\ PolledRight(client'[c])
        /\ \A d \in Fd : d # c => Woken(client[d], client'[d])
    BY <2>4, <2>5, <2>6, BufferFilledEffect
  <2>8. BecomesSource(c)
    BY <1>1, <2>1, <2>2, <2>3, <2>7 DEF BecomesSource
  <2> QED
    BY <2>7, <2>8 DEF Served
<1>4. ASSUME Found(request.path), SendStream(c, StreamAt(request.path))
      PROVE  Served(c)
  <2> DEFINE s == StreamAt(request.path)
  <2>1. s \in live /\ s \in Stream
    BY <1>4, FoundLive
  <2> HIDE DEF s
  <2>2. PICK r \in ClientType :
          /\ r.state = "send_stream" /\ r.stream = s /\ PolledRight(r)
          /\ client' = [client EXCEPT ![c] = r]
    <3>1. SendStream(c, s)
      BY <1>4 DEF s
    <3> QED
      BY <1>1, <2>1, <3>1, BecomeViewer, ZenonT(30)
  <2>3. BecomesViewer(c)
    BY <1>1, <1>4, <2>1, <2>2 DEF BecomesViewer, SendStream
  <2> QED
    BY <2>2, <2>3 DEF Served, Woken
<1> QED
  BY <1>2, <1>3, <1>4 DEF Dispatch

\* Whatever the handler does when it returns 0.
LEMMA ServeServes ==
  ASSUME TypeOK, ListedLive, NEW c \in Fd, PolledRight(client[c]), Serve(c)
  PROVE  Served(c) /\ UNCHANGED <<clients, bad_free>>
<1> client \in [Fd -> ClientType] /\ live \subseteq Stream
  BY DEF TypeOK
<1>1. ASSUME Headline(c) PROVE Served(c)
  <2>1. CASE \E request \in Request : Dispatch(c, request)
    BY <1>1, <2>1, DispatchServes DEF Headline
  <2>2. ASSUME NEW request \in Request,
               client' = Become(HeadersFields(request), c),
               UNCHANGED <<streams, live, idle>>
        PROVE  Served(c)
    <3>1. PICK r \in ClientType :
            /\ r.state = "http_request_headers" /\ r.poll_for = client[c].poll_for
            /\ r.stream = NULL
            /\ client' = [client EXCEPT ![c] = r]
      BY <1>1, <2>2, BecomeHeaders DEF Headline
    <3>2. client[c].state = "http_request_headline" /\ client[c].stream = NULL
      BY <1>1, ClientFields, ServerAssumption DEF Headline, Receiving
    <3>3. PolledRight(r) /\ StaysInRole(c)
      BY <2>2, <3>1, <3>2 DEF PolledRight, StaysInRole, Receiving
    <3> QED
      BY <3>1, <3>3 DEF Served, Woken
  <2> QED
    BY <1>1, <2>1, <2>2 DEF Headline, HeadersFields
<1>2. ASSUME Headers(c) PROVE Served(c)
  BY <1>2, ClientFields, DispatchServes DEF Headers
<1>3. ASSUME Receive(c) PROVE Served(c)
  <2>1. /\ client' \in [Fd -> ClientType]
        /\ client'[c].state \in Receiving /\ client'[c].stream = client[c].stream
        /\ PolledRight(client'[c])
        /\ \A d \in Fd : d # c => Woken(client[d], client'[d])
    BY <1>3, BufferFilledEffect DEF Receive
  <2>2. StaysInRole(c)
    BY <1>3, <2>1 DEF StaysInRole, Receive, Receiving
  <2> QED
    BY <2>1, <2>2 DEF Served
<1>4. ASSUME Send(c) PROVE Served(c)
  <2> DEFINE s == client[c].stream
  <2>1. s \in Stream /\ client[c].state = "send_stream"
    BY <1>4, ClientFields DEF Send
  <2> HIDE DEF s
  <2>2. PICK r \in ClientType :
          /\ r.state = "send_stream" /\ r.stream = s /\ PolledRight(r)
          /\ client' = [client EXCEPT ![c] = r]
    <3>1. SendStream(c, s) /\ client[c].state # "send_buffer_and_disconnect"
      BY <1>4, <2>1 DEF Send, s
    <3> QED
      BY <2>1, <3>1, BecomeViewer, ZenonT(30)
  <2>3. StaysInRole(c)
    BY <1>4, <2>1, <2>2 DEF s, StaysInRole, Send, SendStream, Receiving
  <2> QED
    BY <2>2, <2>3 DEF Served, Woken
<1>5. ASSUME SendPart(c) PROVE Served(c)
  <2>1. PICK r \in ClientType :
          /\ r.state = client[c].state /\ r.poll_for = client[c].poll_for
          /\ r.stalled = client[c].stalled /\ r.stream = client[c].stream
          /\ client' = [client EXCEPT ![c] = r]
    BY <1>5, BecomeMoved DEF SendPart
  <2>2. PolledRight(r) /\ StaysInRole(c)
    BY <1>5, <2>1 DEF PolledRight, StaysInRole, SendPart
  <2> QED
    BY <2>1, <2>2 DEF Served, Woken
<1>6. ASSUME UNCHANGED <<client, streams, live, idle>> PROVE Served(c)
  BY <1>6 DEF Served, Woken, StaysInRole
<1> QED
  BY <1>1, <1>2, <1>3, <1>4, <1>5, <1>6 DEF Serve

-----------------------------------------------------------------------------
(* The inductive invariant *)

\* The clients and the streams between two steps.
DataInv ==
  /\ clients \in Seq(Fd) /\ Distinct(clients)
  /\ client \in [Fd -> ClientType]
  /\ DOMAIN streams \subseteq Path /\ live \subseteq Stream
  /\ idle \in [Stream -> 0 .. Timeout + 2] /\ bad_free \in BOOLEAN
  /\ \A c \in Connected : PolledRight(client[c])
  /\ \A c \in Fd \ Connected : client[c] = Blank
  /\ NoDanglingStream
  /\ ListedLive

\* The snapshot of the clients, and how far the loop is with it. No entry has both
\* POLLIN and POLLOUT, as no client is polled for both.
LoopInv ==
  /\ phase \in {"poll", "clients", "timer", "accept", "stopped"}
  /\ ready \subseteq {"timer", "accept"}
  /\ pollfds \in Seq([fd : Fd, revents : SUBSET {"in", "out", "hup"}])
  /\ rest \in Seq(Fd)
  /\ position \in Nat \ {0}
  /\ half = "in"
  /\ expired \in BOOLEAN
  /\ \A i \in 1 .. Len(pollfds) : ~({"in", "out"} \subseteq pollfds[i].revents)
  /\ phase = "clients" =>
       /\ Distinct(rest) /\ Entries(rest) \subseteq Connected
       /\ Len(pollfds) = position + Len(rest) - 1
       /\ \A i \in 1 .. Len(rest) : pollfds[position + i - 1].fd = rest[i]

Inv == DataInv /\ LoopInv

\* Types are a part of the invariant.
LEMMA InvTypeOK == Inv => TypeOK
BY DEF Inv, DataInv, LoopInv, TypeOK

-----------------------------------------------------------------------------
(* What a step does to the clients and the streams *)

\* The clients C are disconnected.
Leave(C) ==
  /\ clients' \in Seq(Fd) /\ Distinct(clients')
  /\ Connected' = Connected \ C
  /\ client' = [d \in Fd |-> IF d \in C THEN Blank ELSE client[d]]

Gone(c) ==
  /\ Leave({c})
  /\ idle' = SourceGone({c})
  /\ bad_free' \in BOOLEAN
  /\ UNCHANGED <<streams, live>>

Abandoning(c) ==
  /\ FcntlFails
  /\ client[c].stream = NULL
  /\ Leave({c})
  /\ idle' = SourceGone({c})
  /\ bad_free' \in BOOLEAN
  /\ \E s \in Stream \ live, path \in Path :
       /\ ~Found(path)
       /\ streams' = Listed(path, s)
       /\ live' = live \cup {s}

\* A call of the handler.
Handled(c) ==
  \/ Served(c) /\ UNCHANGED <<clients, bad_free>>
  \/ Gone(c)
  \/ Abandoning(c)

\* The streams S are deleted.
Deleted(S) ==
  /\ S \subseteq live
  /\ \A s \in S : idle[s] > 0
  /\ Leave(Attached(S))
  /\ streams' = [p \in {q \in DOMAIN streams : streams[q] \notin S} |-> streams[p]]
  /\ live' = live \ S
  /\ idle' = [s \in Stream |-> IF s \in S THEN 0 ELSE idle[s]]
  /\ UNCHANGED bad_free

Arrived == [Blank EXCEPT !.state = "http_request_headline", !.poll_for = {"in"}]

Arrives(c) ==
  /\ c \in Fd \ Connected
  /\ clients' \in Seq(Fd) /\ Distinct(clients')
  /\ Connected' = Connected \cup {c}
  /\ client' = [client EXCEPT ![c] = Arrived]
  /\ UNCHANGED <<streams, live, idle, bad_free>>

\* Nothing but time passes.
Ages ==
  /\ idle' \in [Stream -> 0 .. Timeout + 2]
  /\ \A s \in Stream : idle'[s] > 0 <=> idle[s] > 0
  /\ UNCHANGED <<clients, client, streams, live, bad_free>>

ShutsDown ==
  /\ phase' = "stopped"
  /\ clients' = <<>>
  /\ client' = [c \in Fd |-> Blank]
  /\ streams' = [p \in {} |-> NULL]
  /\ UNCHANGED <<live, idle, bad_free>>

\* A disconnect takes one client out of the order, and leaves the others in theirs.
LEMMA DisconnectLeaves ==
  ASSUME DataInv, NEW c \in Fd, NEW end, Disconnect(c, end)
  PROVE  Leave({c}) /\ idle' = SourceGone({c}) /\ bad_free' \in BOOLEAN
<1>1. clients' = Kept(clients, Fd \ {c})
  BY DEF Disconnect
<1>2. clients \in Seq(Fd) /\ Distinct(clients)
  BY DEF DataInv
<1>3. /\ clients' \in Seq(Fd) /\ Distinct(clients')
      /\ Entries(clients') = Entries(clients) \cap (Fd \ {c})
  BY <1>1, <1>2, KeptProperties, Zenon
<1>4. Connected' = Entries(clients') /\ Connected = Entries(clients) /\ Connected \subseteq Fd
  BY <1>2 DEF Connected, Entries
<1>5. Connected' = Connected \ {c}
  BY <1>3, <1>4
<1>6. client' = [d \in Fd |-> IF d \in {c} THEN Blank ELSE client[d]]
  BY DEF Disconnect, DataInv
<1> QED
  BY <1>3, <1>5, <1>6 DEF Leave, Disconnect, FreesBadly

\* The deletion of streams takes their clients out of the order.
LEMMA DeleteLeaves ==
  ASSUME DataInv, NEW S, DeleteStreams(S)
  PROVE  Leave(Attached(S))
<1>1. clients' = Kept(clients, Fd \ Attached(S))
  BY DEF DeleteStreams
<1>2. clients \in Seq(Fd) /\ Distinct(clients)
  BY DEF DataInv
<1>3. /\ clients' \in Seq(Fd) /\ Distinct(clients')
      /\ Entries(clients') = Entries(clients) \cap (Fd \ Attached(S))
  BY <1>1, <1>2, KeptProperties, Zenon
<1>4. Connected' = Entries(clients') /\ Connected = Entries(clients) /\ Connected \subseteq Fd
  BY <1>2 DEF Connected, Entries
<1>5. Connected' = Connected \ Attached(S)
  BY <1>3, <1>4
<1> QED
  BY <1>3, <1>5 DEF Leave, DeleteStreams

\* An order of an iteration over a finite set has each of its elements once.
LEMMA OrdersDistinct ==
  ASSUME NEW C, IsFiniteSet(C), NEW order \in Orders(C)
  PROVE  order \in Seq(C) /\ Distinct(order) /\ Entries(order) = C
<1> DEFINE n == Cardinality(C)
<1>1. n \in Nat
  BY FS_CardinalityType
<1>2. order \in [1 .. n -> C] /\ {order[i] : i \in 1 .. n} = C
  BY DEF Orders
<1>3. order \in Seq(C) /\ Len(order) = n
  BY <1>1, <1>2
<1>4. order \in Surjection(1 .. n, C)
  BY <1>2 DEF Surjection
<1>5. IsFiniteSet(1 .. n) /\ Cardinality(1 .. n) = n
  BY <1>1, FS_Interval
<1>6. order \in Injection(1 .. n, C)
  BY <1>4, <1>5, FS_SurjSameCardinalityImpliesInj, Zenon
<1> QED
  BY <1>2, <1>3, <1>6 DEF Distinct, Entries, Injection, IsInjective

\* A handler does one of the things that Handled lists.
LEMMA HandleEffect ==
  ASSUME Inv, NEW c \in Connected, Handle(c)
  PROVE  Handled(c)
<1>1. TypeOK /\ ListedLive /\ PolledRight(client[c]) /\ c \in Fd
  <2>1. Connected \subseteq Fd
    BY DEF Inv, DataInv, Connected
  <2> QED
    BY <2>1, InvTypeOK DEF Inv, DataInv
<1>2. CASE Serve(c)
  BY <1>1, <1>2, ServeServes DEF Handled
<1>3. CASE Fail(c)
  BY <1>1, <1>3, DisconnectLeaves DEF Fail, Handled, Gone, Inv
<1>4. CASE Abandon(c)
  <2>1. PICK request \in CASE client[c].state = "http_request_headline" -> Request
                          [] client[c].state = "http_request_headers" -> {client[c].request}
                          [] OTHER -> {} :
           /\ ~Found(request.path)
           /\ \E s \in Stream \ live :
                /\ streams' = Listed(request.path, s)
                /\ live' = live \cup {s}
    BY <1>4 DEF Abandon
  <2>2. client[c] \in ClientType
    BY <1>1 DEF TypeOK
  <2>3. client[c].state \in {"http_request_headline", "http_request_headers"}
    BY <2>1
  <2>4. request \in Request /\ client[c].stream = NULL
    BY <2>1, <2>2, <2>3, ClientFields, ServerAssumption DEF Receiving
  <2>5. request.path \in Path
    BY <2>4 DEF Request
  <2>6. Leave({c}) /\ idle' = SourceGone({c}) /\ bad_free' \in BOOLEAN
    BY <1>1, <1>4, DisconnectLeaves DEF Abandon, Inv
  <2> QED
    BY <1>4, <2>1, <2>4, <2>5, <2>6 DEF Abandon, Handled, Abandoning
<1> QED
  BY <1>2, <1>3, <1>4 DEF Handle

\* The client that the loop is at.
LEMMA HeadConnected ==
  ASSUME Inv, phase = "clients", rest # <<>>
  PROVE  Head(rest) \in Connected /\ Head(rest) \in Fd
<1>1. rest \in Seq(Fd) /\ Entries(rest) \subseteq Connected
  BY DEF Inv, LoopInv
<1>2. Head(rest) = rest[1] /\ 1 \in 1 .. Len(rest)
  BY <1>1
<1> QED
  BY <1>1, <1>2 DEF Entries

\* The steps that look at an entry of pollfds.
EntryStep(c) ==
  /\ phase = "clients" /\ rest # <<>> /\ c = Head(rest)
  /\ NextEntry
  /\ Handled(c) \/ UNCHANGED <<stateVars, bad_free>>

\* An entry of the snapshot with events has one of the effects of its file descriptor.
LEMMA EntryEffect ==
  ASSUME Inv, HungUp \/ Quiet \/ Readable \/ Writable
  PROVE  EntryStep(Head(rest))
<1> DEFINE c == Head(rest)
<1>1. half = "in" /\ phase = "clients" /\ rest # <<>>
  BY DEF Inv, LoopInv, HungUp, Quiet, Readable, Writable, AtEntry
<1>2. c \in Connected /\ c \in Fd
  BY <1>1, HeadConnected
<1>3. CASE HungUp
  BY <1>1, <1>2, <1>3, DisconnectLeaves DEF HungUp, EntryStep, Handled, Gone, Inv
<1>4. CASE Quiet
  BY <1>1, <1>4 DEF Quiet, EntryStep
<1>5. CASE Readable
  <2>1. position \in 1 .. Len(pollfds)
    <3>1. /\ Len(pollfds) = position + Len(rest) - 1 /\ position \in Nat \ {0}
          /\ Len(rest) \in Nat /\ Len(rest) # 0 /\ Len(pollfds) \in Nat
      BY <1>1 DEF Inv, LoopInv
    <3> QED
      BY <3>1
  <2>2. "out" \notin Revents
    BY <1>5, <2>1 DEF Readable, Revents, Inv, LoopInv
  <2>3. NextEntry /\ Handle(c)
    BY <1>5, <2>2 DEF Readable
  <2> QED
    BY <1>1, <1>2, <2>3, HandleEffect DEF EntryStep
<1>6. CASE Writable
  BY <1>1, <1>2, <1>6, HandleEffect DEF Writable, EntryStep
<1> QED
  BY <1>3, <1>4, <1>5, <1>6

\* What any step does to the clients and the streams.
StepEffect ==
  \/ \E c \in Connected : Handled(c)
  \/ \E S : Deleted(S)
  \/ \E c \in Fd : Arrives(c)
  \/ Ages
  \/ ShutsDown

\* Every step has one of the effects of StepEffect.
LEMMA NextEffect ==
  ASSUME Inv, [Next]_vars
  PROVE  StepEffect
<1>1. ASSUME UNCHANGED <<stateVars, bad_free>> PROVE Ages
  BY <1>1 DEF Ages, stateVars, Inv, DataInv
<1>2. CASE HungUp \/ Quiet \/ Readable \/ Writable
  BY <1>1, <1>2, EntryEffect, HeadConnected DEF EntryStep, StepEffect
<1>3. CASE TimerExpired
  <2> DEFINE S == {s \in live : idle[s] > Timeout + 1 /\ \E p \in DOMAIN streams : streams[p] = s}
  <2>1. DeleteStreams(S) /\ bad_free' = bad_free
    BY <1>3 DEF TimerExpired
  <2>2. S \subseteq live /\ \A s \in S : idle[s] > 0
    BY ServerAssumption DEF Inv, DataInv
  <2> HIDE DEF S
  <2>3. Deleted(S)
    BY <2>1, <2>2, DeleteLeaves DEF Deleted, DeleteStreams, Inv
  <2> QED
    BY <2>3 DEF StepEffect
<1>4. CASE Accept
  <2>1. PICK c \in Fd \ Connected :
          /\ clients' \in Orders(Connected \cup {c})
          /\ client' = [client EXCEPT ![c] = Arrived]
    BY <1>4 DEF Accept, Arrived
  <2>2. Connected \cup {c} \subseteq Fd
    BY DEF Inv, DataInv, Connected
  <2>3. IsFiniteSet(Connected \cup {c})
    BY <2>2, ServerAssumption, FS_Subset
  <2>4. /\ clients' \in Seq(Connected \cup {c}) /\ Distinct(clients')
        /\ Entries(clients') = Connected \cup {c}
    BY <2>1, <2>3, OrdersDistinct, Zenon
  <2>5. clients' \in Seq(Fd)
    BY <2>2, <2>4
  <2>6. Arrives(c)
    BY <1>4, <2>1, <2>4, <2>5 DEF Accept, Arrives, Connected, Entries
  <2> QED
    BY <2>6 DEF StepEffect
<1>5. CASE Tick
  <2>1. idle \in [Stream -> 0 .. Timeout + 2] /\ Timeout \in Nat
    BY ServerAssumption DEF Inv, DataInv
  <2> QED
    BY <1>5, <2>1 DEF Tick, Ages, StepEffect
<1>6. CASE Signal
  BY <1>6 DEF Signal, ShutsDown, StepEffect
<1>7. CASE Poll \/ ClientsDone \/ NoTimer \/ NoAccept \/ PollFails \/ AcceptFails \/ UNCHANGED vars
  <2>1. UNCHANGED <<stateVars, bad_free>>
    BY <1>7 DEF Poll, ClientsDone, NoTimer, NoAccept, PollFails, AcceptFails, vars
  <2> QED
    BY <1>1, <2>1 DEF StepEffect
<1> QED
  BY <1>2, <1>3, <1>4, <1>5, <1>6, <1>7 DEF Next, Loop

\* The idle times of the streams stay in their range when a client leaves.
LEMMA SourceGoneType ==
  ASSUME DataInv, NEW c
  PROVE  SourceGone({c}) \in [Stream -> 0 .. Timeout + 2]
BY ServerAssumption DEF SourceGone, DataInv

\* Clients that leave are taken off the list, and leave no trace of them.
LEMMA LeaveKeeps ==
  ASSUME DataInv, NEW C, Leave(C)
  PROVE  /\ clients' \in Seq(Fd) /\ Distinct(clients')
         /\ client' \in [Fd -> ClientType]
         /\ \A c \in Connected' : PolledRight(client'[c])
         /\ \A c \in Fd \ Connected' : client'[c] = Blank
         /\ \A c \in Fd : client'[c].stream \in {client[c].stream, NULL}
<1>1. Connected' \subseteq Fd
  BY DEF Leave, Connected
<1> QED
  BY <1>1, BlankType DEF Leave, DataInv, Blank

\* Every effect keeps the first part of the invariant.
LEMMA DataKept ==
  ASSUME DataInv, StepEffect
  PROVE  DataInv'
<1>1. ASSUME NEW c \in Connected, Served(c), UNCHANGED <<clients, bad_free>>
      PROVE  DataInv'
  <2>1. c \in Fd /\ Connected' = Connected
    BY <1>1 DEF DataInv, Connected
  <2>2. \A d \in Fd : d # c => /\ PolledRight(client[d]) => PolledRight(client'[d])
                               /\ client[d] = Blank => client'[d] = Blank
                               /\ client'[d].stream = client[d].stream
    BY <1>1, WokenFields DEF Served, DataInv
  <2>3. /\ \A d \in Connected' : PolledRight(client'[d])
        /\ \A d \in Fd \ Connected' : client'[d] = Blank
    <3>1. Connected \subseteq Fd
      BY DEF Connected, DataInv
    <3> QED
      BY <1>1, <2>1, <2>2, <3>1 DEF Served, DataInv
  <2>4. /\ DOMAIN streams' \subseteq Path /\ live' \subseteq Stream
        /\ idle' \in [Stream -> 0 .. Timeout + 2]
        /\ ListedLive' /\ live \subseteq live' /\ client'[c].stream \in live' \cup {NULL}
    <3>1. CASE StaysInRole(c)
      BY <3>1, <2>1 DEF StaysInRole, DataInv, ListedLive, NoDanglingStream
    <3>2. CASE BecomesSource(c)
      BY <3>2, ServerAssumption DEF BecomesSource, DataInv, ListedLive, Listed
    <3>3. CASE BecomesViewer(c)
      BY <3>3 DEF BecomesViewer, DataInv, ListedLive
    <3> QED
      BY <1>1, <3>1, <3>2, <3>3 DEF Served
  <2>5. NoDanglingStream'
    BY <2>2, <2>4 DEF DataInv, NoDanglingStream
  <2> QED
    BY <1>1, <2>3, <2>4, <2>5 DEF Served, DataInv
<1>2. ASSUME NEW c \in Connected, Gone(c)
      PROVE  DataInv'
  BY <1>2, LeaveKeeps, SourceGoneType DEF Gone, DataInv, NoDanglingStream, ListedLive
<1>3. ASSUME NEW c \in Connected, Abandoning(c)
      PROVE  DataInv'
  <2>1. PICK s \in Stream \ live, path \in Path :
          streams' = Listed(path, s) /\ live' = live \cup {s}
    BY <1>3 DEF Abandoning
  <2>2. DOMAIN streams' \subseteq Path /\ live' \subseteq Stream /\ ListedLive'
    BY <2>1 DEF Listed, DataInv, ListedLive
  <2> QED
    BY <1>3, <2>1, <2>2, LeaveKeeps, SourceGoneType DEF Abandoning, DataInv, NoDanglingStream
<1>4. ASSUME NEW S, Deleted(S)
      PROVE  DataInv'
  <2>1. ASSUME NEW c \in Fd PROVE client'[c].stream \in live' \cup {NULL}
    <3>1. CASE c \in Attached(S)
      BY <3>1, <1>4 DEF Deleted, Leave, Blank
    <3>2. CASE c \in Connected \ Attached(S)
      BY <3>2, <1>4 DEF Deleted, Leave, Attached, DataInv, NoDanglingStream
    <3>3. CASE c \notin Connected
      BY <3>3, <1>4 DEF Deleted, Leave, Blank, DataInv
    <3> QED
      BY <3>1, <3>2, <3>3
  <2>2. DOMAIN streams' \subseteq Path /\ live' \subseteq Stream /\ ListedLive'
    BY <1>4 DEF Deleted, DataInv, ListedLive
  <2>3. idle' \in [Stream -> 0 .. Timeout + 2] /\ bad_free' \in BOOLEAN
    BY <1>4, ServerAssumption DEF Deleted, DataInv
  <2> QED
    BY <1>4, <2>1, <2>2, <2>3, LeaveKeeps DEF Deleted, DataInv, NoDanglingStream
<1>5. ASSUME NEW c \in Fd, Arrives(c)
      PROVE  DataInv'
  <2>1. Arrived \in ClientType /\ PolledRight(Arrived) /\ Arrived.stream = NULL
    <3>1. Arrived = [state |-> "http_request_headline", poll_for |-> {"in"}, stalled |-> FALSE,
                     request |-> NULL, stream |-> NULL, buffer |-> NULL, moved |-> FALSE]
      <4> DEFINE b == Blank
      <4>1. b = [state |-> "none", poll_for |-> {}, stalled |-> FALSE,
                 request |-> NULL, stream |-> NULL, buffer |-> NULL, moved |-> FALSE]
        BY DEF Blank
      <4> HIDE DEF b
      <4>2. Arrived = [b EXCEPT !.state = "http_request_headline", !.poll_for = {"in"}]
        BY DEF Arrived, b
      <4> QED
        BY <4>1, <4>2
    <3>2. Arrived \in ClientType
      <4>1. {"in"} \in SUBSET {"in", "out"}
        OBVIOUS
      <4> QED
        BY <3>1, <4>1 DEF ClientType
    <3> QED
      BY <3>1, <3>2 DEF PolledRight
  <2>2. Connected' \subseteq Fd
    BY <1>5 DEF Arrives, Connected
  <2>3. \A d \in Fd : client'[d] = IF d = c THEN Arrived ELSE client[d]
    BY <1>5 DEF Arrives, DataInv
  <2>4. client' \in [Fd -> ClientType]
    BY <1>5, <2>1 DEF Arrives, DataInv
  <2>5. NoDanglingStream' /\ ListedLive'
    BY <1>5, <2>1, <2>3 DEF Arrives, DataInv, NoDanglingStream, ListedLive
  <2>6. /\ \A d \in Connected' : PolledRight(client'[d])
        /\ \A d \in Fd \ Connected' : client'[d] = Blank
    BY <1>5, <2>1, <2>2, <2>3 DEF Arrives, DataInv
  <2> QED
    BY <1>5, <2>4, <2>5, <2>6 DEF Arrives, DataInv
<1>6. CASE Ages
  BY <1>6 DEF Ages, DataInv, NoDanglingStream, ListedLive, Connected
<1>7. CASE ShutsDown
  <2>1. Connected' = {} /\ clients' \in Seq(Fd) /\ Distinct(clients')
    BY <1>7 DEF ShutsDown, Connected, Distinct
  <2> QED
    BY <1>7, <2>1, BlankType DEF ShutsDown, DataInv, NoDanglingStream, ListedLive, Blank
<1> QED
  BY <1>1, <1>2, <1>3, <1>4, <1>5, <1>6, <1>7 DEF StepEffect, Handled

\* A step for an entry leaves the entries that follow aligned with what is left of
\* the iteration, and their clients connected.
LEMMA EntryKeeps ==
  ASSUME Inv, NEW c, EntryStep(c)
  PROVE  LoopInv'
<1>1. /\ rest \in Seq(Fd) /\ rest # <<>> /\ Distinct(rest) /\ Entries(rest) \subseteq Connected
      /\ position \in Nat \ {0} /\ Len(pollfds) = position + Len(rest) - 1
      /\ \A i \in 1 .. Len(rest) : pollfds[position + i - 1].fd = rest[i]
  BY DEF Inv, LoopInv, EntryStep
<1>2. /\ rest' = Tail(rest) /\ position' = position + 1 /\ half' = "in"
      /\ UNCHANGED <<phase, ready, pollfds, expired>>
  BY DEF EntryStep, NextEntry
<1>3. /\ rest' \in Seq(Fd) /\ Len(rest') = Len(rest) - 1 /\ Len(rest) \in Nat
      /\ \A i \in 1 .. Len(rest') : i + 1 \in 1 .. Len(rest) /\ rest'[i] = rest[i + 1]
      /\ c = rest[1] /\ 1 \in 1 .. Len(rest)
  BY <1>1, <1>2 DEF EntryStep
<1>4. Connected \ {c} \subseteq Connected'
  <2>1. CASE UNCHANGED clients
    BY <2>1 DEF Connected
  <2>2. CASE Leave({c})
    BY <2>2 DEF Leave
  <2> QED
    BY <2>1, <2>2 DEF EntryStep, Handled, Gone, Abandoning, stateVars
<1>5. Distinct(rest')
  <2> SUFFICES ASSUME NEW i \in 1 .. Len(rest'), NEW j \in 1 .. Len(rest'), rest'[i] = rest'[j]
               PROVE  i = j
    BY DEF Distinct
  <2>1. i + 1 \in 1 .. Len(rest) /\ j + 1 \in 1 .. Len(rest) /\ rest[i + 1] = rest[j + 1]
    BY <1>3
  <2>2. i + 1 = j + 1
    BY <1>1, <2>1 DEF Distinct
  <2> QED
    BY <2>2
<1>6. Entries(rest') \subseteq Connected'
  <2>1. ASSUME NEW i \in 1 .. Len(rest') PROVE rest'[i] \in Connected'
    <3>1. rest'[i] \in Entries(rest)
      BY <1>3 DEF Entries
    <3>2. rest'[i] # c
      BY <1>1, <1>3 DEF Distinct
    <3> QED
      BY <1>1, <1>4, <3>1, <3>2
  <2> QED
    BY <2>1 DEF Entries
<1>7. \A i \in 1 .. Len(rest') : pollfds'[position' + i - 1].fd = rest'[i]
  <2> SUFFICES ASSUME NEW i \in 1 .. Len(rest')
               PROVE  pollfds'[position' + i - 1].fd = rest'[i]
    OBVIOUS
  <2>1. position' + i - 1 = position + (i + 1) - 1
    BY <1>1, <1>2
  <2> QED
    BY <1>1, <1>2, <1>3, <2>1
<1>8. Len(pollfds') = position' + Len(rest') - 1
  <2>1. Len(pollfds') = position + Len(rest) - 1 /\ position \in Nat /\ Len(rest) \in Nat
    BY <1>1, <1>2
  <2>2. position' = position + 1 /\ Len(rest') = Len(rest) - 1
    BY <1>2, <1>3
  <2> QED
    BY <2>1, <2>2
<1>9. /\ pollfds' \in Seq([fd : Fd, revents : SUBSET {"in", "out", "hup"}])
      /\ \A i \in 1 .. Len(pollfds') : ~({"in", "out"} \subseteq pollfds'[i].revents)
      /\ phase' \in {"poll", "clients", "timer", "accept", "stopped"}
      /\ ready' \subseteq {"timer", "accept"} /\ expired' \in BOOLEAN
      /\ position' \in Nat \ {0}
  BY <1>1, <1>2 DEF Inv, LoopInv
<1> QED
  BY <1>2, <1>3, <1>5, <1>6, <1>7, <1>8, <1>9 DEF LoopInv

\* A new snapshot has the entry of each client at its place.
LEMMA PollKeeps ==
  ASSUME Inv, Poll
  PROVE  LoopInv'
<1>1. PICK events \in [1 .. Len(clients) -> SUBSET {"in", "out", "hup"}] :
        /\ \A i \in 1 .. Len(clients) :
             events[i] \subseteq client[clients[i]].poll_for \cup {"hup"}
        /\ pollfds' = [i \in 1 .. Len(clients) |->
                         [fd |-> clients[i], revents |-> events[i]]]
  BY DEF Poll
<1>2. /\ phase' = "clients" /\ rest' = clients' /\ position' = 1 /\ half' = "in"
      /\ clients' = clients /\ expired' = expired
  BY DEF Poll, Proceed, Following, stateVars
<1>3. ready' \subseteq {"timer", "accept"}
  BY DEF Poll
<1>4. clients \in Seq(Fd) /\ Distinct(clients) /\ Len(clients) \in Nat
  BY DEF Inv, DataInv
<1>5. /\ pollfds' \in Seq([fd : Fd, revents : SUBSET {"in", "out", "hup"}])
      /\ Len(pollfds') = Len(clients)
  BY <1>1, <1>4
<1>6. ASSUME NEW i \in 1 .. Len(pollfds') PROVE ~({"in", "out"} \subseteq pollfds'[i].revents)
  <2>1. clients[i] \in Connected /\ clients[i] \in Fd /\ i \in 1 .. Len(clients)
    BY <1>4, <1>5 DEF Connected
  <2>2. PolledRight(client[clients[i]]) /\ client[clients[i]].poll_for \subseteq {"in", "out"}
    BY <2>1, ClientFields DEF Inv, DataInv
  <2>3. pollfds'[i].revents \subseteq client[clients[i]].poll_for \cup {"hup"}
    BY <1>1, <2>1
  <2> QED
    BY <2>2, <2>3 DEF PolledRight
<1>7. \A i \in 1 .. Len(rest') : pollfds'[position' + i - 1].fd = rest'[i]
  BY <1>1, <1>2, <1>4
<1>8. Entries(rest') \subseteq Connected'
  BY <1>2 DEF Entries, Connected
<1>9. Len(pollfds') = position' + Len(rest') - 1
  BY <1>2, <1>4, <1>5
<1> QED
  BY <1>2, <1>3, <1>4, <1>5, <1>6, <1>7, <1>8, <1>9 DEF LoopInv, Inv

\* Every step keeps the part about the snapshot.
LEMMA LoopKept ==
  ASSUME Inv, [Next]_vars
  PROVE  LoopInv'
<1>1. CASE HungUp \/ Quiet \/ Readable \/ Writable
  BY <1>1, EntryEffect, EntryKeeps
<1>2. CASE Poll
  BY <1>2, PollKeeps
<1>3. CASE ClientsDone \/ TimerExpired \/ NoTimer \/ Accept \/ NoAccept
  <2>1. /\ phase \in {"clients", "timer", "accept"} /\ Proceed
        /\ pollfds' \in {pollfds, <<>>} /\ ready' \in {ready, {}} /\ expired' \in {expired, FALSE}
    BY <1>3 DEF ClientsDone, TimerExpired, NoTimer, Accept, NoAccept
  <2>2. /\ phase' \in {"timer", "accept", "poll"} /\ rest' = <<>> /\ position' = 1 /\ half' = "in"
    BY <2>1 DEF Proceed, Following
  <2>3. /\ pollfds' \in Seq([fd : Fd, revents : SUBSET {"in", "out", "hup"}])
        /\ \A i \in 1 .. Len(pollfds') : ~({"in", "out"} \subseteq pollfds'[i].revents)
    <3>1. CASE pollfds' = pollfds
      BY <3>1 DEF Inv, LoopInv
    <3>2. CASE pollfds' = <<>>
      BY <3>2
    <3> QED
      BY <2>1, <3>1, <3>2
  <2>4. ready' \subseteq {"timer", "accept"} /\ expired' \in BOOLEAN
    BY <2>1 DEF Inv, LoopInv
  <2>5. rest' \in Seq(Fd) /\ phase' # "clients" /\ position' \in Nat \ {0}
    BY <2>2
  <2> QED
    BY <2>2, <2>3, <2>4, <2>5 DEF LoopInv
<1>4. CASE Signal \/ PollFails \/ AcceptFails
  BY <1>4 DEF Signal, PollFails, AcceptFails, Inv, LoopInv
<1>5. CASE Tick
  BY <1>5 DEF Tick, loopVars, Inv, LoopInv
<1>6. CASE UNCHANGED vars
  BY <1>6 DEF vars, loopVars, stateVars, Inv, LoopInv, Connected
<1> QED
  BY <1>1, <1>2, <1>3, <1>4, <1>5, <1>6 DEF Next, Loop

\* The invariant holds in the beginning.
LEMMA InvInit == Init => Inv
<1> SUFFICES ASSUME Init PROVE Inv
  OBVIOUS
<1>1. Connected = {} /\ clients \in Seq(Fd) /\ Distinct(clients)
  <2>1. clients = <<>>
    BY DEF Init
  <2> QED
    BY <2>1 DEF Connected, Distinct
<1>2. DataInv
  <2>1. /\ client = [c \in Fd |-> Blank] /\ streams = [p \in {} |-> NULL] /\ live = {}
        /\ idle = [s \in Stream |-> 0] /\ bad_free = FALSE
    BY DEF Init
  <2>2. client \in [Fd -> ClientType] /\ \A c \in Fd : client[c].stream = NULL
    BY <2>1, BlankType DEF Blank
  <2>3. idle \in [Stream -> 0 .. Timeout + 2]
    BY <2>1, ServerAssumption
  <2>4. DOMAIN streams = {}
    BY <2>1
  <2> QED
    BY <1>1, <2>1, <2>2, <2>3, <2>4 DEF DataInv, NoDanglingStream, ListedLive
<1>3. LoopInv
  <2>1. /\ phase = "poll" /\ ready = {} /\ pollfds = <<>> /\ rest = <<>> /\ position = 1
        /\ half = "in" /\ expired = FALSE
    BY DEF Init
  <2>2. /\ pollfds \in Seq([fd : Fd, revents : SUBSET {"in", "out", "hup"}])
        /\ Len(pollfds) = 0 /\ rest \in Seq(Fd)
    BY <2>1
  <2>3. /\ phase \in {"poll", "clients", "timer", "accept", "stopped"} /\ phase # "clients"
        /\ ready \subseteq {"timer", "accept"} /\ position \in Nat \ {0}
    BY <2>1
  <2>4. expired \in BOOLEAN
    BY <2>1
  <2>5. \A i \in 1 .. Len(pollfds) : ~({"in", "out"} \subseteq pollfds[i].revents)
    BY <2>2
  <2> QED
    BY <2>1, <2>2, <2>3, <2>4, <2>5, Zenon DEF LoopInv
<1> QED
  BY <1>2, <1>3 DEF Inv

\* Every step keeps the invariant.
LEMMA InvStep == Inv /\ [Next]_vars => Inv'
BY NextEffect, DataKept, LoopKept DEF Inv

\* The invariant always holds.
LEMMA InvAlways == Spec => []Inv
BY InvInit, InvStep, PTL DEF Spec

-----------------------------------------------------------------------------
(* Theorems *)

\* The variables of main and client_t keep their types: a client that sends or receives a
\* stream has one, in whatever order connections come, go and are served.
THEOREM TypeCorrect == Spec => []TypeOK
BY InvAlways, InvTypeOK, PTL

\* The handler is called with the events of the client that it is called for, for any number
\* of clients that leave or are served before it in the same iteration.
THEOREM SnapshotStaysAligned == Spec => []SnapshotAligned
<1>1. Inv => SnapshotAligned
  <2> SUFFICES ASSUME Inv, phase = "clients", NEW i \in 1 .. Len(rest)
               PROVE  /\ position + i - 1 <= Len(pollfds)
                      /\ pollfds[position + i - 1].fd = rest[i]
    BY DEF SnapshotAligned
  <2>1. rest \in Seq(Fd) /\ position \in Nat /\ Len(pollfds) = position + Len(rest) - 1
    BY DEF Inv, LoopInv
  <2>2. position + i - 1 <= Len(pollfds)
    BY <2>1
  <2> QED
    BY <2>2 DEF Inv, LoopInv
<1> QED
  BY <1>1, InvAlways, PTL

\* No client is both read from and written to for one entry, so a disconnect in the first
\* half never leaves a second one to a client that is gone.
THEOREM NeverCalledAfterDisconnect == Spec => []NoCallAfterDisconnect
<1>1. Inv => NoCallAfterDisconnect
  BY DEF Inv, LoopInv, NoCallAfterDisconnect
<1> QED
  BY <1>1, InvAlways, PTL

\* A client that nothing is polled for is a viewer that ran out of data.
THEOREM OnlyViewersAreSilent == Spec => []SilentClientsWait
<1>1. Inv => SilentClientsWait
  BY DEF Inv, DataInv, SilentClientsWait, PolledRight
<1> QED
  BY <1>1, InvAlways, PTL

\* However many streams expire at the same time, and whoever joined them meanwhile: no client
\* keeps a stream that was freed.
THEOREM StreamsFreedLast == Spec => []NoDanglingStream
<1>1. Inv => NoDanglingStream
  BY DEF Inv, DataInv
<1> QED
  BY <1>1, InvAlways, PTL

-----------------------------------------------------------------------------
(* The sources and the viewers of a stream *)

Viewers(s) == {c \in Connected : client[c].state = "send_stream" /\ client[c].stream = s}

\* A call of the handler leaves the other clients in their roles.
LEMMA OthersKeepRoles ==
  ASSUME Inv, NEW c \in Connected, Served(c), UNCHANGED clients, NEW s \in Stream
  PROVE  /\ Connected' = Connected
         /\ Sources(s)' \ {c} = Sources(s) \ {c}
         /\ Viewers(s)' \ {c} = Viewers(s) \ {c}
         /\ c \in Sources(s)' <=> client'[c].state \in Receiving /\ client'[c].stream = s
         /\ c \in Viewers(s)' <=> client'[c].state = "send_stream" /\ client'[c].stream = s
<1>1. Connected' = Connected /\ Connected \subseteq Fd
  BY DEF Connected, Inv, DataInv
<1>2. \A d \in Connected : d # c => client'[d].state = client[d].state
                                     /\ client'[d].stream = client[d].stream
  BY <1>1, WokenFields DEF Served, Inv, DataInv
<1> QED
  BY <1>1, <1>2 DEF Sources, Viewers

\* Clients that are disconnected lose their roles, and the others keep theirs.
LEMMA LeaveRoles ==
  ASSUME Inv, NEW C, Leave(C), NEW s \in Stream
  PROVE  Sources(s)' = Sources(s) \ C /\ Viewers(s)' = Viewers(s) \ C
<1>1. Connected' = Connected \ C /\ Connected \subseteq Fd
  <2>1. Connected \subseteq Fd
    BY DEF Connected, Inv, DataInv
  <2> QED
    BY <2>1 DEF Leave
<1>2. \A d \in Connected' : client'[d] = client[d]
  BY <1>1 DEF Leave
<1> QED
  BY <1>1, <1>2 DEF Sources, Viewers

\* A new connection has no role yet.
LEMMA ArrivesRoles ==
  ASSUME Inv, NEW c \in Fd, Arrives(c), NEW s \in Stream
  PROVE  Sources(s)' = Sources(s) /\ Viewers(s)' = Viewers(s)
<1>1. /\ Connected' = Connected \cup {c} /\ c \notin Connected
      /\ \A d \in Fd : client'[d] = IF d = c THEN Arrived ELSE client[d]
  BY DEF Arrives, Inv, DataInv
<1>2. Arrived.state = "http_request_headline"
  BY DEF Arrived, Blank
<1>3. Connected \subseteq Fd
  BY DEF Connected, Inv, DataInv
<1> QED
  BY <1>1, <1>2, <1>3 DEF Sources, Viewers, Receiving

\* What leave_receive_stream does to the time of a stream.
LEMMA SourceGoneIs ==
  ASSUME Inv, NEW c \in Connected, NEW s \in Stream
  PROVE  SourceGone({c})[s] = IF c \in Sources(s) THEN 1 ELSE idle[s]
BY DEF SourceGone, Sources

\* No client is source and viewer of a stream.
LEMMA RolesApart ==
  ASSUME NEW s
  PROVE  Sources(s) \cap Viewers(s) = {}
BY DEF Sources, Viewers, Receiving

\* A step that changes neither a stream nor who uses it is none of its life.
LEMMA LifeStutters ==
  ASSUME NEW s \in Stream, s \in live' <=> s \in live, idle'[s] > 0 <=> idle[s] > 0,
         Sources(s)' = Sources(s), Viewers(s)' = Viewers(s)
  PROVE  [Life(s)!Next]_(Life(s)!vars)
BY DEF Life!vars, Viewers

\* A call of the handler, for each stream.
LEMMA ServedLife ==
  ASSUME Inv, NEW c \in Connected, Served(c), UNCHANGED clients, NEW s \in Stream
  PROVE  [Life(s)!Next]_(Life(s)!vars)
<1>1. /\ Connected' = Connected
      /\ Sources(s)' \ {c} = Sources(s) \ {c} /\ Viewers(s)' \ {c} = Viewers(s) \ {c}
      /\ c \in Sources(s)' <=> client'[c].state \in Receiving /\ client'[c].stream = s
      /\ c \in Viewers(s)' <=> client'[c].state = "send_stream" /\ client'[c].stream = s
  BY OthersKeepRoles
<1>2. c \in Fd /\ NULL # s /\ idle \in [Stream -> 0 .. Timeout + 2]
  BY ServerAssumption DEF Connected, Inv, DataInv
<1>3. CASE StaysInRole(c)
  <2>1. Sources(s)' = Sources(s) /\ Viewers(s)' = Viewers(s)
    BY <1>1, <1>3 DEF StaysInRole, Sources, Viewers
  <2> QED
    BY <1>3, <2>1, LifeStutters DEF StaysInRole
<1>4. CASE BecomesSource(c)
  <2>1. PICK t \in Stream :
          /\ client'[c].state \in Receiving /\ client'[c].stream = t
          /\ live' = live \cup {t}
          /\ idle' = [idle EXCEPT ![t] = 0]
    BY <1>4 DEF BecomesSource
  <2>2. c \notin Sources(s) /\ c \notin Viewers(s)
    BY <1>2, <1>4 DEF BecomesSource, Sources, Viewers
  <2>3. Viewers(s)' = Viewers(s)
    BY <1>1, <2>1, <2>2 DEF Receiving
  <2>4. CASE t # s
    <3>1. Sources(s)' = Sources(s)
      BY <1>1, <2>1, <2>2, <2>4
    <3> QED
      BY <1>2, <2>1, <2>3, <2>4, <3>1, LifeStutters
  <2>5. CASE t = s
    <3>1. Sources(s)' = Sources(s) \cup {c}
      BY <1>1, <2>1, <2>2, <2>5
    <3>2. s \in live' /\ idle'[s] = 0
      BY <1>2, <2>1, <2>5
    <3>3. Life(s)!SourceJoins(c)
      BY <2>2, <2>3, <3>1, <3>2 DEF Life!SourceJoins, Viewers
    <3> QED
      BY <1>2, <3>3 DEF Life!Next
  <2> QED
    BY <2>4, <2>5
<1>5. CASE BecomesViewer(c)
  <2> DEFINE t == client'[c].stream
  <2>1. c \notin Sources(s) /\ c \notin Viewers(s)
    BY <1>2, <1>5 DEF BecomesViewer, Sources, Viewers
  <2>2. Sources(s)' = Sources(s)
    BY <1>1, <1>5, <2>1 DEF BecomesViewer, Receiving
  <2>3. CASE t # s
    <3>1. Viewers(s)' = Viewers(s)
      BY <1>1, <2>1, <2>3
    <3> QED
      BY <1>5, <2>2, <3>1, LifeStutters DEF BecomesViewer
  <2>4. CASE t = s
    <3>1. Viewers(s)' = Viewers(s) \cup {c}
      BY <1>1, <1>5, <2>1, <2>4 DEF BecomesViewer
    <3>2. s \in live /\ UNCHANGED <<live, idle>>
      BY <1>5, <2>4 DEF BecomesViewer
    <3>3. Life(s)!ViewerJoins(c)
      BY <2>1, <2>2, <3>1, <3>2 DEF Life!ViewerJoins, Viewers
    <3> QED
      BY <1>2, <3>3 DEF Life!Next
  <2> QED
    BY <2>3, <2>4
<1> QED
  BY <1>3, <1>4, <1>5 DEF Served

\* A disconnect, for each stream.
LEMMA GoneLife ==
  ASSUME Inv, NEW c \in Connected, Gone(c), NEW s \in Stream
  PROVE  [Life(s)!Next]_(Life(s)!vars)
<1>1. /\ Sources(s)' = Sources(s) \ {c} /\ Viewers(s)' = Viewers(s) \ {c}
      /\ idle'[s] = IF c \in Sources(s) THEN 1 ELSE idle[s]
      /\ live' = live
  BY LeaveRoles, SourceGoneIs DEF Gone
<1>2. c \in Fd
  BY DEF Connected, Inv, DataInv
<1>3. CASE c \in Sources(s)
  <2>1. c \notin Viewers(s)
    BY <1>3, RolesApart
  <2>2. Life(s)!SourceLeaves(c)
    BY <1>1, <1>3, <2>1 DEF Life!SourceLeaves, Viewers
  <2> QED
    BY <1>2, <2>2 DEF Life!Next
<1>4. CASE c \in Viewers(s)
  <2>1. c \notin Sources(s)
    BY <1>4, RolesApart
  <2>2. Life(s)!ViewerLeaves(c)
    BY <1>1, <1>4, <2>1 DEF Life!ViewerLeaves, Viewers
  <2> QED
    BY <1>2, <2>2 DEF Life!Next
<1>5. CASE c \notin Sources(s) \cup Viewers(s)
  BY <1>1, <1>5, LifeStutters
<1> QED
  BY <1>3, <1>4, <1>5

\* A source that cannot be set up is a step in the life of the stream it made, or none.
LEMMA AbandoningLife ==
  ASSUME Inv, NEW c \in Connected, Abandoning(c), NEW s \in Stream
  PROVE  [Life(s)!Next]_(Life(s)!vars)
<1>1. c \notin Sources(s) /\ c \notin Viewers(s)
  <2>1. client[c].stream = NULL /\ NULL # s
    BY ServerAssumption DEF Abandoning
  <2> QED
    BY <2>1 DEF Sources, Viewers
<1>2. Sources(s)' = Sources(s) /\ Viewers(s)' = Viewers(s) /\ idle'[s] = idle[s]
  <2>1. Leave({c}) /\ idle' = SourceGone({c})
    BY DEF Abandoning
  <2>2. Sources(s)' = Sources(s) \ {c} /\ Viewers(s)' = Viewers(s) \ {c}
    BY <2>1, LeaveRoles
  <2>3. idle'[s] = idle[s]
    BY <1>1, <2>1, SourceGoneIs
  <2> QED
    BY <1>1, <2>2, <2>3
<1>3. PICK t \in Stream \ live : live' = live \cup {t}
  BY DEF Abandoning
<1>4. CASE t # s
  BY <1>2, <1>3, <1>4, LifeStutters
<1>5. CASE t = s
  <2>1. Life(s)!Abandoned
    BY <1>2, <1>3, <1>5 DEF Life!Abandoned, Viewers
  <2> QED
    BY <2>1 DEF Life!Next
<1> QED
  BY <1>4, <1>5

\* So is its deletion by the poll loop, once it has expired.
LEMMA DeletedLife ==
  ASSUME Inv, NEW S, Deleted(S), NEW s \in Stream
  PROVE  [Life(s)!Next]_(Life(s)!vars)
<1>1. /\ Sources(s)' = Sources(s) \ Attached(S) /\ Viewers(s)' = Viewers(s) \ Attached(S)
      /\ idle'[s] = IF s \in S THEN 0 ELSE idle[s]
      /\ live' = live \ S
  BY LeaveRoles DEF Deleted
<1>2. CASE s \in S
  <2>1. Sources(s)' = {} /\ Viewers(s)' = {}
    BY <1>1, <1>2 DEF Attached, Sources, Viewers
  <2>2. s \in live /\ idle[s] > 0 /\ s \notin live' /\ ~(idle'[s] > 0)
    BY <1>1, <1>2 DEF Deleted
  <2>3. Life(s)!Delete
    BY <2>1, <2>2 DEF Life!Delete, Viewers
  <2> QED
    BY <2>3 DEF Life!Next
<1>3. CASE s \notin S
  <2>1. Sources(s)' = Sources(s) /\ Viewers(s)' = Viewers(s)
    BY <1>1, <1>3 DEF Attached, Sources, Viewers
  <2> QED
    BY <1>1, <1>3, <2>1, LifeStutters
<1> QED
  BY <1>2, <1>3

\* Every step is one of the life of each stream, or none.
LEMMA LifeStep ==
  ASSUME Inv, StepEffect, phase' # "stopped", NEW s \in Stream
  PROVE  [Life(s)!Next]_(Life(s)!vars)
<1>1. ASSUME NEW c \in Fd, Arrives(c) PROVE [Life(s)!Next]_(Life(s)!vars)
  BY <1>1, ArrivesRoles, LifeStutters DEF Arrives
<1>2. CASE Ages
  <2>1. Sources(s)' = Sources(s) /\ Viewers(s)' = Viewers(s)
    BY <1>2 DEF Ages, Sources, Viewers, Connected
  <2> QED
    BY <1>2, <2>1, LifeStutters DEF Ages
<1> QED
  BY <1>1, <1>2, ServedLife, GoneLife, AbandoningLife, DeletedLife
     DEF StepEffect, Handled, ShutsDown

\* What the poll loop, the handlers and the timer do, with any number of connections and
\* streams and with a failing fcntl too, is for each stream what StreamLife says: what the
\* data plane takes for granted.
THEOREM ImplementsLife == Spec => StreamLifeSpec
<1>1. Init => \A s \in Stream : Life(s)!Init
  <2> SUFFICES ASSUME Init, NEW s \in Stream PROVE Life(s)!Init
    OBVIOUS
  <2>1. live = {} /\ idle[s] = 0 /\ clients = <<>>
    BY DEF Init
  <2>2. Connected = {}
    BY <2>1 DEF Connected
  <2> QED
    BY <2>1, <2>2 DEF Life!Init, Sources
<1>2. Inv /\ [Next]_vars
        => [phase' # "stopped" => \A s \in Stream : [Life(s)!Next]_(Life(s)!vars)]_vars
  BY NextEffect, LifeStep
<1> QED
  BY <1>1, <1>2, InvAlways, PTL DEF Spec, StreamLifeSpec

\* Once the loop is left nothing happens any more.
LEMMA StoppedStays ==
  ASSUME [Next]_vars, phase' # "stopped"
  PROVE  phase # "stopped" /\ ~ShutsDown
BY DEF Next, Loop, Poll, HungUp, Quiet, Readable, Writable, AtEntry, ClientsDone, TimerExpired,
       NoTimer, Accept, NoAccept, Signal, PollFails, AcceptFails, Tick, vars, loopVars, ShutsDown

\* If requests have no escapes in their paths, every stream that is allocated is in the dict
\* of the streams, also one whose source could not stay: none is lost (client.c:253, 767-783).
THEOREM EveryStreamListed ==
  ASSUME \A p \in Path : Decode[p] = p
  PROVE  Spec => []AllStreamsListed
<1> DEFINE Lists == live = {streams[p] : p \in DOMAIN streams}
<1>1. ASSUME Inv, NEW path \in Path, ~Found(path) PROVE path \notin DOMAIN streams
  BY <1>1, ServerAssumption DEF Found, StreamAt, Inv, DataInv, ListedLive
<1>2. ASSUME Inv, Lists, NEW path \in Path, NEW s, ~Found(path),
             streams' = Listed(path, s), live' = live \cup {s}
      PROVE  Lists'
  <2>1. path \notin DOMAIN streams
    BY <1>1, <1>2
  <2>2. /\ DOMAIN streams' = DOMAIN streams \cup {path} /\ streams'[path] = s
        /\ \A p \in DOMAIN streams : streams'[p] = streams[p]
    BY <1>2, <2>1 DEF Listed
  <2> QED
    BY <1>2, <2>2
<1>3. Init => AllStreamsListed
  BY DEF Init, AllStreamsListed
<1>4. ASSUME Inv, AllStreamsListed, [Next]_vars, phase' # "stopped"
      PROVE  Lists'
  <2>1. Lists /\ StepEffect /\ ~ShutsDown
    BY <1>4, NextEffect, StoppedStays DEF AllStreamsListed
  <2>2. ASSUME NEW c \in Connected, Served(c) PROVE Lists'
    <3>1. CASE UNCHANGED <<streams, live>>
      BY <2>1, <3>1
    <3>2. CASE BecomesSource(c)
      <4>1. PICK s \in Stream, path \in Path :
              /\ live' = live \cup {s}
              /\ \/ s \in live /\ streams' = streams
                 \/ s \notin live /\ ~Found(path) /\ streams' = Listed(path, s)
        BY <3>2 DEF BecomesSource
      <4> QED
        BY <1>2, <1>4, <2>1, <4>1
    <3> QED
      BY <2>2, <3>1, <3>2 DEF Served, StaysInRole, BecomesViewer
  <2>3. ASSUME NEW c \in Connected, Abandoning(c) PROVE Lists'
    BY <1>2, <1>4, <2>1, <2>3 DEF Abandoning
  <2>4. ASSUME NEW S, Deleted(S) PROVE Lists'
    BY <2>1, <2>4 DEF Deleted
  <2>5. CASE UNCHANGED <<streams, live>>
    BY <2>1, <2>5
  <2> QED
    BY <2>1, <2>2, <2>3, <2>4, <2>5 DEF StepEffect, Handled, Gone, Arrives, Ages
<1>5. Inv /\ AllStreamsListed /\ [Next]_vars => AllStreamsListed'
  BY <1>4 DEF AllStreamsListed
<1> QED
  BY <1>3, <1>5, InvAlways, PTL DEF Spec

\* If a new source can always be made non-blocking, a stream that nobody sends to knows it, so
\* that the timer deletes it in the end.
THEOREM SourcelessStreamsAge ==
  ASSUME ~FcntlFails
  PROVE  Spec => []SourcelessStreamsIdle
<1> DEFINE Aging == \A s \in live : Sources(s) = {} => idle[s] > 0
<1>1. Init => SourcelessStreamsIdle
  BY DEF Init, SourcelessStreamsIdle
<1>2. ASSUME Inv, SourcelessStreamsIdle, [Next]_vars, phase' # "stopped"
      PROVE  Aging'
  <2>1. Aging /\ StepEffect /\ ~ShutsDown /\ live \subseteq Stream
    BY <1>2, NextEffect, StoppedStays DEF SourcelessStreamsIdle, Inv, DataInv
  <2>2. ASSUME NEW c \in Connected, Served(c), UNCHANGED clients PROVE Aging'
    <3> SUFFICES ASSUME NEW s \in live', s \in Stream, Sources(s)' = {} PROVE idle'[s] > 0
      BY <1>2, <2>1, NextEffect, DataKept DEF Inv, DataInv
    <3>1. /\ Sources(s)' \ {c} = Sources(s) \ {c}
          /\ c \in Sources(s)' <=> client'[c].state \in Receiving /\ client'[c].stream = s
      BY <1>2, <2>2, OthersKeepRoles
    <3>2. CASE StaysInRole(c) \/ BecomesViewer(c)
      <4>1. c \notin Sources(s)
        <5>1. c \in Sources(s) => client[c].state \in Receiving /\ client[c].stream = s
          BY DEF Sources
        <5>2. NULL # s
          BY ServerAssumption
        <5> QED
          BY <3>1, <3>2, <5>1, <5>2 DEF StaysInRole, BecomesViewer
      <4> QED
        BY <2>1, <3>1, <3>2, <4>1 DEF StaysInRole, BecomesViewer
    <3>3. CASE BecomesSource(c)
      <4>1. PICK t \in Stream :
              /\ client'[c].state \in Receiving /\ client'[c].stream = t
              /\ live' = live \cup {t} /\ idle' = [idle EXCEPT ![t] = 0]
        BY <3>3 DEF BecomesSource
      <4>2. s # t
        BY <3>1, <4>1
      <4>3. c \notin Sources(s)
        BY <3>3, ServerAssumption DEF BecomesSource, Sources
      <4>4. s \in live /\ Sources(s) = {}
        BY <3>1, <4>1, <4>2, <4>3
      <4>5. idle'[s] = idle[s]
        BY <1>2, <4>1, <4>2 DEF Inv, DataInv
      <4> QED
        BY <2>1, <4>4, <4>5
    <3> QED
      BY <2>2, <3>2, <3>3 DEF Served
  <2>3. ASSUME NEW c \in Connected, Gone(c) PROVE Aging'
    BY <1>2, <2>1, <2>3, LeaveRoles, SourceGoneIs DEF Gone
  <2>4. ASSUME NEW S, Deleted(S) PROVE Aging'
    <3> SUFFICES ASSUME NEW s \in live', Sources(s)' = {} PROVE idle'[s] > 0
      OBVIOUS
    <3>1. s \in live /\ s \notin S /\ s \in Stream
      BY <2>1, <2>4 DEF Deleted
    <3>2. Sources(s)' = Sources(s)
      BY <1>2, <2>4, <3>1, LeaveRoles DEF Deleted, Attached, Sources
    <3> QED
      BY <2>1, <2>4, <3>1, <3>2 DEF Deleted
  <2>5. ASSUME NEW c \in Fd, Arrives(c) PROVE Aging'
    BY <1>2, <2>1, <2>5, ArrivesRoles DEF Arrives
  <2>6. CASE Ages
    <3>1. \A s \in Stream : Sources(s)' = Sources(s)
      BY <2>6 DEF Ages, Sources, Connected
    <3> QED
      BY <2>1, <2>6, <3>1 DEF Ages
  <2> QED
    BY <2>1, <2>2, <2>3, <2>4, <2>5, <2>6 DEF StepEffect, Handled, Abandoning
<1>3. Inv /\ SourcelessStreamsIdle /\ [Next]_vars => SourcelessStreamsIdle'
  BY <1>2 DEF SourcelessStreamsIdle
<1> QED
  BY <1>1, <1>3, InvAlways, PTL DEF Spec

=============================================================================
