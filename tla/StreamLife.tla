----------------------------- MODULE StreamLife -----------------------------
(***************************************************************************)
(* The life of one stream as its clients see it.  It is what the control   *)
(* plane (Server) and the data plane (StreamBuffers) have in common: both  *)
(* implement it, so the steps that one takes for granted are the steps     *)
(* that the other one takes.                                               *)
(***************************************************************************)
CONSTANT Client

VARIABLES
  exists,   \* the stream is in the list of streams
  idle,     \* a source has left and none came since
  sources,
  viewers

vars == <<exists, idle, sources, viewers>>

\* The first source creates the stream, a later one resumes it.
SourceJoins(c) ==
  /\ c \notin sources \cup viewers
  /\ exists' = TRUE
  /\ idle' = FALSE
  /\ sources' = sources \cup {c}
  /\ viewers' = viewers

\* The source that created it could not stay: a stream, but not one that waits for its
\* source to come back (client.c:262).
Abandoned ==
  /\ ~exists
  /\ exists' = TRUE
  /\ UNCHANGED <<idle, sources, viewers>>

SourceLeaves(c) ==
  /\ c \in sources
  /\ sources' = sources \ {c}
  /\ idle' = TRUE
  /\ UNCHANGED <<exists, viewers>>

\* There may be nobody who sends; viewers wait for the next source.
ViewerJoins(c) ==
  /\ exists
  /\ c \notin sources \cup viewers
  /\ viewers' = viewers \cup {c}
  /\ UNCHANGED <<exists, idle, sources>>

ViewerLeaves(c) ==
  /\ c \in viewers
  /\ viewers' = viewers \ {c}
  /\ UNCHANGED <<exists, idle, sources>>

\* Nobody is left behind by a stream that is deleted.
Delete ==
  /\ exists /\ idle
  /\ exists' = FALSE
  /\ idle' = FALSE
  /\ sources' = {}
  /\ viewers' = {}

Init ==
  /\ exists = FALSE
  /\ idle = FALSE
  /\ sources = {}
  /\ viewers = {}

Next ==
  \/ \E c \in Client : \/ SourceJoins(c)
                       \/ SourceLeaves(c)
                       \/ ViewerJoins(c)
                       \/ ViewerLeaves(c)
  \/ Abandoned
  \/ Delete

Spec == Init /\ [][Next]_vars

=============================================================================
