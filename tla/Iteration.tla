------------------------------ MODULE Iteration ------------------------------
(* A loop as a function of the state before a round of it. *)
EXTENDS Integers

\* What n rounds of step make of start.
Iterate(step, start, n) ==
  LET at[i \in 0 .. n] == IF i = 0 THEN start ELSE step[at[i - 1]]
  IN at[n]

=============================================================================
