------------------------------- MODULE Slices -------------------------------
(***************************************************************************)
(* What the loops of the event store do to slices of events.               *)
(***************************************************************************)
EXTENDS Integers, Sequences, Functions

\* A loop that appends n slices, one after the other, to its result.
Concat(ss, n) ==
  LET result[m \in 0 .. n] == IF m = 0 THEN <<>> ELSE result[m - 1] \o ss[m]
  IN  result[n]

\* A loop that appends the elements of s that are in K to its result.
Filter(s, K) == Concat([n \in DOMAIN s |-> IF s[n] \in K THEN <<s[n]>> ELSE <<>>], Len(s))

=============================================================================
