---------------------------- MODULE MCProducer ----------------------------
(* Instances of Producer for TLC. *)
EXTENDS Producer, TLC

\* Goroutines are interchangeable (used with invariants only).
Symmetry == Permutations(Publishers)
=============================================================================
