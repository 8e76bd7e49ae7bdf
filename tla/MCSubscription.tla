--------------------------- MODULE MCSubscription ---------------------------
(* Subscription for TLC: clients are interchangeable. *)
EXTENDS Subscription, TLC

Symmetry == Permutations(Clients)

=============================================================================
