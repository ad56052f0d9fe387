------------------------- MODULE MCSessionLifecycle -------------------------
(* SessionLifecycle for TLC: handler slots are interchangeable.            *)
EXTENDS SessionLifecycle, TLC

Slots == Permutations(Reqs)
=============================================================================
