-------------------------- MODULE MCRequestTracker --------------------------
(* Instances of RequestTracker for TLC. *)
EXTENDS RequestTracker, TLC

CONSTANTS r1, r2, k1, k2

\* Clients are interchangeable: for runs without liveness.
Symmetry == Permutations(Clients)
=============================================================================
