------------------------- MODULE MCContextLifecycle -------------------------
(* Instances of ContextLifecycle for TLC. *)
EXTENDS ContextLifecycle

CONSTANTS u1, u2
=============================================================================
