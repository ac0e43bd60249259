--------------------------- MODULE MCClientContext ---------------------------
(* An instance of ClientContext for TLC. *)
EXTENDS ClientContext

CONSTANTS r1, k1, u1
=============================================================================
