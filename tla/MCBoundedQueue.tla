--------------------------- MODULE MCBoundedQueue ---------------------------
(* Values of the constants of BoundedQueue for TLC. *)
EXTENDS BoundedQueue

CONSTANTS c1, c2, c3
=============================================================================
