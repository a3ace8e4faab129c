---------------------------- MODULE MCConnection ----------------------------
(* Instances of Connection for TLC; the user thread is a model value.        *)
EXTENDS Connection

CONSTANT u1
=============================================================================
