----------------------------- MODULE MCRecording -----------------------------
(* Instances of Recording for TLC.                                            *)
EXTENDS Recording

CONSTANTS d1, d2
==============================================================================
