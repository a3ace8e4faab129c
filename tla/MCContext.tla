----------------------------- MODULE MCContext -----------------------------
(* Instances of Context for TLC: three Device objects, two of which claim   *)
(* the same serial number.                                                  *)
EXTENDS Context

CONSTANTS r1, r2, r3, s1, s2

MCSerialOf == [r \in Receivers |-> IF r = r3 THEN s2 ELSE s1]
=============================================================================
