----------------------------- MODULE MCCommands -----------------------------
(* Instances of Commands for TLC: users, keys, values and addresses are      *)
(* model values.                                                             *)
EXTENDS Commands, TLC

CONSTANTS u1, u2, k1, v0, v1, home, away

Symmetry == Permutations(Users)
=============================================================================
