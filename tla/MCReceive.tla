------------------------------ MODULE MCReceive ------------------------------
(* Instances of Receive for TLC.                                             *)
EXTENDS Receive, TLC

CONSTANTS u1, u2, p1, p2

(* One code in either slot, in both, in none. *)
Hms == {<<0, 0>>, <<1, 0>>, <<0, 1>>, <<1, 1>>}
NoActiveCode == <<0, 0>>

(* A key alone, all keys. *)
Push(state, hms, diag) == [cur_work_state |-> state, hms_code |-> hms, lidar_diag_status |-> diag]
SomePushes ==
  {Push(w, None, None) : w \in WorkStates} \cup {Push(None, h, None) : h \in Hms}
  \cup {Push(None, None, "warning"), Push("kMotorStartup", <<0, 0>>, "normal")}

Symmetry == Permutations(Users)
==============================================================================
