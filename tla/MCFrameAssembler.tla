-------------------------- MODULE MCFrameAssembler --------------------------
(* Values of the constants of FrameAssembler for TLC. *)
EXTENDS FrameAssembler

Counter(w) == [mode |-> "kFrameCounter", window |-> w]
Window(w) == [mode |-> "kTimeWindow", window |-> w]

CounterLong == {Counter(10)}
BothModes == {Counter(5), Window(4)}
NoSkew == {0}
StepBack == {0, -8}
=============================================================================
