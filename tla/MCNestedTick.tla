------------------------------ MODULE MCNestedTick ------------------------------
(* A small instance of NestedTick for TLC: three users in group 1. *)
EXTENDS NestedTick
CONSTANTS FS, u1, u2, u3

OneServer  == {MM}
TwoTasks   == {CLOCK, SYSTASK}
ThreeUsers == {u1, u2, u3}
=============================================================================
