------------------------------ MODULE MCMonitors ------------------------------
(* A small instance of Monitors for TLC: two fillings share the dough. *)
EXTENDS Monitors
CONSTANTS dough, meat, cheese

TwoFillings == {meat, cheese}
=============================================================================
