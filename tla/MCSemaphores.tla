------------------------------ MODULE MCSemaphores ---------------------------
(* A small instance of Semaphores for TLC: two fillings share the dough. *)
EXTENDS Semaphores
CONSTANTS dough, meat, cheese

TwoFillings == {meat, cheese}

Symmetry == Permutations(TwoFillings)
=============================================================================
