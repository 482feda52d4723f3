---------------------------- MODULE MCAllocator ----------------------------
(* Three chunks of memory, apart from each other and not reported in their order. *)
EXTENDS Allocator

MCChunks == <<[base |-> 8, len |-> 1], [base |-> 3, len |-> 3], [base |-> 1, len |-> 1]>>
=============================================================================
