------------------------------- MODULE MCKernel -------------------------------
(* Small instances of Kernel for TLC. *)
EXTENDS Kernel
CONSTANTS FS, u1, u2, u3

OneServer  == {MM}
TwoServers == {MM, FS}
TwoTasks   == {CLOCK, SYSTASK}
OneUser    == {u1}
TwoUsers   == {u1, u2}
ThreeUsers == {u1, u2, u3}

(* States that differ in the partner of a process that is not waiting for  *)
(* it are the same state: p_getfrom is read of a RECEIVING process and     *)
(* p_sendto of a SENDING one.                                              *)
View ==
  <<[k EXCEPT !.p_getfrom = [p \in Proc |-> IF Has(k, p, "RECEIVING") THEN @[p] ELSE NIL],
              !.p_sendto  = [p \in Proc |-> IF Has(k, p, "SENDING") THEN @[p] ELSE NIL]],
    pc, clockVars>>
=============================================================================
