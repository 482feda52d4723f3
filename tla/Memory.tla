------------------------------ MODULE Memory -------------------------------
(***************************************************************************)
(* What processes rely on: the memory of a process is its own, in one      *)
(* piece, and stays where it is as long as the process may run.  While it  *)
(* sleeps in a call its memory may be moved, without growing or shrinking. *)
(***************************************************************************)
EXTENDS Integers, FiniteSets

CONSTANT Procs

VARIABLES
    memory,         \* of each process: the clicks it has, {} without a process
    asleep          \* the processes whose memory may be moved

Init == memory = [p \in Procs |-> {}] /\ asleep = {}

OnePiece(clicks) ==
    \E first \in clicks : clicks = first .. (first + Cardinality(clicks) - 1)

\* p has other memory than before: one piece nobody has, not even p itself.
Gets(p) ==
    /\ \A q \in Procs \ {p} : memory'[q] = memory[q]
    /\ OnePiece(memory'[p])
    /\ \A q \in Procs : memory[q] \cap memory'[p] = {}

\* fork() gives memory to a new process, exec() other memory to an old one.
Give(p) == p \notin asleep /\ Gets(p) /\ UNCHANGED asleep

Release(p) ==
    /\ memory[p] # {}
    /\ memory' = [memory EXCEPT ![p] = {}]
    /\ asleep' = asleep \ {p}

\* To disk or back; back in memory the process may be awake.
Move(p) ==
    /\ p \in asleep /\ asleep' \in {asleep, asleep \ {p}}
    /\ Gets(p) /\ Cardinality(memory'[p]) = Cardinality(memory[p])

Sleep(p) == memory[p] # {} /\ asleep' = asleep \cup {p} /\ UNCHANGED memory

WakeUp(p) == asleep' = asleep \ {p} /\ UNCHANGED memory

Next == \E p \in Procs : Give(p) \/ Release(p) \/ Move(p) \/ Sleep(p) \/ WakeUp(p)

Spec == Init /\ [][Next]_<<memory, asleep>>
=============================================================================
