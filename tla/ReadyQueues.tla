----------------------------- MODULE ReadyQueues -----------------------------
(***************************************************************************)
(* The ready queues of the modified MINIX kernel (kernel/proc.c): which    *)
(* queue a process belongs to, how it enters and leaves it, and who runs   *)
(* next.  The handlers of the kernel chain several of these routines in    *)
(* one step, so each routine is an operator from a kernel state k to a     *)
(* kernel state; k is a record, of which this module uses                  *)
(*   queue         the ready processes of each queue, head first           *)
(*   proc_ptr      the process that runs when the kernel returns           *)
(*   bill_ptr      the process charged for system time                     *)
(*   sched_group, cpu_estimate, wait_ticks, rr_counter   (struct proc)     *)
(* A queue is a sequence: the head, tail and p_nextready pointers of       *)
(* proc.c are its representation.                                          *)
(***************************************************************************)
EXTENDS Integers, FiniteSets, SequencesExt

CONSTANTS Tasks,         \* istaskp: the kernel tasks
          Servers,       \* isservp: MM and FS
          Users,         \* isuserp
          IDLE           \* the idle process, never on a queue

Proc == Tasks \cup Servers \cup Users

ASSUME ProcAssumption ==
  /\ IsFiniteSet(Proc)
  /\ Tasks \cap Servers = {} /\ Tasks \cap Users = {} /\ Servers \cap Users = {}
  /\ IDLE \notin Proc

QNames == {"TASK_Q", "SERVER_Q", "g1", "g2", "g3", "USER_Q"}

(***************************************************************************)
(* The queue whose head, tail and links ready() and unready() manipulate.  *)
(* Group 0 (and whatever is not 1, 2 or 3) is plain MINIX scheduling.      *)
(***************************************************************************)
QueueOf(k, p) == CASE p \in Tasks   -> "TASK_Q"
                   [] p \in Servers -> "SERVER_Q"
                   [] OTHER -> CASE k.sched_group[p] = 1 -> "g1"
                                 [] k.sched_group[p] = 2 -> "g2"
                                 [] k.sched_group[p] = 3 -> "g3"
                                 [] OTHER                -> "USER_Q"

InGroup(k, p) == QueueOf(k, p) \in {"g1", "g2", "g3"}

(***************************************************************************)
(* Group 2: of the longest waiting processes, the first on the queue.      *)
(***************************************************************************)
OldestIndex(k) ==
  LET q == k.queue["g2"]
      Beats(i, j) == \/ k.wait_ticks[q[i]] > k.wait_ticks[q[j]]
                     \/ k.wait_ticks[q[i]] = k.wait_ticks[q[j]] /\ i <= j
  IN CHOOSE i \in DOMAIN q : \A j \in DOMAIN q : Beats(i, j)

Oldest(k) == k.queue["g2"][OldestIndex(k)]

Run(k, p)     == [k EXCEPT !.proc_ptr = p]
RunBill(k, p) == [k EXCEPT !.proc_ptr = p, !.bill_ptr = p]

pick_proc(k) ==
  LET Busy(n)  == k.queue[n] # << >>
      First(n) == Head(k.queue[n])
  IN IF Busy("TASK_Q")        THEN Run(k, First("TASK_Q"))
     ELSE IF Busy("SERVER_Q") THEN Run(k, First("SERVER_Q"))
     ELSE IF Busy("g1")       THEN RunBill(k, First("g1"))
     ELSE IF Busy("g2")       THEN [RunBill(k, Oldest(k)) EXCEPT !.wait_ticks[Oldest(k)] = 0]
     ELSE IF Busy("g3")       THEN RunBill(k, First("g3"))
     ELSE IF Busy("USER_Q")   THEN RunBill(k, First("USER_Q"))
     ELSE RunBill(k, IDLE)

(***************************************************************************)
(* Where a process that becomes ready is linked in: at the front of        *)
(* USER_Q, in front of the first process of g3 that does not expect to be  *)
(* shorter, at the back of every other queue.                              *)
(***************************************************************************)
ReadyIndex_append(k, p) ==         \* faulty: g3 is not kept sorted
  IF QueueOf(k, p) = "USER_Q" THEN 1 ELSE Len(k.queue[QueueOf(k, p)]) + 1

ReadyIndex(k, p) ==
  LET n == QueueOf(k, p)
      q == k.queue[n]
      NotShorter(i) == i > Len(q) \/ k.cpu_estimate[q[i]] >= k.cpu_estimate[p]
  IN CASE n = "USER_Q" -> 1
       [] n = "g3" -> CHOOSE i \in 1..Len(q) + 1 :
                        NotShorter(i) /\ \A j \in 1..i - 1 : ~NotShorter(j)
       [] OTHER -> Len(q) + 1

ready(k, p) ==
  LET n == QueueOf(k, p)
  IN [k EXCEPT !.queue[n] = InsertAt(@, ReadyIndex(k, p), p),
               !.proc_ptr = IF n = "TASK_Q" /\ k.queue[n] = << >> THEN p ELSE @]

(***************************************************************************)
(* A process leaves its queue.  A task or a group member that was running  *)
(* has its successor picked; the head of SERVER_Q or USER_Q always does.   *)
(***************************************************************************)
unlink_front(k, p) ==              \* faulty: takes p for the head of its queue
  [k EXCEPT !.queue[QueueOf(k, p)] = Tail(@)]

unlink(k, p) == [k EXCEPT !.queue[QueueOf(k, p)] = RemoveFirst(@, p)]

LeavesHead_never(k, p) == FALSE    \* faulty: the head leaves and nobody is picked

LeavesHead(k, p) ==
  LET q == k.queue[QueueOf(k, p)] IN q # << >> /\ Head(q) = p

unready(k, p) ==
  LET Repick == CASE p \in Tasks    -> LeavesHead(k, p) /\ p = k.proc_ptr
                  [] InGroup(k, p)  -> p = k.proc_ptr
                  [] OTHER          -> LeavesHead(k, p)
  IN IF Repick THEN pick_proc(unlink(k, p)) ELSE unlink(k, p)

(***************************************************************************)
(* The running process has had its quantum.  A running group 1 process     *)
(* goes to the back of g1 if it has company there; otherwise the head of   *)
(* USER_Q goes to the back of USER_Q.                                      *)
(***************************************************************************)
RunsGroup1(k) == k.proc_ptr \in Users /\ k.sched_group[k.proc_ptr] = 1

sched(k) ==
  LET g1 == k.queue["g1"]
      uq == k.queue["USER_Q"]
  IN CASE RunsGroup1(k) /\ Len(g1) > 1 ->
            pick_proc([k EXCEPT !.queue["g1"] = Append(Tail(g1), k.proc_ptr),
                                !.rr_counter[k.proc_ptr] = 0])
       [] ~RunsGroup1(k) /\ uq # << >> ->
            pick_proc([k EXCEPT !.queue["USER_Q"] = Append(Tail(uq), Head(uq))])
       [] OTHER -> k

(***************************************************************************)
(* The part of interrupt() that readies the task "in-line for speed".      *)
(***************************************************************************)
ReadyInline(k, t) ==
  LET q == k.queue["TASK_Q"]
  IN [k EXCEPT !.queue["TASK_Q"] = Append(q, t),
               !.proc_ptr = IF q = << >> THEN t ELSE @]
=============================================================================
