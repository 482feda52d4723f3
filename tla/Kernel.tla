-------------------------------- MODULE Kernel --------------------------------
(***************************************************************************)
(* The kernel of the modified MINIX at run time: processes that trap into  *)
(* sys_call, the clock interrupt with the group 1 quantum and the group 2  *)
(* aging, and the two tasks that reach into the scheduler, CLOCK and       *)
(* SYSTASK.  Kernel code is entered one step at a time: every action is    *)
(* one system call, one interrupt or one piece of work of a task.  Only    *)
(* the process proc_ptr names makes system calls ("The caller is always    *)
(* given by proc_ptr"); the clock interrupts whoever runs.                 *)
(*                                                                         *)
(* Processes exist from the start: MM has just created Users and is about  *)
(* to start them.  What MM, FS and the user programs do between their      *)
(* system calls is left open.                                              *)
(***************************************************************************)
EXTENDS Messages

CONSTANTS CLOCK, SYSTASK,  \* two of the tasks
          Calls,           \* the calls of SYSTASK that servers make
          Groups,          \* the groups users give to SETGROUP
          Estimates,       \* the CPU estimates they give
          Signals,         \* the signals in use: "SIGALRM" for alarms, "SIGTRAP"
                           \* for EXEC of a traced process
          Targets,         \* "self": SETGROUP for who = 0; "pid": for any process
          RR_QUANTUM, AGING_TICK, MAX_WAIT_TICKS, SCHED_RATE

DefaultEstimate == 100     \* of a process that is put in group 1 or 2

ASSUME KernelAssumption ==
  /\ {CLOCK, SYSTASK} \subseteq Tasks /\ CLOCK # SYSTASK
  /\ Calls \subseteq {"SETGROUP", "KILL", "ENDSIG", "FORK", "NEWMAP", "EXEC", "XIT", "TRACE"}
  /\ Groups \subseteq Int /\ Estimates \subseteq Int
  /\ IsFiniteSet(Signals) /\ Targets \subseteq {"self", "pid"}
  /\ {RR_QUANTUM, AGING_TICK, MAX_WAIT_TICKS, SCHED_RATE} \subseteq Nat \ {0}

VARIABLES k,               \* the kernel state of ReadyQueues and Messages
          pc,              \* where each task is in its loop
          p_alarm,         \* the processes that have an alarm set
          aging_counter, sched_ticks, prev_ptr

vars == <<k, pc, p_alarm, aging_counter, sched_ticks, prev_ptr>>
clockVars == <<p_alarm, aging_counter, sched_ticks, prev_ptr>>

(***************************************************************************)
(* The users wait for the answer of MM, which runs; everyone else waits    *)
(* for work.                                                               *)
(***************************************************************************)
Init ==
  /\ k = [queue         |-> [n \in QNames |-> IF n = "SERVER_Q" THEN <<MM>> ELSE << >>],
          proc_ptr      |-> MM,
          bill_ptr      |-> IDLE,
          sched_group   |-> [u \in Users |-> 0],
          cpu_estimate  |-> [u \in Users |-> 0],
          wait_ticks    |-> [u \in Users |-> 0],
          rr_counter    |-> [u \in Users |-> 0],
          p_flags       |-> [p \in Proc |-> IF p = MM THEN {} ELSE {"RECEIVING"}],
          p_getfrom     |-> [p \in Proc |-> IF p \in Users THEN MM ELSE ANY],
          p_sendto      |-> [p \in Proc |-> p],
          p_callerq     |-> [p \in Proc |-> << >>],
          p_int_blocked |-> [t \in Tasks |-> FALSE],
          m_source      |-> [t \in Tasks |-> NIL],
          p_pending     |-> [u \in Users |-> {}],
          p_pendcount   |-> [u \in Users |-> 0],
          sig_procs     |-> 0,
          alive         |-> Users]
  /\ pc = [t \in Tasks |-> "work"]
  /\ p_alarm = {}
  /\ aging_counter = 0
  /\ sched_ticks = SCHED_RATE
  /\ prev_ptr = NIL

Running(p) == k.proc_ptr = p
At(t, l)   == Running(t) /\ pc[t] = l

-----------------------------------------------------------------------------
(* Users and servers.                                                      *)

(* A user's system calls are BOTH to MM or FS; anything else is refused.   *)
UserCall(u) ==
  /\ Running(u)
  /\ \E s \in Servers : k' = SendRec(k, u, s)
  /\ UNCHANGED <<pc, clockVars>>

(* MM has been told of signals of u and has not finished with them.        *)
BeingHandled(u) == k.p_pendcount[u] > Cardinality(k.p_pending[u])

(* A server asks for work; MM first finishes with the signals it knows of. *)
ServerReceive(s) ==
  /\ Running(s)
  /\ s = MM => \A u \in Users : ~BeingHandled(u)
  /\ k' = mini_rec(k, s, ANY)
  /\ UNCHANGED <<pc, clockVars>>

(* A server calls a task or another server.                                *)
ServerCall(s) ==
  /\ Running(s)
  /\ \E d \in {CLOCK, SYSTASK} \cup (Servers \ {s}) : k' = SendRec(k, s, d)
  /\ UNCHANGED <<pc, clockVars>>

(* A server answers one of the processes that wait for its answer.         *)
ServerReply(s) ==
  /\ Running(s)
  /\ \E c \in Users \cup Servers :
        Waiting(k, c) /\ k.p_getfrom[c] = s /\ k' = Send(k, s, c)
  /\ UNCHANGED <<pc, clockVars>>

-----------------------------------------------------------------------------
(* The tasks: receive, work, reply.                                        *)

TaskReceive(t) ==
  /\ At(t, "receive")
  /\ k' = mini_rec([k EXCEPT !.m_source[t] = NIL], t, ANY)
  /\ pc' = [pc EXCEPT ![t] = "work"]
  /\ UNCHANGED clockVars

TaskReply(t) ==
  /\ At(t, "reply")
  /\ k' = Send(k, t, k.m_source[t])
  /\ pc' = [pc EXCEPT ![t] = "receive"]
  /\ UNCHANGED clockVars

(* do_clocktick, one process of the loop whose alarm time has been reached *)
ClockAlarm(u) ==
  /\ At(CLOCK, "work") /\ k.m_source[CLOCK] = HARDWARE
  /\ u \in p_alarm
  /\ k' = cause_sig(k, u, "SIGALRM")
  /\ p_alarm' = p_alarm \ {u}
  /\ UNCHANGED <<pc, aging_counter, sched_ticks, prev_ptr>>

(* do_clocktick, after the loop.                                           *)
DoClocktick ==
  /\ At(CLOCK, "work") /\ k.m_source[CLOCK] = HARDWARE
  /\ IF sched_ticks = 1
     THEN /\ k' = IF k.bill_ptr = prev_ptr THEN sched(k) ELSE k
          /\ sched_ticks' = SCHED_RATE
          /\ prev_ptr' = k'.bill_ptr
     ELSE /\ sched_ticks' = sched_ticks - 1
          /\ UNCHANGED <<k, prev_ptr>>
  /\ pc' = [pc EXCEPT ![CLOCK] = "receive"]
  /\ UNCHANGED <<p_alarm, aging_counter>>

(* do_setalarm for a user, and the calls of CLOCK that only read or set    *)
(* the time.                                                               *)
ClockRequest ==
  /\ At(CLOCK, "work") /\ k.m_source[CLOCK] # HARDWARE
  /\ \/ UNCHANGED p_alarm
     \/ /\ "SIGALRM" \in Signals /\ k.m_source[CLOCK] = MM
        /\ \E u \in k.alive : p_alarm' \in {p_alarm \cup {u}, p_alarm \ {u}}
  /\ pc' = [pc EXCEPT ![CLOCK] = "reply"]
  /\ UNCHANGED <<k, aging_counter, sched_ticks, prev_ptr>>

SystemCall(c) ==
  /\ At(SYSTASK, "work") /\ c \in Calls
  /\ pc' = [pc EXCEPT ![SYSTASK] = "reply"]

FromMM == k.m_source[SYSTASK] = MM

(* u has called MM and waits for the answer.                               *)
CalledMM(u) == Waiting(k, u) /\ k.p_getfrom[u] = MM

(* What do_setgroup of MM looks at before it calls SYSTASK.                *)
MMAccepts(g, e) == g \in 1..3 /\ (g = 3 => e > 0)

(* MM passes on SETGROUP for its caller (who = 0) or for whoever has a pid *)
(* in mproc[], whatever that process is doing.  SYSTASK refuses the slot of *)
(* one that is gone (isuserp): that call is an OtherSystemCall.            *)
DoSetgroup(u, g, e) ==
  /\ SystemCall("SETGROUP") /\ FromMM
  /\ MMAccepts(g, e)
  /\ \/ "self" \in Targets /\ CalledMM(u)
     \/ "pid" \in Targets /\ u \in k.alive
  /\ k' = [k EXCEPT !.sched_group[u]  = g,
                    !.wait_ticks[u]   = 0,
                    !.rr_counter[u]   = 0,
                    !.cpu_estimate[u] = IF g = 3 THEN e ELSE DefaultEstimate]
  /\ UNCHANGED clockVars

(* FS, not MM, signals through SYS_KILL.                                   *)
DoKill(u, sig) ==
  /\ SystemCall("KILL") /\ ~FromMM
  /\ u \in k.alive
  /\ k' = cause_sig(k, u, sig)
  /\ UNCHANGED clockVars

DoEndsig_first(u) ==               \* faulty: the first signal finished ends all
  /\ SystemCall("ENDSIG") /\ FromMM
  /\ BeingHandled(u)
  /\ k' = Unblock([k EXCEPT !.p_pendcount[u] = @ - 1], u, "SIG_PENDING")
  /\ UNCHANGED clockVars

DoEndsig(u) ==
  /\ SystemCall("ENDSIG") /\ FromMM
  /\ BeingHandled(u)
  /\ LET n == k.p_pendcount[u] - 1
         ended == [k EXCEPT !.p_pendcount[u] = n]
     IN k' = IF n = 0 THEN Unblock(ended, u, "SIG_PENDING") ELSE ended
  /\ UNCHANGED clockVars

(* The child is a copy of its parent, which waits for the answer of MM.    *)
(* It has no group and no signals, and waits for its memory map too.       *)
DoFork(u, child) ==
  /\ SystemCall("FORK") /\ FromMM
  /\ CalledMM(u) /\ child \in Users \ k.alive
  /\ k' = [k EXCEPT !.alive = @ \cup {child},
                    !.p_flags[child] = (k.p_flags[u] \cup {"NO_MAP"})
                                          \ {"PENDING", "SIG_PENDING", "P_STOP"},
                    !.p_getfrom[child] = k.p_getfrom[u],
                    !.p_sendto[child]  = k.p_sendto[u],
                    !.p_callerq[child] = k.p_callerq[u],
                    !.sched_group[child] = 0, !.wait_ticks[child] = 0,
                    !.cpu_estimate[child] = 0, !.rr_counter[child] = 0,
                    !.p_pending[child] = {}, !.p_pendcount[child] = 0]
  /\ p_alarm' = IF u \in p_alarm THEN p_alarm \cup {child} ELSE p_alarm
  /\ UNCHANGED <<aging_counter, sched_ticks, prev_ptr>>

DoNewmap(u) ==
  /\ SystemCall("NEWMAP") /\ FromMM
  /\ u \in k.alive
  /\ k' = IF k.p_flags[u] # {} THEN Unblock(k, u, "NO_MAP") ELSE k
  /\ UNCHANGED clockVars

(* MM does not answer EXEC: the caller goes on in its new image, but for   *)
(* the SIGTRAP it gets if it is traced.                                    *)
DoExec(u) ==
  /\ SystemCall("EXEC") /\ FromMM
  /\ CalledMM(u)
  /\ \/ k' = Unblock(k, u, "RECEIVING")
     \/ "SIGTRAP" \in Signals /\ k' = Unblock(cause_sig(k, u, "SIGTRAP"), u, "RECEIVING")
  /\ UNCHANGED clockVars

(* The callers queues without an exiting process that is SENDING.          *)
Unqueued_never(s, u) == s.p_callerq   \* faulty: an exiting process stays queued

Unqueued(s, u) ==
  IF Has(s, u, "SENDING")
  THEN [s.p_callerq EXCEPT ![s.p_sendto[u]] = RemoveFirst(@, u)] ELSE s.p_callerq

(* A process exits or is killed, whatever it is doing.                     *)
DoXit(u) ==
  /\ SystemCall("XIT") /\ FromMM
  /\ u \in k.alive
  /\ LET gone == IF k.p_flags[u] = {} THEN unready(k, u) ELSE k
     IN k' = [gone EXCEPT !.p_callerq = Unqueued(k, u),
                          !.sig_procs = IF Has(k, u, "PENDING") THEN @ - 1 ELSE @,
                          !.p_pending[u] = {}, !.p_pendcount[u] = 0,
                          !.p_flags[u] = {}, !.alive = @ \ {u}]
  /\ p_alarm' = p_alarm \ {u}
  /\ UNCHANGED <<aging_counter, sched_ticks, prev_ptr>>

(* T_STOP, and T_RESUME or T_STEP of a process that is stopped: do_trace   *)
(* does not look whether it is, and would link a process that is ready a   *)
(* second time; MM, which is not in the repository, is relied on to have   *)
(* stopped it.                                                             *)
DoTrace(u) ==
  /\ SystemCall("TRACE") /\ FromMM
  /\ u \in k.alive
  /\ k' = IF Has(k, u, "P_STOP") THEN Unblock(k, u, "P_STOP") ELSE Block(k, u, {"P_STOP"})
  /\ UNCHANGED clockVars

(* The calls that leave scheduling, messages and signals alone.            *)
OtherSystemCall ==
  /\ At(SYSTASK, "work")
  /\ pc' = [pc EXCEPT ![SYSTASK] = "reply"]
  /\ UNCHANGED <<k, clockVars>>

-----------------------------------------------------------------------------
(* The clock interrupt.                                                    *)

(* Ages the processes of group 2: those ready and not running, and those   *)
(* blocked in a message.                                                   *)
aging_without_cap(s) ==            \* faulty: MAX_WAIT_TICKS is not applied
  [s EXCEPT !.wait_ticks = [u \in Users |->
     IF s.sched_group[u] = 2 /\ u # s.proc_ptr THEN @[u] + 1 ELSE @[u]]]

aging_of_ready_only(s) ==          \* faulty: a blocked process starts anew
  [s EXCEPT !.wait_ticks = [u \in Users |->
     IF u \in ToSet(s.queue["g2"]) /\ @[u] < MAX_WAIT_TICKS THEN @[u] + 1 ELSE 0]]

update_aging_for_group2(s) ==
  LET Ready(u)   == u \in ToSet(s.queue["g2"]) /\ u # s.proc_ptr
      Blocked(u) == s.sched_group[u] = 2 /\ (Has(s, u, "SENDING") \/ Has(s, u, "RECEIVING"))
      Aged(u)    == s.wait_ticks[u] + (IF Ready(u) THEN 1 ELSE 0) + (IF Blocked(u) THEN 1 ELSE 0)
  IN [s EXCEPT !.wait_ticks = [u \in Users |-> IF Aged(u) > MAX_WAIT_TICKS
                                               THEN MAX_WAIT_TICKS ELSE Aged(u)]]

count_quantum_without_sched(s) ==  \* faulty: the quantum ends without consequence
  LET p == s.proc_ptr
  IN IF RunsGroup1(s) THEN [s EXCEPT !.rr_counter[p] = (@ + 1) % RR_QUANTUM] ELSE s

count_quantum(s) ==
  LET p == s.proc_ptr
      n == s.rr_counter[p] + 1
  IN IF ~RunsGroup1(s) THEN s
     ELSE IF n >= RR_QUANTUM THEN sched([s EXCEPT !.rr_counter[p] = 0])
     ELSE [s EXCEPT !.rr_counter[p] = n]

(* The kernel state handle_clock_tick leaves behind.                       *)
handle_clock_tick(s) ==
  IF aging_counter + 1 >= AGING_TICK
  THEN update_aging_for_group2(count_quantum(s))
  ELSE count_quantum(s)

(* clock_handler.  Whether an alarm is due is left open.                   *)
ClockTick ==
  /\ aging_counter' = (aging_counter + 1) % AGING_TICK
  /\ LET s == handle_clock_tick(k)
         Expired == sched_ticks = 1 /\ s.bill_ptr = prev_ptr /\ s.queue["USER_Q"] # << >>
     IN \/ /\ k' = interrupt(s, CLOCK)
           /\ UNCHANGED <<sched_ticks, prev_ptr>>
        \/ /\ ~Expired
           /\ k' = s
           /\ sched_ticks' = IF sched_ticks = 1 THEN SCHED_RATE ELSE sched_ticks - 1
           /\ prev_ptr' = IF sched_ticks = 1 THEN s.bill_ptr ELSE prev_ptr
  /\ UNCHANGED <<pc, p_alarm>>

-----------------------------------------------------------------------------
OtherThanUserCall ==
  \/ \E s \in Servers : ServerReceive(s) \/ ServerCall(s) \/ ServerReply(s)
  \/ \E t \in {CLOCK, SYSTASK} : TaskReceive(t) \/ TaskReply(t)
  \/ \E u \in Users : ClockAlarm(u)
  \/ DoClocktick \/ ClockRequest
  \/ \E u \in Users, g \in Groups, e \in Estimates : DoSetgroup(u, g, e)
  \/ \E u \in Users, sig \in Signals : DoKill(u, sig)
  \/ \E u \in Users : DoEndsig(u) \/ DoNewmap(u) \/ DoExec(u) \/ DoXit(u) \/ DoTrace(u)
  \/ \E u, child \in Users : DoFork(u, child)
  \/ OtherSystemCall
  \/ ClockTick

Next == (\E u \in Users : UserCall(u)) \/ OtherThanUserCall

Spec == Init /\ [][Next]_vars

-----------------------------------------------------------------------------
(* Properties.                                                             *)

KernelState ==
  [queue         : [QNames -> Seq(Proc)],
   proc_ptr      : Proc \cup {IDLE},
   bill_ptr      : Users \cup {IDLE},
   sched_group   : [Users -> 0..3],
   cpu_estimate  : [Users -> {0, DefaultEstimate} \cup Estimates],
   wait_ticks    : [Users -> 0..MAX_WAIT_TICKS],
   rr_counter    : [Users -> 0..RR_QUANTUM - 1],
   p_flags       : [Proc -> SUBSET Flags],
   p_getfrom     : [Proc -> Proc \cup {ANY}],
   p_sendto      : [Proc -> Proc],
   p_callerq     : [Proc -> Seq(Proc)],
   p_int_blocked : [Tasks -> BOOLEAN],
   m_source      : [Tasks -> Proc \cup {HARDWARE, NIL}],
   p_pending     : [Users -> SUBSET Signals],
   p_pendcount   : [Users -> Nat],
   sig_procs     : Int,
   alive         : SUBSET Users]

(* The types of the variables; bill_ptr is always a user or IDLE.          *)
TypeOK ==
  /\ k \in KernelState
  /\ pc \in [Tasks -> {"receive", "work", "reply"}]
  /\ p_alarm \subseteq Users
  /\ aging_counter \in 0..AGING_TICK - 1
  /\ sched_ticks \in 1..SCHED_RATE
  /\ prev_ptr \in Users \cup {IDLE, NIL}

(***************************************************************************)
(* proc.h: "A process is runnable iff p_flags == 0."  A process is on the  *)
(* queue of its class and group exactly once when it has no flag, and on   *)
(* no queue otherwise.                                                     *)
(***************************************************************************)
QueuedAreRunnable(s) ==
  \A n \in QNames : \A i \in DOMAIN s.queue[n] :
     LET p == s.queue[n][i]
     IN s.p_flags[p] = {} /\ ~isemptyp(s, p) /\ QueueOf(s, p) = n

RunnableAreQueued(s) ==
  \A p \in Proc : s.p_flags[p] = {} /\ ~isemptyp(s, p) => \E i \in DOMAIN s.queue[QueueOf(s, p)] :
                                          s.queue[QueueOf(s, p)][i] = p

QueuedOnce(s) == \A n \in QNames : IsInjective(s.queue[n])

RunnableIffQueued == QueuedAreRunnable(k) /\ RunnableAreQueued(k) /\ QueuedOnce(k)

(***************************************************************************)
(* Whenever the kernel returns, it runs a process of the best nonempty     *)
(* class - tasks, servers, group 1, 2, 3, other users, in this order - and *)
(* the head of its queue except in group 2.  A user that runs is billed.   *)
(***************************************************************************)
Priority == <<"TASK_Q", "SERVER_Q", "g1", "g2", "g3", "USER_Q">>

Dispatched ==
  /\ \A i \in DOMAIN Priority :
        LET q == k.queue[Priority[i]]
        IN (q # << >> /\ \A j \in 1..i - 1 : k.queue[Priority[j]] = << >>)
             => IF Priority[i] = "g2" THEN k.proc_ptr \in ToSet(q) ELSE k.proc_ptr = Head(q)
  /\ (\A n \in QNames : k.queue[n] = << >>) => k.proc_ptr = IDLE
  /\ k.proc_ptr \in Users \cup {IDLE} => k.bill_ptr = k.proc_ptr

(* Group 3 is sorted by estimate: the shortest job is the one that runs.   *)
ShortestJobFirst ==
  LET q == k.queue["g3"]
  IN \A i, j \in DOMAIN q : i < j => k.cpu_estimate[q[i]] <= k.cpu_estimate[q[j]]

(* A process waits in the queue of the one it sends to, once, and in no    *)
(* other, as long as it is SENDING.                                        *)
SendersQueued(s) ==
  \A d \in Proc : \A i \in DOMAIN s.p_callerq[d] :
     Has(s, s.p_callerq[d][i], "SENDING") /\ s.p_sendto[s.p_callerq[d][i]] = d

SendingAreQueued(s) ==
  \A p \in Proc : Has(s, p, "SENDING") => \E i \in DOMAIN s.p_callerq[s.p_sendto[p]] :
                                             s.p_callerq[s.p_sendto[p]][i] = p

SendersOnce(s) == \A d \in Proc : IsInjective(s.p_callerq[d])

CallerQueues == SendersQueued(k) /\ SendingAreQueued(k) /\ SendersOnce(k)

(* No processes send to each other in a circle: the walk of mini_send ends.*)
NoSendCycle == \A p \in Proc : ~Locked(k, p, p)

(***************************************************************************)
(* Nobody sleeps on a message that is there: a process that waits has no   *)
(* acceptable sender queued, a task that waits for an interrupt has none   *)
(* blocked, and MM does not wait for work while signals are pending.       *)
(***************************************************************************)
NoLostWakeup ==
  /\ \A p \in Proc : Waiting(k, p) =>
        \A i \in DOMAIN k.p_callerq[p] : k.p_getfrom[p] \notin {ANY, k.p_callerq[p][i]}
  /\ \A t \in Tasks : Waiting(k, t) /\ k.p_getfrom[t] = ANY => ~k.p_int_blocked[t]
  /\ Waiting(k, MM) /\ k.p_getfrom[MM] = ANY => \A u \in Users : ~Has(k, u, "PENDING")

(* A task answers a process that waits for it, so a task never blocks      *)
(* sending.                                                                *)
RepliesNeverBlock ==
  \A t \in Tasks :
     /\ ~Has(k, t, "SENDING")
     /\ (pc[t] = "reply" \/ (pc[t] = "work" /\ k.m_source[t] \in Proc))
           => Waiting(k, k.m_source[t]) /\ k.p_getfrom[k.m_source[t]] = t

(* The counts of signals agree with the flags that keep a process from     *)
(* running: PENDING while MM has not been told of some signal, SIG_PENDING *)
(* while it has not finished with all.                                     *)
SignalsCounted ==
  /\ k.sig_procs = Cardinality({u \in Users : Has(k, u, "PENDING")})
  /\ \A u \in Users : /\ Has(k, u, "PENDING") <=> k.p_pending[u] # {}
                      /\ Has(k, u, "SIG_PENDING") <=> k.p_pendcount[u] > 0
                      /\ k.p_pendcount[u] >= Cardinality(k.p_pending[u])

(* A process of group 2 loses its age only by being run or by SETGROUP.    *)
AgeKept ==
  [][\A u \in Users : k'.wait_ticks[u] < k.wait_ticks[u]
        => \/ k'.proc_ptr = u
           \/ Running(SYSTASK) /\ pc[SYSTASK] = "work"]_vars

(***************************************************************************)
(* Fairness.  The clock ticks on whatever the programs do, so a group 1    *)
(* process that runs again and again is hit by ticks again and again.      *)
(***************************************************************************)
TickOnGroup1 == RunsGroup1(k) /\ ClockTick

(* The clock keeps ticking, and the tasks and servers do their work.       *)
Fairness ==
  /\ SF_vars(TickOnGroup1)
  /\ WF_vars(ClockTick)

FairSpec == Spec /\ Fairness

ReadyInGroup(u, g) == k.p_flags[u] = {} /\ k.sched_group[u] = g

(* Round robin: if group 1 gets the processor again and again, each of its *)
(* ready processes runs or stops being ready.                              *)
RoundRobin ==
  ([]<>RunsGroup1(k)) =>
     \A u \in Users : ReadyInGroup(u, 1) ~> (Running(u) \/ ~ReadyInGroup(u, 1))
=============================================================================
