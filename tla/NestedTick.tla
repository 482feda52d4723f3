------------------------------ MODULE NestedTick ------------------------------
(***************************************************************************)
(* The clock interrupt inside a system call.  sys_call runs with           *)
(* interrupts enabled, and proc.c expects "a nested interrupt handler":    *)
(* interrupt() holds the message of a nested interrupt back until the      *)
(* kernel returns.  handle_clock_tick() has no such test: it runs at once  *)
(* and may call lock_sched() in the middle of the call it interrupts.      *)
(*                                                                         *)
(* The steps of Kernel, except that a user's call is taken apart where it  *)
(* leaves the ready queue; a tick may come between any two of its parts.   *)
(***************************************************************************)
EXTENDS Kernel

VARIABLES at,      \* the next part of the system call; "out": none under way
          rp,      \* its caller
          dest,    \* the server it is sent to
          held     \* CLOCK is on the held queue

callVars == <<at, rp, dest, held>>
nestedVars == <<vars, callVars>>

NestedInit == Init /\ at = "out" /\ rp = IDLE /\ dest = MM /\ held = FALSE

(* The kernel is not inside sys_call, and no held interrupt is left.       *)
Outside == at = "out" /\ ~held

Inside(l) == /\ at = l
             /\ UNCHANGED <<pc, clockVars, rp, dest, held>>

Enter(u) ==
  /\ Outside /\ Running(u)
  /\ rp' = u
  /\ dest' \in Servers
  /\ at' = "send"
  /\ UNCHANGED <<vars, held>>

(* mini_send up to where it has to block its caller.                       *)
MiniSend ==
  /\ Inside("send")
  /\ IF Locked(k, rp, dest) THEN at' = "out" /\ UNCHANGED k
     ELSE IF WaitsFor(k, dest, rp) THEN at' = "receive" /\ k' = mini_send(k, rp, dest)
     ELSE at' = "send_pick" /\ k' = unlink(k, rp)

(* unready: the test "if (rp == proc_ptr)" and what follows it.            *)
Repick(s) == IF s.proc_ptr = rp THEN pick_proc(s) ELSE s

MiniSendBlock ==
  /\ Inside("send_pick")
  /\ k' = [Repick(k) EXCEPT !.p_flags[rp]      = @ \cup {"SENDING"},
                            !.p_sendto[rp]     = dest,
                            !.p_callerq[dest]  = Append(@, rp)]
  /\ at' = "receive"

(* mini_rec: nobody sends to a user that is not waiting.                   *)
MiniRec ==
  /\ Inside("receive")
  /\ at' = "receive_pick"
  /\ k' = IF k.p_flags[rp] = {} THEN unlink(k, rp) ELSE k

MiniRecBlock ==
  /\ Inside("receive_pick")
  /\ k' = [(IF k.p_flags[rp] = {} THEN Repick(k) ELSE k)
             EXCEPT !.p_flags[rp] = @ \cup {"RECEIVING"}, !.p_getfrom[rp] = dest]
  /\ at' = "out"

(* clock_handler with k_reenter # 0: as ClockTick, but the interrupt       *)
(* message is held.                                                        *)
TickInside ==
  /\ at # "out"
  /\ aging_counter' = (aging_counter + 1) % AGING_TICK
  /\ k' = handle_clock_tick(k)
  /\ \/ held' = TRUE /\ UNCHANGED <<sched_ticks, prev_ptr>>
     \/ /\ ~(sched_ticks = 1 /\ k'.bill_ptr = prev_ptr /\ k'.queue["USER_Q"] # << >>)
        /\ sched_ticks' = IF sched_ticks = 1 THEN SCHED_RATE ELSE sched_ticks - 1
        /\ prev_ptr' = IF sched_ticks = 1 THEN k'.bill_ptr ELSE prev_ptr
        /\ UNCHANGED held
  /\ UNCHANGED <<pc, p_alarm, at, rp, dest>>

unhold ==
  /\ at = "out" /\ held
  /\ k' = interrupt(k, CLOCK)
  /\ held' = FALSE
  /\ UNCHANGED <<pc, clockVars, at, rp, dest>>

NestedNext ==
  \/ Outside /\ OtherThanUserCall /\ UNCHANGED callVars
  \/ \E u \in Users : Enter(u)
  \/ MiniSend \/ MiniSendBlock \/ MiniRec \/ MiniRecBlock
  \/ TickInside \/ unhold

NestedSpec == NestedInit /\ [][NestedNext]_nestedVars

(* proc.h, whenever no system call is under way: "A process is runnable    *)
(* iff p_flags == 0", that is, it is on its ready queue, once.             *)
RunnableIffQueuedOutside == at = "out" => RunnableIffQueued
=============================================================================
