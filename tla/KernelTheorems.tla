---------------------------- MODULE KernelTheorems ----------------------------
(***************************************************************************)
(* Each action of Kernel keeps the inductive invariant, if MM passes on    *)
(* SETGROUP for its caller only: the ready queues and the callers queues   *)
(* are right in every reachable state, for any number of tasks, servers    *)
(* and users.                                                              *)
(***************************************************************************)
EXTENDS KernelProofs

(* A task replies to a server, with the message it took in its buffer.     *)
TaskLoop(s, at) ==
  \A t \in Tasks :
     /\ at[t] = "reply" => s.m_source[t] \in Servers /\ "RECEIVING" \notin s.p_flags[t]
     /\ at[t] = "work" /\ s.m_source[t] = NIL => "RECEIVING" \in s.p_flags[t]

Inv == /\ KInv(k) /\ BestRuns(k)
       /\ pc \in [Tasks -> {"receive", "work", "reply"}]
       /\ TaskLoop(k, pc)
       /\ p_alarm \subseteq k.alive /\ (p_alarm # {} => "SIGALRM" \in Signals)
       /\ aging_counter \in 0..AGING_TICK - 1
       /\ sched_ticks \in 1..SCHED_RATE
       /\ prev_ptr \in Users \cup {IDLE, NIL}

(* Messages come and go; the tasks stay where they are.                    *)
LEMMA KeptLoop ==
  ASSUME NEW s, NEW t, NEW at, TaskLoop(s, at), Kept(s, t)
  PROVE  TaskLoop(t, at)
BY MessagesAssumption DEF TaskLoop, Kept, Proc

(* A task has done what the message in its buffer asks for.                *)
LEMMA ReplyLoop ==
  ASSUME NEW s, NEW t, NEW at \in [Tasks -> {"receive", "work", "reply"}],
         KInv(s), TaskLoop(s, at), Kept(s, t),
         NEW c \in Tasks, s.proc_ptr = c, at[c] = "work", s.m_source[c] # HARDWARE
  PROVE  TaskLoop(t, [at EXCEPT ![c] = "reply"])
<1>1. s.p_flags[c] = {}
  BY RunningRunnable DEF Proc
<1>2. s.m_source[c] \in Servers
  BY <1>1 DEF TaskLoop, KInv, Partners
<1>3. t.m_source[c] \in Servers /\ "RECEIVING" \notin t.p_flags[c]
  BY <1>1, <1>2 DEF Kept
<1> QED
  BY <1>3, KeptLoop DEF TaskLoop

(* A change of the fields of processes that are not ready.                 *)
LEMMA StillPlaced ==
  ASSUME NEW s, NEW t \in KernelState, Scheduled(s),
         t.queue = s.queue, t.proc_ptr = s.proc_ptr, Runnable(t) = Runnable(s),
         \A u \in Users : u \in Runnable(s) => t.sched_group[u] = s.sched_group[u]
  PROVE  Scheduled(t) /\ (t.bill_ptr = s.bill_ptr /\ BestRuns(s) => BestRuns(t))
<1>1. \A p \in Runnable(s) : QueueOf(t, p) = QueueOf(s, p)
  BY DEF QueueOf, Runnable, Proc
<1>2. \A m : Members(t, Runnable(s), m) = Members(s, Runnable(s), m)
  BY <1>1 DEF Members
<1> QED
  BY <1>1, <1>2 DEF Scheduled, Placed, HeadRuns, BestRuns, Best

(* Of the fields of messages and signals only the flags of p change.       *)
Reflags(s, t, p, fs) == SameButFlags(s, t) /\ FlagsBut(s, t, p, fs)

(* A user loses a flag other than SENDING.                                 *)
LEMMA UnblockKInv ==
  ASSUME NEW s, KInv(s), NEW u \in Users, u \in s.alive,
         NEW f \in s.p_flags[u], f # "SENDING",
         s.proc_ptr \notin Users \/ s.p_flags[u] \ {f} # {},
         f = "SIG_PENDING" => s.p_pendcount[u] = 0 /\ "PENDING" \notin s.p_flags[u]
  PROVE  LET t == Unblock(s, u, f)
         IN /\ KInv(t) /\ Kept(s, t) /\ t.alive = s.alive
            /\ Reflags(s, t, u, s.p_flags[u] \ {f})
            /\ BestRuns(s) /\ (KernelRuns(s) \/ s.p_flags[u] \ {f} # {}) => BestRuns(t)
<1> DEFINE t == Unblock(s, u, f)
<1>1. Scheduled(s) /\ Callers(s) /\ Partners(s) /\ FlagsAgree(s) /\ s \in KernelState
  BY DEF KInv, Scheduled
<1>2. u \in Proc /\ u \notin Tasks /\ u \notin Servers /\ ~isemptyp(s, u)
  BY ProcAssumption DEF Proc, isemptyp
<1>3. /\ Scheduled(t) /\ SameButFlags(s, t)
      /\ t.p_flags = [s.p_flags EXCEPT ![u] = @ \ {f}]
      /\ BestRuns(s) /\ (KernelRuns(s) \/ s.p_flags[u] \ {f} # {}) => BestRuns(t)
  BY <1>1, <1>2, UnblockScheduled
<1> HIDE DEF t
<1>4. /\ \A p \in Proc \ {u} : t.p_flags[p] = s.p_flags[p]
      /\ t.p_flags[u] = s.p_flags[u] \ {f}
  <2>1. DOMAIN s.p_flags = Proc
    BY <1>1 DEF KernelState
  <2> QED
    BY <2>1, <1>2, <1>3
<1>5. \A p \in Proc : "SENDING" \in t.p_flags[p] <=> "SENDING" \in s.p_flags[p]
  BY <1>4
<1>6. /\ t.p_getfrom = s.p_getfrom /\ t.p_sendto = s.p_sendto /\ t.p_callerq = s.p_callerq
      /\ t.p_int_blocked = s.p_int_blocked /\ t.m_source = s.m_source
      /\ t.p_pending = s.p_pending /\ t.p_pendcount = s.p_pendcount /\ t.alive = s.alive
  BY <1>3 DEF SameButFlags, SameRest
<1>7. Callers(t)
  BY <1>1, <1>5, <1>6, SameCallers
<1>8. Partners(t)
  BY <1>1, <1>5, <1>6 DEF Partners
<1>9. FlagsAgree(t)
  <2>1. \A p \in Tasks \cup Servers : t.p_flags[p] = s.p_flags[p]
    BY <1>2, <1>4 DEF Proc
  <2>2. \A p \in Proc : t.p_flags[p] \subseteq s.p_flags[p]
    BY <1>4
  <2>3. ASSUME NEW x \in Users
        PROVE  /\ "PENDING" \in t.p_flags[x] => "SIG_PENDING" \in t.p_flags[x]
               /\ "PENDING" \in t.p_flags[x] => t.p_pending[x] # {}
               /\ t.p_pendcount[x] > 0 => "SIG_PENDING" \in t.p_flags[x]
               /\ x \notin t.alive => t.p_flags[x] = {}
    <3>1. CASE x = u
      BY <3>1, <1>1, <1>4, <1>6 DEF FlagsAgree
    <3>2. CASE x # u
      BY <3>2, <1>1, <1>4, <1>6 DEF FlagsAgree, Proc
    <3> QED
      BY <3>1, <3>2
  <2> QED
    BY <2>1, <2>2, <2>3, <1>1, <1>6 DEF FlagsAgree
<1>10. Kept(s, t)
  BY <1>2, <1>4, <1>6 DEF Kept, Proc
<1> QED
  BY <1>3, <1>4, <1>6, <1>7, <1>8, <1>9, <1>10 DEF KInv, Reflags, FlagsBut, t

(* A user is stopped.                                                      *)
LEMMA StopKInv ==
  ASSUME NEW s, KInv(s), NEW u \in Users, u \in s.alive
  PROVE  LET t == Block(s, u, {"P_STOP"})
         IN /\ KInv(t) /\ Kept(s, t) /\ t.alive = s.alive
            /\ Reflags(s, t, u, s.p_flags[u] \cup {"P_STOP"})
            /\ BestRuns(s) => BestRuns(t)
<1> DEFINE t == Block(s, u, {"P_STOP"})
<1>1. Scheduled(s) /\ Callers(s) /\ Partners(s) /\ FlagsAgree(s) /\ s \in KernelState
  BY DEF KInv, Scheduled
<1>2. u \in Proc /\ u \notin Tasks /\ u \notin Servers /\ ~isemptyp(s, u)
  BY ProcAssumption DEF Proc, isemptyp
<1>3. /\ Scheduled(t) /\ SameButFlags(s, t)
      /\ t.p_flags = [s.p_flags EXCEPT ![u] = @ \cup {"P_STOP"}]
      /\ BestRuns(s) => BestRuns(t)
  BY <1>1, <1>2, BlockScheduled DEF Flags
<1> HIDE DEF t
<1>4. /\ \A p \in Proc \ {u} : t.p_flags[p] = s.p_flags[p]
      /\ t.p_flags[u] = s.p_flags[u] \cup {"P_STOP"}
  <2>1. DOMAIN s.p_flags = Proc
    BY <1>1 DEF KernelState
  <2> QED
    BY <2>1, <1>2, <1>3
<1>5. \A p \in Proc : \A f \in Flags \ {"P_STOP"} : f \in t.p_flags[p] <=> f \in s.p_flags[p]
  BY <1>4
<1>6. /\ t.p_getfrom = s.p_getfrom /\ t.p_sendto = s.p_sendto /\ t.p_callerq = s.p_callerq
      /\ t.p_int_blocked = s.p_int_blocked /\ t.m_source = s.m_source
      /\ t.p_pending = s.p_pending /\ t.p_pendcount = s.p_pendcount /\ t.alive = s.alive
  BY <1>3 DEF SameButFlags, SameRest
<1>7. Callers(t)
  BY <1>1, <1>5, <1>6, SameCallers DEF Flags
<1>8. Partners(t)
  BY <1>1, <1>5, <1>6 DEF Partners, Flags
<1>9. FlagsAgree(t)
  <2>1. \A p \in Tasks \cup Servers : t.p_flags[p] = s.p_flags[p]
    BY <1>2, <1>4 DEF Proc
  <2>2. \A x \in Users \ t.alive : t.p_flags[x] = {}
    BY <1>1, <1>4, <1>6 DEF FlagsAgree, Proc
  <2> QED
    BY <2>1, <2>2, <1>1, <1>5, <1>6 DEF FlagsAgree, Flags, Proc
<1>10. Kept(s, t)
  BY <1>2, <1>4, <1>6 DEF Kept, Proc
<1> QED
  BY <1>3, <1>4, <1>6, <1>7, <1>8, <1>9, <1>10 DEF KInv, Reflags, FlagsBut, t

(* A process that is not ready changes its group.                          *)
LEMMA GroupKInv ==
  ASSUME NEW s, KInv(s), NEW t \in KernelState,
         t.queue = s.queue, t.proc_ptr = s.proc_ptr, t.bill_ptr = s.bill_ptr,
         \A x \in Users : s.p_flags[x] = {} => t.sched_group[x] = s.sched_group[x],
         t.p_flags = s.p_flags, t.p_getfrom = s.p_getfrom, t.p_sendto = s.p_sendto,
         t.p_callerq = s.p_callerq, t.p_int_blocked = s.p_int_blocked,
         t.m_source = s.m_source, t.p_pending = s.p_pending,
         t.p_pendcount = s.p_pendcount, t.alive = s.alive
  PROVE  KInv(t) /\ Kept(s, t) /\ (BestRuns(s) => BestRuns(t))
<1>1. Runnable(t) = Runnable(s)
  BY DEF Runnable, isemptyp
<1>2. \A x \in Users : x \in Runnable(s) => t.sched_group[x] = s.sched_group[x]
  BY DEF Runnable
<1>3. Scheduled(t) /\ (BestRuns(s) => BestRuns(t))
  BY <1>1, <1>2, StillPlaced DEF KInv
<1>4. Callers(t)
  BY SameCallers DEF KInv
<1>5. Partners(t) /\ FlagsAgree(t)
  BY DEF KInv, Partners, FlagsAgree
<1> QED
  BY <1>3, <1>4, <1>5 DEF KInv, Kept

(* One signal of u less, and with the last the flag goes.                  *)
Ends(s, t, u) ==
  /\ FlagsBut(s, t, u, IF s.p_pendcount[u] = 1 THEN s.p_flags[u] \ {"SIG_PENDING"} ELSE s.p_flags[u])
  /\ \A x \in Users : t.p_pendcount[x] = IF x = u THEN s.p_pendcount[x] - 1 ELSE s.p_pendcount[x]
  /\ t.p_pending = s.p_pending /\ t.sig_procs = s.sig_procs
  /\ t.p_getfrom = s.p_getfrom /\ t.p_sendto = s.p_sendto
  /\ t.p_int_blocked = s.p_int_blocked /\ t.m_source = s.m_source

(* MM has finished with a signal of a user.                                *)
LEMMA EndsigKInv ==
  ASSUME NEW s, KInv(s), KernelRuns(s), NEW u \in Users,
         s.p_pendcount[u] > Cardinality(s.p_pending[u])
  PROVE  LET n == s.p_pendcount[u] - 1
             ended == [s EXCEPT !.p_pendcount[u] = n]
             t == IF n = 0 THEN Unblock(ended, u, "SIG_PENDING") ELSE ended
         IN /\ KInv(t) /\ Kept(s, t) /\ t.alive = s.alive
            /\ Ends(s, t, u)
            /\ BestRuns(s) => BestRuns(t)
<1> DEFINE n == s.p_pendcount[u] - 1
           cnt == [s.p_pendcount EXCEPT ![u] = n]
           ended == [s EXCEPT !.p_pendcount = cnt]
<1>1. Scheduled(s) /\ Callers(s) /\ Partners(s) /\ FlagsAgree(s) /\ s \in KernelState
  BY DEF KInv, Scheduled
<1>2. /\ s.p_pendcount \in [Users -> Nat] /\ s.p_pending[u] \in SUBSET Signals
      /\ u \in Proc /\ u \notin Tasks
  BY <1>1, ProcAssumption DEF KernelState, Proc
<1>3. IsFiniteSet(s.p_pending[u]) /\ Cardinality(s.p_pending[u]) \in Nat
  BY <1>2, KernelAssumption, FS_Subset, FS_CardinalityType
<1>4. "SIG_PENDING" \in s.p_flags[u] /\ s.p_pendcount[u] > 0
  BY <1>1, <1>2, <1>3 DEF FlagsAgree
<1>5. n = 0 => "PENDING" \notin s.p_flags[u]
  <2>1. n = 0 => Cardinality(s.p_pending[u]) = 0
    BY <1>2, <1>3
  <2>2. n = 0 => s.p_pending[u] = {}
    BY <2>1, <1>3, FS_EmptySet
  <2> QED
    BY <2>2, <1>1 DEF FlagsAgree
<1>6. /\ cnt \in [Users -> Nat] /\ cnt[u] = n
      /\ \A x \in Users : cnt[x] > 0 => s.p_pendcount[x] > 0
      /\ \A x \in Users : cnt[x] = IF x = u THEN s.p_pendcount[x] - 1 ELSE s.p_pendcount[x]
      /\ n = 0 <=> s.p_pendcount[u] = 1
  BY <1>2, <1>4
<1> HIDE DEF cnt
<1>7. ended \in KernelState
  BY <1>1, <1>6 DEF KernelState
<1>8. /\ ended.queue = s.queue /\ ended.proc_ptr = s.proc_ptr /\ ended.bill_ptr = s.bill_ptr
      /\ ended.sched_group = s.sched_group /\ ended.p_flags = s.p_flags
      /\ ended.p_getfrom = s.p_getfrom /\ ended.p_sendto = s.p_sendto
      /\ ended.p_callerq = s.p_callerq /\ ended.p_int_blocked = s.p_int_blocked
      /\ ended.m_source = s.m_source /\ ended.p_pending = s.p_pending
      /\ ended.p_pendcount = cnt /\ ended.alive = s.alive
      /\ ended.sig_procs = s.sig_procs
  BY <1>1 DEF KernelState
<1>9. ended = [s EXCEPT !.p_pendcount[u] = n]
  BY DEF cnt
<1> HIDE DEF ended, n
<1>10. KInv(ended) /\ Kept(s, ended) /\ (BestRuns(s) => BestRuns(ended))
  <2>1. Runnable(ended) = Runnable(s)
    BY <1>8 DEF Runnable, isemptyp
  <2>2. Scheduled(ended) /\ (BestRuns(s) => BestRuns(ended))
    BY <2>1, <1>1, <1>7, <1>8, StillScheduled
  <2>3. Callers(ended)
    BY <1>1, <1>8, SameCallers
  <2>4. Partners(ended) /\ FlagsAgree(ended) /\ Kept(s, ended)
    BY <1>1, <1>6, <1>8 DEF Partners, FlagsAgree, Kept
  <2> QED
    BY <2>2, <2>3, <2>4 DEF KInv
<1>11. CASE n = 0
  <2> DEFINE t == Unblock(ended, u, "SIG_PENDING")
  <2>1. u \in ended.alive
    BY <1>1, <1>2, <1>4, <1>8 DEF FlagsAgree
  <2>2. KernelRuns(ended) /\ ended.proc_ptr \notin Users
    BY <1>8, ProcAssumption DEF KernelRuns
  <2>3. /\ KInv(t) /\ Kept(ended, t) /\ t.alive = ended.alive
        /\ Reflags(ended, t, u, ended.p_flags[u] \ {"SIG_PENDING"})
        /\ BestRuns(ended) => BestRuns(t)
    BY <2>1, <2>2, <1>4, <1>5, <1>6, <1>8, <1>10, <1>11, UnblockKInv
  <2> HIDE DEF t
  <2>4. Kept(s, t)
    BY <2>3, <1>10 DEF Kept
  <2>5. Ends(s, t, u)
    BY <2>3, <1>6, <1>8, <1>11 DEF Ends, Reflags, SameButFlags, SameRest, FlagsBut
  <2> QED
    BY <2>3, <2>4, <2>5, <1>8, <1>9, <1>10, <1>11 DEF t, n
<1>12. CASE n # 0
  <2>1. Ends(s, ended, u)
    BY <1>6, <1>8, <1>12 DEF Ends, FlagsBut
  <2> QED
    BY <2>1, <1>8, <1>9, <1>10, <1>12 DEF n
<1> QED
  BY <1>11, <1>12

(* The memory map of a user that is not ready arrives.                     *)
LEMMA NewmapKInv ==
  ASSUME NEW s, KInv(s), KernelRuns(s), NEW u \in Users, u \in s.alive
  PROVE  LET t == IF s.p_flags[u] # {} THEN Unblock(s, u, "NO_MAP") ELSE s
         IN /\ KInv(t) /\ Kept(s, t) /\ t.alive = s.alive
            /\ Reflags(s, t, u, s.p_flags[u] \ {"NO_MAP"})
            /\ BestRuns(s) => BestRuns(t)
<1> DEFINE v == [s EXCEPT !.p_flags[u] = s.p_flags[u] \ {"NO_MAP"}]
<1>1. s \in KernelState /\ u \in Proc
  BY DEF KInv, Scheduled, Proc
<1>2. CASE "NO_MAP" \in s.p_flags[u]
  <2>1. s.proc_ptr \notin Users
    BY ProcAssumption DEF KernelRuns
  <2> QED
    BY <2>1, <1>2, UnblockKInv
<1>3. CASE s.p_flags[u] = {}
  <2>1. Reflags(s, s, u, s.p_flags[u] \ {"NO_MAP"})
    BY <1>3 DEF Reflags, FlagsBut, SameButFlags, SameRest
  <2> QED
    BY <2>1, <1>3 DEF Kept
<1>4. CASE s.p_flags[u] # {} /\ "NO_MAP" \notin s.p_flags[u]
  <2>1. s.p_flags[u] \ {"NO_MAP"} \in SUBSET Flags
    BY <1>1 DEF KernelState
  <2>2. /\ v \in KernelState /\ SameButFlags(s, v)
        /\ v.queue = s.queue /\ v.proc_ptr = s.proc_ptr /\ v.bill_ptr = s.bill_ptr
        /\ v.p_flags = [s.p_flags EXCEPT ![u] = s.p_flags[u] \ {"NO_MAP"}]
    BY <2>1, <1>1, FlagsUpdate
  <2>3. Unblock(s, u, "NO_MAP") = IF v.p_flags[u] = {} THEN ready(v, u) ELSE v
    BY DEF Unblock
  <2> HIDE DEF v
  <2>4. v.p_flags = s.p_flags
    <3>1. s.p_flags \in [Proc -> SUBSET Flags]
      BY <1>1 DEF KernelState
    <3>2. s.p_flags[u] \ {"NO_MAP"} = s.p_flags[u]
      BY <1>4
    <3> QED
      BY <2>2, <3>1, <3>2
  <2>5. KInv(v) /\ Kept(s, v) /\ (BestRuns(s) => BestRuns(v))
    BY <2>2, <2>4, StillKInv DEF SameButFlags, SameRest
  <2>6. Unblock(s, u, "NO_MAP") = v
    BY <2>3, <2>4, <1>4
  <2>7. Reflags(s, v, u, s.p_flags[u] \ {"NO_MAP"})
    BY <2>2, <2>4, <1>4 DEF Reflags, FlagsBut
  <2> QED
    BY <2>2, <2>5, <2>6, <2>7, <1>4 DEF SameButFlags, SameRest
<1> QED
  BY <1>2, <1>3, <1>4

(* The new c waits, as its parent u does, for the answer of MM.            *)
Forks(s, t, u, c) ==
  /\ FlagsBut(s, t, c, (s.p_flags[u] \cup {"NO_MAP"}) \ {"PENDING", "SIG_PENDING", "P_STOP"})
  /\ \A x \in Proc : t.p_getfrom[x] = IF x = c THEN MM ELSE s.p_getfrom[x]
  /\ \A x \in Proc \ {c} : t.p_sendto[x] = s.p_sendto[x]
  /\ \A x \in Users : t.p_pending[x] = IF x = c THEN {} ELSE s.p_pending[x]
  /\ \A x \in Users : t.p_pendcount[x] = IF x = c THEN 0 ELSE s.p_pendcount[x]
  /\ t.sig_procs = s.sig_procs
  /\ t.p_int_blocked = s.p_int_blocked /\ t.m_source = s.m_source

(* What do_fork makes of the kernel state.                                 *)
Forked(s, u, child) ==
  [s EXCEPT !.alive = @ \cup {child},
            !.p_flags[child] = (s.p_flags[u] \cup {"NO_MAP"})
                                 \ {"PENDING", "SIG_PENDING", "P_STOP"},
            !.p_getfrom[child] = s.p_getfrom[u],
            !.p_sendto[child]  = s.p_sendto[u],
            !.p_callerq[child] = s.p_callerq[u],
            !.sched_group[child] = 0, !.wait_ticks[child] = 0,
            !.cpu_estimate[child] = 0, !.rr_counter[child] = 0,
            !.p_pending[child] = {}, !.p_pendcount[child] = 0]

(* A waiting parent is copied into an empty slot.                          *)
LEMMA ForkKInv ==
  ASSUME NEW s, KInv(s), NEW u \in Users, Waiting(s, u), s.p_getfrom[u] = MM,
         NEW child \in Users \ s.alive
  PROVE  LET t == Forked(s, u, child)
         IN /\ KInv(t) /\ Kept(s, t) /\ t.alive = s.alive \cup {child}
            /\ Forks(s, t, u, child)
            /\ BestRuns(s) => BestRuns(t)
<1> DEFINE al == s.alive \cup {child}
           new == (s.p_flags[u] \cup {"NO_MAP"}) \ {"PENDING", "SIG_PENDING", "P_STOP"}
           fl == [s.p_flags EXCEPT ![child] = new]
           gf == [s.p_getfrom EXCEPT ![child] = s.p_getfrom[u]]
           st == [s.p_sendto EXCEPT ![child] = s.p_sendto[u]]
           cq == [s.p_callerq EXCEPT ![child] = s.p_callerq[u]]
           sg == [s.sched_group EXCEPT ![child] = 0]
           wt == [s.wait_ticks EXCEPT ![child] = 0]
           ce == [s.cpu_estimate EXCEPT ![child] = 0]
           rr == [s.rr_counter EXCEPT ![child] = 0]
           pp == [s.p_pending EXCEPT ![child] = {}]
           cnt == [s.p_pendcount EXCEPT ![child] = 0]
           t == [s EXCEPT !.alive = al, !.p_flags = fl, !.p_getfrom = gf, !.p_sendto = st,
                          !.p_callerq = cq, !.sched_group = sg, !.wait_ticks = wt,
                          !.cpu_estimate = ce, !.rr_counter = rr, !.p_pending = pp,
                          !.p_pendcount = cnt]
<1>1. Scheduled(s) /\ Callers(s) /\ Partners(s) /\ FlagsAgree(s) /\ s \in KernelState
  BY DEF KInv, Scheduled
<1>2. /\ u \in Proc /\ child \in Proc /\ child \notin Tasks /\ child \notin Servers
      /\ s.p_flags[child] = {} /\ MM # ANY
  BY <1>1, ProcAssumption, MessagesAssumption DEF FlagsAgree, Proc
<1>3. /\ s.p_flags \in [Proc -> SUBSET Flags]
      /\ s.p_getfrom \in [Proc -> Proc \cup {ANY}]
      /\ s.p_sendto \in [Proc -> Proc]
      /\ s.p_callerq \in [Proc -> Seq(Proc)]
      /\ s.alive \in SUBSET Users
  BY <1>1 DEF KernelState
<1>4. /\ s.sched_group \in [Users -> 0..3]
      /\ s.wait_ticks \in [Users -> 0..MAX_WAIT_TICKS]
      /\ s.rr_counter \in [Users -> 0..RR_QUANTUM - 1]
      /\ s.cpu_estimate \in [Users -> {0, DefaultEstimate} \cup Estimates]
      /\ s.p_pending \in [Users -> SUBSET Signals]
      /\ s.p_pendcount \in [Users -> Nat]
  BY <1>1 DEF KernelState
<1>5. /\ fl \in [Proc -> SUBSET Flags] /\ fl[child] = new
      /\ \A p \in Proc \ {child} : fl[p] = s.p_flags[p]
  <2>1. new \in SUBSET Flags
    BY <1>2, <1>3 DEF Flags
  <2> HIDE DEF new
  <2> QED
    BY <2>1, <1>2, <1>3
<1>6. "NO_MAP" \in new /\ "SENDING" \notin new /\ "PENDING" \notin new
  BY DEF Waiting, Has
<1>7. /\ gf \in [Proc -> Proc \cup {ANY}] /\ gf[child] = MM
      /\ \A p \in Proc \ {child} : gf[p] = s.p_getfrom[p]
  BY <1>2, <1>3
<1>8. st \in [Proc -> Proc] /\ \A p \in Proc \ {child} : st[p] = s.p_sendto[p]
  BY <1>2, <1>3
<1>9. /\ cq \in [Proc -> Seq(Proc)] /\ cq[child] = s.p_callerq[u]
      /\ \A p \in Proc \ {child} : cq[p] = s.p_callerq[p]
  BY <1>2, <1>3
<1>10. /\ sg \in [Users -> 0..3]
       /\ \A x \in Users \ {child} : sg[x] = s.sched_group[x]
  BY <1>4
<1>11. /\ wt \in [Users -> 0..MAX_WAIT_TICKS]
       /\ rr \in [Users -> 0..RR_QUANTUM - 1]
       /\ ce \in [Users -> {0, DefaultEstimate} \cup Estimates]
  BY <1>4, KernelAssumption
<1>12. /\ pp \in [Users -> SUBSET Signals] /\ pp[child] = {}
       /\ \A x \in Users \ {child} : pp[x] = s.p_pending[x]
  BY <1>4
<1>13. /\ cnt \in [Users -> Nat] /\ cnt[child] = 0
       /\ \A x \in Users \ {child} : cnt[x] = s.p_pendcount[x]
  BY <1>4
<1>14. al \in SUBSET Users
  BY <1>3
<1>18. t = Forked(s, u, child)
  BY DEF Forked
<1> HIDE DEF al, new, fl, gf, st, cq, sg, wt, ce, rr, pp, cnt
<1>15. t \in KernelState
  <2>1. /\ fl \in [Proc -> SUBSET Flags] /\ gf \in [Proc -> Proc \cup {ANY}]
        /\ st \in [Proc -> Proc] /\ cq \in [Proc -> Seq(Proc)]
        /\ sg \in [Users -> 0..3] /\ pp \in [Users -> SUBSET Signals]
        /\ cnt \in [Users -> Nat]
    BY <1>5, <1>7, <1>8, <1>9, <1>10, <1>12, <1>13
  <2> QED
    BY <1>1, <1>11, <1>14, <2>1 DEF KernelState
<1>16. /\ t.queue = s.queue /\ t.proc_ptr = s.proc_ptr /\ t.sched_group = sg
       /\ t.bill_ptr = s.bill_ptr
       /\ t.p_flags = fl /\ t.p_getfrom = gf /\ t.p_sendto = st
       /\ t.p_callerq = cq /\ t.p_int_blocked = s.p_int_blocked
       /\ t.m_source = s.m_source /\ t.p_pending = pp
       /\ t.p_pendcount = cnt /\ t.alive = al /\ t.sig_procs = s.sig_procs
  BY <1>1 DEF KernelState
<1>17. /\ KInv(t) /\ Kept(s, t) /\ t.alive = al /\ Forks(s, t, u, child)
       /\ BestRuns(s) => BestRuns(t)
  <2> HIDE DEF t
  <2>1. child \notin Runnable(s)
    BY DEF Runnable, isemptyp
  <2>2. Runnable(t) = Runnable(s)
    <3>1. fl[child] # {}
      BY <1>5, <1>6
    <3>2. \A p \in Proc \ {child} : isemptyp(t, p) <=> isemptyp(s, p)
      BY <1>16 DEF isemptyp, al
    <3> QED
      BY <2>1, <3>1, <3>2, <1>5, <1>16 DEF Runnable
  <2>3. Scheduled(t) /\ (BestRuns(s) => BestRuns(t))
    BY <2>1, <2>2, <1>1, <1>10, <1>15, <1>16, StillPlaced
  <2>4. \A d \in Proc : CallersOf(t, d) = CallersOf(s, d)
    BY <1>2, <1>5, <1>6, <1>8, <1>16 DEF CallersOf
  <2>5. Callers(t)
    <3> SUFFICES ASSUME NEW d \in Proc PROVE Holds(cq[d], CallersOf(s, d))
      BY <2>4, <1>16 DEF Callers
    <3>1. CASE d = child
      <4>1. CallersOf(s, d) = {} /\ CallersOf(s, u) = {}
        BY <3>1, <1>1 DEF CallersOf, Partners
      <4> QED
        BY <4>1, <3>1, <1>1, <1>2, <1>9 DEF Callers
    <3>2. CASE d # child
      BY <3>2, <1>1, <1>9 DEF Callers
    <3> QED
      BY <3>1, <3>2
  <2>6. Partners(t)
    BY <1>1, <1>5, <1>6, <1>8, <1>16 DEF Partners
  <2>7. FlagsAgree(t)
    <3>1. \A p \in Tasks \cup Servers : t.p_flags[p] = s.p_flags[p]
      BY <1>2, <1>5, <1>16 DEF Proc
    <3>2. \A p \in Proc : "RECEIVING" \in t.p_flags[p] /\ t.p_getfrom[p] = ANY
                            => "SENDING" \notin t.p_flags[p]
      BY <1>1, <1>5, <1>6, <1>7, <1>16 DEF FlagsAgree
    <3>3. ASSUME NEW x \in Users
          PROVE  /\ "PENDING" \in t.p_flags[x] => "SIG_PENDING" \in t.p_flags[x]
                 /\ "PENDING" \in t.p_flags[x] => t.p_pending[x] # {}
                 /\ t.p_pendcount[x] > 0 => "SIG_PENDING" \in t.p_flags[x]
                 /\ x \notin t.alive => t.p_flags[x] = {}
      <4>1. CASE x = child
        BY <4>1, <1>5, <1>6, <1>13, <1>16 DEF al
      <4>2. CASE x # child
        BY <4>2, <1>1, <1>5, <1>12, <1>13, <1>16 DEF FlagsAgree, Proc, al
      <4> QED
        BY <4>1, <4>2
    <3> QED
      BY <3>1, <3>2, <3>3, <1>1 DEF FlagsAgree
  <2>8. Kept(s, t)
    BY <1>2, <1>5, <1>16 DEF Kept, Proc
  <2>9. Forks(s, t, u, child)
    <3>1. FlagsBut(s, t, child, (s.p_flags[u] \cup {"NO_MAP"}) \ {"PENDING", "SIG_PENDING", "P_STOP"})
      BY <1>5, <1>16 DEF FlagsBut, new
    <3> QED
      BY <3>1, <1>7, <1>8, <1>12, <1>13, <1>16 DEF Forks
  <2> QED
    BY <2>3, <2>5, <2>6, <2>7, <2>8, <2>9, <1>16 DEF KInv
<1> HIDE DEF t
<1> QED
  BY <1>17, <1>18 DEF al

(* Nothing of u is left.                                                   *)
Exits(s, t, u) ==
  /\ FlagsBut(s, t, u, {})
  /\ \A x \in Users : t.p_pending[x] = IF x = u THEN {} ELSE s.p_pending[x]
  /\ \A x \in Users : t.p_pendcount[x] = IF x = u THEN 0 ELSE s.p_pendcount[x]
  /\ t.sig_procs = IF Has(s, u, "PENDING") THEN s.sig_procs - 1 ELSE s.sig_procs
  /\ t.p_getfrom = s.p_getfrom /\ t.p_sendto = s.p_sendto
  /\ t.p_int_blocked = s.p_int_blocked /\ t.m_source = s.m_source

(* A user that exits leaves its ready queue and the queue it sends in.     *)
LEMMA XitKInv ==
  ASSUME NEW s, KInv(s), NEW u \in Users, u \in s.alive
  PROVE  LET gone == IF s.p_flags[u] = {} THEN unready(s, u) ELSE s
             t == [gone EXCEPT !.p_callerq = Unqueued(s, u),
                               !.sig_procs = IF Has(s, u, "PENDING") THEN @ - 1 ELSE @,
                               !.p_pending[u] = {}, !.p_pendcount[u] = 0,
                               !.p_flags[u] = {}, !.alive = @ \ {u}]
         IN /\ KInv(t) /\ Kept(s, t) /\ t.alive = s.alive \ {u}
            /\ Exits(s, t, u)
            /\ BestRuns(s) => BestRuns(t)
<1> DEFINE R == Runnable(s)
           gone == IF s.p_flags[u] = {} THEN unready(s, u) ELSE s
           cq == Unqueued(s, u)
           sp == IF Has(s, u, "PENDING") THEN gone.sig_procs - 1 ELSE gone.sig_procs
           pp == [gone.p_pending EXCEPT ![u] = {}]
           cnt == [gone.p_pendcount EXCEPT ![u] = 0]
           fl == [gone.p_flags EXCEPT ![u] = {}]
           al == gone.alive \ {u}
           t == [gone EXCEPT !.p_callerq = cq, !.sig_procs = sp, !.p_pending = pp,
                             !.p_pendcount = cnt, !.p_flags = fl, !.alive = al]
<1>1. /\ Scheduled(s) /\ Callers(s) /\ Partners(s) /\ FlagsAgree(s) /\ s \in KernelState
      /\ Placed(s, R) /\ HeadRuns(s, R) /\ R \in SUBSET Proc
  BY DEF KInv, Scheduled, Runnable
<1>2. u \in Proc /\ u \notin Tasks /\ u \notin Servers /\ ~isemptyp(s, u)
  BY ProcAssumption DEF Proc, isemptyp
<1>3. /\ gone \in KernelState /\ SameMessages(s, gone)
      /\ Placed(gone, R \ {u}) /\ HeadRuns(gone, R \ {u})
      /\ Best(s, R) => Best(gone, R \ {u})
  <2>1. CASE s.p_flags[u] = {}
    <3>1. u \in R
      BY <2>1, <1>2 DEF Runnable
    <3> HIDE DEF R
    <3>2. gone = unready(s, u)
      BY <2>1
    <3> QED
      BY <3>1, <3>2, <1>1, UnreadyPlaced
  <2>2. CASE s.p_flags[u] # {}
    <3>1. R \ {u} = R /\ gone = s
      BY <2>2 DEF Runnable
    <3> HIDE DEF R
    <3> QED
      BY <3>1, <1>1 DEF SameMessages
  <2> QED
    BY <2>1, <2>2
<1> HIDE DEF gone
<1>4. /\ gone.p_flags = s.p_flags /\ gone.p_pending = s.p_pending
      /\ gone.p_pendcount = s.p_pendcount /\ gone.alive = s.alive
      /\ gone.p_callerq = s.p_callerq /\ gone.p_sendto = s.p_sendto
      /\ gone.p_getfrom = s.p_getfrom /\ gone.p_int_blocked = s.p_int_blocked
      /\ gone.m_source = s.m_source /\ gone.sig_procs = s.sig_procs
  BY <1>3 DEF SameMessages
<1>5. /\ gone.p_flags \in [Proc -> SUBSET Flags]
      /\ gone.p_pending \in [Users -> SUBSET Signals]
      /\ gone.p_pendcount \in [Users -> Nat]
      /\ gone.alive \in SUBSET Users /\ gone.sig_procs \in Int
      /\ s.p_callerq \in [Proc -> Seq(Proc)] /\ s.p_sendto \in [Proc -> Proc]
  BY <1>1, <1>3 DEF KernelState
<1>6. /\ fl \in [Proc -> SUBSET Flags] /\ fl[u] = {}
      /\ \A p \in Proc \ {u} : fl[p] = s.p_flags[p]
  BY <1>2, <1>4, <1>5
<1>7. /\ pp \in [Users -> SUBSET Signals] /\ pp[u] = {}
      /\ \A x \in Users \ {u} : pp[x] = s.p_pending[x]
  BY <1>4, <1>5
<1>8. /\ cnt \in [Users -> Nat] /\ cnt[u] = 0
      /\ \A x \in Users \ {u} : cnt[x] = s.p_pendcount[x]
  BY <1>4, <1>5
<1>9. /\ al \in SUBSET Users /\ al = s.alive \ {u} /\ sp \in Int
      /\ sp = IF Has(s, u, "PENDING") THEN s.sig_procs - 1 ELSE s.sig_procs
  BY <1>4, <1>5
<1>10. /\ \A d \in Proc : Holds(cq[d], CallersOf(s, d) \ {u})
       /\ cq \in [Proc -> Seq(Proc)]
  <2>1. CASE "SENDING" \in s.p_flags[u]
    <3> DEFINE e == s.p_sendto[u]
    <3>1. e \in Proc /\ u \in CallersOf(s, e)
      BY <2>1, <1>2, <1>5 DEF CallersOf
    <3>2. \A d \in Proc \ {e} : u \notin CallersOf(s, d)
      BY DEF CallersOf
    <3>3. cq = [s.p_callerq EXCEPT ![e] = RemoveFirst(s.p_callerq[e], u)]
      BY <2>1 DEF Unqueued, Has
    <3> HIDE DEF e, cq
    <3>4. Holds(RemoveFirst(s.p_callerq[e], u), CallersOf(s, e) \ {u})
      BY <3>1, <1>1, HoldsRemoveFirst DEF Callers
    <3>5. RemoveFirst(s.p_callerq[e], u) \in Seq(Proc)
      <4>1. RemoveFirst(s.p_callerq[e], u) \in Seq(CallersOf(s, e) \ {u})
        BY <3>4 DEF Holds
      <4>2. \A i \in 1..Len(RemoveFirst(s.p_callerq[e], u)) :
               RemoveFirst(s.p_callerq[e], u)[i] \in Proc
        BY <3>4, HoldsAt DEF CallersOf
      <4> QED
        BY <4>1, <4>2, SeqOfElements
    <3>6. \A d \in Proc : cq[d] = IF d = e THEN RemoveFirst(s.p_callerq[e], u)
                                   ELSE s.p_callerq[d]
      BY <3>1, <3>3, <1>5
    <3>7. cq \in [Proc -> Seq(Proc)]
      BY <3>3, <3>5, <1>5
    <3>8. \A d \in Proc \ {e} : CallersOf(s, d) \ {u} = CallersOf(s, d)
      BY <3>2
    <3> QED
      BY <3>4, <3>6, <3>7, <3>8, <1>1 DEF Callers
  <2>2. CASE "SENDING" \notin s.p_flags[u]
    <3>1. cq = s.p_callerq
      BY <2>2 DEF Unqueued, Has
    <3>2. \A d \in Proc : CallersOf(s, d) \ {u} = CallersOf(s, d)
      BY <2>2 DEF CallersOf
    <3> QED
      BY <3>1, <3>2, <1>1, <1>5 DEF Callers
  <2> QED
    BY <2>1, <2>2
<1>11. t = [gone EXCEPT !.p_callerq = Unqueued(s, u),
                        !.sig_procs = IF Has(s, u, "PENDING") THEN @ - 1 ELSE @,
                        !.p_pending[u] = {}, !.p_pendcount[u] = 0,
                        !.p_flags[u] = {}, !.alive = @ \ {u}]
  OBVIOUS
<1> HIDE DEF cq, sp, pp, cnt, fl, al
<1>12. t \in KernelState
  <2>1. gone \in KernelState
    BY <1>3
  <2>2. /\ fl \in [Proc -> SUBSET Flags] /\ cq \in [Proc -> Seq(Proc)]
        /\ pp \in [Users -> SUBSET Signals] /\ cnt \in [Users -> Nat]
        /\ al \in SUBSET Users /\ sp \in Int
    BY <1>6, <1>7, <1>8, <1>9, <1>10
  <2> QED
    BY <2>1, <2>2 DEF KernelState
<1>13. /\ t.queue = gone.queue /\ t.proc_ptr = gone.proc_ptr /\ t.bill_ptr = gone.bill_ptr
       /\ t.sched_group = gone.sched_group /\ t.p_getfrom = gone.p_getfrom
       /\ t.p_sendto = gone.p_sendto /\ t.p_int_blocked = gone.p_int_blocked
       /\ t.m_source = gone.m_source
       /\ t.p_flags = fl /\ t.p_callerq = cq /\ t.p_pending = pp
       /\ t.p_pendcount = cnt /\ t.alive = al /\ t.sig_procs = sp
  BY <1>3 DEF KernelState
<1> HIDE DEF t
<1>14. Scheduled(t) /\ (Best(s, R) => BestRuns(t))
  <2>1. Runnable(t) = R \ {u}
    <3>1. \A p \in Proc \ {u} : isemptyp(t, p) <=> isemptyp(s, p)
      BY <1>9, <1>13 DEF isemptyp
    <3>2. isemptyp(t, u)
      BY <1>9, <1>13 DEF isemptyp
    <3> QED
      BY <3>1, <3>2, <1>6, <1>13 DEF Runnable
  <2> HIDE DEF R
  <2>2. /\ \A p : QueueOf(t, p) = QueueOf(gone, p)
        /\ \A m : Members(t, R \ {u}, m) = Members(gone, R \ {u}, m)
    BY <1>13, SameMembers
  <2> QED
    BY <2>1, <2>2, <1>3, <1>12, <1>13 DEF Scheduled, Placed, HeadRuns, BestRuns, Best
<1>15. Callers(t)
  <2>1. \A d : CallersOf(t, d) = CallersOf(s, d) \ {u}
    BY <1>4, <1>6, <1>13 DEF CallersOf
  <2> QED
    BY <2>1, <1>10, <1>13 DEF Callers
<1>16. Partners(t)
  BY <1>1, <1>4, <1>6, <1>13 DEF Partners
<1>17. FlagsAgree(t)
  <2>1. \A p \in Tasks \cup Servers : t.p_flags[p] = s.p_flags[p]
    BY <1>2, <1>6, <1>13 DEF Proc
  <2>2. \A p \in Proc : "RECEIVING" \in t.p_flags[p] /\ t.p_getfrom[p] = ANY
                          => "SENDING" \notin t.p_flags[p]
    BY <1>1, <1>4, <1>6, <1>13 DEF FlagsAgree
  <2>3. ASSUME NEW x \in Users
        PROVE  /\ "PENDING" \in t.p_flags[x] => "SIG_PENDING" \in t.p_flags[x]
               /\ "PENDING" \in t.p_flags[x] => t.p_pending[x] # {}
               /\ t.p_pendcount[x] > 0 => "SIG_PENDING" \in t.p_flags[x]
               /\ x \notin t.alive => t.p_flags[x] = {}
    <3>1. CASE x = u
      BY <3>1, <1>6, <1>8, <1>13
    <3>2. CASE x # u
      BY <3>2, <1>1, <1>6, <1>7, <1>8, <1>9, <1>13 DEF FlagsAgree, Proc
    <3> QED
      BY <3>1, <3>2
  <2> QED
    BY <2>1, <2>2, <2>3, <1>1 DEF FlagsAgree
<1>18. Kept(s, t)
  BY <1>2, <1>4, <1>6, <1>13 DEF Kept, Proc
<1>19. Exits(s, t, u)
  BY <1>4, <1>6, <1>7, <1>8, <1>9, <1>13 DEF Exits, FlagsBut
<1> QED
  BY <1>9, <1>11, <1>13, <1>14, <1>15, <1>16, <1>17, <1>18, <1>19 DEF KInv, gone, BestRuns

(* The time slice of a user is over.                                       *)
LEMMA SchedKInv ==
  ASSUME NEW s, KInv(s)
  PROVE  /\ KInv(sched(s)) /\ Kept(s, sched(s)) /\ SameMessages(s, sched(s))
         /\ BestRuns(s) => BestRuns(sched(s))
<1> DEFINE R == Runnable(s)
           t == sched(s)
<1>1. s \in KernelState /\ Placed(s, R) /\ HeadRuns(s, R) /\ R \in SUBSET Proc
  BY DEF KInv, Scheduled, Runnable
<1> HIDE DEF R
<1>2. /\ t \in KernelState /\ SameMessages(s, t)
      /\ Placed(t, R) /\ HeadRuns(t, R)
      /\ Best(s, R) => Best(t, R)
  BY <1>1, SchedPlaced
<1> HIDE DEF t
<1>3. Runnable(t) = R
  BY <1>2 DEF Runnable, SameMessages, isemptyp, R
<1>4. Scheduled(t) /\ (BestRuns(s) => BestRuns(t))
  BY <1>2, <1>3 DEF Scheduled, BestRuns, R
<1> QED
  BY <1>2, <1>4, SchedulingKInv DEF t, SameMessages

LEMMA QuantumKInv ==
  ASSUME NEW s, KInv(s)
  PROVE  LET t == count_quantum(s)
         IN KInv(t) /\ Kept(s, t) /\ SameMessages(s, t) /\ (BestRuns(s) => BestRuns(t))
<1> DEFINE p == s.proc_ptr
           n == s.rr_counter[p] + 1
           t == count_quantum(s)
<1>1. s \in KernelState /\ s.rr_counter \in [Users -> 0..RR_QUANTUM - 1]
  BY DEF KInv, Scheduled, KernelState
<1>2. CASE ~RunsGroup1(s)
  BY <1>2 DEF count_quantum, Kept, SameMessages
<1>3. ASSUME NEW m \in 0..RR_QUANTUM - 1, RunsGroup1(s)
      PROVE  LET v == [s EXCEPT !.rr_counter[p] = m]
             IN KInv(v) /\ Kept(s, v) /\ SameMessages(s, v) /\ (BestRuns(s) => BestRuns(v))
  <2> DEFINE rr == [s.rr_counter EXCEPT ![p] = m]
             v == [s EXCEPT !.rr_counter = rr]
  <2>1. rr \in [Users -> 0..RR_QUANTUM - 1]
    BY <1>1
  <2>2. v = [s EXCEPT !.rr_counter[p] = m]
    OBVIOUS
  <2> HIDE DEF rr
  <2>3. v \in KernelState
    BY <1>1, <2>1 DEF KernelState
  <2>4. /\ v.queue = s.queue /\ v.proc_ptr = s.proc_ptr /\ v.sched_group = s.sched_group
        /\ v.bill_ptr = s.bill_ptr
        /\ v.p_flags = s.p_flags /\ v.p_getfrom = s.p_getfrom /\ v.p_sendto = s.p_sendto
        /\ v.p_callerq = s.p_callerq /\ v.p_int_blocked = s.p_int_blocked
        /\ v.m_source = s.m_source /\ v.p_pending = s.p_pending
        /\ v.p_pendcount = s.p_pendcount /\ v.alive = s.alive /\ v.sig_procs = s.sig_procs
    BY <1>1 DEF KernelState
  <2> HIDE DEF v
  <2>5. KInv(v) /\ Kept(s, v) /\ SameMessages(s, v) /\ (BestRuns(s) => BestRuns(v))
    BY <2>3, <2>4, StillKInv DEF SameMessages
  <2> QED
    BY <2>2, <2>4, <2>5
<1>4. CASE RunsGroup1(s) /\ n >= RR_QUANTUM
  <2> DEFINE v == [s EXCEPT !.rr_counter[p] = 0]
  <2>1. 0 \in 0..RR_QUANTUM - 1
    BY KernelAssumption
  <2>2. KInv(v) /\ Kept(s, v) /\ SameMessages(s, v) /\ (BestRuns(s) => BestRuns(v))
    BY <2>1, <1>3, <1>4
  <2>3. t = sched(v)
    BY <1>4 DEF count_quantum
  <2> HIDE DEF v, t
  <2>4. KInv(t) /\ Kept(v, t) /\ SameMessages(v, t) /\ (BestRuns(v) => BestRuns(t))
    BY <2>2, <2>3, SchedKInv
  <2>5. Kept(s, t) /\ SameMessages(s, t)
    BY <2>2, <2>4 DEF Kept, SameMessages
  <2> QED
    BY <2>2, <2>4, <2>5 DEF t
<1>5. CASE RunsGroup1(s) /\ ~(n >= RR_QUANTUM)
  <2>1. n \in 0..RR_QUANTUM - 1
    <3>1. s.rr_counter[p] \in 0..RR_QUANTUM - 1
      BY <1>1, <1>5 DEF RunsGroup1
    <3> QED
      BY <3>1, <1>5, KernelAssumption
  <2>2. t = [s EXCEPT !.rr_counter[p] = n]
    BY <1>5 DEF count_quantum
  <2> HIDE DEF n, t
  <2> QED
    BY <2>1, <2>2, <1>3, <1>5 DEF t
<1> QED
  BY <1>2, <1>4, <1>5

LEMMA AgingKInv ==
  ASSUME NEW s, KInv(s)
  PROVE  LET t == update_aging_for_group2(s)
         IN KInv(t) /\ Kept(s, t) /\ SameMessages(s, t) /\ (BestRuns(s) => BestRuns(t))
<1> DEFINE Ready(u)   == u \in ToSet(s.queue["g2"]) /\ u # s.proc_ptr
           Blocked(u) == s.sched_group[u] = 2 /\ (Has(s, u, "SENDING") \/ Has(s, u, "RECEIVING"))
           Aged(u)    == s.wait_ticks[u] + (IF Ready(u) THEN 1 ELSE 0)
                                         + (IF Blocked(u) THEN 1 ELSE 0)
           wt == [u \in Users |-> IF Aged(u) > MAX_WAIT_TICKS THEN MAX_WAIT_TICKS ELSE Aged(u)]
           t == [s EXCEPT !.wait_ticks = wt]
<1>1. s \in KernelState /\ s.wait_ticks \in [Users -> 0..MAX_WAIT_TICKS]
  BY DEF KInv, Scheduled, KernelState
<1>2. wt \in [Users -> 0..MAX_WAIT_TICKS]
  <2> SUFFICES ASSUME NEW u \in Users PROVE wt[u] \in 0..MAX_WAIT_TICKS
    OBVIOUS
  <2>1. s.wait_ticks[u] \in 0..MAX_WAIT_TICKS
    BY <1>1
  <2> HIDE DEF Ready, Blocked
  <2> QED
    BY <2>1, KernelAssumption
<1>3. update_aging_for_group2(s) = t
  BY DEF update_aging_for_group2
<1> HIDE DEF wt
<1>4. t \in KernelState
  BY <1>1, <1>2 DEF KernelState
<1>5. /\ t.queue = s.queue /\ t.proc_ptr = s.proc_ptr /\ t.sched_group = s.sched_group
      /\ t.bill_ptr = s.bill_ptr
      /\ t.p_flags = s.p_flags /\ t.p_getfrom = s.p_getfrom /\ t.p_sendto = s.p_sendto
      /\ t.p_callerq = s.p_callerq /\ t.p_int_blocked = s.p_int_blocked
      /\ t.m_source = s.m_source /\ t.p_pending = s.p_pending
      /\ t.p_pendcount = s.p_pendcount /\ t.alive = s.alive /\ t.sig_procs = s.sig_procs
  BY <1>1 DEF KernelState
<1> HIDE DEF t
<1> QED
  BY <1>3, <1>4, <1>5, StillKInv DEF SameMessages

(* The clock interrupt, until it wakes up the clock task.                  *)
LEMMA TickKInv ==
  ASSUME NEW s, KInv(s)
  PROVE  LET t == handle_clock_tick(s)
         IN KInv(t) /\ Kept(s, t) /\ SameMessages(s, t) /\ (BestRuns(s) => BestRuns(t))
<1> DEFINE v == count_quantum(s)
           w == update_aging_for_group2(v)
<1>1. KInv(v) /\ Kept(s, v) /\ SameMessages(s, v) /\ (BestRuns(s) => BestRuns(v))
  BY QuantumKInv
<1>2. handle_clock_tick(s) = IF aging_counter + 1 >= AGING_TICK THEN w ELSE v
  BY DEF handle_clock_tick
<1> HIDE DEF v
<1>3. KInv(w) /\ Kept(v, w) /\ SameMessages(v, w) /\ (BestRuns(v) => BestRuns(w))
  BY <1>1, AgingKInv
<1> HIDE DEF w
<1>4. Kept(s, w) /\ SameMessages(s, w)
  BY <1>1, <1>3 DEF Kept, SameMessages
<1> QED
  BY <1>1, <1>2, <1>3, <1>4

-----------------------------------------------------------------------------
(* The actions.                                                            *)

LEMMA UserCallInv ==
  ASSUME Inv, NEW u \in Users, UserCall(u)
  PROVE  Inv'
<1>1. KInv(k') /\ BestRuns(k') /\ Kept(k, k') /\ k'.alive = k.alive
  <2>1. PICK s \in Servers : k' = SendRec(k, u, s)
    BY DEF UserCall
  <2>2. s \notin Tasks
    BY ProcAssumption
  <2> QED
    BY <2>1, <2>2, SendRecKInv DEF Inv, UserCall, Running
<1>2. TaskLoop(k', pc)
  BY <1>1, KeptLoop DEF Inv
<1> QED
  BY <1>1, <1>2 DEF Inv, UserCall, clockVars

LEMMA ServerReceiveInv ==
  ASSUME Inv, NEW s \in Servers, ServerReceive(s)
  PROVE  Inv'
<1>1. s \in Proc /\ s \notin Tasks /\ s \notin Users
  BY ProcAssumption DEF Proc
<1>2. k.p_flags[s] = {} /\ ~isemptyp(k, s)
  BY <1>1, RunningRunnable DEF Inv, ServerReceive, Running
<1>3. KInv(k') /\ BestRuns(k') /\ KeptBut(k, k', s) /\ k'.alive = k.alive
  BY <1>1, <1>2, MiniRec DEF Inv, ServerReceive, Running, KernelRuns
<1>4. Kept(k, k')
  BY <1>1, <1>3 DEF Kept, KeptBut
<1>5. TaskLoop(k', pc)
  BY <1>4, KeptLoop DEF Inv
<1> QED
  BY <1>3, <1>5 DEF Inv, ServerReceive, clockVars

LEMMA ServerCallInv ==
  ASSUME Inv, NEW s \in Servers, ServerCall(s)
  PROVE  Inv'
<1>1. KInv(k') /\ BestRuns(k') /\ Kept(k, k') /\ k'.alive = k.alive
  <2>1. PICK d \in {CLOCK, SYSTASK} \cup (Servers \ {s}) : k' = SendRec(k, s, d)
    BY DEF ServerCall
  <2>2. d \in Tasks \cup Servers
    BY KernelAssumption
  <2> QED
    BY <2>1, <2>2, SendRecKInv DEF Inv, ServerCall, Running
<1>2. TaskLoop(k', pc)
  BY <1>1, KeptLoop DEF Inv
<1> QED
  BY <1>1, <1>2 DEF Inv, ServerCall, clockVars

LEMMA ServerReplyInv ==
  ASSUME Inv, NEW s \in Servers, ServerReply(s)
  PROVE  Inv'
<1>1. KInv(k') /\ BestRuns(k') /\ Kept(k, k') /\ k'.alive = k.alive
  <2>1. PICK c \in Users \cup Servers :
           Waiting(k, c) /\ k.p_getfrom[c] = s /\ k' = Send(k, s, c)
    BY DEF ServerReply
  <2>2. WaitsFor(k, c, s)
    BY <2>1 DEF WaitsFor
  <2> QED
    BY <2>1, <2>2, SendKInv DEF Inv, ServerReply, Running
<1>2. TaskLoop(k', pc)
  BY <1>1, KeptLoop DEF Inv
<1> QED
  BY <1>1, <1>2 DEF Inv, ServerReply, clockVars

(* Task c has nothing in its buffer.                                       *)
Empties(s, t, c) ==
  /\ SourceBut(s, t, c, NIL) /\ t.p_flags = s.p_flags
  /\ t.p_getfrom = s.p_getfrom /\ t.p_sendto = s.p_sendto
  /\ t.p_int_blocked = s.p_int_blocked /\ SameSignals(s, t)

(* A task asks for its next message.                                       *)
LEMMA TaskReceiveInv ==
  ASSUME Inv, NEW c \in Tasks, TaskReceive(c)
  PROVE  Inv' /\ \E v : KInv(v) /\ Empties(k, v, c) /\ Receives(v, k', c, ANY)
<1> DEFINE ms == [k.m_source EXCEPT ![c] = NIL]
           v  == [k EXCEPT !.m_source = ms]
<1>1. c \in Proc /\ c \notin Users
  BY ProcAssumption DEF Proc
<1>2. KInv(k) /\ k \in KernelState /\ k.m_source \in [Tasks -> Proc \cup {HARDWARE, NIL}]
  BY DEF Inv, KInv, Scheduled, KernelState
<1>3. k.p_flags[c] = {} /\ k.proc_ptr = c /\ pc[c] = "receive"
  BY <1>1, <1>2, RunningRunnable DEF TaskReceive, At, Running
<1>4. /\ ms \in [Tasks -> Proc \cup {HARDWARE, NIL}]
      /\ \A x \in Tasks : ms[x] = IF x = c THEN NIL ELSE k.m_source[x]
  BY <1>2
<1>5. v = [k EXCEPT !.m_source[c] = NIL]
  OBVIOUS
<1> HIDE DEF ms
<1>6. v \in KernelState
  BY <1>2, <1>4 DEF KernelState
<1>7. /\ v.queue = k.queue /\ v.proc_ptr = k.proc_ptr /\ v.sched_group = k.sched_group
      /\ v.bill_ptr = k.bill_ptr
      /\ v.p_flags = k.p_flags /\ v.p_getfrom = k.p_getfrom /\ v.p_sendto = k.p_sendto
      /\ v.p_callerq = k.p_callerq /\ v.p_int_blocked = k.p_int_blocked
      /\ v.m_source = ms /\ v.p_pending = k.p_pending
      /\ v.p_pendcount = k.p_pendcount /\ v.alive = k.alive /\ v.sig_procs = k.sig_procs
  BY <1>2 DEF KernelState
<1> HIDE DEF v
<1>8. KInv(v) /\ BestRuns(v)
  <2>1. Scheduled(k) /\ Callers(k) /\ Partners(k) /\ FlagsAgree(k)
    BY <1>2 DEF KInv
  <2>2. Runnable(v) = Runnable(k)
    BY <1>7 DEF Runnable, isemptyp
  <2>3. Scheduled(v) /\ BestRuns(v)
    BY <2>1, <2>2, <1>6, <1>7, StillScheduled DEF Inv
  <2>4. Callers(v)
    BY <2>1, <1>7, SameCallers
  <2>5. Partners(v)
    <3>1. NIL # HARDWARE /\ SYSTASK \in Tasks
      BY MessagesAssumption, KernelAssumption
    <3>2. v.m_source[SYSTASK] # HARDWARE
      BY <3>1, <2>1, <1>4, <1>7 DEF Partners
    <3>3. \A x \in Tasks : v.m_source[x] \in Servers \cup {HARDWARE, NIL}
      BY <2>1, <1>4, <1>7 DEF Partners
    <3> QED
      BY <3>2, <3>3, <2>1, <1>7 DEF Partners
  <2>6. FlagsAgree(v)
    BY <2>1, <1>7 DEF FlagsAgree
  <2> QED
    BY <2>3, <2>4, <2>5, <2>6 DEF KInv
<1>9. v.p_flags[c] = {} /\ v.proc_ptr = c /\ ~isemptyp(v, c)
  BY <1>1, <1>3, <1>7 DEF isemptyp
<1>10. /\ KInv(k') /\ BestRuns(k') /\ KeptBut(v, k', c) /\ k'.alive = v.alive
       /\ Receives(v, k', c, ANY)
  <2>1. k' = mini_rec(v, c, ANY)
    BY <1>5 DEF TaskReceive
  <2> QED
    BY <2>1, <1>1, <1>8, <1>9, MiniRec DEF KernelRuns
<1>11. TaskLoop(k', pc')
  <2> SUFFICES ASSUME NEW x \in Tasks
               PROVE  /\ pc'[x] = "reply" => k'.m_source[x] \in Servers
                                             /\ "RECEIVING" \notin k'.p_flags[x]
                      /\ pc'[x] = "work" /\ k'.m_source[x] = NIL => "RECEIVING" \in k'.p_flags[x]
    BY DEF TaskLoop
  <2>1. pc \in [Tasks -> {"receive", "work", "reply"}] /\ pc' = [pc EXCEPT ![c] = "work"]
    BY DEF Inv, TaskReceive
  <2>2. CASE x = c
    <3>1. pc'[x] = "work"
      BY <2>1, <2>2
    <3>2. k'.m_source[x] \in Servers \cup {HARDWARE} \/ "RECEIVING" \in k'.p_flags[x]
      BY <2>2, <1>10 DEF KeptBut
    <3> QED
      BY <3>1, <3>2, MessagesAssumption DEF Proc
  <2>3. CASE x # c
    <3>1. pc'[x] = pc[x]
      BY <2>1, <2>3
    <3>2. /\ pc[x] = "reply" => k.m_source[x] \in Servers /\ "RECEIVING" \notin k.p_flags[x]
          /\ pc[x] = "work" /\ k.m_source[x] = NIL => "RECEIVING" \in k.p_flags[x]
      BY DEF Inv, TaskLoop
    <3>3. v.m_source[x] = k.m_source[x] /\ v.p_flags[x] = k.p_flags[x]
      BY <2>3, <1>4, <1>7
    <3>4. \/ /\ k'.m_source[x] = v.m_source[x]
             /\ "RECEIVING" \in k'.p_flags[x] <=> "RECEIVING" \in v.p_flags[x]
          \/ /\ "RECEIVING" \in v.p_flags[x] /\ "RECEIVING" \notin k'.p_flags[x]
             /\ k'.m_source[x] \in Servers \cup {HARDWARE}
      BY <2>3, <1>10 DEF KeptBut
    <3> QED
      BY <3>1, <3>2, <3>3, <3>4, MessagesAssumption DEF Proc
  <2> QED
    BY <2>2, <2>3
<1>12. k'.alive = k.alive
  BY <1>7, <1>10
<1>13. pc' \in [Tasks -> {"receive", "work", "reply"}]
  BY DEF Inv, TaskReceive
<1>14. Empties(k, v, c)
  BY <1>4, <1>7 DEF Empties, SourceBut, SameSignals
<1>15. Inv'
  BY <1>10, <1>11, <1>12, <1>13 DEF Inv, TaskReceive, clockVars
<1> QED
  BY <1>8, <1>10, <1>14, <1>15

LEMMA TaskReplyInv ==
  ASSUME Inv, NEW c \in Tasks, TaskReply(c)
  PROVE  Inv'
<1> DEFINE d == k.m_source[c]
<1>1. d \in Servers /\ k.proc_ptr = c /\ KInv(k) /\ BestRuns(k)
  BY DEF Inv, TaskLoop, TaskReply, At, Running
<1>2. KInv(k') /\ BestRuns(k') /\ Kept(k, k') /\ k'.alive = k.alive
  <2>1. k' = Send(k, c, d)
    BY DEF TaskReply
  <2> HIDE DEF d
  <2> QED
    BY <2>1, <1>1, SendKInv
<1>3. TaskLoop(k', pc)
  BY <1>2, KeptLoop DEF Inv
<1>4. /\ pc \in [Tasks -> {"receive", "work", "reply"}]
      /\ pc' = [pc EXCEPT ![c] = "receive"]
  BY DEF Inv, TaskReply
<1>5. TaskLoop(k', pc')
  BY <1>3, <1>4 DEF TaskLoop
<1> QED
  BY <1>2, <1>4, <1>5 DEF Inv, TaskReply, clockVars

(* The CLOCK task raises an alarm, and then ends a time slice.             *)
LEMMA ClockAlarmInv ==
  ASSUME Inv, NEW u \in Users, ClockAlarm(u)
  PROVE  Inv'
<1>1. KInv(k) /\ BestRuns(k) /\ u \in k.alive /\ "SIGALRM" \in Signals
  BY DEF Inv, ClockAlarm
<1>2. KInv(k') /\ BestRuns(k') /\ Kept(k, k') /\ k'.alive = k.alive
  BY <1>1, CauseSigKInv DEF ClockAlarm
<1>3. TaskLoop(k', pc)
  BY <1>2, KeptLoop DEF Inv
<1> QED
  BY <1>2, <1>3 DEF Inv, ClockAlarm

LEMMA DoClocktickInv ==
  ASSUME Inv, DoClocktick
  PROVE  Inv'
<1>1. KInv(k') /\ BestRuns(k') /\ Kept(k, k') /\ k'.alive = k.alive
  <2>1. k' = sched(k) \/ k' = k
    BY DEF DoClocktick
  <2>2. CASE k' = sched(k)
    BY <2>2, SchedKInv DEF Inv, SameMessages
  <2>3. CASE k' = k
    BY <2>3 DEF Inv, Kept
  <2> QED
    BY <2>1, <2>2, <2>3
<1>2. TaskLoop(k', pc)
  BY <1>1, KeptLoop DEF Inv
<1>3. /\ pc \in [Tasks -> {"receive", "work", "reply"}]
      /\ pc' = [pc EXCEPT ![CLOCK] = "receive"]
  BY DEF Inv, DoClocktick
<1>4. TaskLoop(k', pc')
  BY <1>2, <1>3 DEF TaskLoop
<1>5. sched_ticks' \in 1..SCHED_RATE
  BY KernelAssumption DEF Inv, DoClocktick
<1>6. prev_ptr' \in Users \cup {IDLE, NIL}
  <2>1. k'.bill_ptr \in Users \cup {IDLE}
    BY <1>1 DEF KInv, Scheduled, KernelState
  <2> QED
    BY <2>1 DEF Inv, DoClocktick
<1> QED
  BY <1>1, <1>3, <1>4, <1>5, <1>6 DEF Inv, DoClocktick

LEMMA ClockRequestInv ==
  ASSUME Inv, ClockRequest
  PROVE  Inv'
<1>1. /\ KInv(k) /\ BestRuns(k) /\ TaskLoop(k, pc) /\ k' = k
      /\ pc \in [Tasks -> {"receive", "work", "reply"}]
      /\ pc' = [pc EXCEPT ![CLOCK] = "reply"]
  BY DEF Inv, ClockRequest
<1>2. TaskLoop(k, pc')
  <2>1. Kept(k, k)
    BY DEF Kept
  <2>2. /\ CLOCK \in Tasks /\ k.proc_ptr = CLOCK /\ pc[CLOCK] = "work"
        /\ k.m_source[CLOCK] # HARDWARE
    BY KernelAssumption DEF ClockRequest, At, Running
  <2>3. TaskLoop(k, [pc EXCEPT ![CLOCK] = "reply"])
    BY <1>1, <2>1, <2>2, ReplyLoop
  <2> QED
    BY <1>1, <2>3
<1>3. p_alarm' \subseteq k.alive /\ (p_alarm' # {} => "SIGALRM" \in Signals)
  BY DEF Inv, ClockRequest
<1> QED
  BY <1>1, <1>2, <1>3 DEF Inv, ClockRequest

(* What the calls of SYSTASK have in common.                               *)
LEMMA SystemCallInv ==
  ASSUME Inv, At(SYSTASK, "work"), pc' = [pc EXCEPT ![SYSTASK] = "reply"],
         KInv(k'), BestRuns(k'), Kept(k, k'),
         p_alarm' \subseteq k'.alive, p_alarm' # {} => "SIGALRM" \in Signals,
         UNCHANGED <<aging_counter, sched_ticks, prev_ptr>>
  PROVE  Inv'
<1>1. /\ KInv(k) /\ TaskLoop(k, pc)
      /\ pc \in [Tasks -> {"receive", "work", "reply"}]
      /\ SYSTASK \in Tasks /\ k.m_source[SYSTASK] # HARDWARE
  BY KernelAssumption DEF Inv, KInv, Partners
<1>2. TaskLoop(k', pc')
  BY <1>1, ReplyLoop DEF At, Running
<1> QED
  BY <1>1, <1>2 DEF Inv

(* SYSTASK runs, and so no user does.                                      *)
LEMMA SystemRuns ==
  ASSUME At(SYSTASK, "work")
  PROVE  k.proc_ptr \notin Users /\ KernelRuns(k)
BY KernelAssumption, ProcAssumption DEF At, Running, KernelRuns

LEMMA DoSetgroupInv ==
  ASSUME "pid" \notin Targets, Inv,
         NEW u \in Users, NEW g \in Groups, NEW e \in Estimates, DoSetgroup(u, g, e)
  PROVE  Inv'
<1>1. k.p_flags[u] # {} /\ KInv(k) /\ k \in KernelState
  BY DEF Inv, KInv, Scheduled, DoSetgroup, CalledMM, Waiting, Has
<1>2. KInv(k') /\ BestRuns(k') /\ Kept(k, k') /\ k'.alive = k.alive
  <2> DEFINE est == IF g = 3 THEN e ELSE DefaultEstimate
             sg == [k.sched_group EXCEPT ![u] = g]
             wt == [k.wait_ticks EXCEPT ![u] = 0]
             rr == [k.rr_counter EXCEPT ![u] = 0]
             ce == [k.cpu_estimate EXCEPT ![u] = est]
             t  == [k EXCEPT !.sched_group = sg, !.wait_ticks = wt, !.rr_counter = rr,
                             !.cpu_estimate = ce]
  <2>1. k' = t
    BY DEF DoSetgroup
  <2>2. /\ k.sched_group \in [Users -> 0..3]
        /\ k.wait_ticks \in [Users -> 0..MAX_WAIT_TICKS]
        /\ k.rr_counter \in [Users -> 0..RR_QUANTUM - 1]
        /\ k.cpu_estimate \in [Users -> {0, DefaultEstimate} \cup Estimates]
    BY <1>1 DEF KernelState
  <2>3. sg \in [Users -> 0..3] /\ \A x \in Users \ {u} : sg[x] = k.sched_group[x]
    <3>1. g \in 0..3
      BY DEF DoSetgroup, MMAccepts
    <3> QED
      BY <2>2, <3>1
  <2>4. wt \in [Users -> 0..MAX_WAIT_TICKS] /\ rr \in [Users -> 0..RR_QUANTUM - 1]
    BY <2>2, KernelAssumption
  <2>5. ce \in [Users -> {0, DefaultEstimate} \cup Estimates]
    BY <2>2
  <2> HIDE DEF est, sg, wt, rr, ce
  <2>6. t \in KernelState
    BY <1>1, <2>3, <2>4, <2>5 DEF KernelState
  <2>7. /\ t.queue = k.queue /\ t.proc_ptr = k.proc_ptr /\ t.sched_group = sg
        /\ t.bill_ptr = k.bill_ptr
        /\ t.p_flags = k.p_flags /\ t.p_getfrom = k.p_getfrom /\ t.p_sendto = k.p_sendto
        /\ t.p_callerq = k.p_callerq /\ t.p_int_blocked = k.p_int_blocked
        /\ t.m_source = k.m_source /\ t.p_pending = k.p_pending
        /\ t.p_pendcount = k.p_pendcount /\ t.alive = k.alive
    BY <1>1 DEF KernelState
  <2> HIDE DEF t
  <2>8. \A x \in Users : k.p_flags[x] = {} => t.sched_group[x] = k.sched_group[x]
    BY <1>1, <2>3, <2>7
  <2>9. KInv(t) /\ Kept(k, t) /\ BestRuns(t)
    BY <1>1, <2>6, <2>7, <2>8, GroupKInv DEF Inv
  <2> QED
    BY <2>1, <2>7, <2>9
<1> QED
  BY <1>2, SystemCallInv DEF Inv, DoSetgroup, SystemCall, clockVars

LEMMA DoKillInv ==
  ASSUME Inv, NEW u \in Users, NEW sig \in Signals, DoKill(u, sig)
  PROVE  Inv'
<1>1. KInv(k') /\ BestRuns(k') /\ Kept(k, k') /\ k'.alive = k.alive
  BY CauseSigKInv DEF Inv, DoKill
<1> QED
  BY <1>1, SystemCallInv DEF Inv, DoKill, SystemCall, clockVars

LEMMA DoEndsigInv ==
  ASSUME Inv, NEW u \in Users, DoEndsig(u)
  PROVE  Inv'
<1>1. KernelRuns(k)
  BY SystemRuns DEF DoEndsig, SystemCall
<1>2. KInv(k') /\ BestRuns(k') /\ Kept(k, k') /\ k'.alive = k.alive
  BY <1>1, EndsigKInv DEF Inv, DoEndsig, BeingHandled
<1> QED
  BY <1>2, SystemCallInv DEF Inv, DoEndsig, SystemCall, clockVars

LEMMA DoForkInv ==
  ASSUME Inv, NEW u \in Users, NEW child \in Users, DoFork(u, child)
  PROVE  Inv'
<1>1. KInv(k') /\ BestRuns(k') /\ Kept(k, k') /\ k'.alive = k.alive \cup {child}
  <2>1. k' = Forked(k, u, child)
    BY DEF DoFork, Forked
  <2>2. Waiting(k, u) /\ k.p_getfrom[u] = MM /\ child \in Users \ k.alive
    BY DEF DoFork, CalledMM
  <2> QED
    BY <2>1, <2>2, ForkKInv DEF Inv
<1>2. p_alarm' \subseteq k'.alive /\ (p_alarm' # {} => "SIGALRM" \in Signals)
  BY <1>1 DEF Inv, DoFork
<1> QED
  BY <1>1, <1>2, SystemCallInv DEF DoFork, SystemCall

LEMMA DoNewmapInv ==
  ASSUME Inv, NEW u \in Users, DoNewmap(u)
  PROVE  Inv'
<1>1. KernelRuns(k)
  BY SystemRuns DEF DoNewmap, SystemCall
<1>2. KInv(k') /\ BestRuns(k') /\ Kept(k, k') /\ k'.alive = k.alive
  BY <1>1, NewmapKInv DEF Inv, DoNewmap
<1> QED
  BY <1>2, SystemCallInv DEF Inv, DoNewmap, SystemCall, clockVars

LEMMA DoExecInv ==
  ASSUME Inv, NEW u \in Users, DoExec(u)
  PROVE  /\ Inv'
         /\ \E t : /\ t = k \/ (KInv(t) /\ Kept(k, t) /\ \E sig \in Signals : Signalled(k, t, u, sig))
                  /\ KInv(t) /\ "SENDING" \notin t.p_flags[u]
                  /\ Reflags(t, k', u, t.p_flags[u] \ {"RECEIVING"})
<1>1. k.proc_ptr \notin Users /\ KernelRuns(k)
  BY SystemRuns DEF DoExec, SystemCall
<1>2. u \in k.alive /\ "RECEIVING" \in k.p_flags[u] /\ "SENDING" \notin k.p_flags[u]
  BY DEF Inv, KInv, FlagsAgree, DoExec, CalledMM, Waiting, Has
<1>3. /\ KInv(k') /\ BestRuns(k') /\ Kept(k, k') /\ k'.alive = k.alive
      /\ \E t : /\ t = k \/ (KInv(t) /\ Kept(k, t) /\ \E sig \in Signals : Signalled(k, t, u, sig))
               /\ KInv(t) /\ "SENDING" \notin t.p_flags[u]
               /\ Reflags(t, k', u, t.p_flags[u] \ {"RECEIVING"})
  <2>1. CASE k' = Unblock(k, u, "RECEIVING")
    <3>1. /\ KInv(k') /\ BestRuns(k') /\ Kept(k, k') /\ k'.alive = k.alive
          /\ Reflags(k, k', u, k.p_flags[u] \ {"RECEIVING"})
      BY <2>1, <1>1, <1>2, UnblockKInv DEF Inv
    <3> QED
      BY <3>1, <1>2 DEF Inv
  <2>2. CASE "SIGTRAP" \in Signals /\ k' = Unblock(cause_sig(k, u, "SIGTRAP"), u, "RECEIVING")
    <3> DEFINE t == cause_sig(k, u, "SIGTRAP")
    <3>1. /\ KInv(t) /\ BestRuns(t) /\ Kept(k, t) /\ t.alive = k.alive
          /\ "RECEIVING" \in t.p_flags[u] /\ "SENDING" \notin t.p_flags[u]
          /\ Signalled(k, t, u, "SIGTRAP")
          /\ t.proc_ptr = k.proc_ptr \/ "SIG_PENDING" \in t.p_flags[u]
      <4>1. /\ KInv(t) /\ BestRuns(t) /\ Kept(k, t) /\ t.alive = k.alive
            /\ {"SENDING", "RECEIVING"} \cap t.p_flags[u]
                 = {"SENDING", "RECEIVING"} \cap k.p_flags[u]
            /\ Signalled(k, t, u, "SIGTRAP")
            /\ t.proc_ptr = k.proc_ptr \/ "SIG_PENDING" \in t.p_flags[u]
        BY <2>2, <1>2, CauseSigKInv DEF Inv
      <4> HIDE DEF t
      <4> QED
        BY <4>1, <1>2
    <3> HIDE DEF t
    <3>2. \/ t.proc_ptr \notin Users /\ KernelRuns(t)
          \/ t.p_flags[u] \ {"RECEIVING"} # {}
      BY <3>1, <1>1 DEF KernelRuns
    <3>3. /\ KInv(Unblock(t, u, "RECEIVING")) /\ BestRuns(Unblock(t, u, "RECEIVING"))
          /\ Kept(t, Unblock(t, u, "RECEIVING"))
          /\ Reflags(t, Unblock(t, u, "RECEIVING"), u, t.p_flags[u] \ {"RECEIVING"})
          /\ Unblock(t, u, "RECEIVING").alive = t.alive
      BY <3>1, <3>2, <1>2, UnblockKInv
    <3>4. k' = Unblock(t, u, "RECEIVING")
      BY <2>2 DEF t
    <3>5. Kept(k, k')
      BY <3>1, <3>3, <3>4 DEF Kept
    <3> QED
      BY <2>2, <3>1, <3>3, <3>4, <3>5
  <2> QED
    BY <2>1, <2>2 DEF DoExec
<1>4. Inv'
  BY <1>3, SystemCallInv DEF Inv, DoExec, SystemCall, clockVars
<1> QED
  BY <1>3, <1>4

LEMMA DoXitInv ==
  ASSUME Inv, NEW u \in Users, DoXit(u)
  PROVE  Inv'
<1>1. KInv(k') /\ BestRuns(k') /\ Kept(k, k') /\ k'.alive = k.alive \ {u}
  BY XitKInv DEF Inv, DoXit
<1>2. p_alarm' \subseteq k'.alive /\ (p_alarm' # {} => "SIGALRM" \in Signals)
  BY <1>1 DEF Inv, DoXit
<1> QED
  BY <1>1, <1>2, SystemCallInv DEF DoXit, SystemCall

LEMMA DoTraceInv ==
  ASSUME Inv, NEW u \in Users, DoTrace(u)
  PROVE  Inv'
<1>1. /\ k.proc_ptr \notin Users /\ KernelRuns(k) /\ KInv(k) /\ BestRuns(k)
      /\ u \in k.alive
  BY SystemRuns DEF Inv, DoTrace, SystemCall
<1>2. KInv(k') /\ BestRuns(k') /\ Kept(k, k') /\ k'.alive = k.alive
  <2>1. CASE "P_STOP" \in k.p_flags[u]
    BY <2>1, <1>1, UnblockKInv DEF DoTrace, Has
  <2>2. CASE "P_STOP" \notin k.p_flags[u]
    BY <2>2, <1>1, StopKInv DEF DoTrace, Has
  <2> QED
    BY <2>1, <2>2
<1> QED
  BY <1>2, SystemCallInv DEF Inv, DoTrace, SystemCall, clockVars

LEMMA OtherSystemCallInv ==
  ASSUME Inv, OtherSystemCall
  PROVE  Inv'
<1>1. k' = k /\ Kept(k, k')
  BY DEF OtherSystemCall, Kept
<1> QED
  BY <1>1, SystemCallInv DEF Inv, OtherSystemCall, clockVars

LEMMA ClockTickInv ==
  ASSUME Inv, ClockTick
  PROVE  Inv'
<1> DEFINE s == handle_clock_tick(k)
<1>1. KInv(s) /\ BestRuns(s) /\ Kept(k, s) /\ s.alive = k.alive
  BY TickKInv DEF Inv, SameMessages
<1>2. s.bill_ptr \in Users \cup {IDLE}
  BY <1>1 DEF KInv, Scheduled, KernelState
<1>3. \/ k' = interrupt(s, CLOCK) /\ UNCHANGED <<sched_ticks, prev_ptr>>
      \/ /\ k' = s
         /\ sched_ticks' = IF sched_ticks = 1 THEN SCHED_RATE ELSE sched_ticks - 1
         /\ prev_ptr' = IF sched_ticks = 1 THEN s.bill_ptr ELSE prev_ptr
  BY DEF ClockTick
<1> HIDE DEF s
<1>4. KInv(k') /\ BestRuns(k') /\ Kept(k, k') /\ k'.alive = k.alive
  <2>1. CASE k' = interrupt(s, CLOCK)
    <3>1. KInv(k') /\ BestRuns(k') /\ Kept(s, k') /\ k'.alive = s.alive
      BY <2>1, <1>1, InterruptKInv
    <3> QED
      BY <3>1, <1>1 DEF Kept
  <2>2. CASE k' = s
    BY <2>2, <1>1
  <2> QED
    BY <2>1, <2>2, <1>3
<1>5. TaskLoop(k', pc)
  BY <1>4, KeptLoop DEF Inv
<1>6. sched_ticks' \in 1..SCHED_RATE /\ prev_ptr' \in Users \cup {IDLE, NIL}
  <2>1. /\ sched_ticks \in 1..SCHED_RATE /\ prev_ptr \in Users \cup {IDLE, NIL}
        /\ SCHED_RATE \in Nat \ {0}
    BY KernelAssumption DEF Inv
  <2> QED
    BY <2>1, <1>2, <1>3
<1>7. aging_counter' \in 0..AGING_TICK - 1
  <2>1. AGING_TICK \in Nat \ {0} /\ aging_counter \in 0..AGING_TICK - 1
    BY KernelAssumption DEF Inv
  <2> QED
    BY <2>1 DEF ClockTick
<1> QED
  BY <1>4, <1>5, <1>6, <1>7 DEF Inv, ClockTick

-----------------------------------------------------------------------------
(* The invariant.                                                          *)

LEMMA InitInv == Init => Inv
<1> SUFFICES ASSUME Init PROVE Inv
  OBVIOUS
<1>1. /\ MM \in Servers /\ MM \in Proc /\ MM \notin Users /\ MM \notin Tasks
      /\ MM # IDLE /\ MM # ANY
  BY ProcAssumption, MessagesAssumption DEF Proc
<1>2. /\ k.queue = [n \in QNames |-> IF n = "SERVER_Q" THEN <<MM>> ELSE << >>]
      /\ k.proc_ptr = MM /\ k.alive = Users
      /\ k.p_flags = [p \in Proc |-> IF p = MM THEN {} ELSE {"RECEIVING"}]
      /\ k.p_getfrom = [p \in Proc |-> IF p \in Users THEN MM ELSE ANY]
      /\ k.p_callerq = [p \in Proc |-> << >>]
      /\ k.p_int_blocked = [t \in Tasks |-> FALSE]
      /\ k.m_source = [t \in Tasks |-> NIL]
      /\ k.p_pendcount = [u \in Users |-> 0]
  BY DEF Init
<1>3. k \in KernelState
  <2>1. [n \in QNames |-> IF n = "SERVER_Q" THEN <<MM>> ELSE << >>] \in [QNames -> Seq(Proc)]
    BY <1>1
  <2>2. [u \in Users |-> 0] \in [Users -> 0..MAX_WAIT_TICKS]
    BY KernelAssumption
  <2>3. [u \in Users |-> 0] \in [Users -> 0..RR_QUANTUM - 1]
    BY KernelAssumption
  <2>4. /\ [p \in Proc |-> IF p = MM THEN {} ELSE {"RECEIVING"}] \in [Proc -> SUBSET Flags]
        /\ [p \in Proc |-> IF p \in Users THEN MM ELSE ANY] \in [Proc -> Proc \cup {ANY}]
        /\ [p \in Proc |-> p] \in [Proc -> Proc]
        /\ [p \in Proc |-> << >>] \in [Proc -> Seq(Proc)]
    BY <1>1 DEF Flags
  <2>5. /\ [t \in Tasks |-> FALSE] \in [Tasks -> BOOLEAN]
        /\ [t \in Tasks |-> NIL] \in [Tasks -> Proc \cup {HARDWARE, NIL}]
        /\ [u \in Users |-> {}] \in [Users -> SUBSET Signals]
        /\ [u \in Users |-> 0] \in [Users -> Nat]
        /\ [u \in Users |-> 0] \in [Users -> 0..3]
        /\ [u \in Users |-> 0] \in [Users -> {0, DefaultEstimate} \cup Estimates]
    OBVIOUS
  <2> QED
    BY <1>1, <2>1, <2>2, <2>3, <2>4, <2>5 DEF Init, KernelState
<1>4. Runnable(k) = {MM}
  <2>1. \A p \in Proc : k.p_flags[p] = {} <=> p = MM
    BY <1>2
  <2>2. \A p \in Proc : ~isemptyp(k, p)
    BY <1>2 DEF isemptyp
  <2> QED
    BY <2>1, <2>2, <1>1 DEF Runnable
<1>5. Scheduled(k)
  <2>1. QueueOf(k, MM) = "SERVER_Q"
    BY <1>1, <1>3, QueueOfProc
  <2>2. \A n \in QNames : Members(k, {MM}, n) = IF n = "SERVER_Q" THEN {MM} ELSE {}
    BY <2>1 DEF Members
  <2>3. Holds(<<MM>>, {MM}) /\ Holds(<< >>, {})
    BY DEF Holds, IsInjective
  <2>4. Placed(k, {MM})
    BY <1>2, <2>2, <2>3 DEF Placed
  <2>5. HeadRuns(k, {MM})
    BY <1>2, <2>1 DEF HeadRuns, FrontQueues, QNames
  <2> QED
    BY <1>3, <1>4, <2>4, <2>5 DEF Scheduled
<1>6. Callers(k)
  <2>1. \A d \in Proc : CallersOf(k, d) = {}
    BY <1>2 DEF CallersOf
  <2>2. Holds(<< >>, {})
    BY DEF Holds, IsInjective
  <2> QED
    BY <1>2, <2>1, <2>2 DEF Callers
<1>7. Partners(k)
  BY <1>2, KernelAssumption, MessagesAssumption DEF Partners
<1>8. FlagsAgree(k)
  BY <1>2 DEF FlagsAgree, Proc
<1>9. TaskLoop(k, pc)
  BY <1>1, <1>2 DEF Init, TaskLoop, Proc
<1>10. /\ pc \in [Tasks -> {"receive", "work", "reply"}] /\ p_alarm = {}
       /\ aging_counter \in 0..AGING_TICK - 1 /\ sched_ticks \in 1..SCHED_RATE
       /\ prev_ptr \in Users \cup {IDLE, NIL}
  BY KernelAssumption DEF Init
<1>11. BestRuns(k)
  <2>1. Rank(QueueOf(k, MM)) \in 1..6
    BY <1>1, <1>3, RankOfProc
  <2> QED
    BY <2>1, <1>1, <1>2, <1>4 DEF BestRuns, Best
<1> QED
  BY <1>5, <1>6, <1>7, <1>8, <1>9, <1>10, <1>11 DEF Inv, KInv

LEMMA NextInv ==
  ASSUME "pid" \notin Targets
  PROVE  Inv /\ [Next]_vars => Inv'
<1> SUFFICES ASSUME Inv, [Next]_vars PROVE Inv'
  OBVIOUS
<1>1. CASE UNCHANGED vars
  BY <1>1 DEF vars, Inv
<1>2. ASSUME NEW u \in Users, UserCall(u) PROVE Inv'
  BY <1>2, UserCallInv
<1>3. ASSUME NEW s \in Servers, ServerReceive(s) \/ ServerCall(s) \/ ServerReply(s)
      PROVE  Inv'
  BY <1>3, ServerReceiveInv, ServerCallInv, ServerReplyInv
<1>4. ASSUME NEW t \in {CLOCK, SYSTASK}, TaskReceive(t) \/ TaskReply(t) PROVE Inv'
  BY <1>4, TaskReceiveInv, TaskReplyInv, KernelAssumption
<1>5. ASSUME NEW u \in Users, ClockAlarm(u) PROVE Inv'
  BY <1>5, ClockAlarmInv
<1>6. CASE DoClocktick \/ ClockRequest
  BY <1>6, DoClocktickInv, ClockRequestInv
<1>7. ASSUME NEW u \in Users, NEW g \in Groups, NEW e \in Estimates, DoSetgroup(u, g, e)
      PROVE  Inv'
  BY <1>7, DoSetgroupInv
<1>8. ASSUME NEW u \in Users, NEW sig \in Signals, DoKill(u, sig) PROVE Inv'
  BY <1>8, DoKillInv
<1>9. ASSUME NEW u \in Users,
             DoEndsig(u) \/ DoNewmap(u) \/ DoExec(u) \/ DoXit(u) \/ DoTrace(u)
      PROVE  Inv'
  BY <1>9, DoEndsigInv, DoNewmapInv, DoExecInv, DoXitInv, DoTraceInv
<1>10. ASSUME NEW u \in Users, NEW child \in Users, DoFork(u, child) PROVE Inv'
  BY <1>10, DoForkInv
<1>11. CASE OtherSystemCall
  BY <1>11, OtherSystemCallInv
<1>12. CASE ClockTick
  BY <1>12, ClockTickInv
<1> QED
  BY <1>1, <1>2, <1>3, <1>4, <1>5, <1>6, <1>7, <1>8, <1>9, <1>10, <1>11, <1>12
     DEF Next, OtherThanUserCall

(* The ready queues and callers queues in the terms of Kernel.             *)
LEMMA InvImplies == Inv => TypeOK /\ RunnableIffQueued /\ CallerQueues
<1> SUFFICES ASSUME Inv PROVE TypeOK /\ RunnableIffQueued /\ CallerQueues
  OBVIOUS
<1>1. /\ k \in KernelState /\ Placed(k, Runnable(k)) /\ Callers(k)
  BY DEF Inv, KInv, Scheduled
<1>2. TypeOK
  <2>1. k.alive \subseteq Users
    BY <1>1 DEF KernelState
  <2> QED
    BY <2>1, <1>1 DEF Inv, TypeOK
<1>3. QueuedAreRunnable(k)
  <2> SUFFICES ASSUME NEW n \in QNames, NEW i \in DOMAIN k.queue[n]
               PROVE  LET p == k.queue[n][i]
                      IN k.p_flags[p] = {} /\ ~isemptyp(k, p) /\ QueueOf(k, p) = n
    BY DEF QueuedAreRunnable
  <2>1. Holds(k.queue[n], Members(k, Runnable(k), n))
    BY <1>1 DEF Placed
  <2>2. k.queue[n][i] \in Members(k, Runnable(k), n)
    BY <2>1, HoldsAt
  <2> QED
    BY <2>2 DEF Members, Runnable
<1>4. RunnableAreQueued(k)
  <2> SUFFICES ASSUME NEW p \in Proc, k.p_flags[p] = {}, ~isemptyp(k, p)
               PROVE  \E i \in DOMAIN k.queue[QueueOf(k, p)] : k.queue[QueueOf(k, p)][i] = p
    BY DEF RunnableAreQueued
  <2> DEFINE n == QueueOf(k, p)
  <2>1. n \in QNames /\ p \in Members(k, Runnable(k), n)
    BY <1>1, QueueOfProc DEF Members, Runnable
  <2> HIDE DEF n
  <2>2. Holds(k.queue[n], Members(k, Runnable(k), n))
    BY <1>1, <2>1 DEF Placed
  <2>3. \E i \in DOMAIN k.queue[n] : k.queue[n][i] = p
    BY <2>1, <2>2 DEF Holds
  <2> QED
    BY <2>3 DEF n
<1>5. QueuedOnce(k)
  BY <1>1 DEF QueuedOnce, Placed, Holds
<1>6. CallerQueues
  <2>1. \A d \in Proc : Holds(k.p_callerq[d], CallersOf(k, d))
    BY <1>1 DEF Callers
  <2>2. SendersQueued(k)
    <3> SUFFICES ASSUME NEW d \in Proc, NEW i \in DOMAIN k.p_callerq[d]
                 PROVE  k.p_callerq[d][i] \in CallersOf(k, d)
      BY DEF SendersQueued, CallersOf, Has
    <3> QED
      BY <2>1, HoldsAt
  <2>3. SendingAreQueued(k)
    <3> SUFFICES ASSUME NEW p \in Proc, "SENDING" \in k.p_flags[p]
                 PROVE  \E i \in DOMAIN k.p_callerq[k.p_sendto[p]] :
                           k.p_callerq[k.p_sendto[p]][i] = p
      BY DEF SendingAreQueued, Has
    <3>1. k.p_sendto[p] \in Proc
      BY <1>1 DEF KernelState
    <3>2. p \in CallersOf(k, k.p_sendto[p])
      BY DEF CallersOf
    <3> QED
      BY <3>1, <3>2, <2>1 DEF Holds
  <2>4. SendersOnce(k)
    BY <2>1 DEF SendersOnce, Holds
  <2> QED
    BY <2>2, <2>3, <2>4 DEF CallerQueues
<1> QED
  BY <1>2, <1>3, <1>4, <1>5, <1>6 DEF RunnableIffQueued

(* The queues in the order in which pick_proc looks at them.               *)
LEMMA RankOfPriority ==
  /\ DOMAIN Priority = 1..6
  /\ \A i \in 1..6 : Priority[i] \in QNames /\ Rank(Priority[i]) = i
  /\ \A n \in QNames : Rank(n) \in 1..6 /\ Priority[Rank(n)] = n
BY DEF Priority, Rank, QNames

(* Who runs is queued, at the front except in group 2, and nobody who is   *)
(* queued comes before.                                                    *)
LEMMA InvDispatched == Inv => Dispatched
<1> SUFFICES ASSUME Inv PROVE Dispatched
  OBVIOUS
<1> DEFINE R == Runnable(k)
           p == k.proc_ptr
           m == QueueOf(k, p)
<1>1. /\ k \in KernelState /\ R \in SUBSET Proc
      /\ Placed(k, R) /\ HeadRuns(k, R) /\ Best(k, R)
  BY DEF Inv, KInv, Scheduled, BestRuns, Runnable
<1> HIDE DEF R
<1>2. p \in R => m \in QNames /\ k.queue[m] # << >> /\ p \in ToSet(k.queue[m])
  <2> SUFFICES ASSUME p \in R
               PROVE  m \in QNames /\ k.queue[m] # << >> /\ p \in ToSet(k.queue[m])
    OBVIOUS
  <2>1. m \in QNames
    BY <1>1, QueueOfProc
  <2>2. p \in Members(k, R, m) /\ Holds(k.queue[m], Members(k, R, m))
    BY <2>1, <1>1 DEF Members, Placed
  <2>3. PICK j \in DOMAIN k.queue[m] : k.queue[m][j] = p
    BY <2>2 DEF Holds
  <2>4. k.queue[m] # << >> /\ p \in ToSet(k.queue[m])
    BY <2>3 DEF ToSet
  <2> QED
    BY <2>1, <2>4
<1>3. ASSUME NEW i \in DOMAIN Priority, k.queue[Priority[i]] # << >>,
             \A j \in 1..i - 1 : k.queue[Priority[j]] = << >>
      PROVE  IF Priority[i] = "g2" THEN p \in ToSet(k.queue[Priority[i]])
                                   ELSE p = Head(k.queue[Priority[i]])
  <2> DEFINE n == Priority[i]
  <2>1. i \in 1..6 /\ n \in QNames /\ Rank(n) = i
    BY RankOfPriority
  <2> HIDE DEF n
  <2>2. Head(k.queue[n]) \in R /\ QueueOf(k, Head(k.queue[n])) = n
    BY <2>1, <1>1, <1>3, PlacedHead DEF n
  <2>3. p \in R /\ Rank(m) <= i
    BY <2>1, <2>2, <1>1 DEF Best
  <2>4. Rank(m) \in 1..6 /\ Priority[Rank(m)] = m
    BY <2>3, <1>2, RankOfPriority
  <2>5. ~(Rank(m) \in 1..i - 1)
    BY <2>3, <2>4, <1>2, <1>3
  <2>6. m = n
    BY <2>1, <2>3, <2>4, <2>5 DEF n
  <2>7. p # IDLE
    BY <2>3, <1>1, ProcAssumption DEF Proc
  <2>8. n # "g2" => p = Head(k.queue[n])
    <3>1. n \in FrontQueues \cup {"g2"}
      BY <2>1 DEF QNames, FrontQueues
    <3> QED
      BY <3>1, <2>6, <2>7, <1>1 DEF HeadRuns
  <2> QED
    BY <2>3, <2>6, <2>8, <1>2 DEF n
<1>4. (\A n \in QNames : k.queue[n] = << >>) => p = IDLE
  BY <1>1, <1>2 DEF HeadRuns
<1>5. p \in Users \cup {IDLE} => k.bill_ptr = p
  BY <1>1 DEF Best
<1> QED
  BY <1>3, <1>4, <1>5 DEF Dispatched

(***************************************************************************)
(* The inductive invariant holds in every reachable state: it is what the  *)
(* routines of proc.c rely on when they link and unlink processes.         *)
(***************************************************************************)
THEOREM Invariant ==
  ASSUME "pid" \notin Targets
  PROVE  Spec => []Inv
<1>1. Inv /\ [Next]_vars => Inv'
  BY NextInv
<1> QED
  BY <1>1, InitInv, PTL DEF Spec

(* The scheduler, messages and signals keep the kernel state well formed;  *)
(* no age passes MAX_WAIT_TICKS and no quantum counter reaches RR_QUANTUM. *)
THEOREM Types ==
  ASSUME "pid" \notin Targets
  PROVE  Spec => []TypeOK
<1>1. Inv => TypeOK
  BY InvImplies
<1> QED
  BY <1>1, Invariant, PTL

(* proc.h: "A process is runnable iff p_flags == 0."  No system call,      *)
(* interrupt or task loses a ready process, queues one twice or in the     *)
(* queue of another group, or leaves a blocked or dead one queued.         *)
THEOREM RunnableQueued ==
  ASSUME "pid" \notin Targets
  PROVE  Spec => []RunnableIffQueued
<1>1. Inv => RunnableIffQueued
  BY InvImplies
<1> QED
  BY <1>1, Invariant, PTL

(* Whenever the kernel returns it runs the best ready process: no ready,   *)
(* unready, interrupt, call, quantum or change of group leaves a user or a *)
(* server running while somebody of a better class or group waits, nor     *)
(* bills the time of a user to another.                                    *)
THEOREM BestDispatched ==
  ASSUME "pid" \notin Targets
  PROVE  Spec => []Dispatched
<1>1. Inv => Dispatched
  BY InvDispatched
<1> QED
  BY <1>1, Invariant, PTL

(* mini_send and mini_rec, fork and exit keep the callers queues: a sender *)
(* that blocks waits in the queue of the process it sends to, once, until  *)
(* its message is taken or it exits.                                       *)
THEOREM SendersWait ==
  ASSUME "pid" \notin Targets
  PROVE  Spec => []CallerQueues
<1>1. Inv => CallerQueues
  BY InvImplies
<1> QED
  BY <1>1, Invariant, PTL

-----------------------------------------------------------------------------
(***************************************************************************)
(* Group 3 stays in line: whoever becomes ready is put in its place, and   *)
(* an estimate changes only while its process is not queued.               *)
(***************************************************************************)
QueuesTyped(s) == s.p_callerq \in [Proc -> Seq(Proc)]

LEMMA BlockLined ==
  ASSUME NEW s, Line(s), NEW p, NEW fs
  PROVE  Lined(s, Block(s, p, fs))
<1> DEFINE u == IF s.p_flags[p] = {} THEN unready(s, p) ELSE s
<1>1. Lined(s, u)
  BY UnreadyLined DEF Lined
<1>2. Block(s, p, fs) = [u EXCEPT !.p_flags[p] = @ \cup fs]
  BY DEF Block
<1> HIDE DEF u
<1> QED
  BY <1>1, <1>2, StillLined DEF Lined, Line

LEMMA UnblockLined ==
  ASSUME NEW s, Line(s), NEW p \in Proc, NEW f
  PROVE  Lined(s, Unblock(s, p, f))
<1> DEFINE u == [s EXCEPT !.p_flags[p] = @ \ {f}]
<1>1. Lined(s, u)
  BY StillLined DEF Line
<1>2. Unblock(s, p, f) \in {u, ready(u, p)}
  BY DEF Unblock
<1> HIDE DEF u
<1>3. Lined(u, ready(u, p))
  BY <1>1, ReadyLined DEF Lined
<1> QED
  BY <1>1, <1>2, <1>3 DEF Lined

LEMMA CopyLined ==
  ASSUME NEW s, Line(s), NEW src, NEW dst
  PROVE  Lined(s, CopyMess(s, src, dst))
BY StillLined DEF CopyMess, Line, Lined

LEMMA MiniSendLined ==
  ASSUME NEW s, Line(s), NEW c, NEW d \in Proc
  PROVE  LET t == mini_send(s, c, d)
         IN Line(t) /\ (QueuesTyped(s) /\ c \in Proc => QueuesTyped(t))
<1> DEFINE t == mini_send(s, c, d)
           m == CopyMess(s, c, d)
           b == Block(s, c, {"SENDING"})
           w == [b EXCEPT !.p_sendto[c] = d, !.p_callerq[d] = Append(@, c)]
<1>1. CASE WaitsFor(s, d, c)
  <2>1. Lined(s, m)
    BY CopyLined
  <2>2. t = Unblock(m, d, "RECEIVING")
    BY <1>1 DEF mini_send
  <2> HIDE DEF m
  <2>3. Lined(m, Unblock(m, d, "RECEIVING"))
    BY <2>1, UnblockLined DEF Lined
  <2> QED
    BY <2>1, <2>2, <2>3 DEF Lined, QueuesTyped
<1>2. CASE ~WaitsFor(s, d, c)
  <2>1. Lined(s, b)
    BY BlockLined
  <2>2. t = w
    BY <1>2 DEF mini_send
  <2> HIDE DEF b
  <2>3. /\ DOMAIN w = DOMAIN b /\ w.queue = b.queue /\ w.cpu_estimate = b.cpu_estimate
        /\ w.p_callerq = [b.p_callerq EXCEPT ![d] = Append(@, c)]
    BY <2>1 DEF Lined, Line
  <2>4. Line(w)
    BY <2>1, <2>3 DEF Lined, Line
  <2>5. ASSUME QueuesTyped(s), c \in Proc PROVE QueuesTyped(w)
    <3>1. b.p_callerq \in [Proc -> Seq(Proc)]
      BY <2>1, <2>5 DEF Lined, QueuesTyped
    <3>2. Append(b.p_callerq[d], c) \in Seq(Proc)
      BY <3>1, <2>5, AppendProperties
    <3> QED
      BY <3>1, <3>2, <2>3 DEF QueuesTyped
  <2> QED
    BY <2>2, <2>4, <2>5
<1> QED
  BY <1>1, <1>2

LEMMA InformLined ==
  ASSUME NEW s, Line(s)
  PROVE  Line(inform(s))
<1> DEFINE u == CHOOSE p \in Servers \cup Users : Has(s, p, "PENDING")
           v == [s EXCEPT !.sig_procs = @ - 1]
           told == mini_send(v, HARDWARE, MM)
           w == [told EXCEPT !.p_pending[u] = {}, !.p_flags[u] = @ \ {"PENDING"}]
<1>1. Lined(s, v)
  BY StillLined DEF Line
<1>2. inform(s) = pick_proc(w)
  BY DEF inform
<1> HIDE DEF u, v
<1>3. Line(told)
  BY <1>1, MiniSendLined, MessagesAssumption DEF Lined, Proc
<1> HIDE DEF told
<1>4. Lined(told, w)
  BY <1>3, StillLined DEF Line
<1> HIDE DEF w
<1> QED
  BY <1>2, <1>4, PickLined DEF Lined

LEMMA MiniRecLined ==
  ASSUME NEW s, Line(s), QueuesTyped(s), NEW c \in Proc, NEW src
  PROVE  Line(mini_rec(s, c, src))
<1> DEFINE q == s.p_callerq[c]
           Acceptable == {i \in DOMAIN q : src \in {ANY, q[i]}}
           n == CHOOSE j \in Acceptable : \A h \in Acceptable : j <= h
           b == [s EXCEPT !.p_getfrom[c] = src]
           Blocked == Block(b, c, {"RECEIVING"})
           t == mini_rec(s, c, src)
<1>1. CASE ~Has(s, c, "SENDING") /\ Acceptable # {}
  <2> DEFINE m == CopyMess(s, q[n], c)
             w == [m EXCEPT !.p_callerq[c] = RemoveAt(q, n)]
  <2>1. q \in Seq(Proc) /\ Acceptable \in SUBSET Nat /\ DOMAIN q = 1..Len(q)
    BY LenProperties DEF QueuesTyped
  <2>2. \E j \in Acceptable : \A h \in Acceptable : j <= h
    BY <2>1, <1>1, LeastNat
  <2>3. n \in Acceptable
    BY <2>2
  <2>4. q[n] \in Proc
    BY <2>1, <2>3, LenProperties
  <2>5. t = Unblock(w, q[n], "SENDING")
    BY <1>1 DEF mini_rec
  <2>6. Lined(s, m)
    BY CopyLined
  <2> HIDE DEF m, n
  <2>7. Line(w)
    BY <2>6 DEF Lined, Line
  <2> HIDE DEF w
  <2>8. Lined(w, Unblock(w, q[n], "SENDING"))
    BY <2>4, <2>7, UnblockLined
  <2> QED
    BY <2>5, <2>8 DEF Lined
<1>2. CASE /\ ~(~Has(s, c, "SENDING") /\ Acceptable # {})
           /\ ~Has(s, c, "SENDING") /\ c \in Tasks /\ s.p_int_blocked[c] /\ src \in {ANY, HARDWARE}
  <2> DEFINE m == CopyMess(s, HARDWARE, c)
  <2>1. t = [m EXCEPT !.p_int_blocked[c] = FALSE]
    BY <1>2 DEF mini_rec
  <2>2. Lined(s, m)
    BY CopyLined
  <2> HIDE DEF m
  <2> QED
    BY <2>1, <2>2 DEF Lined, Line
<1>3. CASE /\ ~(~Has(s, c, "SENDING") /\ Acceptable # {})
           /\ ~(~Has(s, c, "SENDING") /\ c \in Tasks /\ s.p_int_blocked[c] /\ src \in {ANY, HARDWARE})
  <2>1. t = IF s.sig_procs > 0 /\ c = MM /\ src = ANY THEN inform(Blocked) ELSE Blocked
    BY <1>3 DEF mini_rec
  <2>2. Lined(s, b)
    BY StillLined DEF Line
  <2> HIDE DEF b
  <2>3. Lined(b, Blocked)
    BY <2>2, BlockLined DEF Lined
  <2> HIDE DEF Blocked
  <2> QED
    BY <2>1, <2>3, InformLined DEF Lined
<1> QED
  BY <1>1, <1>2, <1>3

LEMMA SendRecLined ==
  ASSUME NEW s, Line(s), QueuesTyped(s), NEW c \in Proc, NEW d \in Proc
  PROVE  Line(SendRec(s, c, d))
<1> DEFINE m == mini_send(s, c, d)
<1>1. Line(m) /\ QueuesTyped(m)
  BY MiniSendLined
<1> HIDE DEF m
<1>2. Line(mini_rec(m, c, d))
  BY <1>1, MiniRecLined
<1> QED
  BY <1>2 DEF SendRec, m

LEMMA SendLined ==
  ASSUME NEW s, Line(s), NEW c, NEW d \in Proc
  PROVE  Line(Send(s, c, d))
BY MiniSendLined DEF Send

LEMMA InterruptLined ==
  ASSUME NEW s, Line(s), NEW t \in Proc
  PROVE  Line(interrupt(s, t))
<1> DEFINE u == [s EXCEPT !.m_source[t] = HARDWARE, !.p_flags[t] = @ \ {"RECEIVING"},
                          !.p_int_blocked[t] = FALSE]
           v == [s EXCEPT !.p_int_blocked[t] = TRUE]
<1>1. interrupt(s, t) \in {ReadyInline(u, t), v}
  BY DEF interrupt
<1>2. Lined(s, u) /\ Lined(s, v)
  BY StillLined DEF Line
<1> HIDE DEF u, v
<1>3. Lined(u, ReadyInline(u, t))
  BY <1>2, ReadyInlineLined DEF Lined
<1> QED
  BY <1>1, <1>2, <1>3 DEF Lined

LEMMA SignalLined ==
  ASSUME NEW s, Line(s), NEW u, NEW sig
  PROVE  Line(cause_sig(s, u, sig))
<1> DEFINE counted == [s EXCEPT !.p_pending[u] = @ \cup {sig}, !.p_pendcount[u] = @ + 1]
           b == Block(counted, u, {"PENDING", "SIG_PENDING"})
           flagged == [b EXCEPT !.sig_procs = @ + 1]
<1>1. cause_sig(s, u, sig) \in {s, counted, inform(flagged), flagged}
  BY DEF cause_sig
<1>2. Lined(s, counted)
  BY StillLined DEF Line
<1> HIDE DEF counted
<1>3. Lined(counted, b)
  BY <1>2, BlockLined DEF Lined
<1> HIDE DEF b
<1>4. Lined(b, flagged)
  BY <1>3, StillLined DEF Lined, Line
<1> HIDE DEF flagged
<1>5. Line(inform(flagged))
  BY <1>4, InformLined DEF Lined
<1> QED
  BY <1>1, <1>2, <1>4, <1>5 DEF Lined

LEMMA TickLined ==
  ASSUME NEW s \in KernelState, Line(s)
  PROVE  Line(handle_clock_tick(s)) /\ Lined(s, count_quantum(s))
<1> DEFINE q == count_quantum(s)
<1>1. Lined(s, q)
  <2> DEFINE n == s.rr_counter[s.proc_ptr] + 1
             u == [s EXCEPT !.rr_counter[s.proc_ptr] = 0]
             v == [s EXCEPT !.rr_counter[s.proc_ptr] = n]
  <2>1. q \in {s, sched(u), v}
    BY DEF count_quantum
  <2>2. Lined(s, u) /\ Lined(s, v) /\ Lined(s, s)
    BY StillLined DEF Line
  <2> HIDE DEF u, v, q
  <2>3. Lined(u, sched(u))
    BY <2>2, SchedLined DEF Lined
  <2> QED
    BY <2>1, <2>2, <2>3 DEF Lined
<1> HIDE DEF q
<1>2. Line(update_aging_for_group2(q))
  BY <1>1 DEF update_aging_for_group2, Lined, Line
<1> QED
  BY <1>1, <1>2 DEF handle_clock_tick, Lined, q

(* The estimate of a user that is not queued changes.                      *)
LEMMA EstimateLine ==
  ASSUME NEW s, NEW t, Line(s), Scheduled(s),
         NEW u \in Users, u \notin Runnable(s), NEW e \in Int,
         DOMAIN t = DOMAIN s, t.queue = s.queue,
         t.cpu_estimate = [s.cpu_estimate EXCEPT ![u] = e]
  PROVE  Line(t)
<1> DEFINE q == s.queue["g3"]
<1>1. ASSUME NEW i \in 1..Len(q) PROVE q[i] \in Users /\ q[i] # u
  <2>1. Holds(q, Members(s, Runnable(s), "g3"))
    BY DEF Scheduled, Placed, QNames
  <2>2. q[i] \in Runnable(s)
    BY <2>1, HoldsAt DEF Members
  <2>3. q[i] \in Users
    BY LenProperties DEF Line
  <2> QED
    BY <2>2, <2>3
<1>2. /\ t.cpu_estimate \in [Users -> Int]
      /\ \A x \in Users \ {u} : t.cpu_estimate[x] = s.cpu_estimate[x]
  BY DEF Line
<1>3. Rising(q, t.cpu_estimate)
  BY <1>1, <1>2 DEF Rising, Line
<1> QED
  BY <1>2, <1>3 DEF Line

(* What the calls of a process that runs do to the line.                   *)
LEMMA CallsLine ==
  ASSUME Inv, Line(k), NEW c \in Users \cup Servers,
         \/ c \in Users /\ UserCall(c)
         \/ c \in Servers /\ (ServerReceive(c) \/ ServerCall(c) \/ ServerReply(c))
  PROVE  Line(k')
<1>1. QueuesTyped(k) /\ c \in Proc
  BY DEF Inv, KInv, Scheduled, KernelState, QueuesTyped, Proc
<1>2. \/ \E d \in Proc : k' = SendRec(k, c, d)
      \/ k' = mini_rec(k, c, ANY)
      \/ \E d \in Proc : k' = Send(k, c, d)
  BY KernelAssumption DEF UserCall, ServerReceive, ServerCall, ServerReply, Proc
<1> QED
  BY <1>1, <1>2, SendRecLined, MiniRecLined, SendLined

LEMMA TasksLine ==
  ASSUME Inv, Line(k), NEW c \in {CLOCK, SYSTASK}, TaskReceive(c) \/ TaskReply(c)
  PROVE  Line(k')
<1>1. c \in Tasks /\ c \in Proc
  BY KernelAssumption DEF Proc
<1>2. CASE TaskReceive(c)
  <2> DEFINE v == [k EXCEPT !.m_source[c] = NIL]
  <2>1. Lined(k, v)
    BY StillLined DEF Line
  <2>2. QueuesTyped(v)
    BY <2>1 DEF Lined, Inv, KInv, Scheduled, KernelState, QueuesTyped
  <2>3. k' = mini_rec(v, c, ANY)
    BY <1>2 DEF TaskReceive
  <2> HIDE DEF v
  <2> QED
    BY <1>1, <2>1, <2>2, <2>3, MiniRecLined DEF Lined
<1>3. CASE TaskReply(c)
  <2>1. k.m_source[c] \in Proc
    BY <1>1, <1>3 DEF Inv, TaskLoop, TaskReply, At, Proc
  <2> QED
    BY <1>3, <2>1, SendLined DEF TaskReply
<1> QED
  BY <1>2, <1>3

LEMMA ClockLine ==
  ASSUME Inv, Line(k), DoClocktick \/ ClockRequest \/ OtherSystemCall \/ ClockTick
  PROVE  Line(k')
<1>1. k \in KernelState /\ CLOCK \in Proc
  BY KernelAssumption DEF Inv, KInv, Scheduled, Proc
<1>2. CASE DoClocktick \/ ClockRequest \/ OtherSystemCall
  <2>1. k' = k \/ k' = sched(k)
    BY <1>2 DEF DoClocktick, ClockRequest, OtherSystemCall
  <2> QED
    BY <2>1, SchedLined DEF Lined
<1>3. CASE ClockTick
  <2> DEFINE s == handle_clock_tick(k)
  <2>1. k' \in {interrupt(s, CLOCK), s}
    BY <1>3 DEF ClockTick
  <2>2. Line(s)
    BY <1>1, TickLined
  <2> HIDE DEF s
  <2> QED
    BY <1>1, <2>1, <2>2, InterruptLined
<1> QED
  BY <1>2, <1>3

LEMMA SetgroupLine ==
  ASSUME "pid" \notin Targets, Inv, Line(k),
         NEW u \in Users, NEW g \in Groups, NEW e \in Estimates, DoSetgroup(u, g, e)
  PROVE  Line(k')
<1> DEFINE est == IF g = 3 THEN e ELSE DefaultEstimate
<1>1. est \in Int
  BY KernelAssumption DEF DefaultEstimate
<1>2. u \notin Runnable(k) /\ Scheduled(k)
  BY DEF DoSetgroup, CalledMM, Waiting, Has, Runnable, Inv, KInv
<1>3. k' = [k EXCEPT !.sched_group[u] = g, !.wait_ticks[u] = 0, !.rr_counter[u] = 0,
                     !.cpu_estimate[u] = est]
  BY DEF DoSetgroup
<1> HIDE DEF est
<1>4. /\ DOMAIN k' = DOMAIN k /\ k'.queue = k.queue
      /\ k'.cpu_estimate = [k.cpu_estimate EXCEPT ![u] = est]
  BY <1>3 DEF Line
<1> QED
  BY <1>1, <1>2, <1>4, EstimateLine

LEMMA ForkLine ==
  ASSUME Inv, Line(k), NEW u \in Users, NEW child \in Users, DoFork(u, child)
  PROVE  Line(k')
<1>1. child \notin Runnable(k) /\ Scheduled(k)
  BY DEF DoFork, Runnable, isemptyp, Inv, KInv
<1>2. /\ DOMAIN k' = DOMAIN k /\ k'.queue = k.queue
      /\ k'.cpu_estimate = [k.cpu_estimate EXCEPT ![child] = 0]
  BY DEF DoFork, Line
<1> QED
  BY <1>1, <1>2, EstimateLine

LEMMA SignalsLine ==
  ASSUME Inv, Line(k), NEW u \in Users,
         ClockAlarm(u) \/ \E sig \in Signals : DoKill(u, sig)
  PROVE  Line(k')
BY SignalLined DEF ClockAlarm, DoKill

LEMMA FlagsLine ==
  ASSUME Inv, Line(k), NEW u \in Users,
         DoEndsig(u) \/ DoNewmap(u) \/ DoExec(u) \/ DoTrace(u)
  PROVE  Line(k')
<1>1. u \in Proc
  BY DEF Proc
<1>2. CASE DoEndsig(u)
  <2> DEFINE n == k.p_pendcount[u] - 1
             ended == [k EXCEPT !.p_pendcount[u] = n]
  <2>1. k' \in {Unblock(ended, u, "SIG_PENDING"), ended}
    BY <1>2 DEF DoEndsig
  <2>2. Lined(k, ended)
    BY StillLined DEF Line
  <2> HIDE DEF ended
  <2> QED
    BY <1>1, <2>1, <2>2, UnblockLined DEF Lined
<1>3. CASE DoNewmap(u)
  <2>1. k' \in {Unblock(k, u, "NO_MAP"), k}
    BY <1>3 DEF DoNewmap
  <2> QED
    BY <1>1, <2>1, UnblockLined DEF Lined
<1>4. CASE DoExec(u)
  <2>1. \/ k' = Unblock(k, u, "RECEIVING")
        \/ k' = Unblock(cause_sig(k, u, "SIGTRAP"), u, "RECEIVING")
    BY <1>4 DEF DoExec
  <2>2. Line(cause_sig(k, u, "SIGTRAP"))
    BY SignalLined
  <2> QED
    BY <1>1, <2>1, <2>2, UnblockLined DEF Lined
<1>5. CASE DoTrace(u)
  <2>1. k' \in {Unblock(k, u, "P_STOP"), Block(k, u, {"P_STOP"})}
    BY <1>5 DEF DoTrace
  <2> QED
    BY <1>1, <2>1, UnblockLined, BlockLined DEF Lined
<1> QED
  BY <1>2, <1>3, <1>4, <1>5

LEMMA XitLine ==
  ASSUME Inv, Line(k), NEW u \in Users, DoXit(u)
  PROVE  Line(k')
<1> DEFINE gone == IF k.p_flags[u] = {} THEN unready(k, u) ELSE k
<1>1. Lined(k, gone)
  BY UnreadyLined DEF Lined
<1>2. k' = [gone EXCEPT !.p_callerq = Unqueued(k, u),
                        !.sig_procs = IF Has(k, u, "PENDING") THEN @ - 1 ELSE @,
                        !.p_pending[u] = {}, !.p_pendcount[u] = 0,
                        !.p_flags[u] = {}, !.alive = @ \ {u}]
  BY DEF DoXit
<1> HIDE DEF gone
<1> QED
  BY <1>1, <1>2 DEF Lined, Line

LEMMA NextLine ==
  ASSUME "pid" \notin Targets
  PROVE  Inv /\ Line(k) /\ [Next]_vars => Line(k)'
<1> SUFFICES ASSUME Inv, Line(k), [Next]_vars PROVE Line(k')
  OBVIOUS
<1>1. CASE UNCHANGED vars
  BY <1>1 DEF vars
<1>2. ASSUME NEW u \in Users, UserCall(u) PROVE Line(k')
  BY <1>2, CallsLine
<1>3. ASSUME NEW s \in Servers, ServerReceive(s) \/ ServerCall(s) \/ ServerReply(s)
      PROVE  Line(k')
  BY <1>3, CallsLine
<1>4. ASSUME NEW t \in {CLOCK, SYSTASK}, TaskReceive(t) \/ TaskReply(t) PROVE Line(k')
  BY <1>4, TasksLine
<1>5. ASSUME NEW u \in Users, ClockAlarm(u) PROVE Line(k')
  BY <1>5, SignalsLine
<1>6. CASE DoClocktick \/ ClockRequest \/ OtherSystemCall \/ ClockTick
  BY <1>6, ClockLine
<1>7. ASSUME NEW u \in Users, NEW g \in Groups, NEW e \in Estimates, DoSetgroup(u, g, e)
      PROVE  Line(k')
  BY <1>7, SetgroupLine
<1>8. ASSUME NEW u \in Users, NEW sig \in Signals, DoKill(u, sig) PROVE Line(k')
  BY <1>8, SignalsLine
<1>9. ASSUME NEW u \in Users, DoEndsig(u) \/ DoNewmap(u) \/ DoExec(u) \/ DoTrace(u)
      PROVE  Line(k')
  BY <1>9, FlagsLine
<1>10. ASSUME NEW u \in Users, DoXit(u) PROVE Line(k')
  BY <1>10, XitLine
<1>11. ASSUME NEW u \in Users, NEW child \in Users, DoFork(u, child) PROVE Line(k')
  BY <1>11, ForkLine
<1> QED
  BY <1>1, <1>2, <1>3, <1>4, <1>5, <1>6, <1>7, <1>8, <1>9, <1>10, <1>11
     DEF Next, OtherThanUserCall

LEMMA InitLine == Init => Line(k)
<1> SUFFICES ASSUME Init PROVE Line(k)
  OBVIOUS
<1>1. /\ {"queue", "cpu_estimate", "p_callerq"} \subseteq DOMAIN k
      /\ k.queue = [n \in QNames |-> IF n = "SERVER_Q" THEN <<MM>> ELSE << >>]
      /\ k.cpu_estimate = [u \in Users |-> 0]
  BY DEF Init
<1>2. <<MM>> \in Seq(Proc) /\ << >> \in Seq(Proc) /\ << >> \in Seq(Users)
  BY MessagesAssumption DEF Proc
<1>3. k.queue["g3"] = << >> /\ Len(<< >>) = 0
  BY <1>1 DEF QNames
<1>4. Rising(k.queue["g3"], k.cpu_estimate)
  BY <1>3 DEF Rising
<1>5. k.queue \in [QNames -> Seq(Proc)] /\ k.queue["g3"] \in Seq(Users)
  BY <1>1, <1>2, <1>3
<1>6. k.cpu_estimate \in [Users -> Int]
  BY <1>1
<1> QED
  BY <1>1, <1>4, <1>5, <1>6 DEF Line

(* ready() of proc.c: wherever a process of group 3 is linked in, and      *)
(* whoever leaves, the jobs of group 3 stay in the order of their          *)
(* estimates, so that the head of g3 is the shortest.                      *)
THEOREM ShortestFirst ==
  ASSUME "pid" \notin Targets
  PROVE  Spec => []ShortestJobFirst
<1>1. Inv /\ Line(k) /\ [Next]_vars => Line(k)'
  BY NextLine
<1>2. Init => Line(k)
  BY InitLine
<1>3. Line(k) => ShortestJobFirst
  BY LenProperties DEF Line, Rising, ShortestJobFirst
<1> QED
  BY <1>1, <1>2, <1>3, Invariant, PTL DEF Spec
===============================================================================
