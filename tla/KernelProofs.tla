---------------------------- MODULE KernelProofs -----------------------------
(***************************************************************************)
(* The inductive invariant of Kernel: a process is on its ready queue iff  *)
(* it has no flag, and in the queue of the process it sends to iff it is   *)
(* SENDING.  First what pick_proc, ready, unready and sched do to the      *)
(* ready queues, in terms of the set R of the processes that are queued:   *)
(* each is on the queue of its class and group, once.  Then each routine   *)
(* of Messages is shown to keep the invariant; KernelTheorems goes on with *)
(* the actions.                                                            *)
(***************************************************************************)
EXTENDS Kernel, SequenceLemmas, FiniteSetTheorems

Members(s, R, n) == {p \in R : QueueOf(s, p) = n}

Placed(s, R) == \A n \in QNames : Holds(s.queue[n], Members(s, R, n))

(* Who runs is queued, and in these queues at the front.                   *)
FrontQueues == {"TASK_Q", "SERVER_Q", "g1", "g3", "USER_Q"}

HeadRuns(s, R) ==
  \/ s.proc_ptr = IDLE
  \/ /\ s.proc_ptr \in R
     /\ \A n \in FrontQueues : QueueOf(s, s.proc_ptr) = n => Head(s.queue[n]) = s.proc_ptr

(* The order in which pick_proc looks at the queues.                       *)
Rank(n) == CASE n = "TASK_Q"   -> 1
             [] n = "SERVER_Q" -> 2
             [] n = "g1"       -> 3
             [] n = "g2"       -> 4
             [] n = "g3"       -> 5
             [] OTHER          -> 6

(* Nobody who is queued comes before the one that runs, and a user that    *)
(* runs is billed.                                                         *)
Best(s, R) ==
  /\ \A p \in R : s.proc_ptr \in R /\ Rank(QueueOf(s, s.proc_ptr)) <= Rank(QueueOf(s, p))
  /\ s.proc_ptr \in Users \cup {IDLE} => s.bill_ptr = s.proc_ptr

KernelRuns(s) == s.proc_ptr \in Tasks \cup Servers

(* The fields of which the routines of this module change none.            *)
SameMessages(s, t) ==
  /\ t.sched_group   = s.sched_group
  /\ t.p_flags       = s.p_flags
  /\ t.p_getfrom     = s.p_getfrom
  /\ t.p_sendto      = s.p_sendto
  /\ t.p_callerq     = s.p_callerq
  /\ t.p_int_blocked = s.p_int_blocked
  /\ t.m_source      = s.m_source
  /\ t.p_pending     = s.p_pending
  /\ t.p_pendcount   = s.p_pendcount
  /\ t.sig_procs     = s.sig_procs
  /\ t.alive         = s.alive

(* The six queues partition the processes.                                 *)
LEMMA QueueOfProc ==
  ASSUME NEW s \in KernelState, NEW p \in Proc
  PROVE  /\ QueueOf(s, p) \in QNames
         /\ QueueOf(s, p) = "TASK_Q" <=> p \in Tasks
         /\ QueueOf(s, p) = "SERVER_Q" <=> p \in Servers
         /\ QueueOf(s, p) \in {"g1", "g2", "g3", "USER_Q"} => p \in Users
         /\ QueueOf(s, p) = "g1" <=> p \in Users /\ s.sched_group[p] = 1
         /\ QueueOf(s, p) = "g2" <=> p \in Users /\ s.sched_group[p] = 2
BY ProcAssumption DEF QueueOf, QNames, Proc

LEMMA RankOfProc ==
  ASSUME NEW s \in KernelState, NEW p \in Proc
  PROVE  /\ Rank(QueueOf(s, p)) \in 1..6
         /\ p \in Tasks => Rank(QueueOf(s, p)) = 1
         /\ p \in Servers => Rank(QueueOf(s, p)) = 2
         /\ p \notin Tasks => Rank(QueueOf(s, p)) >= 2
BY QueueOfProc DEF Rank, QNames

(* A queue in terms of its members.                                        *)
LEMMA PlacedHead ==
  ASSUME NEW s \in KernelState, NEW R \in SUBSET Proc, Placed(s, R),
         NEW n \in QNames, s.queue[n] # << >>
  PROVE  Head(s.queue[n]) \in R /\ QueueOf(s, Head(s.queue[n])) = n
<1>1. Holds(s.queue[n], Members(s, R, n))
  BY DEF Placed
<1>2. Head(s.queue[n]) \in Members(s, R, n)
  BY <1>1, HoldsAt
<1> QED
  BY <1>2 DEF Members

LEMMA RunTyped ==
  ASSUME NEW s \in KernelState, NEW p \in Proc \cup {IDLE}
  PROVE  /\ Run(s, p) \in KernelState
         /\ Run(s, p).proc_ptr = p
         /\ Run(s, p).queue = s.queue
         /\ SameMessages(s, Run(s, p))
BY DEF Run, KernelState, SameMessages

LEMMA RunBillTyped ==
  ASSUME NEW s \in KernelState, NEW p \in Users \cup {IDLE}
  PROVE  /\ RunBill(s, p) \in KernelState
         /\ RunBill(s, p).proc_ptr = p /\ RunBill(s, p).bill_ptr = p
         /\ RunBill(s, p).queue = s.queue
         /\ SameMessages(s, RunBill(s, p))
BY DEF RunBill, KernelState, SameMessages, Proc

(* The choice of pick_proc in group 2 is one of the queue.                 *)
LEMMA OldestQueued ==
  ASSUME NEW s \in KernelState, NEW R \in SUBSET Proc, Placed(s, R), s.queue["g2"] # << >>
  PROVE  Oldest(s) \in R /\ QueueOf(s, Oldest(s)) = "g2" /\ Oldest(s) \in Users
<1> DEFINE q == s.queue["g2"]
           M == Members(s, R, "g2")
           w == s.wait_ticks
           Beats(i, j) == \/ w[q[i]] > w[q[j]]
                          \/ w[q[i]] = w[q[j]] /\ i <= j
<1>1. Holds(q, M)
  BY DEF Placed, QNames
<1>2. /\ Len(q) \in Nat /\ Len(q) >= 1 /\ DOMAIN q = 1..Len(q)
      /\ \A i \in 1..Len(q) : q[i] \in M
  BY <1>1, HoldsAt
<1>3. M \subseteq Users
  BY QueueOfProc DEF Members
<1>4. \A i \in 1..Len(q) : w[q[i]] \in 0..MAX_WAIT_TICKS
  BY <1>2, <1>3 DEF KernelState
<1>5. MAX_WAIT_TICKS \in Nat
  BY KernelAssumption
<1> DEFINE Missing == {MAX_WAIT_TICKS - w[q[i]] : i \in 1..Len(q)}
<1> HIDE DEF q, M, w
<1>6. PICK i0 \in 1..Len(q) : \A j \in 1..Len(q) : w[q[i0]] >= w[q[j]]
  <2>1. Missing \in SUBSET Nat
    BY <1>4, <1>5
  <2>2. Missing # {}
    <3>1. 1 \in 1..Len(q)
      BY <1>2
    <3> QED
      BY <3>1
  <2>3. PICK m \in Missing : \A x \in Missing : m <= x
    BY <2>1, <2>2, LeastNat
  <2>4. PICK i \in 1..Len(q) : m = MAX_WAIT_TICKS - w[q[i]]
    BY <2>3
  <2>5. ASSUME NEW j \in 1..Len(q) PROVE w[q[i]] >= w[q[j]]
    <3>1. m <= MAX_WAIT_TICKS - w[q[j]]
      BY <2>3
    <3> QED
      BY <3>1, <2>4, <1>4, <1>5
  <2> QED
    BY <2>4, <2>5
<1> DEFINE Longest == {i \in 1..Len(q) : w[q[i]] = w[q[i0]]}
<1>7. PICK i1 \in Longest : \A j \in Longest : i1 <= j
  <2>1. Longest \in SUBSET Nat /\ i0 \in Longest
    BY <1>6
  <2> QED
    BY <2>1, LeastNat
<1>8. \A j \in 1..Len(q) : Beats(i1, j)
  <2> TAKE j \in 1..Len(q)
  <2>1. w[q[i1]] = w[q[i0]] /\ w[q[i0]] >= w[q[j]]
    BY <1>6, <1>7
  <2>2. w[q[j]] = w[q[i0]] => i1 <= j
    BY <1>7
  <2>3. w[q[i1]] \in Int /\ w[q[j]] \in Int
    BY <1>4, <1>7
  <2> QED
    BY <2>1, <2>2, <2>3
<1>9. OldestIndex(s) = CHOOSE i \in DOMAIN q : \A j \in DOMAIN q : Beats(i, j)
  BY DEF OldestIndex, q, w
<1>10. OldestIndex(s) \in 1..Len(q)
  <2>1. i1 \in DOMAIN q /\ \A j \in DOMAIN q : Beats(i1, j)
    BY <1>2, <1>7, <1>8
  <2> HIDE DEF Beats
  <2> QED
    BY <2>1, <1>2, <1>9
<1>11. Oldest(s) = q[OldestIndex(s)]
  BY DEF Oldest, q
<1>12. Oldest(s) \in M
  BY <1>2, <1>10, <1>11
<1> QED
  BY <1>12, <1>3 DEF M, Members

(* pick_proc leaves the queues alone and picks one of the queued.          *)
LEMMA PickProc ==
  ASSUME NEW s \in KernelState, NEW R \in SUBSET Proc, Placed(s, R)
  PROVE  /\ pick_proc(s) \in KernelState
         /\ SameMessages(s, pick_proc(s))
         /\ Placed(pick_proc(s), R)
         /\ HeadRuns(pick_proc(s), R)
         /\ Best(pick_proc(s), R)
<1> DEFINE Busy(n)  == s.queue[n] # << >>
           First(n) == Head(s.queue[n])
           t == pick_proc(s)
<1>1. ASSUME NEW n \in QNames, Busy(n)
      PROVE  /\ First(n) \in R /\ First(n) \in Proc /\ QueueOf(s, First(n)) = n
             /\ n \notin {"TASK_Q", "SERVER_Q"} => First(n) \in Users
  <2>1. First(n) \in R /\ QueueOf(s, First(n)) = n
    BY <1>1, PlacedHead
  <2>2. First(n) \in Proc
    BY <2>1
  <2> QED
    BY <2>1, <2>2, <1>1, QueueOfProc DEF QNames
<1> DEFINE Foremost(n) == \A m \in QNames : Busy(m) => Rank(n) <= Rank(m)
           Picked(n) == /\ t \in KernelState
                        /\ SameMessages(s, t) /\ t.queue = s.queue
                        /\ t.proc_ptr = First(n)
                        /\ n \notin {"TASK_Q", "SERVER_Q"} => t.bill_ptr = First(n)
                        /\ Foremost(n)
<1>2. \/ \E n \in QNames : Busy(n) /\ Picked(n)
      \/ /\ t \in KernelState
         /\ SameMessages(s, t) /\ t.queue = s.queue
         /\ t.bill_ptr = t.proc_ptr
         /\ \/ t.proc_ptr = IDLE /\ \A n \in QNames : ~Busy(n)
            \/ t.proc_ptr \in R /\ QueueOf(s, t.proc_ptr) = "g2" /\ Foremost("g2")
  <2>1. CASE Busy("TASK_Q")
    <3>1. t = Run(s, First("TASK_Q"))
      BY <2>1 DEF pick_proc
    <3>2. Picked("TASK_Q")
      BY <2>1, <3>1, <1>1, RunTyped DEF QNames, Rank
    <3> QED
      BY <2>1, <3>2 DEF QNames
  <2>2. CASE ~Busy("TASK_Q") /\ Busy("SERVER_Q")
    <3>1. t = Run(s, First("SERVER_Q"))
      BY <2>2 DEF pick_proc
    <3>2. Picked("SERVER_Q")
      BY <2>2, <3>1, <1>1, RunTyped DEF QNames, Rank
    <3> QED
      BY <2>2, <3>2 DEF QNames
  <2>3. CASE ~Busy("TASK_Q") /\ ~Busy("SERVER_Q") /\ Busy("g1")
    <3>1. t = RunBill(s, First("g1"))
      BY <2>3 DEF pick_proc
    <3>2. Picked("g1")
      BY <2>3, <3>1, <1>1, RunBillTyped DEF QNames, Rank
    <3> QED
      BY <2>3, <3>2 DEF QNames
  <2>4. CASE ~Busy("TASK_Q") /\ ~Busy("SERVER_Q") /\ ~Busy("g1") /\ Busy("g2")
    <3> DEFINE r == RunBill(s, Oldest(s))
    <3>1. t = [r EXCEPT !.wait_ticks[Oldest(s)] = 0]
      BY <2>4 DEF pick_proc
    <3>2. Oldest(s) \in R /\ QueueOf(s, Oldest(s)) = "g2" /\ Oldest(s) \in Users
      BY <2>4, OldestQueued
    <3>3. /\ r \in KernelState /\ r.proc_ptr = Oldest(s) /\ r.bill_ptr = Oldest(s)
          /\ r.queue = s.queue /\ SameMessages(s, r)
      BY <3>2, RunBillTyped
    <3>4. 0 \in 0..MAX_WAIT_TICKS
      BY KernelAssumption
    <3> DEFINE w == [r.wait_ticks EXCEPT ![Oldest(s)] = 0]
    <3> HIDE DEF r
    <3>5. w \in [Users -> 0..MAX_WAIT_TICKS]
      <4>1. r.wait_ticks \in [Users -> 0..MAX_WAIT_TICKS]
        BY <3>3 DEF KernelState
      <4> QED
        BY <4>1, <3>4
    <3>6. t = [r EXCEPT !.wait_ticks = w]
      BY <3>1
    <3> HIDE DEF w, t
    <3>7. t \in KernelState
      BY <3>3, <3>5, <3>6 DEF KernelState
    <3>8. /\ SameMessages(s, t) /\ t.queue = s.queue
          /\ t.proc_ptr = Oldest(s) /\ t.bill_ptr = Oldest(s)
      BY <3>3, <3>6 DEF SameMessages, KernelState
    <3>9. Foremost("g2")
      BY <2>4 DEF QNames, Rank
    <3> QED
      BY <3>2, <3>7, <3>8, <3>9 DEF t
  <2>5. CASE ~Busy("TASK_Q") /\ ~Busy("SERVER_Q") /\ ~Busy("g1") /\ ~Busy("g2") /\ Busy("g3")
    <3>1. t = RunBill(s, First("g3"))
      BY <2>5 DEF pick_proc
    <3>2. Picked("g3")
      BY <2>5, <3>1, <1>1, RunBillTyped DEF QNames, Rank
    <3> QED
      BY <2>5, <3>2 DEF QNames
  <2>6. CASE /\ ~Busy("TASK_Q") /\ ~Busy("SERVER_Q") /\ ~Busy("g1") /\ ~Busy("g2") /\ ~Busy("g3")
             /\ Busy("USER_Q")
    <3>1. t = RunBill(s, First("USER_Q"))
      BY <2>6 DEF pick_proc
    <3>2. Picked("USER_Q")
      BY <2>6, <3>1, <1>1, RunBillTyped DEF QNames, Rank
    <3> QED
      BY <2>6, <3>2 DEF QNames
  <2>7. CASE /\ ~Busy("TASK_Q") /\ ~Busy("SERVER_Q") /\ ~Busy("g1") /\ ~Busy("g2") /\ ~Busy("g3")
             /\ ~Busy("USER_Q")
    <3>1. t = RunBill(s, IDLE)
      BY <2>7 DEF pick_proc
    <3>2. \A n \in QNames : ~Busy(n)
      BY <2>7 DEF QNames
    <3> QED
      BY <3>1, <3>2, RunBillTyped
  <2> QED
    BY <2>1, <2>2, <2>3, <2>4, <2>5, <2>6, <2>7
<1> HIDE DEF t
<1>3. t \in KernelState /\ SameMessages(s, t) /\ t.queue = s.queue
  BY <1>2
<1>4. \A p : QueueOf(t, p) = QueueOf(s, p)
  BY <1>3 DEF SameMessages, QueueOf
<1>5. Placed(t, R)
  BY <1>3, <1>4 DEF Placed, Members
<1>6. HeadRuns(t, R)
  <2>1. CASE \E n \in QNames : Busy(n) /\ Picked(n)
    BY <2>1, <1>1, <1>3, <1>4 DEF HeadRuns
  <2>2. CASE t.proc_ptr \in R /\ QueueOf(s, t.proc_ptr) = "g2"
    BY <2>2, <1>4 DEF HeadRuns, FrontQueues
  <2>3. CASE t.proc_ptr = IDLE
    BY <2>3 DEF HeadRuns
  <2> QED
    BY <1>2, <2>1, <2>2, <2>3
<1>7. \A p \in R : QueueOf(s, p) \in QNames /\ Busy(QueueOf(s, p))
  <2> TAKE p \in R
  <2>1. QueueOf(s, p) \in QNames /\ p \in Members(s, R, QueueOf(s, p))
    BY QueueOfProc DEF Members
  <2>2. Holds(s.queue[QueueOf(s, p)], Members(s, R, QueueOf(s, p)))
    BY <2>1 DEF Placed
  <2> QED
    BY <2>1, <2>2, HoldsEmpty
<1>8. Best(t, R)
  <2>1. CASE \E n \in QNames : Busy(n) /\ Picked(n)
    <3>1. PICK n \in QNames : Busy(n) /\ Picked(n)
      BY <2>1
    <3>2. t.proc_ptr \in R /\ QueueOf(s, t.proc_ptr) = n
      BY <3>1, <1>1
    <3>3. n \in {"TASK_Q", "SERVER_Q"} => t.proc_ptr \notin Users \cup {IDLE}
      BY <3>2, QueueOfProc, ProcAssumption
    <3> QED
      BY <3>1, <3>2, <3>3, <1>4, <1>7 DEF Best
  <2>2. CASE /\ t.bill_ptr = t.proc_ptr
             /\ t.proc_ptr \in R /\ QueueOf(s, t.proc_ptr) = "g2" /\ Foremost("g2")
    BY <2>2, <1>4, <1>7 DEF Best
  <2>3. CASE t.bill_ptr = t.proc_ptr /\ \A n \in QNames : ~Busy(n)
    BY <2>3, <1>7 DEF Best
  <2> QED
    BY <1>2, <2>1, <2>2, <2>3
<1> QED
  BY <1>3, <1>5, <1>6, <1>8 DEF t

(* One queue is replaced.                                                  *)
LEMMA QueueUpdate ==
  ASSUME NEW s \in KernelState, NEW n \in QNames, NEW q \in Seq(Proc)
  PROVE  LET t == [s EXCEPT !.queue[n] = q]
         IN /\ t \in KernelState
            /\ SameMessages(s, t)
            /\ t.proc_ptr = s.proc_ptr /\ t.bill_ptr = s.bill_ptr
            /\ t.queue[n] = q
            /\ \A m \in QNames \ {n} : t.queue[m] = s.queue[m]
<1> DEFINE qs == [s.queue EXCEPT ![n] = q]
<1>1. /\ qs \in [QNames -> Seq(Proc)] /\ qs[n] = q
      /\ \A m \in QNames \ {n} : qs[m] = s.queue[m]
  BY DEF KernelState
<1>2. [s EXCEPT !.queue[n] = q] = [s EXCEPT !.queue = qs]
  OBVIOUS
<1> HIDE DEF qs
<1>3. [s EXCEPT !.queue = qs] \in KernelState
  BY <1>1 DEF KernelState
<1>4. /\ [s EXCEPT !.queue = qs].queue = qs
      /\ [s EXCEPT !.queue = qs].proc_ptr = s.proc_ptr
      /\ [s EXCEPT !.queue = qs].bill_ptr = s.bill_ptr
      /\ SameMessages(s, [s EXCEPT !.queue = qs])
  BY DEF KernelState, SameMessages
<1> QED
  BY <1>1, <1>2, <1>3, <1>4

(* QueueOf and Members look at the groups only.                            *)
LEMMA SameMembers ==
  ASSUME NEW s, NEW t, t.sched_group = s.sched_group, NEW R, NEW n
  PROVE  /\ \A p : QueueOf(t, p) = QueueOf(s, p)
         /\ Members(t, R, n) = Members(s, R, n)
BY DEF QueueOf, Members

(* Where a process is linked in: a position of its queue, the front only   *)
(* in USER_Q and g3.                                                       *)
LEMMA ReadyPosition ==
  ASSUME NEW s \in KernelState, NEW R \in SUBSET Proc, Placed(s, R), NEW p \in Proc
  PROVE  LET n == QueueOf(s, p)
         IN /\ ReadyIndex(s, p) \in 1..Len(s.queue[n]) + 1
            /\ n \notin {"g3", "USER_Q"} => ReadyIndex(s, p) = Len(s.queue[n]) + 1
<1> DEFINE n == QueueOf(s, p)
           q == s.queue[n]
           NotShorter(i) == i > Len(q) \/ s.cpu_estimate[q[i]] >= s.cpu_estimate[p]
<1>1. n \in QNames
  BY QueueOfProc
<1>2. Len(q) \in Nat
  BY <1>1, HoldsAt DEF Placed
<1>3. CASE n = "g3"
  <2> DEFINE I == {i \in 1..Len(q) + 1 : NotShorter(i)}
  <2>1. Len(q) + 1 \in I
    BY <1>2
  <2>2. I \in SUBSET Nat
    BY <1>2
  <2>3. PICK i \in I : \A j \in I : i <= j
    BY <2>1, <2>2, LeastNat
  <2>4. i \in 1..Len(q) + 1 /\ NotShorter(i)
    BY <2>3
  <2>5. \A j \in 1..i - 1 : ~NotShorter(j)
    <3> SUFFICES ASSUME NEW j \in 1..i - 1, NotShorter(j) PROVE FALSE
      OBVIOUS
    <3>1. j \in I
      BY <2>4, <1>2
    <3> QED
      BY <3>1, <2>3, <2>4, <1>2
  <2>6. ReadyIndex(s, p) = CHOOSE m \in 1..Len(q) + 1 :
                              NotShorter(m) /\ \A j \in 1..m - 1 : ~NotShorter(j)
    BY <1>3 DEF ReadyIndex
  <2> HIDE DEF NotShorter
  <2>7. ReadyIndex(s, p) \in 1..Len(q) + 1
    BY <2>4, <2>5, <2>6
  <2> QED
    BY <2>7, <1>3
<1>4. CASE n = "USER_Q"
  <2>1. ReadyIndex(s, p) = 1
    BY <1>4 DEF ReadyIndex
  <2> QED
    BY <2>1, <1>4, <1>2
<1>5. CASE n \notin {"g3", "USER_Q"}
  <2>1. ReadyIndex(s, p) = Len(q) + 1
    BY <1>5 DEF ReadyIndex
  <2> QED
    BY <2>1, <1>2
<1> QED
  BY <1>3, <1>4, <1>5

(* A process becomes ready: it is queued too.  No user becomes ready while *)
(* a user runs, so the one that runs stays at the front.                   *)
LEMMA ReadyPlaced ==
  ASSUME NEW s \in KernelState, NEW R \in SUBSET Proc, Placed(s, R), HeadRuns(s, R),
         NEW p \in Proc, p \notin R, s.proc_ptr \in Users => p \notin Users
  PROVE  /\ ready(s, p) \in KernelState
         /\ SameMessages(s, ready(s, p))
         /\ Placed(ready(s, p), R \cup {p})
         /\ HeadRuns(ready(s, p), R \cup {p})
         /\ ready(s, p).proc_ptr = s.proc_ptr \/ (ready(s, p).proc_ptr = p /\ p \in Tasks)
         /\ Best(s, R) /\ (p \in Tasks \/ KernelRuns(s)) => Best(ready(s, p), R \cup {p})
<1> DEFINE n == QueueOf(s, p)
           q == s.queue[n]
           r == InsertAt(q, ReadyIndex(s, p), p)
           u == [s EXCEPT !.queue[n] = r]
           x == IF n = "TASK_Q" /\ q = << >> THEN p ELSE s.proc_ptr
           t == ready(s, p)
<1>1. n \in QNames
  BY QueueOfProc
<1>2. Holds(q, Members(s, R, n)) /\ p \notin Members(s, R, n)
  BY <1>1 DEF Placed, Members
<1>3. /\ Holds(r, Members(s, R, n) \cup {p})
      /\ r # << >>
      /\ Head(r) = IF ReadyIndex(s, p) = 1 THEN p ELSE Head(q)
  <2> DEFINE M == Members(s, R, n)
             j == ReadyIndex(s, p)
  <2>1. j \in 1..Len(q) + 1
    BY ReadyPosition
  <2>2. Holds(q, M) /\ p \notin M
    BY <1>2
  <2> HIDE DEF q, M, j
  <2>3. /\ Holds(InsertAt(q, j, p), M \cup {p})
        /\ InsertAt(q, j, p) # << >>
        /\ Head(InsertAt(q, j, p)) = IF j = 1 THEN p ELSE Head(q)
    BY <2>1, <2>2, HoldsInsert
  <2> QED
    BY <2>3 DEF j, M
<1>4. Members(s, R, n) \cup {p} = Members(s, R \cup {p}, n)
  BY DEF Members
<1>5. \A m \in QNames \ {n} : Members(s, R, m) = Members(s, R \cup {p}, m)
  BY DEF Members
<1>6. r \in Seq(Proc)
  <2>1. r \in Seq(Members(s, R \cup {p}, n)) /\ Members(s, R \cup {p}, n) \subseteq Proc
    BY <1>3, <1>4 DEF Holds, Members
  <2> QED
    BY <2>1, SeqMonotonic
<1>7. /\ u \in KernelState /\ SameMessages(s, u)
      /\ u.proc_ptr = s.proc_ptr /\ u.bill_ptr = s.bill_ptr /\ u.queue[n] = r
      /\ \A m \in QNames \ {n} : u.queue[m] = s.queue[m]
  BY <1>1, <1>6, QueueUpdate
<1>8. t = [u EXCEPT !.proc_ptr = x]
  BY DEF ready
<1> HIDE DEF u, t, r
<1>9. x \in Proc \cup {IDLE}
  BY DEF KernelState
<1>10. /\ t \in KernelState /\ SameMessages(s, t) /\ t.proc_ptr = x /\ t.queue = u.queue
       /\ t.bill_ptr = s.bill_ptr
  BY <1>7, <1>8, <1>9 DEF KernelState, SameMessages
<1>11. /\ \A y : QueueOf(t, y) = QueueOf(s, y)
       /\ \A m : Members(t, R \cup {p}, m) = Members(s, R \cup {p}, m)
  BY <1>10, SameMembers DEF SameMessages
<1>12. Placed(t, R \cup {p})
  <2> SUFFICES ASSUME NEW m \in QNames PROVE Holds(t.queue[m], Members(s, R \cup {p}, m))
    BY <1>11 DEF Placed
  <2>1. CASE m = n
    BY <2>1, <1>3, <1>4, <1>7, <1>10
  <2>2. CASE m # n
    <3>1. Holds(s.queue[m], Members(s, R, m))
      BY DEF Placed
    <3> QED
      BY <2>2, <3>1, <1>5, <1>7, <1>10
  <2> QED
    BY <2>1, <2>2
<1>13. HeadRuns(t, R \cup {p})
  <2>1. CASE n = "TASK_Q" /\ q = << >>
    <3>1. ReadyIndex(s, p) = 1
      <4>1. ReadyIndex(s, p) = Len(q) + 1
        BY <2>1, ReadyPosition
      <4> QED
        BY <4>1, <2>1
    <3>2. t.proc_ptr = p /\ Head(t.queue[n]) = p
      BY <2>1, <3>1, <1>3, <1>7, <1>10
    <3> QED
      BY <3>2, <1>11 DEF HeadRuns
  <2>2. CASE ~(n = "TASK_Q" /\ q = << >>) /\ s.proc_ptr \in R
    <3>1. t.proc_ptr = s.proc_ptr
      BY <2>2, <1>10
    <3>2. ASSUME NEW m \in FrontQueues, QueueOf(s, s.proc_ptr) = m
          PROVE  Head(t.queue[m]) = s.proc_ptr
      <4>1. Head(s.queue[m]) = s.proc_ptr /\ m \in QNames
        BY <2>2, <3>2, ProcAssumption DEF HeadRuns, FrontQueues, QNames
      <4>2. CASE m # n
        BY <4>1, <4>2, <1>7, <1>10
      <4>3. CASE m = n
        <5>1. m # "USER_Q" /\ m # "g3"
          <6>1. s.proc_ptr \in Proc
            BY <2>2
          <6> QED
            BY <6>1, <3>2, <4>3, QueueOfProc DEF FrontQueues
        <5>2. s.proc_ptr \in Members(s, R, n)
          BY <2>2, <3>2, <4>3 DEF Members
        <5>3. q # << >> /\ Len(q) >= 1 /\ Len(q) \in Nat
          BY <5>2, <1>2, HoldsEmpty, HoldsAt
        <5>4. ReadyIndex(s, p) # 1
          BY <5>1, <5>3, <4>3, ReadyPosition
        <5> QED
          BY <5>4, <4>1, <4>3, <1>3, <1>7, <1>10
      <4> QED
        BY <4>2, <4>3
    <3> QED
      BY <2>2, <3>1, <3>2, <1>11 DEF HeadRuns
  <2>3. CASE ~(n = "TASK_Q" /\ q = << >>) /\ s.proc_ptr = IDLE
    BY <2>3, <1>10 DEF HeadRuns
  <2> QED
    BY <2>1, <2>2, <2>3 DEF HeadRuns
<1>14. t.proc_ptr = s.proc_ptr \/ (t.proc_ptr = p /\ p \in Tasks)
  BY <1>10, QueueOfProc
<1>15. ASSUME Best(s, R), p \in Tasks \/ KernelRuns(s) PROVE Best(t, R \cup {p})
  <2>1. CASE p \in Tasks /\ q = << >>
    <3>1. t.proc_ptr = p /\ Rank(QueueOf(s, p)) = 1
      BY <2>1, <1>10, QueueOfProc, RankOfProc
    <3>2. \A y \in R \cup {p} : 1 <= Rank(QueueOf(s, y))
      BY RankOfProc
    <3> QED
      BY <2>1, <3>1, <3>2, <1>11, ProcAssumption DEF Best, Proc
  <2>2. CASE p \in Tasks /\ q # << >>
    <3>1. t.proc_ptr = s.proc_ptr /\ n = "TASK_Q"
      BY <2>2, <1>10, QueueOfProc
    <3>2. Head(q) \in R /\ QueueOf(s, Head(q)) = n
      BY <2>2, <1>1, PlacedHead
    <3>3. s.proc_ptr \in R /\ Rank(QueueOf(s, s.proc_ptr)) <= Rank(QueueOf(s, p))
      BY <3>2, <1>15 DEF Best
    <3> QED
      BY <3>1, <3>3, <1>10, <1>11, <1>15 DEF Best
  <2>3. CASE p \notin Tasks
    <3>1. t.proc_ptr = s.proc_ptr /\ s.proc_ptr \in Tasks \cup Servers
      BY <2>3, <1>14, <1>15 DEF KernelRuns
    <3>2. s.proc_ptr \in R
      BY <3>1, ProcAssumption DEF HeadRuns, Proc
    <3>3. Rank(QueueOf(s, s.proc_ptr)) \in 1..2 /\ Rank(QueueOf(s, p)) >= 2
      BY <2>3, <3>1, <3>2, RankOfProc
    <3>4. Rank(QueueOf(s, s.proc_ptr)) <= Rank(QueueOf(s, p))
      <4>1. Rank(QueueOf(s, p)) \in 1..6
        BY RankOfProc
      <4> QED
        BY <4>1, <3>3
    <3> QED
      BY <3>1, <3>2, <3>4, <1>10, <1>11, <1>15 DEF Best
  <2> QED
    BY <2>1, <2>2, <2>3
<1> QED
  BY <1>10, <1>12, <1>13, <1>14, <1>15 DEF t

(* A process is taken off its queue; what runs stays, and so does every    *)
(* other head.                                                             *)
LEMMA UnlinkPlaced ==
  ASSUME NEW s \in KernelState, NEW R \in SUBSET Proc, Placed(s, R), NEW p \in R
  PROVE  LET t == unlink(s, p)
         IN /\ t \in KernelState
            /\ SameMessages(s, t)
            /\ t.proc_ptr = s.proc_ptr /\ t.bill_ptr = s.bill_ptr
            /\ Placed(t, R \ {p})
            /\ \A n \in QNames : Head(s.queue[n]) # p => Head(t.queue[n]) = Head(s.queue[n])
<1> DEFINE n == QueueOf(s, p)
           q == s.queue[n]
           r == RemoveFirst(q, p)
           t == unlink(s, p)
<1>1. p \in Proc /\ n \in QNames
  BY QueueOfProc
<1>2. Holds(q, Members(s, R, n)) /\ p \in Members(s, R, n)
  BY <1>1 DEF Placed, Members
<1>3. /\ Holds(r, Members(s, R, n) \ {p})
      /\ p # Head(q) => r # << >> /\ Head(r) = Head(q)
  BY <1>2, HoldsRemoveFirst
<1>4. Members(s, R, n) \ {p} = Members(s, R \ {p}, n)
  BY DEF Members
<1>5. \A m \in QNames \ {n} : Members(s, R, m) = Members(s, R \ {p}, m)
  BY DEF Members
<1>6. r \in Seq(Proc)
  <2>1. r \in Seq(Members(s, R \ {p}, n)) /\ Members(s, R \ {p}, n) \subseteq Proc
    BY <1>3, <1>4 DEF Holds, Members
  <2> QED
    BY <2>1, SeqMonotonic
<1>7. t = [s EXCEPT !.queue[n] = r]
  BY DEF unlink
<1> HIDE DEF t, r
<1>8. /\ t \in KernelState /\ SameMessages(s, t)
      /\ t.proc_ptr = s.proc_ptr /\ t.bill_ptr = s.bill_ptr /\ t.queue[n] = r
      /\ \A m \in QNames \ {n} : t.queue[m] = s.queue[m]
  BY <1>1, <1>6, <1>7, QueueUpdate
<1>9. \A m : Members(t, R \ {p}, m) = Members(s, R \ {p}, m)
  BY <1>8, SameMembers DEF SameMessages
<1>10. Placed(t, R \ {p})
  <2> SUFFICES ASSUME NEW m \in QNames PROVE Holds(t.queue[m], Members(s, R \ {p}, m))
    BY <1>9 DEF Placed
  <2>1. CASE m = n
    BY <2>1, <1>3, <1>4, <1>8
  <2>2. CASE m # n
    <3>1. Holds(s.queue[m], Members(s, R, m))
      BY DEF Placed
    <3> QED
      BY <2>2, <3>1, <1>5, <1>8
  <2> QED
    BY <2>1, <2>2
<1>11. \A m \in QNames : Head(s.queue[m]) # p => Head(t.queue[m]) = Head(s.queue[m])
  BY <1>3, <1>8
<1> QED
  BY <1>8, <1>10, <1>11 DEF t

(* A process leaves its queue, and a successor is picked if it ran.        *)
LEMMA UnreadyPlaced ==
  ASSUME NEW s \in KernelState, NEW R \in SUBSET Proc, Placed(s, R), HeadRuns(s, R), NEW p \in R
  PROVE  /\ unready(s, p) \in KernelState
         /\ SameMessages(s, unready(s, p))
         /\ Placed(unready(s, p), R \ {p})
         /\ HeadRuns(unready(s, p), R \ {p})
         /\ Best(s, R) \/ s.proc_ptr = p => Best(unready(s, p), R \ {p})
<1> DEFINE u == unlink(s, p)
           n == QueueOf(s, p)
<1>1. /\ u \in KernelState /\ SameMessages(s, u)
      /\ u.proc_ptr = s.proc_ptr /\ u.bill_ptr = s.bill_ptr
      /\ Placed(u, R \ {p})
      /\ \A m \in QNames : Head(s.queue[m]) # p => Head(u.queue[m]) = Head(s.queue[m])
  BY UnlinkPlaced
<1>2. p \in Proc /\ n \in QNames
  BY QueueOfProc
<1>3. CASE unready(s, p) = pick_proc(u)
  <2> DEFINE t == pick_proc(u)
  <2>1. R \ {p} \in SUBSET Proc
    OBVIOUS
  <2>2. /\ t \in KernelState /\ SameMessages(u, t)
        /\ Placed(t, R \ {p}) /\ HeadRuns(t, R \ {p}) /\ Best(t, R \ {p})
    BY <1>1, <2>1, PickProc
  <2> HIDE DEF t, u
  <2>3. SameMessages(s, t)
    BY <1>1, <2>2 DEF SameMessages
  <2> QED
    BY <2>2, <2>3, <1>3 DEF t, u
<1>4. CASE unready(s, p) = u /\ s.proc_ptr # p
  <2> HIDE DEF u
  <2>1. \A y : QueueOf(u, y) = QueueOf(s, y)
    BY <1>1, SameMembers DEF SameMessages
  <2>2. HeadRuns(u, R \ {p})
    <3>1. FrontQueues \subseteq QNames
      BY DEF FrontQueues, QNames
    <3> QED
      BY <3>1, <2>1, <1>1, <1>4 DEF HeadRuns
  <2>3. Best(s, R) => Best(u, R \ {p})
    BY <2>1, <1>1, <1>4 DEF Best
  <2> QED
    BY <2>2, <2>3, <1>1, <1>4
<1>5. s.proc_ptr = p => unready(s, p) = pick_proc(u)
  <2> HAVE s.proc_ptr = p
  <2>1. p # IDLE
    BY <1>2, ProcAssumption
  <2>2. n \in FrontQueues => Head(s.queue[n]) = p
    BY <2>1 DEF HeadRuns
  <2>3. s.queue[n] # << >>
    <3>1. Holds(s.queue[n], Members(s, R, n)) /\ p \in Members(s, R, n)
      BY <1>2 DEF Placed, Members
    <3> QED
      BY <3>1, HoldsEmpty
  <2>4. n \in FrontQueues => LeavesHead(s, p)
    BY <2>2, <2>3 DEF LeavesHead
  <2>5. p \in Tasks => n = "TASK_Q"
    BY <1>2, QueueOfProc
  <2>6. p \in Tasks \/ InGroup(s, p) \/ LeavesHead(s, p)
    BY <1>2, <2>4 DEF QNames, InGroup, FrontQueues
  <2>7. p \in Tasks => LeavesHead(s, p) /\ p = s.proc_ptr
    BY <2>4, <2>5 DEF FrontQueues
  <2> HIDE DEF u
  <2> QED
    BY <2>6, <2>7 DEF unready, u
<1>6. unready(s, p) \in {u, pick_proc(u)}
  BY DEF unready
<1> QED
  BY <1>3, <1>4, <1>5, <1>6

(* The quantum of the running process has expired.                         *)
LEMMA SchedPlaced ==
  ASSUME NEW s \in KernelState, NEW R \in SUBSET Proc, Placed(s, R), HeadRuns(s, R)
  PROVE  /\ sched(s) \in KernelState
         /\ SameMessages(s, sched(s))
         /\ Placed(sched(s), R)
         /\ HeadRuns(sched(s), R)
         /\ Best(s, R) => Best(sched(s), R)
<1>1. ASSUME NEW n \in QNames, s.queue[n] # << >>,
             NEW u \in KernelState, SameMessages(s, u), u.proc_ptr = s.proc_ptr,
             u.queue[n] = Append(Tail(s.queue[n]), Head(s.queue[n])),
             \A m \in QNames \ {n} : u.queue[m] = s.queue[m]
      PROVE  LET t == pick_proc(u)
             IN /\ t \in KernelState /\ SameMessages(s, t)
                /\ Placed(t, R) /\ HeadRuns(t, R) /\ Best(t, R)
  <2>1. \A m : Members(u, R, m) = Members(s, R, m)
    BY <1>1, SameMembers DEF SameMessages
  <2>2. Placed(u, R)
    <3>1. \A m \in QNames : Holds(s.queue[m], Members(s, R, m))
      BY DEF Placed
    <3>2. Holds(u.queue[n], Members(s, R, n))
      BY <3>1, <1>1, HoldsRotate
    <3> QED
      BY <3>1, <3>2, <2>1, <1>1 DEF Placed
  <2>3. /\ pick_proc(u) \in KernelState /\ SameMessages(u, pick_proc(u))
        /\ Placed(pick_proc(u), R) /\ HeadRuns(pick_proc(u), R) /\ Best(pick_proc(u), R)
    BY <2>2, <1>1, PickProc
  <2> QED
    BY <2>3, <1>1 DEF SameMessages
<1>2. ASSUME NEW n \in QNames, s.queue[n] # << >>
      PROVE  Append(Tail(s.queue[n]), Head(s.queue[n])) \in Seq(Proc)
  <2>1. Holds(s.queue[n], Members(s, R, n))
    BY DEF Placed
  <2>2. Append(Tail(s.queue[n]), Head(s.queue[n])) \in Seq(Members(s, R, n))
    BY <2>1, <1>2, HoldsRotate DEF Holds
  <2> QED
    BY <2>2, SeqMonotonic DEF Members
<1>3. CASE RunsGroup1(s) /\ Len(s.queue["g1"]) > 1
  <2> DEFINE p == s.proc_ptr
             q == s.queue["g1"]
             v == [s EXCEPT !.queue["g1"] = Append(Tail(q), p)]
             rr == [s.rr_counter EXCEPT ![p] = 0]
             u == [v EXCEPT !.rr_counter = rr]
  <2>1. p \in Users /\ QueueOf(s, p) = "g1" /\ "g1" \in QNames
    <3>1. p \in Proc /\ p \in Users /\ s.sched_group[p] = 1
      BY <1>3 DEF RunsGroup1, Proc
    <3> QED
      BY <3>1, QueueOfProc DEF QNames
  <2>2. Head(q) = p
    <3>1. p # IDLE
      BY <2>1, ProcAssumption DEF Proc
    <3> QED
      BY <3>1, <2>1 DEF HeadRuns, FrontQueues
  <2>3. q # << >>
    <3>1. Len(<< >>) = 0
      OBVIOUS
    <3> QED
      BY <3>1, <1>3
  <2>4. /\ v \in KernelState /\ SameMessages(s, v) /\ v.proc_ptr = p
        /\ v.queue["g1"] = Append(Tail(q), Head(q))
        /\ \A m \in QNames \ {"g1"} : v.queue[m] = s.queue[m]
    <3> DEFINE r == Append(Tail(q), p)
    <3>1. r \in Seq(Proc)
      BY <1>2, <2>1, <2>2, <2>3
    <3>2. v = [s EXCEPT !.queue["g1"] = r]
      OBVIOUS
    <3>3. r = Append(Tail(q), Head(q))
      BY <2>2
    <3> HIDE DEF r, v
    <3>4. /\ v \in KernelState /\ SameMessages(s, v) /\ v.proc_ptr = s.proc_ptr
          /\ v.queue["g1"] = r
          /\ \A m \in QNames \ {"g1"} : v.queue[m] = s.queue[m]
      BY <3>1, <3>2, <2>1, QueueUpdate
    <3> QED
      BY <3>3, <3>4
  <2>5. rr \in [Users -> 0..RR_QUANTUM - 1]
    <3>1. 0 \in 0..RR_QUANTUM - 1
      BY KernelAssumption
    <3> QED
      BY <3>1 DEF KernelState
  <2>6. sched(s) = pick_proc(u)
    <3>1. u = [s EXCEPT !.queue["g1"] = Append(Tail(q), p), !.rr_counter[p] = 0]
      BY DEF KernelState
    <3> QED
      BY <3>1, <1>3 DEF sched
  <2> HIDE DEF v, rr
  <2>7. /\ u \in KernelState /\ SameMessages(v, u)
        /\ u.proc_ptr = v.proc_ptr /\ u.queue = v.queue
    BY <2>4, <2>5 DEF KernelState, SameMessages
  <2> HIDE DEF u
  <2>8. SameMessages(s, u)
    BY <2>4, <2>7 DEF SameMessages
  <2> QED
    BY <1>1, <2>1, <2>3, <2>4, <2>6, <2>7, <2>8
<1>4. CASE ~RunsGroup1(s) /\ s.queue["USER_Q"] # << >>
  <2> DEFINE q == s.queue["USER_Q"]
             u == [s EXCEPT !.queue["USER_Q"] = Append(Tail(q), Head(q))]
  <2>1. sched(s) = pick_proc(u)
    BY <1>4 DEF sched
  <2>2. "USER_Q" \in QNames /\ Append(Tail(q), Head(q)) \in Seq(Proc)
    BY <1>2, <1>4 DEF QNames
  <2>3. /\ u \in KernelState /\ SameMessages(s, u) /\ u.proc_ptr = s.proc_ptr
        /\ u.queue["USER_Q"] = Append(Tail(q), Head(q))
        /\ \A m \in QNames \ {"USER_Q"} : u.queue[m] = s.queue[m]
    BY <2>2, QueueUpdate
  <2> HIDE DEF u
  <2> QED
    BY <1>1, <1>4, <2>1, <2>2, <2>3
<1>5. CASE /\ ~(RunsGroup1(s) /\ Len(s.queue["g1"]) > 1)
           /\ ~(~RunsGroup1(s) /\ s.queue["USER_Q"] # << >>)
  <2>1. sched(s) = s
    BY <1>5 DEF sched
  <2> QED
    BY <2>1 DEF SameMessages
<1> QED
  BY <1>3, <1>4, <1>5

(* A task readied in-line.                                                 *)
LEMMA ReadyInlinePlaced ==
  ASSUME NEW s \in KernelState, NEW R \in SUBSET Proc, Placed(s, R), HeadRuns(s, R),
         NEW p \in Tasks, p \notin R
  PROVE  LET t == ReadyInline(s, p)
         IN /\ t \in KernelState
            /\ SameMessages(s, t)
            /\ Placed(t, R \cup {p})
            /\ HeadRuns(t, R \cup {p})
            /\ t.proc_ptr \in {s.proc_ptr} \cup Tasks
            /\ Best(s, R) => Best(t, R \cup {p})
<1> DEFINE q == s.queue["TASK_Q"]
           r == Append(q, p)
           u == [s EXCEPT !.queue["TASK_Q"] = r]
           x == IF q = << >> THEN p ELSE s.proc_ptr
           t == ReadyInline(s, p)
<1>1. p \in Proc /\ QueueOf(s, p) = "TASK_Q" /\ "TASK_Q" \in QNames
  <2>1. p \in Proc
    BY DEF Proc
  <2> QED
    BY <2>1, QueueOfProc DEF QNames
<1>2. Holds(q, Members(s, R, "TASK_Q")) /\ p \notin Members(s, R, "TASK_Q")
  BY <1>1 DEF Placed, Members
<1>3. /\ Holds(r, Members(s, R, "TASK_Q") \cup {p})
      /\ Head(r) = IF q = << >> THEN p ELSE Head(q)
  BY <1>2, HoldsAppend
<1>4. /\ Members(s, R \cup {p}, "TASK_Q") = Members(s, R, "TASK_Q") \cup {p}
      /\ \A m \in QNames \ {"TASK_Q"} : Members(s, R \cup {p}, m) = Members(s, R, m)
  BY <1>1 DEF Members
<1>5. r \in Seq(Proc)
  <2>1. r \in Seq(Members(s, R, "TASK_Q") \cup {p}) /\ Members(s, R, "TASK_Q") \cup {p} \subseteq Proc
    BY <1>1, <1>3 DEF Holds, Members
  <2> QED
    BY <2>1, SeqMonotonic
<1> HIDE DEF r
<1>6. /\ u \in KernelState /\ SameMessages(s, u)
      /\ u.proc_ptr = s.proc_ptr /\ u.bill_ptr = s.bill_ptr /\ u.queue["TASK_Q"] = r
      /\ \A m \in QNames \ {"TASK_Q"} : u.queue[m] = s.queue[m]
  BY <1>1, <1>5, QueueUpdate
<1>7. t = [u EXCEPT !.proc_ptr = x]
  BY DEF ReadyInline, r
<1>8. x \in Proc \cup {IDLE}
  BY <1>1 DEF KernelState
<1> HIDE DEF u, t
<1>9. /\ t \in KernelState /\ SameMessages(s, t) /\ t.proc_ptr = x /\ t.queue = u.queue
      /\ t.bill_ptr = s.bill_ptr
  BY <1>6, <1>7, <1>8 DEF KernelState, SameMessages
<1>10. /\ \A y : QueueOf(t, y) = QueueOf(s, y)
       /\ \A m : Members(t, R \cup {p}, m) = Members(s, R \cup {p}, m)
  BY <1>9, SameMembers DEF SameMessages
<1>11. Placed(t, R \cup {p})
  <2> SUFFICES ASSUME NEW m \in QNames PROVE Holds(t.queue[m], Members(s, R \cup {p}, m))
    BY <1>10 DEF Placed
  <2>1. CASE m = "TASK_Q"
    BY <2>1, <1>3, <1>4, <1>6, <1>9
  <2>2. CASE m # "TASK_Q"
    <3>1. Holds(s.queue[m], Members(s, R, m))
      BY DEF Placed
    <3> QED
      BY <2>2, <3>1, <1>4, <1>6, <1>9
  <2> QED
    BY <2>1, <2>2
<1>12. HeadRuns(t, R \cup {p})
  <2>1. CASE q = << >>
    BY <2>1, <1>1, <1>3, <1>6, <1>9, <1>10 DEF HeadRuns
  <2>2. CASE q # << >>
    <3>1. t.proc_ptr = s.proc_ptr
      BY <2>2, <1>9
    <3>2. \A m \in QNames : s.queue[m] # << >> => Head(t.queue[m]) = Head(s.queue[m])
      BY <2>2, <1>3, <1>6, <1>9
    <3>3. s.proc_ptr \in R => s.queue[QueueOf(s, s.proc_ptr)] # << >>
      <4> HAVE s.proc_ptr \in R
      <4> DEFINE n == QueueOf(s, s.proc_ptr)
      <4>1. n \in QNames /\ s.proc_ptr \in Members(s, R, n)
        BY QueueOfProc DEF Members
      <4>2. Holds(s.queue[n], Members(s, R, n))
        BY <4>1 DEF Placed
      <4> QED
        BY <4>1, <4>2, HoldsEmpty
    <3>4. FrontQueues \subseteq QNames
      BY DEF FrontQueues, QNames
    <3> QED
      BY <3>1, <3>2, <3>3, <3>4, <1>10 DEF HeadRuns
  <2> QED
    BY <2>1, <2>2
<1>13. t.proc_ptr \in {s.proc_ptr} \cup Tasks
  BY <1>9
<1>14. ASSUME Best(s, R) PROVE Best(t, R \cup {p})
  <2>1. CASE q = << >>
    <3>1. t.proc_ptr = p /\ Rank(QueueOf(s, p)) = 1
      BY <2>1, <1>1, <1>9, RankOfProc
    <3>2. \A y \in R \cup {p} : 1 <= Rank(QueueOf(s, y))
      BY <1>1, RankOfProc
    <3> QED
      BY <3>1, <3>2, <1>10, ProcAssumption DEF Best, Proc
  <2>2. CASE q # << >>
    <3>1. Head(q) \in R /\ QueueOf(s, Head(q)) = "TASK_Q"
      BY <2>2, <1>1, PlacedHead
    <3>2. s.proc_ptr \in R /\ Rank(QueueOf(s, s.proc_ptr)) <= Rank(QueueOf(s, p))
      BY <3>1, <1>1, <1>14 DEF Best
    <3> QED
      BY <2>2, <3>2, <1>9, <1>10, <1>14 DEF Best
  <2> QED
    BY <2>1, <2>2
<1> QED
  BY <1>9, <1>11, <1>12, <1>13, <1>14 DEF t

-----------------------------------------------------------------------------
(* Group 3: its queue is one of users, sorted by estimate, whatever else   *)
(* changes.                                                                *)
Line(s) ==
  /\ {"queue", "cpu_estimate", "p_callerq"} \subseteq DOMAIN s
  /\ s.queue \in [QNames -> Seq(Proc)] /\ s.cpu_estimate \in [Users -> Int]
  /\ s.queue["g3"] \in Seq(Users)
  /\ Rising(s.queue["g3"], s.cpu_estimate)

(* What the routines leave alone while they keep the line.                 *)
Lined(s, t) ==
  /\ DOMAIN t = DOMAIN s
  /\ t.cpu_estimate = s.cpu_estimate /\ t.p_callerq = s.p_callerq
  /\ Line(t)

LEMMA StillLined ==
  ASSUME NEW s, NEW t, Line(s), DOMAIN t = DOMAIN s, t.queue = s.queue,
         t.cpu_estimate = s.cpu_estimate, t.p_callerq = s.p_callerq
  PROVE  Lined(s, t)
BY DEF Line, Lined

LEMMA PickLined ==
  ASSUME NEW s, Line(s)
  PROVE  Lined(s, pick_proc(s))
<1> DEFINE t == pick_proc(s)
<1>1. /\ DOMAIN t = DOMAIN s /\ t.queue = s.queue
      /\ t.cpu_estimate = s.cpu_estimate /\ t.p_callerq = s.p_callerq
  <2>1. ASSUME NEW p
        PROVE  /\ DOMAIN Run(s, p) = DOMAIN s /\ Run(s, p).queue = s.queue
               /\ Run(s, p).cpu_estimate = s.cpu_estimate /\ Run(s, p).p_callerq = s.p_callerq
    BY DEF Run, Line
  <2>2. ASSUME NEW p
        PROVE  /\ DOMAIN RunBill(s, p) = DOMAIN s /\ RunBill(s, p).queue = s.queue
               /\ RunBill(s, p).cpu_estimate = s.cpu_estimate
               /\ RunBill(s, p).p_callerq = s.p_callerq
    BY DEF RunBill, Line
  <2>3. ASSUME NEW p
        PROVE  LET v == [RunBill(s, p) EXCEPT !.wait_ticks[p] = 0]
               IN /\ DOMAIN v = DOMAIN s /\ v.queue = s.queue
                  /\ v.cpu_estimate = s.cpu_estimate /\ v.p_callerq = s.p_callerq
    BY <2>2 DEF Line
  <2> QED
    BY <2>1, <2>2, <2>3 DEF pick_proc
<1> QED
  BY <1>1, StillLined

(* One queue changes, and if it is that of group 3, it stays in line.      *)
LEMMA QueueLined ==
  ASSUME NEW s, Line(s), NEW n \in QNames, NEW r \in Seq(Proc),
         n = "g3" => r \in Seq(Users) /\ Rising(r, s.cpu_estimate)
  PROVE  Lined(s, [s EXCEPT !.queue[n] = r])
<1> DEFINE Q == [s.queue EXCEPT ![n] = r]
           t == [s EXCEPT !.queue[n] = r]
<1>1. /\ DOMAIN t = DOMAIN s /\ t.queue = Q
      /\ t.cpu_estimate = s.cpu_estimate /\ t.p_callerq = s.p_callerq
  BY DEF Line
<1>2. /\ Q \in [QNames -> Seq(Proc)]
      /\ Q["g3"] = IF n = "g3" THEN r ELSE s.queue["g3"]
  BY DEF Line, QNames
<1> HIDE DEF Q, t
<1> QED
  BY <1>1, <1>2 DEF Line, Lined, t

LEMMA ReadyLined ==
  ASSUME NEW s, Line(s), NEW p \in Proc
  PROVE  Lined(s, ready(s, p))
<1> DEFINE n == QueueOf(s, p)
           q == s.queue[n]
           i == ReadyIndex(s, p)
           r == InsertAt(q, i, p)
           est == s.cpu_estimate
           u == [s EXCEPT !.queue[n] = r]
<1>1. n \in QNames /\ (n = "g3" => p \in Users)
  BY DEF QueueOf, QNames, Proc
<1>2. q \in Seq(Proc) /\ Len(q) \in Nat
  BY <1>1, LenProperties DEF Line
<1>3. /\ i \in 1..Len(q) + 1
      /\ n = "g3" => /\ i > Len(q) \/ est[q[i]] >= est[p]
                     /\ \A j \in 1..i - 1 : ~(j > Len(q) \/ est[q[j]] >= est[p])
  <2>1. CASE n = "g3"
    <3> DEFINE NotShorter(h) == h > Len(q) \/ est[q[h]] >= est[p]
               I == {h \in 1..Len(q) + 1 : NotShorter(h)}
    <3>1. Len(q) + 1 \in I /\ I \in SUBSET Nat
      BY <1>2
    <3>2. PICK h \in I : \A j \in I : h <= j
      BY <3>1, LeastNat
    <3>3. \A j \in 1..h - 1 : ~NotShorter(j)
      <4> SUFFICES ASSUME NEW j \in 1..h - 1, NotShorter(j) PROVE FALSE
        OBVIOUS
      <4>1. j \in I
        BY <1>2
      <4> QED
        BY <4>1, <3>2, <1>2
    <3>4. i = CHOOSE m \in 1..Len(q) + 1 : NotShorter(m) /\ \A j \in 1..m - 1 : ~NotShorter(j)
      BY <2>1 DEF ReadyIndex
    <3>5. h \in 1..Len(q) + 1 /\ NotShorter(h)
      OBVIOUS
    <3> HIDE DEF NotShorter, i
    <3>6. i \in 1..Len(q) + 1 /\ NotShorter(i) /\ \A j \in 1..i - 1 : ~NotShorter(j)
      BY <3>3, <3>4, <3>5
    <3> QED
      BY <3>6 DEF NotShorter
  <2>2. CASE n # "g3"
    BY <2>2, <1>2 DEF ReadyIndex
  <2> QED
    BY <2>1, <2>2
<1> HIDE DEF i
<1>4. r \in Seq(Proc)
  BY <1>2, <1>3, InsertItems
<1>5. ASSUME n = "g3" PROVE r \in Seq(Users) /\ Rising(r, est)
  <2>1. q \in Seq(Users) /\ Rising(q, est) /\ p \in Users /\ \A x \in Users : est[x] \in Int
    BY <1>1, <1>5 DEF Line
  <2>2. \A j \in 1..i - 1 : est[q[j]] < est[p]
    <3> TAKE j \in 1..i - 1
    <3>1. j \in 1..Len(q) /\ ~(est[q[j]] >= est[p])
      BY <1>2, <1>3, <1>5
    <3>2. q[j] \in Users
      BY <3>1, <2>1, LenProperties
    <3> QED
      BY <3>1, <3>2, <2>1
  <2>3. i > Len(q) \/ est[q[i]] >= est[p]
    BY <1>3, <1>5
  <2> HIDE DEF q, est
  <2>4. r \in Seq(Users) /\ Rising(r, est)
    BY <2>1, <2>2, <2>3, <1>3, RisingInsert
  <2> QED
    BY <2>4 DEF est
<1>6. n = "g3" => r \in Seq(Users) /\ Rising(r, est)
  BY <1>5
<1> HIDE DEF r, n
<1>7. Lined(s, u)
  BY <1>1, <1>4, <1>6, QueueLined
<1>8. ready(s, p) = [u EXCEPT !.proc_ptr = IF n = "TASK_Q" /\ q = << >> THEN p ELSE s.proc_ptr]
  BY DEF ready, n, r, i
<1> HIDE DEF u
<1> QED
  BY <1>7, <1>8, StillLined DEF Lined, Line

LEMMA UnreadyLined ==
  ASSUME NEW s, Line(s), NEW p
  PROVE  Lined(s, unready(s, p))
<1> DEFINE n == QueueOf(s, p)
           q == s.queue[n]
           r == RemoveFirst(q, p)
           u == unlink(s, p)
<1>1. n \in QNames
  BY DEF QueueOf, QNames
<1>2. r \in Seq(Proc)
  <2>1. q \in Seq(Proc)
    BY <1>1 DEF Line
  <2>2. Rising(q, [x \in Proc |-> 0])
    BY <2>1, LenProperties DEF Rising
  <2> QED
    BY <2>1, <2>2, RisingRemoveFirst
<1>3. n = "g3" => r \in Seq(Users) /\ Rising(r, s.cpu_estimate)
  BY RisingRemoveFirst DEF Line
<1> HIDE DEF n
<1>4. u = [s EXCEPT !.queue[n] = r]
  BY DEF unlink, n
<1> HIDE DEF u, r
<1>5. Lined(s, u)
  BY <1>1, <1>2, <1>3, <1>4, QueueLined
<1>6. Lined(u, pick_proc(u))
  BY <1>5, PickLined DEF Lined
<1>7. unready(s, p) \in {u, pick_proc(u)}
  BY DEF unready, u
<1> QED
  BY <1>5, <1>6, <1>7 DEF Lined

LEMMA SchedLined ==
  ASSUME NEW s, Line(s)
  PROVE  Lined(s, sched(s))
<1> DEFINE g1 == s.queue["g1"]
           uq == s.queue["USER_Q"]
           r1 == Append(Tail(g1), s.proc_ptr)
           r2 == Append(Tail(uq), Head(uq))
           u1 == [s EXCEPT !.queue["g1"] = r1]
           v1 == [s EXCEPT !.queue["g1"] = r1, !.rr_counter[s.proc_ptr] = 0]
           u2 == [s EXCEPT !.queue["USER_Q"] = r2]
<1>1. g1 \in Seq(Proc) /\ uq \in Seq(Proc)
  BY DEF Line, QNames
<1>2. CASE RunsGroup1(s) /\ Len(g1) > 1
  <2>1. s.proc_ptr \in Proc /\ g1 # << >>
    BY <1>2, ProcAssumption DEF RunsGroup1, Proc
  <2>2. r1 \in Seq(Proc)
    BY <2>1, <1>1, HeadTailProperties, AppendProperties
  <2> HIDE DEF r1
  <2>3. Lined(s, u1)
    BY <2>2, QueueLined DEF QNames
  <2>4. /\ DOMAIN v1 = DOMAIN u1 /\ v1.queue = u1.queue
        /\ v1.cpu_estimate = u1.cpu_estimate /\ v1.p_callerq = u1.p_callerq
    BY DEF Line
  <2>5. sched(s) = pick_proc(v1)
    BY <1>2 DEF sched, r1
  <2> HIDE DEF u1, v1
  <2>6. Lined(u1, v1)
    BY <2>3, <2>4, StillLined DEF Lined
  <2>7. Lined(v1, pick_proc(v1))
    BY <2>6, PickLined DEF Lined
  <2> QED
    BY <2>3, <2>5, <2>6, <2>7 DEF Lined
<1>3. CASE ~RunsGroup1(s) /\ uq # << >>
  <2>1. r2 \in Seq(Proc)
    BY <1>1, <1>3, HeadTailProperties, AppendProperties
  <2>2. sched(s) = pick_proc(u2)
    BY <1>3 DEF sched
  <2> HIDE DEF r2
  <2>3. Lined(s, u2)
    BY <2>1, QueueLined DEF QNames
  <2> HIDE DEF u2
  <2>4. Lined(u2, pick_proc(u2))
    BY <2>3, PickLined DEF Lined
  <2> QED
    BY <2>2, <2>3, <2>4 DEF Lined
<1>4. CASE ~(RunsGroup1(s) /\ Len(g1) > 1) /\ ~(~RunsGroup1(s) /\ uq # << >>)
  <2>1. sched(s) = s
    BY <1>4 DEF sched
  <2> QED
    BY <2>1 DEF Lined
<1> QED
  BY <1>2, <1>3, <1>4

LEMMA ReadyInlineLined ==
  ASSUME NEW s, Line(s), NEW t \in Proc
  PROVE  Lined(s, ReadyInline(s, t))
<1> DEFINE q == s.queue["TASK_Q"]
           r == Append(q, t)
           u == [s EXCEPT !.queue["TASK_Q"] = r]
           x == IF q = << >> THEN t ELSE s.proc_ptr
<1>1. r \in Seq(Proc)
  BY AppendProperties DEF Line, QNames
<1> HIDE DEF r
<1>2. Lined(s, u)
  BY <1>1, QueueLined DEF QNames
<1>3. ReadyInline(s, t) = [u EXCEPT !.proc_ptr = x]
  BY DEF ReadyInline, r
<1> HIDE DEF u
<1> QED
  BY <1>2, <1>3, StillLined DEF Lined, Line

-----------------------------------------------------------------------------
(* The invariant.                                                          *)


Runnable(s) == {p \in Proc : s.p_flags[p] = {} /\ ~isemptyp(s, p)}

Scheduled(s) == /\ s \in KernelState
                /\ Placed(s, Runnable(s))
                /\ HeadRuns(s, Runnable(s))

(* Nobody who is ready comes before the one that runs.                     *)
BestRuns(s) == Best(s, Runnable(s))

CallersOf(s, d) == {p \in Proc : "SENDING" \in s.p_flags[p] /\ s.p_sendto[p] = d}

Callers(s) == \A d \in Proc : Holds(s.p_callerq[d], CallersOf(s, d))

(* Who sends to whom: users to servers, servers also to tasks.             *)
Partners(s) ==
  /\ \A p \in Proc : "SENDING" \in s.p_flags[p] =>
        /\ s.p_sendto[p] \notin Users
        /\ s.p_sendto[p] \in Tasks => p \in Servers
  /\ \A t \in Tasks : s.m_source[t] \in Servers \cup {HARDWARE, NIL}
  /\ s.m_source[SYSTASK] # HARDWARE
  /\ s.p_int_blocked[SYSTASK] = FALSE

FlagsAgree(s) ==
  /\ \A p \in Tasks \cup Servers : s.p_flags[p] \subseteq {"SENDING", "RECEIVING"}
  /\ \A p \in Proc : "RECEIVING" \in s.p_flags[p] /\ s.p_getfrom[p] = ANY
                        => "SENDING" \notin s.p_flags[p]
  /\ \A u \in Users : /\ "PENDING" \in s.p_flags[u] => "SIG_PENDING" \in s.p_flags[u]
                      /\ "PENDING" \in s.p_flags[u] => s.p_pending[u] # {}
                      /\ s.p_pendcount[u] > 0 => "SIG_PENDING" \in s.p_flags[u]
                      /\ u \notin s.alive => s.p_flags[u] = {}

KInv(s) == Scheduled(s) /\ Callers(s) /\ Partners(s) /\ FlagsAgree(s)

(* A task waits on, or gets a message and wakes up.                        *)
Kept(s, t) ==
  \A x \in Tasks :
     \/ /\ t.m_source[x] = s.m_source[x]
        /\ "RECEIVING" \in t.p_flags[x] <=> "RECEIVING" \in s.p_flags[x]
     \/ /\ "RECEIVING" \in s.p_flags[x] /\ "RECEIVING" \notin t.p_flags[x]
        /\ t.m_source[x] \in Servers \cup {HARDWARE}

(* All fields but the flags, the message of a task, the ready queues.      *)
SameRest(s, t) ==
  /\ t.sched_group   = s.sched_group
  /\ t.p_getfrom     = s.p_getfrom
  /\ t.p_sendto      = s.p_sendto
  /\ t.p_callerq     = s.p_callerq
  /\ t.p_int_blocked = s.p_int_blocked
  /\ t.p_pending     = s.p_pending
  /\ t.p_pendcount   = s.p_pendcount
  /\ t.sig_procs     = s.sig_procs
  /\ t.alive         = s.alive

SameButFlags(s, t) == SameRest(s, t) /\ t.m_source = s.m_source

(***************************************************************************)
(* What the routines of Messages do to the fields of messages and signals. *)
(***************************************************************************)
SameSignals(s, t) == /\ t.p_pending = s.p_pending /\ t.p_pendcount = s.p_pendcount
                     /\ t.sig_procs = s.sig_procs

FlagsBut(s, t, p, fs) == \A x \in Proc : t.p_flags[x] = IF x = p THEN fs ELSE s.p_flags[x]

SourceBut(s, t, p, src) == \A x \in Tasks : t.m_source[x] = IF x = p THEN src ELSE s.m_source[x]

(* c becomes SENDING to d.                                                 *)
Sends(s, t, c, d) ==
  /\ FlagsBut(s, t, c, {"SENDING"})
  /\ \A x \in Proc : t.p_sendto[x] = IF x = c THEN d ELSE s.p_sendto[x]
  /\ t.p_getfrom = s.p_getfrom /\ t.p_int_blocked = s.p_int_blocked
  /\ t.m_source = s.m_source /\ SameSignals(s, t)

(* d, which waited for c, gets its message.                                *)
Gets(s, t, c, d) ==
  /\ FlagsBut(s, t, d, s.p_flags[d] \ {"RECEIVING"})
  /\ SourceBut(s, t, d, c)
  /\ t.p_getfrom = s.p_getfrom /\ t.p_sendto = s.p_sendto
  /\ t.p_int_blocked = s.p_int_blocked /\ SameSignals(s, t)

(* c gets the message of p, which was SENDING.                             *)
Takes(s, t, c, p) ==
  /\ p \in CallersOf(s, c)
  /\ FlagsBut(s, t, p, s.p_flags[p] \ {"SENDING"})
  /\ SourceBut(s, t, c, p)
  /\ t.p_getfrom = s.p_getfrom /\ t.p_sendto = s.p_sendto
  /\ t.p_int_blocked = s.p_int_blocked /\ SameSignals(s, t)

(* c gets the interrupt that was kept for it.                              *)
TakesInterrupt(s, t, c) ==
  /\ t.p_flags = s.p_flags /\ SourceBut(s, t, c, HARDWARE)
  /\ \A x \in Tasks : t.p_int_blocked[x] = IF x = c THEN FALSE ELSE s.p_int_blocked[x]
  /\ t.p_getfrom = s.p_getfrom /\ t.p_sendto = s.p_sendto /\ SameSignals(s, t)

(* c becomes RECEIVING from src.                                           *)
WaitsOn(s, t, c, src) ==
  /\ FlagsBut(s, t, c, s.p_flags[c] \cup {"RECEIVING"})
  /\ \A x \in Proc : t.p_getfrom[x] = IF x = c THEN src ELSE s.p_getfrom[x]
  /\ t.p_sendto = s.p_sendto /\ t.p_int_blocked = s.p_int_blocked
  /\ t.m_source = s.m_source /\ SameSignals(s, t)

(* MM, which waits, is told of the signals of u.                           *)
Tells(s, t, u) ==
  /\ \A x \in Proc : t.p_flags[x] = (IF x = MM THEN s.p_flags[x] \ {"RECEIVING"} ELSE s.p_flags[x])
                                       \ (IF x = u THEN {"PENDING"} ELSE {})
  /\ \A x \in Users : t.p_pending[x] = IF x = u THEN {} ELSE s.p_pending[x]
  /\ t.p_pendcount = s.p_pendcount /\ t.sig_procs = s.sig_procs - 1
  /\ t.p_getfrom = s.p_getfrom /\ t.p_sendto = s.p_sendto
  /\ t.p_int_blocked = s.p_int_blocked /\ \A x \in Tasks : t.m_source[x] = s.m_source[x]

Pending(s) == {p \in Servers \cup Users : Has(s, p, "PENDING")}

Informs(s, t) == \E u : Tells(s, t, u) /\ (Pending(s) # {} => u \in Pending(s))

(* A change of the fields that the ready queues do not depend on.          *)
LEMMA StillScheduled ==
  ASSUME NEW s, NEW t \in KernelState, Scheduled(s),
         t.queue = s.queue, t.proc_ptr = s.proc_ptr, t.sched_group = s.sched_group,
         Runnable(t) = Runnable(s)
  PROVE  Scheduled(t) /\ (t.bill_ptr = s.bill_ptr /\ BestRuns(s) => BestRuns(t))
<1>1. /\ \A p : QueueOf(t, p) = QueueOf(s, p)
      /\ \A m : Members(t, Runnable(s), m) = Members(s, Runnable(s), m)
  BY SameMembers
<1> QED
  BY <1>1 DEF Scheduled, Placed, HeadRuns, BestRuns, Best

LEMMA FlagsUpdate ==
  ASSUME NEW s \in KernelState, NEW p \in Proc, NEW fs \in SUBSET Flags
  PROVE  LET t == [s EXCEPT !.p_flags[p] = fs]
         IN /\ t \in KernelState
            /\ SameButFlags(s, t)
            /\ t.queue = s.queue /\ t.proc_ptr = s.proc_ptr /\ t.bill_ptr = s.bill_ptr
            /\ t.p_flags = [s.p_flags EXCEPT ![p] = fs]
<1> DEFINE f == [s.p_flags EXCEPT ![p] = fs]
<1>1. f \in [Proc -> SUBSET Flags]
  BY DEF KernelState
<1>2. [s EXCEPT !.p_flags[p] = fs] = [s EXCEPT !.p_flags = f]
  OBVIOUS
<1> HIDE DEF f
<1>3. [s EXCEPT !.p_flags = f] \in KernelState
  BY <1>1 DEF KernelState
<1>4. /\ SameButFlags(s, [s EXCEPT !.p_flags = f])
      /\ [s EXCEPT !.p_flags = f].queue = s.queue
      /\ [s EXCEPT !.p_flags = f].proc_ptr = s.proc_ptr
      /\ [s EXCEPT !.p_flags = f].bill_ptr = s.bill_ptr
      /\ [s EXCEPT !.p_flags = f].p_flags = f
  BY DEF KernelState, SameButFlags, SameRest
<1> QED
  BY <1>2, <1>3, <1>4 DEF f

(* A process gets flags: the first takes it off its queue.                 *)
LEMMA BlockScheduled ==
  ASSUME NEW s, Scheduled(s), NEW p \in Proc, ~isemptyp(s, p),
         NEW fs \in SUBSET Flags, fs # {}
  PROVE  LET t == Block(s, p, fs)
         IN /\ Scheduled(t)
            /\ SameButFlags(s, t)
            /\ t.p_flags = [s.p_flags EXCEPT ![p] = @ \cup fs]
            /\ BestRuns(s) \/ (s.proc_ptr = p /\ s.p_flags[p] = {}) => BestRuns(t)
<1> DEFINE R == Runnable(s)
           u == IF s.p_flags[p] = {} THEN unready(s, p) ELSE s
           gs == s.p_flags[p] \cup fs
           t == Block(s, p, fs)
<1>1. s \in KernelState /\ Placed(s, R) /\ HeadRuns(s, R) /\ R \in SUBSET Proc
  BY DEF Scheduled, Runnable
<1>2. /\ u \in KernelState /\ SameMessages(s, u)
      /\ Placed(u, R \ {p}) /\ HeadRuns(u, R \ {p})
      /\ Best(s, R) \/ (s.proc_ptr = p /\ s.p_flags[p] = {}) => Best(u, R \ {p})
  <2>1. CASE s.p_flags[p] = {}
    <3>1. p \in R
      BY <2>1 DEF Runnable
    <3> HIDE DEF R
    <3>2. u = unready(s, p)
      BY <2>1
    <3> QED
      BY <3>1, <3>2, <1>1, UnreadyPlaced
  <2>2. CASE s.p_flags[p] # {}
    <3>1. R \ {p} = R /\ u = s
      BY <2>2 DEF Runnable
    <3> HIDE DEF R
    <3> QED
      BY <3>1, <2>2, <1>1 DEF SameMessages
  <2> QED
    BY <2>1, <2>2
<1>3. t = [u EXCEPT !.p_flags[p] = gs]
  <2>1. t = [u EXCEPT !.p_flags[p] = u.p_flags[p] \cup fs]
    BY DEF Block
  <2>2. u.p_flags[p] = s.p_flags[p]
    BY <1>2 DEF SameMessages
  <2> QED
    BY <2>1, <2>2
<1>4. gs \in SUBSET Flags /\ gs # {}
  BY <1>1 DEF KernelState
<1> HIDE DEF t, u, gs
<1>5. /\ t \in KernelState /\ SameButFlags(u, t)
      /\ t.queue = u.queue /\ t.proc_ptr = u.proc_ptr /\ t.bill_ptr = u.bill_ptr
      /\ t.p_flags = [u.p_flags EXCEPT ![p] = gs]
  BY <1>2, <1>3, <1>4, FlagsUpdate
<1>6. SameButFlags(s, t) /\ t.p_flags = [s.p_flags EXCEPT ![p] = gs]
  BY <1>2, <1>5 DEF SameButFlags, SameRest, SameMessages
<1>7. Runnable(t) = R \ {p}
  BY <1>1, <1>4, <1>6 DEF Runnable, SameButFlags, SameRest, isemptyp, KernelState
<1>8. /\ \A x : QueueOf(t, x) = QueueOf(u, x)
      /\ \A m : Members(t, R \ {p}, m) = Members(u, R \ {p}, m)
  BY <1>5, SameMembers DEF SameButFlags, SameRest
<1> HIDE DEF R
<1>9. Placed(t, R \ {p}) /\ HeadRuns(t, R \ {p})
  BY <1>2, <1>5, <1>8 DEF Placed, HeadRuns
<1>10. Best(u, R \ {p}) => Best(t, R \ {p})
  BY <1>5, <1>8 DEF Best
<1> QED
  BY <1>2, <1>5, <1>6, <1>7, <1>9, <1>10 DEF Scheduled, BestRuns, t, gs, R

(* A process loses a flag: the last puts it back on its queue.             *)
LEMMA UnblockScheduled ==
  ASSUME NEW s, Scheduled(s), NEW p \in Proc, ~isemptyp(s, p),
         NEW f \in s.p_flags[p],
         s.proc_ptr \in Users /\ s.p_flags[p] \ {f} = {} => p \notin Users
  PROVE  LET t == Unblock(s, p, f)
         IN /\ Scheduled(t)
            /\ SameButFlags(s, t)
            /\ t.p_flags = [s.p_flags EXCEPT ![p] = @ \ {f}]
            /\ t.proc_ptr = s.proc_ptr \/ (t.proc_ptr = p /\ p \in Tasks)
            /\ BestRuns(s) /\ (p \in Tasks \/ KernelRuns(s) \/ s.p_flags[p] \ {f} # {})
                 => BestRuns(t)
<1> DEFINE R == Runnable(s)
           gs == s.p_flags[p] \ {f}
           u == [s EXCEPT !.p_flags[p] = gs]
           t == Unblock(s, p, f)
<1>1. s \in KernelState /\ Placed(s, R) /\ HeadRuns(s, R) /\ R \in SUBSET Proc
  BY DEF Scheduled, Runnable
<1>2. gs \in SUBSET Flags
  BY <1>1 DEF KernelState
<1>3. p \notin R
  BY DEF Runnable
<1>4. t = IF u.p_flags[p] = {} THEN ready(u, p) ELSE u
  BY DEF Unblock
<1>4a. s.proc_ptr \in Users /\ gs = {} => p \notin Users
  OBVIOUS
<1> HIDE DEF R, gs
<1>5. /\ u \in KernelState /\ SameButFlags(s, u)
      /\ u.queue = s.queue /\ u.proc_ptr = s.proc_ptr /\ u.bill_ptr = s.bill_ptr
      /\ u.p_flags = [s.p_flags EXCEPT ![p] = gs]
  BY <1>1, <1>2, FlagsUpdate
<1> HIDE DEF u, t
<1>6. u.p_flags[p] = gs
  BY <1>1, <1>5 DEF KernelState
<1>7. /\ \A x : QueueOf(u, x) = QueueOf(s, x)
      /\ \A m : Members(u, R, m) = Members(s, R, m)
  BY <1>5, SameMembers DEF SameButFlags, SameRest
<1>8. /\ Placed(u, R) /\ HeadRuns(u, R)
      /\ Best(s, R) => Best(u, R)
      /\ KernelRuns(s) => KernelRuns(u)
  BY <1>1, <1>5, <1>7 DEF Placed, HeadRuns, Best, KernelRuns
<1>9. CASE gs = {}
  <2>1. t = ready(u, p)
    BY <1>4, <1>6, <1>9
  <2>2. /\ t \in KernelState /\ SameMessages(u, t)
        /\ Placed(t, R \cup {p}) /\ HeadRuns(t, R \cup {p})
        /\ t.proc_ptr = s.proc_ptr \/ (t.proc_ptr = p /\ p \in Tasks)
        /\ Best(u, R) /\ (p \in Tasks \/ KernelRuns(u)) => Best(t, R \cup {p})
    BY <2>1, <1>1, <1>3, <1>4a, <1>5, <1>8, <1>9, ReadyPlaced
  <2>3. SameButFlags(s, t) /\ t.p_flags = [s.p_flags EXCEPT ![p] = gs]
    BY <2>2, <1>5 DEF SameButFlags, SameRest, SameMessages
  <2>4. Runnable(t) = R \cup {p}
    BY <2>3, <1>1, <1>9 DEF Runnable, SameButFlags, SameRest, isemptyp, KernelState, R
  <2> QED
    BY <2>2, <2>3, <2>4, <1>8, <1>9 DEF Scheduled, BestRuns, t, gs, R
<1>10. CASE gs # {}
  <2>1. t = u
    BY <1>4, <1>6, <1>10
  <2>2. Runnable(u) = R
    BY <1>1, <1>3, <1>5, <1>10 DEF Runnable, SameButFlags, SameRest, isemptyp, KernelState, R
  <2> QED
    BY <2>1, <2>2, <1>5, <1>8 DEF Scheduled, BestRuns, t, gs, R
<1> QED
  BY <1>9, <1>10

LEMMA SameCallers ==
  ASSUME NEW s, NEW t, Callers(s), t.p_callerq = s.p_callerq, t.p_sendto = s.p_sendto,
         \A p \in Proc : "SENDING" \in t.p_flags[p] <=> "SENDING" \in s.p_flags[p]
  PROVE  Callers(t)
<1>1. \A d : CallersOf(t, d) = CallersOf(s, d)
  BY DEF CallersOf
<1> QED
  BY <1>1 DEF Callers

(* A process is told who the message it gets is from.                      *)
LEMMA CopyMessScheduled ==
  ASSUME NEW s, Scheduled(s), NEW c \in Proc \cup {HARDWARE}, NEW d \in Proc
  PROVE  LET t == CopyMess(s, c, d)
         IN /\ Scheduled(t) /\ SameRest(s, t)
            /\ t.p_flags = s.p_flags /\ t.proc_ptr = s.proc_ptr
            /\ \A x \in Tasks : t.m_source[x] = IF x = d THEN c ELSE s.m_source[x]
            /\ BestRuns(s) => BestRuns(t)
<1> DEFINE t == CopyMess(s, c, d)
           ms == [s.m_source EXCEPT ![d] = c]
<1>1. s \in KernelState
  BY DEF Scheduled
<1>2. CASE d \in Tasks
  <2>1. ms \in [Tasks -> Proc \cup {HARDWARE, NIL}]
    BY <1>1 DEF KernelState
  <2>2. \A x \in Tasks : ms[x] = IF x = d THEN c ELSE s.m_source[x]
    BY <1>1 DEF KernelState
  <2>3. t = [s EXCEPT !.m_source = ms]
    BY <1>2 DEF CopyMess
  <2> HIDE DEF ms, t
  <2>4. t \in KernelState
    BY <1>1, <2>1, <2>3 DEF KernelState
  <2>5. /\ SameRest(s, t) /\ t.p_flags = s.p_flags /\ t.proc_ptr = s.proc_ptr
        /\ t.queue = s.queue /\ t.bill_ptr = s.bill_ptr /\ t.m_source = ms
    BY <1>1, <2>3 DEF KernelState, SameRest
  <2>6. Runnable(t) = Runnable(s)
    BY <2>5 DEF Runnable, SameRest, isemptyp
  <2>7. Scheduled(t) /\ (BestRuns(s) => BestRuns(t))
    BY <2>4, <2>5, <2>6, StillScheduled DEF SameRest
  <2> QED
    BY <2>2, <2>5, <2>7 DEF t
<1>3. CASE d \notin Tasks
  <2>1. t = s
    BY <1>3 DEF CopyMess
  <2> HIDE DEF t
  <2> QED
    BY <2>1, <1>3 DEF SameRest, t
<1> QED
  BY <1>2, <1>3

(* d was waiting for a message of c and gets it.                           *)
LEMMA Deliver ==
  ASSUME NEW s, KInv(s), NEW c \in Proc \cup {HARDWARE}, NEW d \in Proc,
         WaitsFor(s, d, c), d \in Tasks => c \in Servers,
         s.proc_ptr \in Users => d \notin Users
  PROVE  LET t == mini_send(s, c, d)
         IN /\ KInv(t) /\ Kept(s, t) /\ SameRest(s, t)
            /\ t.p_flags = [s.p_flags EXCEPT ![d] = @ \ {"RECEIVING"}]
            /\ Gets(s, t, c, d)
            /\ t.proc_ptr = s.proc_ptr \/ (t.proc_ptr = d /\ d \in Tasks)
            /\ BestRuns(s) /\ (d \in Tasks \/ KernelRuns(s)) => BestRuns(t)
<1> DEFINE u == CopyMess(s, c, d)
           t == mini_send(s, c, d)
<1>1. /\ Scheduled(s) /\ Callers(s) /\ Partners(s) /\ FlagsAgree(s)
      /\ s \in KernelState
  BY DEF KInv, Scheduled
<1>2. /\ Scheduled(u) /\ SameRest(s, u)
      /\ u.p_flags = s.p_flags /\ u.proc_ptr = s.proc_ptr
      /\ \A x \in Tasks : u.m_source[x] = IF x = d THEN c ELSE s.m_source[x]
      /\ BestRuns(s) => BestRuns(u)
  BY <1>1, CopyMessScheduled
<1>3. "RECEIVING" \in s.p_flags[d]
  BY DEF WaitsFor, Waiting, Has
<1>4. ~isemptyp(u, d)
  BY <1>1, <1>2, <1>3 DEF FlagsAgree, isemptyp, SameRest
<1>5. t = Unblock(u, d, "RECEIVING")
  BY DEF mini_send
<1> HIDE DEF u, t
<1>6. /\ Scheduled(t) /\ SameButFlags(u, t)
      /\ t.p_flags = [u.p_flags EXCEPT ![d] = @ \ {"RECEIVING"}]
      /\ t.proc_ptr = u.proc_ptr \/ (t.proc_ptr = d /\ d \in Tasks)
      /\ BestRuns(u) /\ (d \in Tasks \/ KernelRuns(u)) => BestRuns(t)
  BY <1>2, <1>3, <1>4, <1>5, UnblockScheduled
<1>7. /\ SameRest(s, t)
      /\ t.p_flags = [s.p_flags EXCEPT ![d] = @ \ {"RECEIVING"}]
      /\ t.proc_ptr = s.proc_ptr \/ (t.proc_ptr = d /\ d \in Tasks)
      /\ \A x \in Tasks : t.m_source[x] = IF x = d THEN c ELSE s.m_source[x]
  BY <1>2, <1>6 DEF SameButFlags, SameRest
<1>8. \A p \in Proc : t.p_flags[p] = IF p = d THEN s.p_flags[p] \ {"RECEIVING"} ELSE s.p_flags[p]
  BY <1>1, <1>7 DEF KernelState
<1>9. Callers(t)
  <2>1. \A p \in Proc : "SENDING" \in t.p_flags[p] <=> "SENDING" \in s.p_flags[p]
    BY <1>8
  <2>2. t.p_callerq = s.p_callerq /\ t.p_sendto = s.p_sendto
    BY <1>7 DEF SameRest
  <2> QED
    BY <2>1, <2>2, <1>1, SameCallers
<1>10. Partners(t)
  BY <1>1, <1>7, <1>8, MessagesAssumption, KernelAssumption DEF Partners, SameRest, Proc
<1>11. FlagsAgree(t)
  BY <1>1, <1>7, <1>8 DEF FlagsAgree, SameRest, Proc
<1>12. Kept(s, t)
  BY <1>3, <1>7, <1>8 DEF Kept, Proc
<1>13. BestRuns(s) /\ (d \in Tasks \/ KernelRuns(s)) => BestRuns(t)
  BY <1>2, <1>6 DEF KernelRuns
<1>14. Gets(s, t, c, d)
  BY <1>7, <1>8 DEF Gets, FlagsBut, SourceBut, SameSignals, SameRest
<1> QED
  BY <1>6, <1>7, <1>9, <1>10, <1>11, <1>12, <1>13, <1>14 DEF KInv, t

(* The process that runs has no flags; a user is in its slot.              *)
LEMMA RunningRunnable ==
  ASSUME NEW s, KInv(s), NEW p \in Proc, s.proc_ptr = p
  PROVE  s.p_flags[p] = {} /\ ~isemptyp(s, p)
BY ProcAssumption DEF KInv, Scheduled, HeadRuns, Runnable

(* The running c blocks until d receives.                                  *)
LEMMA BlockSend ==
  ASSUME NEW s, KInv(s), NEW c \in Proc, s.proc_ptr = c, NEW d \in Tasks \cup Servers,
         ~WaitsFor(s, d, c), d \in Tasks => c \in Servers
  PROVE  LET t == mini_send(s, c, d)
         IN /\ KInv(t) /\ Kept(s, t)
            /\ t.p_flags = [s.p_flags EXCEPT ![c] = {"SENDING"}]
            /\ BestRuns(t)
            /\ Sends(s, t, c, d) /\ t.alive = s.alive
<1> DEFINE u == Block(s, c, {"SENDING"})
           t == mini_send(s, c, d)
           st == [s.p_sendto EXCEPT ![c] = d]
           cq == [s.p_callerq EXCEPT ![d] = Append(@, c)]
<1>1. /\ Scheduled(s) /\ Callers(s) /\ Partners(s) /\ FlagsAgree(s)
      /\ s \in KernelState /\ d \in Proc
  BY DEF KInv, Scheduled, Proc
<1>2. s.p_flags[c] = {} /\ ~isemptyp(s, c)
  BY RunningRunnable
<1>3. /\ Scheduled(u) /\ SameButFlags(s, u)
      /\ u.p_flags = [s.p_flags EXCEPT ![c] = @ \cup {"SENDING"}]
      /\ BestRuns(u)
  BY <1>1, <1>2, BlockScheduled DEF Flags
<1>4. t = [u EXCEPT !.p_sendto[c] = d, !.p_callerq[d] = Append(@, c)]
  BY DEF mini_send
<1> HIDE DEF u, t
<1>5. /\ u \in KernelState
      /\ u.p_sendto = s.p_sendto /\ u.p_callerq = s.p_callerq
  BY <1>3 DEF Scheduled, SameButFlags, SameRest
<1>6. t = [u EXCEPT !.p_sendto = st, !.p_callerq = cq]
  BY <1>4, <1>5
<1>7. st \in [Proc -> Proc]
  BY <1>1 DEF KernelState
<1>8. cq \in [Proc -> Seq(Proc)]
  BY <1>1 DEF KernelState
<1>9. /\ \A p \in Proc : st[p] = IF p = c THEN d ELSE s.p_sendto[p]
      /\ \A p \in Proc : cq[p] = IF p = d THEN Append(s.p_callerq[d], c) ELSE s.p_callerq[p]
  BY <1>1 DEF KernelState
<1> HIDE DEF st, cq
<1>10. t \in KernelState
  BY <1>5, <1>6, <1>7, <1>8 DEF KernelState
<1>11. /\ t.queue = u.queue /\ t.proc_ptr = u.proc_ptr /\ t.bill_ptr = u.bill_ptr
       /\ t.p_flags = u.p_flags
       /\ t.sched_group = u.sched_group /\ t.p_getfrom = u.p_getfrom
       /\ t.p_int_blocked = u.p_int_blocked /\ t.m_source = u.m_source
       /\ t.p_pending = u.p_pending /\ t.p_pendcount = u.p_pendcount
       /\ t.sig_procs = u.sig_procs /\ t.alive = u.alive
       /\ t.p_sendto = st /\ t.p_callerq = cq
  BY <1>5, <1>6 DEF KernelState
<1>12. Scheduled(t) /\ BestRuns(t)
  <2>1. Runnable(t) = Runnable(u)
    BY <1>11 DEF Runnable, isemptyp
  <2> QED
    BY <2>1, <1>3, <1>10, <1>11, StillScheduled
<1>13. /\ \A p \in Proc : t.p_flags[p] = IF p = c THEN {"SENDING"} ELSE s.p_flags[p]
       /\ t.p_flags = [s.p_flags EXCEPT ![c] = {"SENDING"}]
  <2>1. s.p_flags[c] \cup {"SENDING"} = {"SENDING"}
    BY <1>2
  <2>2. t.p_flags = [s.p_flags EXCEPT ![c] = {"SENDING"}]
    BY <2>1, <1>3, <1>11
  <2>3. DOMAIN s.p_flags = Proc
    BY <1>1 DEF KernelState
  <2> QED
    BY <2>2, <2>3
<1>14. Callers(t)
  <2> SUFFICES ASSUME NEW x \in Proc PROVE Holds(cq[x], CallersOf(t, x))
    BY <1>11 DEF Callers
  <2>1. Holds(s.p_callerq[x], CallersOf(s, x)) /\ c \notin CallersOf(s, x)
    BY <1>1, <1>2 DEF Callers, CallersOf
  <2>2. CASE x = d
    <3>1. CallersOf(t, x) = CallersOf(s, x) \cup {c}
      BY <2>2, <1>2, <1>9, <1>11, <1>13 DEF CallersOf
    <3>2. cq[x] = Append(s.p_callerq[x], c)
      BY <2>2, <1>9
    <3> QED
      BY <3>1, <3>2, <2>1, HoldsAppend
  <2>3. CASE x # d
    <3>1. CallersOf(t, x) = CallersOf(s, x)
      BY <2>3, <1>2, <1>9, <1>11, <1>13 DEF CallersOf
    <3> QED
      BY <3>1, <2>1, <2>3, <1>9
  <2> QED
    BY <2>2, <2>3
<1>15. Partners(t)
  <2>1. d \notin Users /\ (d \in Tasks => c \in Servers)
    BY ProcAssumption
  <2>2. /\ t.m_source = s.m_source /\ t.p_int_blocked = s.p_int_blocked
    BY <1>3, <1>11 DEF SameButFlags, SameRest
  <2> QED
    BY <2>1, <2>2, <1>1, <1>9, <1>11, <1>13 DEF Partners
<1>16. FlagsAgree(t)
  <2>1. /\ t.p_getfrom = s.p_getfrom /\ t.p_pending = s.p_pending
        /\ t.p_pendcount = s.p_pendcount /\ t.alive = s.alive
    BY <1>3, <1>11 DEF SameButFlags, SameRest
  <2>2. c \in Users => c \in s.alive /\ ~(s.p_pendcount[c] > 0)
    BY <1>1, <1>2 DEF FlagsAgree, isemptyp
  <2> QED
    BY <2>1, <2>2, <1>1, <1>13 DEF FlagsAgree, Proc
<1>17. Kept(s, t)
  BY <1>2, <1>3, <1>11, <1>13 DEF Kept, SameButFlags, Proc
<1>18. Sends(s, t, c, d)
  BY <1>3, <1>9, <1>11, <1>13 DEF Sends, FlagsBut, SameSignals, SameButFlags, SameRest
<1> QED
  BY <1>3, <1>11, <1>12, <1>13, <1>14, <1>15, <1>16, <1>17, <1>18
     DEF KInv, SameButFlags, SameRest, t

(* A change of what neither the flags nor the queues depend on.            *)
LEMMA StillKInv ==
  ASSUME NEW s, KInv(s), NEW t \in KernelState,
         t.queue = s.queue, t.proc_ptr = s.proc_ptr, t.sched_group = s.sched_group,
         t.p_flags = s.p_flags, t.p_getfrom = s.p_getfrom, t.p_sendto = s.p_sendto,
         t.p_callerq = s.p_callerq, t.p_int_blocked = s.p_int_blocked,
         t.m_source = s.m_source, t.p_pending = s.p_pending,
         t.p_pendcount = s.p_pendcount, t.alive = s.alive
  PROVE  /\ KInv(t) /\ Kept(s, t)
         /\ t.bill_ptr = s.bill_ptr /\ BestRuns(s) => BestRuns(t)
<1>1. Runnable(t) = Runnable(s)
  BY DEF Runnable, isemptyp
<1>2. Scheduled(t) /\ (t.bill_ptr = s.bill_ptr /\ BestRuns(s) => BestRuns(t))
  BY <1>1, StillScheduled DEF KInv
<1>3. Callers(t)
  BY SameCallers DEF KInv
<1>4. Partners(t) /\ FlagsAgree(t)
  BY DEF KInv, Partners, FlagsAgree
<1> QED
  BY <1>2, <1>3, <1>4 DEF KInv, Kept

LEMMA PickScheduled ==
  ASSUME NEW s, Scheduled(s)
  PROVE  /\ Scheduled(pick_proc(s)) /\ BestRuns(pick_proc(s))
         /\ SameMessages(s, pick_proc(s))
<1> DEFINE R == Runnable(s)
           t == pick_proc(s)
<1>1. s \in KernelState /\ Placed(s, R) /\ R \in SUBSET Proc
  BY DEF Scheduled, Runnable
<1> HIDE DEF R
<1>2. /\ t \in KernelState /\ SameMessages(s, t)
      /\ Placed(t, R) /\ HeadRuns(t, R) /\ Best(t, R)
  BY <1>1, PickProc
<1> HIDE DEF t
<1>3. Runnable(t) = R
  BY <1>2 DEF Runnable, SameMessages, isemptyp, R
<1> QED
  BY <1>2, <1>3 DEF Scheduled, BestRuns, t

(* Only the ready queues and who runs have changed.                        *)
LEMMA SchedulingKInv ==
  ASSUME NEW s, KInv(s), NEW t, Scheduled(t), SameMessages(s, t)
  PROVE  KInv(t) /\ Kept(s, t)
<1>1. Callers(t)
  BY SameCallers DEF KInv, SameMessages
<1>2. Partners(t) /\ FlagsAgree(t)
  BY DEF KInv, Partners, FlagsAgree, SameMessages
<1> QED
  BY <1>1, <1>2 DEF KInv, Kept, SameMessages

(* MM, which waits for anyone, is told of the signals of a process.        *)
LEMMA Inform ==
  ASSUME NEW s, KInv(s), "RECEIVING" \in s.p_flags[MM], s.p_getfrom[MM] = ANY
  PROVE  LET t == inform(s)
         IN /\ KInv(t) /\ Kept(s, t) /\ BestRuns(t) /\ t.alive = s.alive
            /\ \A x \in Users : t.p_flags[x] \in {s.p_flags[x], s.p_flags[x] \ {"PENDING"}}
            /\ Informs(s, t)
<1> DEFINE u == CHOOSE p \in Servers \cup Users : Has(s, p, "PENDING")
           v == [s EXCEPT !.sig_procs = @ - 1]
           told == mini_send(v, HARDWARE, MM)
           pend == [told.p_pending EXCEPT ![u] = {}]
           flags == [told.p_flags EXCEPT ![u] = @ \ {"PENDING"}]
           w == [told EXCEPT !.p_pending = pend, !.p_flags = flags]
           t == pick_proc(w)
<1>1. inform(s) = t
  <2>1. w = [told EXCEPT !.p_pending[u] = {}, !.p_flags[u] = @ \ {"PENDING"}]
    OBVIOUS
  <2> HIDE DEF w, told
  <2> QED
    BY <2>1 DEF inform, told
<1> HIDE DEF u
<1>2. /\ MM \in Servers /\ MM \in Proc /\ MM \notin Users /\ MM \notin Tasks
      /\ HARDWARE \in Proc \cup {HARDWARE}
  BY ProcAssumption, MessagesAssumption DEF Proc
<1>3. s \in KernelState /\ s.sig_procs - 1 \in Int
  BY DEF KInv, Scheduled, KernelState
<1>4. v \in KernelState
  BY <1>3 DEF KernelState
<1>5. /\ v.p_flags = s.p_flags /\ v.p_getfrom = s.p_getfrom /\ v.m_source = s.m_source
      /\ v.alive = s.alive
  BY <1>3 DEF KernelState
<1>5a. /\ v.p_sendto = s.p_sendto /\ v.p_int_blocked = s.p_int_blocked
       /\ v.p_pending = s.p_pending /\ v.p_pendcount = s.p_pendcount
       /\ v.sig_procs = s.sig_procs - 1
  BY <1>3 DEF KernelState
<1>6. KInv(v)
  BY <1>3, <1>4, StillKInv DEF KernelState
<1>7. WaitsFor(v, MM, HARDWARE)
  BY <1>2, <1>5, <1>6 DEF WaitsFor, Waiting, Has, KInv, FlagsAgree
<1> HIDE DEF v
<1>8. /\ KInv(told) /\ Kept(v, told) /\ SameRest(v, told) /\ Gets(v, told, HARDWARE, MM)
      /\ told.p_flags = [v.p_flags EXCEPT ![MM] = @ \ {"RECEIVING"}]
  BY <1>2, <1>6, <1>7, Deliver
<1> HIDE DEF told
<1>9. told \in KernelState
  BY <1>8 DEF KInv, Scheduled
<1>10. /\ pend \in [Users -> SUBSET Signals]
       /\ flags \in [Proc -> SUBSET Flags]
       /\ \A p \in Proc : flags[p] = IF p = u THEN told.p_flags[p] \ {"PENDING"}
                                     ELSE told.p_flags[p]
       /\ \A p \in Users : pend[p] = IF p = u THEN {} ELSE told.p_pending[p]
  BY <1>9 DEF KernelState
<1> HIDE DEF pend, flags
<1>11. /\ w \in KernelState
       /\ w.p_flags = flags /\ w.p_pending = pend
       /\ w.queue = told.queue /\ w.proc_ptr = told.proc_ptr
       /\ w.m_source = told.m_source
  BY <1>9, <1>10 DEF KernelState
<1>12. /\ w.sched_group = told.sched_group /\ w.p_getfrom = told.p_getfrom
       /\ w.p_sendto = told.p_sendto /\ w.p_callerq = told.p_callerq
       /\ w.p_int_blocked = told.p_int_blocked /\ w.p_pendcount = told.p_pendcount
       /\ w.sig_procs = told.sig_procs /\ w.alive = told.alive
  BY <1>9, <1>10 DEF KernelState
<1> HIDE DEF w
<1>13. \A p \in Proc : \A f \in Flags \ {"PENDING"} : f \in w.p_flags[p] <=> f \in told.p_flags[p]
  BY <1>10, <1>11
<1>14. \A p \in Proc : "PENDING" \in w.p_flags[p] => "PENDING" \in told.p_flags[p] /\ p # u
  BY <1>10, <1>11
<1>15. \A p \in Proc : w.p_flags[p] = {} <=> told.p_flags[p] = {}
  <2> SUFFICES ASSUME NEW p \in Proc, "PENDING" \in told.p_flags[p]
               PROVE  "SIG_PENDING" \in w.p_flags[p]
    BY <1>10, <1>11
  <2>1. p \in Users
    BY <1>8 DEF KInv, FlagsAgree, Proc
  <2>2. "SIG_PENDING" \in told.p_flags[p]
    BY <2>1, <1>8 DEF KInv, FlagsAgree
  <2> QED
    BY <2>2, <1>13 DEF Flags
<1>16. Scheduled(w)
  <2>1. Runnable(w) = Runnable(told)
    BY <1>12, <1>15 DEF Runnable, isemptyp
  <2> QED
    BY <2>1, <1>8, <1>11, <1>12, StillScheduled DEF KInv
<1>17. Callers(w)
  BY <1>8, <1>12, <1>13, SameCallers DEF KInv, Flags
<1>18. Partners(w)
  BY <1>8, <1>11, <1>12, <1>13 DEF KInv, Partners, Flags
<1>19. FlagsAgree(w)
  <2>1. \A p \in Tasks \cup Servers : w.p_flags[p] \subseteq {"SENDING", "RECEIVING"}
    BY <1>8, <1>10, <1>11 DEF KInv, FlagsAgree, Proc
  <2>2. \A p \in Proc : "RECEIVING" \in w.p_flags[p] /\ w.p_getfrom[p] = ANY
                          => "SENDING" \notin w.p_flags[p]
    BY <1>8, <1>12, <1>13 DEF KInv, FlagsAgree, Flags
  <2>3. ASSUME NEW x \in Users
        PROVE  /\ "PENDING" \in w.p_flags[x] => "SIG_PENDING" \in w.p_flags[x]
               /\ "PENDING" \in w.p_flags[x] => w.p_pending[x] # {}
               /\ w.p_pendcount[x] > 0 => "SIG_PENDING" \in w.p_flags[x]
               /\ x \notin w.alive => w.p_flags[x] = {}
    BY <1>8, <1>10, <1>11, <1>12, <1>13, <1>14, <1>15 DEF KInv, FlagsAgree, Flags, Proc
  <2> QED
    BY <2>1, <2>2, <2>3 DEF FlagsAgree
<1>20. KInv(w) /\ Kept(told, w)
  <2>1. Kept(told, w)
    BY <1>11, <1>13 DEF Kept, Flags, Proc
  <2> QED
    BY <2>1, <1>16, <1>17, <1>18, <1>19 DEF KInv
<1>21. Scheduled(t) /\ BestRuns(t) /\ SameMessages(w, t)
  BY <1>16, PickScheduled
<1> HIDE DEF t
<1>22. KInv(t) /\ Kept(w, t)
  BY <1>20, <1>21, SchedulingKInv
<1>23. Kept(s, t)
  BY <1>5, <1>8, <1>20, <1>22 DEF Kept
<1>24. t.alive = s.alive
  BY <1>5, <1>8, <1>12, <1>21 DEF SameMessages, SameRest
<1>25. \A x \in Users : t.p_flags[x] \in {s.p_flags[x], s.p_flags[x] \ {"PENDING"}}
  <2>1. \A x \in Users : told.p_flags[x] = s.p_flags[x]
    BY <1>2, <1>3, <1>5, <1>8 DEF KernelState, Proc
  <2>2. \A x \in Users : t.p_flags[x] = flags[x]
    BY <1>11, <1>21 DEF SameMessages
  <2> QED
    BY <2>1, <2>2, <1>10 DEF Proc
<1>26. Tells(s, t, u)
  <2>1. \A x \in Proc : told.p_flags[x] = IF x = MM THEN s.p_flags[x] \ {"RECEIVING"} ELSE s.p_flags[x]
    BY <1>3, <1>5, <1>8 DEF KernelState
  <2>2. \A x \in Proc : t.p_flags[x] = IF x = u THEN told.p_flags[x] \ {"PENDING"} ELSE told.p_flags[x]
    BY <1>10, <1>11, <1>21 DEF SameMessages
  <2>3. \A x \in Proc : t.p_flags[x] = told.p_flags[x] \ (IF x = u THEN {"PENDING"} ELSE {})
    BY <2>2
  <2>4. \A x \in Users : t.p_pending[x] = IF x = u THEN {} ELSE s.p_pending[x]
    BY <1>5a, <1>8, <1>10, <1>11, <1>21 DEF SameMessages, SameRest
  <2>5. /\ t.p_pendcount = s.p_pendcount /\ t.sig_procs = s.sig_procs - 1
        /\ t.p_getfrom = s.p_getfrom /\ t.p_sendto = s.p_sendto
        /\ t.p_int_blocked = s.p_int_blocked
    BY <1>5, <1>5a, <1>8, <1>12, <1>21 DEF SameMessages, SameRest
  <2>6. \A x \in Tasks : t.m_source[x] = s.m_source[x]
    BY <1>2, <1>5, <1>8, <1>11, <1>21 DEF SameMessages, Gets, SourceBut
  <2> QED
    BY <2>1, <2>3, <2>4, <2>5, <2>6 DEF Tells
<1>27. Informs(s, t)
  <2>1. Pending(s) # {} => u \in Pending(s)
    BY DEF u, Pending
  <2> QED
    BY <2>1, <1>26 DEF Informs
<1> QED
  BY <1>1, <1>21, <1>22, <1>23, <1>24, <1>25, <1>27

(* Every task but c waits on or wakes up with a message; c, if it is a     *)
(* task, has a message or waits.                                           *)
KeptBut(s, t, c) ==
  \A x \in Tasks :
     \/ x # c /\ t.m_source[x] = s.m_source[x]
              /\ ("RECEIVING" \in t.p_flags[x] <=> "RECEIVING" \in s.p_flags[x])
     \/ x # c /\ "RECEIVING" \in s.p_flags[x] /\ "RECEIVING" \notin t.p_flags[x]
              /\ t.m_source[x] \in Servers \cup {HARDWARE}
     \/ x = c /\ (t.m_source[x] \in Servers \cup {HARDWARE} \/ "RECEIVING" \in t.p_flags[x])

(* c, which is not SENDING, takes the message of a sender i of its queue.  *)
LEMMA TakeMessage ==
  ASSUME NEW s, KInv(s), NEW c \in Proc, s.p_flags[c] = {},
         s.proc_ptr \in Users => c \in Users,
         NEW i \in 1..Len(s.p_callerq[c])
  PROVE  LET q == s.p_callerq[c]
             t == Unblock([CopyMess(s, q[i], c) EXCEPT !.p_callerq[c] = RemoveAt(q, i)],
                          q[i], "SENDING")
         IN /\ KInv(t) /\ KeptBut(s, t, c) /\ t.alive = s.alive
            /\ c \notin Users /\ Takes(s, t, c, q[i])
            /\ BestRuns(s) /\ KernelRuns(s) => BestRuns(t)
<1> DEFINE q == s.p_callerq[c]
           p == q[i]
           r == RemoveAt(q, i)
           u == CopyMess(s, p, c)
           cq == [s.p_callerq EXCEPT ![c] = r]
           v == [u EXCEPT !.p_callerq = cq]
           t == Unblock(v, p, "SENDING")
<1>1. /\ Scheduled(s) /\ Callers(s) /\ Partners(s) /\ FlagsAgree(s)
      /\ s \in KernelState
  BY DEF KInv, Scheduled
<1>2. Holds(q, CallersOf(s, c)) /\ i \in 1..Len(q)
  BY <1>1 DEF Callers
<1>3. Holds(r, CallersOf(s, c) \ {p})
  BY <1>2, HoldsRemove
<1>4. p \in Proc /\ "SENDING" \in s.p_flags[p] /\ s.p_sendto[p] = c
  <2>1. p \in CallersOf(s, c)
    BY <1>2, HoldsAt
  <2> QED
    BY <2>1 DEF CallersOf
<1>5. /\ c \notin Users /\ c \in Tasks \cup Servers
      /\ c \in Tasks => p \in Servers
      /\ p # c
  BY <1>1, <1>4 DEF Partners, Proc
<1> HIDE DEF p, q, r
<1>6. /\ Scheduled(u) /\ SameRest(s, u)
      /\ u.p_flags = s.p_flags /\ u.proc_ptr = s.proc_ptr
      /\ \A x \in Tasks : u.m_source[x] = IF x = c THEN p ELSE s.m_source[x]
      /\ BestRuns(s) => BestRuns(u)
  BY <1>1, <1>4, CopyMessScheduled
<1> HIDE DEF u
<1>7. cq \in [Proc -> Seq(Proc)] /\ \A x \in Proc : cq[x] = IF x = c THEN r ELSE s.p_callerq[x]
  <2>1. r \in Seq(Proc)
    <3>1. r \in Seq(CallersOf(s, c) \ {p}) /\ CallersOf(s, c) \ {p} \subseteq Proc
      BY <1>3 DEF Holds, CallersOf
    <3> QED
      BY <3>1, SeqMonotonic
  <2> QED
    BY <2>1, <1>1 DEF KernelState
<1> HIDE DEF cq
<1>8. u \in KernelState
  BY <1>6 DEF Scheduled
<1>9. v \in KernelState
  BY <1>7, <1>8 DEF KernelState
<1>10. /\ v.queue = u.queue /\ v.proc_ptr = u.proc_ptr /\ v.bill_ptr = u.bill_ptr
       /\ v.sched_group = u.sched_group
       /\ v.p_flags = u.p_flags /\ v.p_getfrom = u.p_getfrom /\ v.p_sendto = u.p_sendto
       /\ v.p_callerq = cq /\ v.p_int_blocked = u.p_int_blocked
       /\ v.m_source = u.m_source /\ v.p_pending = u.p_pending
       /\ v.p_pendcount = u.p_pendcount /\ v.alive = u.alive /\ v.sig_procs = u.sig_procs
  BY <1>8 DEF KernelState
<1>11. Scheduled(v) /\ (BestRuns(u) => BestRuns(v))
  <2>1. Runnable(v) = Runnable(u)
    BY <1>10 DEF Runnable, isemptyp
  <2> QED
    BY <2>1, <1>6, <1>9, <1>10, StillScheduled
<1>12. /\ "SENDING" \in v.p_flags[p] /\ ~isemptyp(v, p)
       /\ v.proc_ptr \in Users => p \notin Users
  BY <1>1, <1>4, <1>5, <1>6, <1>10 DEF FlagsAgree, isemptyp, SameRest
<1> HIDE DEF v
<1>13. /\ Scheduled(t) /\ SameButFlags(v, t)
       /\ t.p_flags = [v.p_flags EXCEPT ![p] = @ \ {"SENDING"}]
       /\ BestRuns(v) /\ KernelRuns(v) => BestRuns(t)
  BY <1>4, <1>11, <1>12, UnblockScheduled
<1> HIDE DEF t
<1>14. /\ t.p_callerq = cq /\ t.p_sendto = s.p_sendto /\ t.p_getfrom = s.p_getfrom
       /\ t.p_int_blocked = s.p_int_blocked
       /\ t.p_pending = s.p_pending /\ t.p_pendcount = s.p_pendcount
       /\ t.sig_procs = s.sig_procs
       /\ t.alive = s.alive /\ t.m_source = u.m_source
  BY <1>6, <1>10, <1>13 DEF SameButFlags, SameRest
<1>15. \A x \in Proc : t.p_flags[x] = IF x = p THEN s.p_flags[x] \ {"SENDING"} ELSE s.p_flags[x]
  <2>1. t.p_flags = [s.p_flags EXCEPT ![p] = @ \ {"SENDING"}]
    BY <1>6, <1>10, <1>13
  <2>2. DOMAIN s.p_flags = Proc
    BY <1>1 DEF KernelState
  <2> QED
    BY <2>1, <2>2
<1>16. Callers(t)
  <2> SUFFICES ASSUME NEW x \in Proc PROVE Holds(cq[x], CallersOf(t, x))
    BY <1>14 DEF Callers
  <2>1. CASE x = c
    <3>1. CallersOf(t, x) = CallersOf(s, c) \ {p}
      BY <2>1, <1>14, <1>15 DEF CallersOf
    <3> QED
      BY <3>1, <2>1, <1>3, <1>7
  <2>2. CASE x # c
    <3>1. CallersOf(t, x) = CallersOf(s, x)
      BY <2>2, <1>4, <1>14, <1>15 DEF CallersOf
    <3>2. Holds(s.p_callerq[x], CallersOf(s, x))
      BY <1>1 DEF Callers
    <3> QED
      BY <3>1, <3>2, <2>2, <1>7
  <2> QED
    BY <2>1, <2>2
<1>17. Partners(t)
  <2>1. \A x \in Proc : "SENDING" \in t.p_flags[x] => "SENDING" \in s.p_flags[x]
    BY <1>15
  <2>2. ASSUME NEW x \in Tasks
        PROVE  /\ t.m_source[x] \in Servers \cup {HARDWARE, NIL}
               /\ x = SYSTASK => t.m_source[x] # HARDWARE
    BY <1>1, <1>5, <1>6, <1>14, MessagesAssumption DEF Partners, Proc
  <2>3. SYSTASK \in Tasks
    BY KernelAssumption
  <2> QED
    BY <2>1, <2>2, <2>3, <1>1, <1>14 DEF Partners
<1>18. FlagsAgree(t)
  BY <1>1, <1>14, <1>15 DEF FlagsAgree, Proc
<1>19. KeptBut(s, t, c)
  BY <1>5, <1>6, <1>14, <1>15 DEF KeptBut, Proc
<1>20. KInv(t)
  BY <1>13, <1>16, <1>17, <1>18 DEF KInv
<1>21. BestRuns(s) /\ KernelRuns(s) => BestRuns(t)
  BY <1>6, <1>10, <1>11, <1>13 DEF KernelRuns
<1>22. t = Unblock([CopyMess(s, q[i], c) EXCEPT !.p_callerq[c] = RemoveAt(q, i)], q[i], "SENDING")
  <2>1. v = [u EXCEPT !.p_callerq[c] = r]
    BY <1>6 DEF v, cq, SameRest
  <2> QED
    BY <2>1 DEF t, u, p, r
<1>23. Takes(s, t, c, p)
  BY <1>4, <1>6, <1>14, <1>15 DEF Takes, CallersOf, FlagsBut, SourceBut, SameSignals
<1> QED
  BY <1>5, <1>14, <1>19, <1>20, <1>21, <1>22, <1>23 DEF q, p

(* A task takes the interrupt message that was kept for it.                *)
LEMMA TakeInterrupt ==
  ASSUME NEW s, KInv(s), NEW c \in Tasks, s.p_flags[c] = {}, s.p_int_blocked[c]
  PROVE  LET t == [CopyMess(s, HARDWARE, c) EXCEPT !.p_int_blocked[c] = FALSE]
         IN /\ KInv(t) /\ KeptBut(s, t, c) /\ t.alive = s.alive
            /\ TakesInterrupt(s, t, c)
            /\ BestRuns(s) => BestRuns(t)
<1> DEFINE u == CopyMess(s, HARDWARE, c)
           ib == [s.p_int_blocked EXCEPT ![c] = FALSE]
           t == [u EXCEPT !.p_int_blocked = ib]
<1>1. Scheduled(s) /\ Callers(s) /\ Partners(s) /\ FlagsAgree(s) /\ s \in KernelState
  BY DEF KInv, Scheduled
<1>2. c \in Proc /\ c # SYSTASK
  BY <1>1 DEF Partners, Proc
<1>3. /\ Scheduled(u) /\ SameRest(s, u)
      /\ u.p_flags = s.p_flags /\ u.proc_ptr = s.proc_ptr
      /\ \A x \in Tasks : u.m_source[x] = IF x = c THEN HARDWARE ELSE s.m_source[x]
      /\ BestRuns(s) => BestRuns(u)
  BY <1>1, <1>2, CopyMessScheduled
<1>4. t = [CopyMess(s, HARDWARE, c) EXCEPT !.p_int_blocked[c] = FALSE]
  BY <1>3 DEF SameRest
<1> HIDE DEF u
<1>5. /\ ib \in [Tasks -> BOOLEAN] /\ ib[c] = FALSE
      /\ \A x \in Tasks \ {c} : ib[x] = s.p_int_blocked[x]
  BY <1>1 DEF KernelState
<1> HIDE DEF ib
<1>6. u \in KernelState
  BY <1>3 DEF Scheduled
<1>7. t \in KernelState
  BY <1>5, <1>6 DEF KernelState
<1>8. /\ t.queue = u.queue /\ t.proc_ptr = u.proc_ptr /\ t.bill_ptr = u.bill_ptr
      /\ t.sched_group = u.sched_group
      /\ t.p_flags = u.p_flags /\ t.p_getfrom = u.p_getfrom /\ t.p_sendto = u.p_sendto
      /\ t.p_callerq = u.p_callerq /\ t.p_int_blocked = ib
      /\ t.m_source = u.m_source /\ t.p_pending = u.p_pending
      /\ t.p_pendcount = u.p_pendcount /\ t.alive = u.alive /\ t.sig_procs = u.sig_procs
  BY <1>6 DEF KernelState
<1> HIDE DEF t
<1>9. Scheduled(t) /\ (BestRuns(u) => BestRuns(t))
  <2>1. Runnable(t) = Runnable(u)
    BY <1>8 DEF Runnable, isemptyp
  <2> QED
    BY <2>1, <1>3, <1>7, <1>8, StillScheduled
<1>10. Callers(t)
  BY <1>1, <1>3, <1>8, SameCallers DEF SameRest
<1>11. Partners(t)
  <2>1. SYSTASK \in Tasks
    BY KernelAssumption
  <2>2. t.p_int_blocked[SYSTASK] = FALSE /\ t.m_source[SYSTASK] # HARDWARE
    BY <2>1, <1>1, <1>2, <1>3, <1>5, <1>8 DEF Partners
  <2>3. \A x \in Tasks : t.m_source[x] \in Servers \cup {HARDWARE, NIL}
    BY <1>1, <1>3, <1>8 DEF Partners
  <2> QED
    BY <2>2, <2>3, <1>1, <1>3, <1>8 DEF Partners, SameRest
<1>12. FlagsAgree(t)
  BY <1>1, <1>3, <1>8 DEF FlagsAgree, SameRest
<1>13. KeptBut(s, t, c)
  BY <1>3, <1>8 DEF KeptBut
<1>14. TakesInterrupt(s, t, c)
  BY <1>3, <1>5, <1>8 DEF TakesInterrupt, SourceBut, SameSignals, SameRest
<1> QED
  BY <1>3, <1>4, <1>8, <1>9, <1>10, <1>11, <1>12, <1>13, <1>14 DEF KInv, SameRest

(* c waits for src; if it is SENDING too, for the process it sends to.     *)
LEMMA WaitForMessage ==
  ASSUME NEW s, KInv(s), NEW c \in Proc, ~isemptyp(s, c), NEW src \in Proc \cup {ANY},
         s.p_flags[c] = {} \/ (s.p_flags[c] = {"SENDING"} /\ src # ANY)
  PROVE  LET t == Block([s EXCEPT !.p_getfrom[c] = src], c, {"RECEIVING"})
         IN /\ KInv(t) /\ KeptBut(s, t, c) /\ t.alive = s.alive
            /\ "RECEIVING" \in t.p_flags[c] /\ t.p_getfrom[c] = src
            /\ WaitsOn(s, t, c, src)
            /\ BestRuns(s) \/ (s.proc_ptr = c /\ s.p_flags[c] = {}) => BestRuns(t)
<1> DEFINE gf == [s.p_getfrom EXCEPT ![c] = src]
           u == [s EXCEPT !.p_getfrom = gf]
           t == Block(u, c, {"RECEIVING"})
<1>1. Scheduled(s) /\ Callers(s) /\ Partners(s) /\ FlagsAgree(s) /\ s \in KernelState
  BY DEF KInv, Scheduled
<1>2. t = Block([s EXCEPT !.p_getfrom[c] = src], c, {"RECEIVING"})
  OBVIOUS
<1>3. /\ gf \in [Proc -> Proc \cup {ANY}] /\ gf[c] = src
      /\ \A x \in Proc \ {c} : gf[x] = s.p_getfrom[x]
  BY <1>1 DEF KernelState
<1> HIDE DEF gf
<1>4. u \in KernelState
  BY <1>1, <1>3 DEF KernelState
<1>5. /\ u.queue = s.queue /\ u.proc_ptr = s.proc_ptr /\ u.bill_ptr = s.bill_ptr
      /\ u.sched_group = s.sched_group
      /\ u.p_flags = s.p_flags /\ u.p_getfrom = gf /\ u.p_sendto = s.p_sendto
      /\ u.p_callerq = s.p_callerq /\ u.p_int_blocked = s.p_int_blocked
      /\ u.m_source = s.m_source /\ u.p_pending = s.p_pending
      /\ u.p_pendcount = s.p_pendcount /\ u.alive = s.alive /\ u.sig_procs = s.sig_procs
  BY <1>1 DEF KernelState
<1> HIDE DEF u
<1>6. Scheduled(u) /\ ~isemptyp(u, c) /\ (BestRuns(s) => BestRuns(u))
  <2>1. Runnable(u) = Runnable(s)
    BY <1>5 DEF Runnable, isemptyp
  <2> QED
    BY <2>1, <1>1, <1>4, <1>5, StillScheduled DEF isemptyp
<1>7. /\ Scheduled(t) /\ SameButFlags(u, t)
      /\ t.p_flags = [u.p_flags EXCEPT ![c] = @ \cup {"RECEIVING"}]
      /\ BestRuns(u) \/ (u.proc_ptr = c /\ u.p_flags[c] = {}) => BestRuns(t)
  BY <1>6, BlockScheduled DEF Flags
<1> HIDE DEF t
<1>8. \A x \in Proc : t.p_flags[x] = IF x = c THEN s.p_flags[x] \cup {"RECEIVING"} ELSE s.p_flags[x]
  <2>1. t.p_flags = [s.p_flags EXCEPT ![c] = @ \cup {"RECEIVING"}]
    BY <1>5, <1>7
  <2>2. DOMAIN s.p_flags = Proc
    BY <1>1 DEF KernelState
  <2> QED
    BY <2>1, <2>2
<1> DEFINE F == Flags \ {"RECEIVING"}
<1>8a. /\ \A x \in Proc, f \in F : f \in t.p_flags[x] <=> f \in s.p_flags[x]
       /\ \A x \in Proc \ {c} : t.p_flags[x] = s.p_flags[x]
       /\ "RECEIVING" \in t.p_flags[c]
  <2>1. ASSUME NEW x \in Proc, NEW f \in F PROVE f \in t.p_flags[x] <=> f \in s.p_flags[x]
    <3>1. f # "RECEIVING"
      OBVIOUS
    <3>2. CASE x = c
      <4>1. t.p_flags[x] = s.p_flags[x] \cup {"RECEIVING"}
        BY <1>8, <3>2
      <4> QED
        BY <4>1, <3>1
    <3>3. CASE x # c
      BY <1>8, <3>3
    <3> QED
      BY <3>2, <3>3
  <2>2. t.p_flags[c] = s.p_flags[c] \cup {"RECEIVING"}
    BY <1>8
  <2>3. ASSUME NEW x \in Proc \ {c} PROVE t.p_flags[x] = s.p_flags[x]
    BY <1>8
  <2> QED
    BY <2>1, <2>2, <2>3
<1>9. /\ t.p_callerq = s.p_callerq /\ t.p_sendto = s.p_sendto /\ t.p_getfrom = gf
      /\ t.p_int_blocked = s.p_int_blocked
      /\ t.p_pending = s.p_pending /\ t.p_pendcount = s.p_pendcount
      /\ t.sig_procs = s.sig_procs
      /\ t.alive = s.alive /\ t.m_source = s.m_source
  BY <1>5, <1>7 DEF SameButFlags, SameRest
<1>10. Callers(t)
  <2>1. \A x \in Proc : "SENDING" \in t.p_flags[x] <=> "SENDING" \in s.p_flags[x]
    BY <1>8a DEF Flags
  <2> QED
    BY <2>1, <1>1, <1>9, SameCallers
<1>11. Partners(t)
  BY <1>1, <1>8a, <1>9 DEF Partners, Flags
<1>12. FlagsAgree(t)
  <2>1. \A x \in Tasks \cup Servers : t.p_flags[x] \subseteq {"SENDING", "RECEIVING"}
    BY <1>1, <1>8 DEF FlagsAgree, Proc
  <2>2. ASSUME NEW x \in Proc, "RECEIVING" \in t.p_flags[x], t.p_getfrom[x] = ANY
        PROVE  "SENDING" \notin t.p_flags[x]
    <3>1. CASE x = c
      <4>1. src = ANY /\ "SENDING" \notin s.p_flags[c]
        BY <2>2, <3>1, <1>3, <1>9
      <4> QED
        BY <4>1, <3>1, <1>8a DEF Flags
    <3>2. CASE x # c
      BY <2>2, <3>2, <1>1, <1>3, <1>8a, <1>9 DEF FlagsAgree
    <3> QED
      BY <3>1, <3>2
  <2>3. c \in Users => c \in s.alive
    BY DEF isemptyp
  <2>4. ASSUME NEW x \in Users
        PROVE  /\ "PENDING" \in t.p_flags[x] => "SIG_PENDING" \in t.p_flags[x]
               /\ "PENDING" \in t.p_flags[x] => t.p_pending[x] # {}
               /\ t.p_pendcount[x] > 0 => "SIG_PENDING" \in t.p_flags[x]
               /\ x \notin t.alive => t.p_flags[x] = {}
    <3>1. CASE x = c
      <4>1. ~("PENDING" \in s.p_flags[x])
        BY <3>1
      <4>2. x \in t.alive
        BY <3>1, <2>3, <1>9
      <4> QED
        BY <4>1, <4>2, <1>1, <1>8a, <1>9 DEF FlagsAgree, Flags, Proc
    <3>2. CASE x # c
      BY <3>2, <1>1, <1>8a, <1>9 DEF FlagsAgree, Proc
    <3> QED
      BY <3>1, <3>2
  <2> QED
    BY <2>1, <2>2, <2>4 DEF FlagsAgree
<1>13. KeptBut(s, t, c)
  BY <1>8, <1>9 DEF KeptBut, Proc
<1>14. BestRuns(s) \/ (s.proc_ptr = c /\ s.p_flags[c] = {}) => BestRuns(t)
  BY <1>5, <1>6, <1>7
<1>15. WaitsOn(s, t, c, src)
  BY <1>3, <1>8, <1>9 DEF WaitsOn, FlagsBut, SameSignals
<1> QED
  BY <1>2, <1>3, <1>7, <1>8, <1>9, <1>10, <1>11, <1>12, <1>13, <1>14, <1>15 DEF KInv

(* The four ways of mini_rec: a message, an interrupt, waiting, and MM     *)
(* that waits for work while there are signals.                            *)
Receives(s, t, c, src) ==
  \/ /\ "SENDING" \notin s.p_flags[c]
     /\ \E p \in Proc : src \in {ANY, p} /\ Takes(s, t, c, p)
  \/ /\ "SENDING" \notin s.p_flags[c]
     /\ c \in Tasks /\ src = ANY /\ TakesInterrupt(s, t, c)
  \/ /\ "SENDING" \notin s.p_flags[c] =>
           /\ \A p \in CallersOf(s, c) : src \notin {ANY, p}
           /\ c \in Tasks /\ src = ANY => ~s.p_int_blocked[c]
     /\ c = MM /\ src = ANY => ~(s.sig_procs > 0)
     /\ WaitsOn(s, t, c, src)
  \/ /\ s.sig_procs > 0 /\ c = MM /\ src = ANY
     /\ \E b : KInv(b) /\ WaitsOn(s, b, c, src) /\ Informs(b, t)

(* RECEIVE, and the second half of BOTH.  When a user has woken up the     *)
(* server it called, the best process runs only from now on.               *)
LEMMA MiniRec ==
  ASSUME NEW s, KInv(s), NEW c \in Proc, ~isemptyp(s, c), NEW src \in Proc \cup {ANY},
         \/ s.p_flags[c] = {} /\ (s.proc_ptr \in Users => c \in Users)
         \/ s.p_flags[c] = {"SENDING"} /\ src # ANY
  PROVE  LET t == mini_rec(s, c, src)
         IN /\ KInv(t) /\ KeptBut(s, t, c) /\ t.alive = s.alive
            /\ Receives(s, t, c, src)
            /\ BestRuns(s) /\ (KernelRuns(s) \/ "SENDING" \in s.p_flags[c])
                 => BestRuns(t)
            /\ c \in Users /\ s.proc_ptr = c /\ s.p_flags[c] = {}
                 => BestRuns(t)
<1> DEFINE q == s.p_callerq[c]
           Acceptable == {i \in DOMAIN q : src \in {ANY, q[i]}}
           n == CHOOSE j \in Acceptable : \A h \in Acceptable : j <= h
           Blocked == Block([s EXCEPT !.p_getfrom[c] = src], c, {"RECEIVING"})
           t == mini_rec(s, c, src)
<1>1. CASE ~Has(s, c, "SENDING") /\ Acceptable # {}
  <2>1. t = Unblock([CopyMess(s, q[n], c) EXCEPT !.p_callerq[c] = RemoveAt(q, n)],
                    q[n], "SENDING")
    BY <1>1 DEF mini_rec
  <2>2. DOMAIN q = 1..Len(q) /\ Len(q) \in Nat
    <3>1. Holds(q, CallersOf(s, c))
      BY DEF KInv, Callers
    <3> QED
      BY <3>1, HoldsAt
  <2>3. n \in 1..Len(q)
    <3>1. Acceptable \in SUBSET Nat
      BY <2>2
    <3>2. \E j \in Acceptable : \A h \in Acceptable : j <= h
      BY <3>1, <1>1, LeastNat
    <3>3. n \in Acceptable
      BY <3>2
    <3> QED
      BY <3>3, <2>2
  <2>3a. src \in {ANY, q[n]}
    <3>1. Acceptable \in SUBSET Nat
      BY <2>2
    <3>2. \E j \in Acceptable : \A h \in Acceptable : j <= h
      BY <3>1, <1>1, LeastNat
    <3>3. n \in Acceptable
      BY <3>2
    <3> QED
      BY <3>3
  <2>4. s.p_flags[c] = {} /\ (s.proc_ptr \in Users => c \in Users)
    BY <1>1 DEF Has
  <2>5. "SENDING" \notin s.p_flags[c]
    BY <1>1 DEF Has
  <2> HIDE DEF n, t
  <2>6. /\ KInv(t) /\ KeptBut(s, t, c) /\ t.alive = s.alive
        /\ c \notin Users /\ Takes(s, t, c, q[n])
        /\ BestRuns(s) /\ KernelRuns(s) => BestRuns(t)
    BY <2>1, <2>3, <2>4, TakeMessage
  <2>7. Receives(s, t, c, src)
    BY <2>3a, <2>5, <2>6 DEF Receives, Takes, CallersOf
  <2> QED
    BY <2>5, <2>6, <2>7 DEF t
<1>2. CASE /\ ~(~Has(s, c, "SENDING") /\ Acceptable # {})
           /\ ~Has(s, c, "SENDING") /\ c \in Tasks /\ s.p_int_blocked[c] /\ src \in {ANY, HARDWARE}
  <2>1. t = [CopyMess(s, HARDWARE, c) EXCEPT !.p_int_blocked[c] = FALSE]
    BY <1>2 DEF mini_rec
  <2>2. s.p_flags[c] = {} /\ c \notin Users /\ src = ANY
    BY <1>2, ProcAssumption, MessagesAssumption DEF Has
  <2> HIDE DEF t
  <2>3. /\ KInv(t) /\ KeptBut(s, t, c) /\ t.alive = s.alive /\ TakesInterrupt(s, t, c)
        /\ BestRuns(s) => BestRuns(t)
    BY <2>1, <2>2, <1>2, TakeInterrupt
  <2>4. Receives(s, t, c, src)
    BY <1>2, <2>2, <2>3 DEF Receives
  <2> QED
    BY <2>2, <2>3, <2>4 DEF t
<1>3. CASE /\ ~(~Has(s, c, "SENDING") /\ Acceptable # {})
           /\ ~(~Has(s, c, "SENDING") /\ c \in Tasks /\ s.p_int_blocked[c] /\ src \in {ANY, HARDWARE})
  <2>1. t = IF s.sig_procs > 0 /\ c = MM /\ src = ANY THEN inform(Blocked) ELSE Blocked
    BY <1>3 DEF mini_rec
  <2>2. /\ KInv(Blocked) /\ KeptBut(s, Blocked, c) /\ Blocked.alive = s.alive
        /\ "RECEIVING" \in Blocked.p_flags[c] /\ Blocked.p_getfrom[c] = src
        /\ WaitsOn(s, Blocked, c, src)
        /\ BestRuns(s) \/ (s.proc_ptr = c /\ s.p_flags[c] = {}) => BestRuns(Blocked)
    BY WaitForMessage
  <2> HIDE DEF Blocked
  <2>3. CASE s.sig_procs > 0 /\ c = MM /\ src = ANY
    <3>1. /\ KInv(inform(Blocked)) /\ Kept(Blocked, inform(Blocked))
          /\ inform(Blocked).alive = Blocked.alive /\ BestRuns(inform(Blocked))
          /\ Informs(Blocked, inform(Blocked))
      BY <2>2, <2>3, Inform
    <3>2. c \notin Tasks
      BY <2>3, ProcAssumption, MessagesAssumption
    <3>3. KeptBut(s, inform(Blocked), c)
      BY <3>1, <3>2, <2>2 DEF Kept, KeptBut
    <3>4. Receives(s, inform(Blocked), c, src)
      BY <3>1, <2>2, <2>3 DEF Receives
    <3> QED
      BY <3>1, <3>3, <3>4, <2>1, <2>2, <2>3
  <2>4. CASE ~(s.sig_procs > 0 /\ c = MM /\ src = ANY)
    <3>1. ASSUME "SENDING" \notin s.p_flags[c], NEW p \in CallersOf(s, c)
          PROVE  src \notin {ANY, p}
      <4>1. Acceptable = {}
        BY <3>1, <1>3 DEF Has
      <4>2. \E i \in DOMAIN q : q[i] = p
        BY <3>1 DEF KInv, Callers, Holds
      <4> QED
        BY <4>1, <4>2
    <3>2. "SENDING" \notin s.p_flags[c] /\ c \in Tasks /\ src = ANY => ~s.p_int_blocked[c]
      BY <1>3 DEF Has
    <3>3. Receives(s, Blocked, c, src)
      BY <3>1, <3>2, <2>2, <2>4 DEF Receives
    <3> QED
      BY <3>3, <2>1, <2>2, <2>4
  <2> QED
    BY <2>3, <2>4
<1> QED
  BY <1>1, <1>2, <1>3

(* The ways of BOTH and of SEND, if they are not refused.                  *)
CallsAndWaits(s, t, c, d) ==
  \E m : /\ IF WaitsFor(s, d, c) THEN Gets(s, m, c, d) ELSE Sends(s, m, c, d)
         /\ WaitsOn(m, t, c, d)

Answers(s, t, c, d) == IF WaitsFor(s, d, c) THEN Gets(s, t, c, d) ELSE Sends(s, t, c, d)

(* BOTH: the running c sends to d and waits for its answer.                *)
LEMMA SendRecKInv ==
  ASSUME NEW s, KInv(s), NEW c \in Users \cup Servers, s.proc_ptr = c,
         NEW d \in Tasks \cup Servers, d \in Tasks => c \in Servers
  PROVE  LET t == SendRec(s, c, d)
         IN /\ KInv(t) /\ Kept(s, t) /\ t.alive = s.alive
            /\ t = s \/ CallsAndWaits(s, t, c, d)
            /\ BestRuns(s) => BestRuns(t)
<1> DEFINE m == mini_send(s, c, d)
           t == SendRec(s, c, d)
<1>1. CASE Refused(s, c, d)
  <2>1. t = s
    BY <1>1 DEF SendRec
  <2> QED
    BY <2>1 DEF Kept
<1>2. CASE ~Refused(s, c, d)
  <2>1. t = mini_rec(m, c, d)
    BY <1>2 DEF SendRec
  <2>2. /\ c \in Proc /\ d \in Proc /\ d # ANY /\ c \notin Tasks
        /\ c \in Proc \cup {HARDWARE}
    BY ProcAssumption, MessagesAssumption DEF Proc
  <2>3. s.p_flags[c] = {} /\ ~isemptyp(s, c) /\ s \in KernelState
    BY <2>2, RunningRunnable DEF KInv, Scheduled
  <2>4. /\ KInv(m) /\ Kept(s, m) /\ m.alive = s.alive
        /\ \/ /\ m.p_flags[c] = {} /\ (m.proc_ptr \in Users => c \in Users)
              /\ \/ c \in Users /\ m.proc_ptr = c
                 \/ (BestRuns(s) => BestRuns(m)) /\ KernelRuns(m)
           \/ m.p_flags[c] = {"SENDING"} /\ BestRuns(m)
        /\ IF WaitsFor(s, d, c) THEN Gets(s, m, c, d) ELSE Sends(s, m, c, d)
    <3>1. CASE WaitsFor(s, d, c)
      <4>1. s.proc_ptr \in Users => d \notin Users
        BY ProcAssumption
      <4>2. /\ KInv(m) /\ Kept(s, m) /\ SameRest(s, m)
            /\ m.p_flags = [s.p_flags EXCEPT ![d] = @ \ {"RECEIVING"}]
            /\ m.proc_ptr = s.proc_ptr \/ (m.proc_ptr = d /\ d \in Tasks)
            /\ BestRuns(s) /\ KernelRuns(s) => BestRuns(m)
            /\ Gets(s, m, c, d)
        BY <2>2, <3>1, <4>1, Deliver
      <4> HIDE DEF m
      <4>3. m.p_flags[c] = {}
        BY <2>2, <2>3, <4>2 DEF KernelState
      <4>4. m.proc_ptr \in Users => c \in Users
        BY <4>2, ProcAssumption
      <4>5. \/ c \in Users /\ m.proc_ptr = c
            \/ (BestRuns(s) => BestRuns(m)) /\ KernelRuns(m)
        BY <4>2, ProcAssumption DEF KernelRuns
      <4> QED
        BY <3>1, <4>2, <4>3, <4>4, <4>5 DEF SameRest
    <3>2. CASE ~WaitsFor(s, d, c)
      <4>1. /\ KInv(m) /\ Kept(s, m) /\ Sends(s, m, c, d)
            /\ m.p_flags = [s.p_flags EXCEPT ![c] = {"SENDING"}]
            /\ BestRuns(m) /\ m.alive = s.alive
        BY <2>2, <3>2, BlockSend
      <4> HIDE DEF m
      <4>2. m.p_flags[c] = {"SENDING"}
        BY <2>2, <2>3, <4>1 DEF KernelState
      <4> QED
        BY <3>2, <4>1, <4>2
    <3> QED
      BY <3>1, <3>2
  <2> HIDE DEF m
  <2>5. ~isemptyp(m, c)
    BY <2>3, <2>4 DEF isemptyp
  <2>6. /\ KInv(t) /\ KeptBut(m, t, c) /\ t.alive = m.alive
        /\ Receives(m, t, c, d)
        /\ BestRuns(s) => BestRuns(t)
    <3>1. CASE m.p_flags[c] = {} /\ (m.proc_ptr \in Users => c \in Users)
      <4>1. \/ c \in Users /\ m.proc_ptr = c
            \/ (BestRuns(s) => BestRuns(m)) /\ KernelRuns(m)
        BY <3>1, <2>4
      <4> QED
        BY <4>1, <3>1, <2>1, <2>2, <2>4, <2>5, MiniRec
    <3>2. CASE m.p_flags[c] = {"SENDING"} /\ BestRuns(m)
      BY <3>2, <2>1, <2>2, <2>4, <2>5, MiniRec
    <3> QED
      BY <3>1, <3>2, <2>4
  <2>7. Kept(s, t)
    BY <2>2, <2>4, <2>6 DEF Kept, KeptBut
  <2>8. CallsAndWaits(s, t, c, d)
    <3>1. ASSUME "SENDING" \notin m.p_flags[c] PROVE d \notin CallersOf(m, c)
      <4>1. WaitsFor(s, d, c)
        BY <3>1, <2>2, <2>4 DEF Sends, FlagsBut
      <4>2. "SENDING" \notin m.p_flags[d]
        BY <4>1, <2>2, <2>4 DEF Gets, FlagsBut, WaitsFor, Waiting, Has
      <4> QED
        BY <4>2 DEF CallersOf
    <3>2. WaitsOn(m, t, c, d)
      BY <3>1, <2>2, <2>6 DEF Receives, Takes
    <3> QED
      BY <3>2, <2>4 DEF CallsAndWaits
  <2> QED
    BY <2>4, <2>6, <2>7, <2>8
<1> QED
  BY <1>1, <1>2

(* A server or a task sends an answer.                                     *)
LEMMA SendKInv ==
  ASSUME NEW s, KInv(s), NEW c \in Tasks \cup Servers, s.proc_ptr = c, NEW d \in Servers \cup Users,
         WaitsFor(s, d, c) \/ d \in Servers
  PROVE  LET t == Send(s, c, d)
         IN /\ KInv(t) /\ Kept(s, t) /\ t.alive = s.alive
            /\ t = s \/ Answers(s, t, c, d)
            /\ BestRuns(s) => BestRuns(t)
<1> DEFINE m == mini_send(s, c, d)
           t == Send(s, c, d)
<1>1. CASE Refused(s, c, d)
  <2>1. t = s
    BY <1>1 DEF Send
  <2> QED
    BY <2>1 DEF Kept
<1>2. CASE ~Refused(s, c, d)
  <2>1. t = m
    BY <1>2 DEF Send
  <2>2. /\ c \in Proc /\ d \in Proc /\ d \notin Tasks /\ c \notin Users
        /\ c \in Proc \cup {HARDWARE}
    BY ProcAssumption DEF Proc
  <2>3. CASE WaitsFor(s, d, c)
    <3>1. s.proc_ptr \in Users => d \notin Users
      BY <2>2
    <3>2. /\ KInv(m) /\ Kept(s, m) /\ SameRest(s, m) /\ Gets(s, m, c, d)
          /\ BestRuns(s) => BestRuns(m)
      BY <2>2, <2>3, <3>1, Deliver DEF KernelRuns
    <3> QED
      BY <2>1, <2>3, <3>2 DEF SameRest, Answers
  <2>4. CASE ~WaitsFor(s, d, c)
    <3>1. d \in Tasks \cup Servers
      BY <2>4
    <3>2. /\ KInv(m) /\ Kept(s, m) /\ BestRuns(m) /\ m.alive = s.alive
          /\ Sends(s, m, c, d)
      BY <2>2, <2>4, <3>1, BlockSend
    <3> QED
      BY <2>1, <2>4, <3>2 DEF Answers
  <2> QED
    BY <2>3, <2>4
<1> QED
  BY <1>1, <1>2

(* An interrupt for task c is a message to it, or is kept until it waits.  *)
Interrupts(s, t, c) ==
  /\ IF Waiting(s, c) /\ s.p_getfrom[c] \in {ANY, HARDWARE}
     THEN /\ FlagsBut(s, t, c, {}) /\ SourceBut(s, t, c, HARDWARE)
          /\ \A x \in Tasks : t.p_int_blocked[x] = IF x = c THEN FALSE ELSE s.p_int_blocked[x]
     ELSE /\ t.p_flags = s.p_flags /\ t.m_source = s.m_source
          /\ \A x \in Tasks : t.p_int_blocked[x] = IF x = c THEN TRUE ELSE s.p_int_blocked[x]
  /\ t.p_getfrom = s.p_getfrom /\ t.p_sendto = s.p_sendto /\ SameSignals(s, t)

(* The clock interrupts.                                                   *)
LEMMA InterruptKInv ==
  ASSUME NEW s, KInv(s)
  PROVE  LET t == interrupt(s, CLOCK)
         IN /\ KInv(t) /\ Kept(s, t) /\ t.alive = s.alive
            /\ Interrupts(s, t, CLOCK)
            /\ BestRuns(s) => BestRuns(t)
<1> DEFINE t == interrupt(s, CLOCK)
<1>1. Scheduled(s) /\ Callers(s) /\ Partners(s) /\ FlagsAgree(s) /\ s \in KernelState
  BY DEF KInv, Scheduled
<1>2. CLOCK \in Tasks /\ CLOCK \in Proc /\ SYSTASK \in Tasks /\ CLOCK # SYSTASK
  BY KernelAssumption DEF Proc
<1>3. CASE Waiting(s, CLOCK) /\ s.p_getfrom[CLOCK] \in {ANY, HARDWARE}
  <2> DEFINE ms == [s.m_source EXCEPT ![CLOCK] = HARDWARE]
             fl == [s.p_flags EXCEPT ![CLOCK] = @ \ {"RECEIVING"}]
             ib == [s.p_int_blocked EXCEPT ![CLOCK] = FALSE]
             v  == [s EXCEPT !.m_source = ms, !.p_flags = fl, !.p_int_blocked = ib]
             R  == Runnable(s)
  <2>1. t = ReadyInline(v, CLOCK)
    BY <1>3 DEF interrupt
  <2>2. "RECEIVING" \in s.p_flags[CLOCK] /\ "SENDING" \notin s.p_flags[CLOCK]
    BY <1>3 DEF Waiting, Has
  <2>3. /\ ms \in [Tasks -> Proc \cup {HARDWARE, NIL}]
        /\ \A x \in Tasks : ms[x] = IF x = CLOCK THEN HARDWARE ELSE s.m_source[x]
    BY <1>1 DEF KernelState
  <2>4. fl \in [Proc -> SUBSET Flags]
    BY <1>1 DEF KernelState
  <2>5. /\ ib \in [Tasks -> BOOLEAN] /\ ib[CLOCK] = FALSE
        /\ \A x \in Tasks \ {CLOCK} : ib[x] = s.p_int_blocked[x]
    BY <1>1, <1>2 DEF KernelState
  <2>6. /\ \A x \in Proc \ {CLOCK} : fl[x] = s.p_flags[x]
        /\ fl[CLOCK] = {}
    <3>1. /\ \A x \in Proc \ {CLOCK} : fl[x] = s.p_flags[x]
          /\ fl[CLOCK] = s.p_flags[CLOCK] \ {"RECEIVING"}
      BY <1>1, <1>2 DEF KernelState
    <3>2. s.p_flags[CLOCK] \subseteq {"SENDING", "RECEIVING"}
      BY <1>1, <1>2 DEF FlagsAgree
    <3> QED
      BY <3>1, <3>2, <2>2
  <2> HIDE DEF ms, fl, ib
  <2>7. v \in KernelState
    BY <1>1, <2>3, <2>4, <2>5 DEF KernelState
  <2>8. /\ v.queue = s.queue /\ v.proc_ptr = s.proc_ptr /\ v.bill_ptr = s.bill_ptr
        /\ v.sched_group = s.sched_group
        /\ v.p_flags = fl /\ v.p_getfrom = s.p_getfrom /\ v.p_sendto = s.p_sendto
        /\ v.p_callerq = s.p_callerq /\ v.p_int_blocked = ib /\ v.m_source = ms
        /\ v.p_pending = s.p_pending /\ v.p_pendcount = s.p_pendcount
        /\ v.sig_procs = s.sig_procs /\ v.alive = s.alive
    BY <1>1 DEF KernelState
  <2> HIDE DEF v
  <2>9. /\ Placed(v, R) /\ HeadRuns(v, R) /\ R \in SUBSET Proc /\ CLOCK \notin R
        /\ BestRuns(s) => Best(v, R)
    <3>1. /\ \A p : QueueOf(v, p) = QueueOf(s, p)
          /\ \A m : Members(v, R, m) = Members(s, R, m)
      BY <2>8, SameMembers
    <3> QED
      BY <3>1, <2>2, <2>8, <1>1 DEF Placed, HeadRuns, Best, BestRuns, Scheduled, Runnable
  <2> HIDE DEF R
  <2>10. /\ t \in KernelState /\ SameMessages(v, t)
         /\ Placed(t, R \cup {CLOCK}) /\ HeadRuns(t, R \cup {CLOCK})
         /\ Best(v, R) => Best(t, R \cup {CLOCK})
    BY <2>1, <2>7, <2>9, <1>2, ReadyInlinePlaced
  <2> HIDE DEF t
  <2>11. /\ t.p_flags = fl /\ t.p_getfrom = s.p_getfrom /\ t.p_sendto = s.p_sendto
         /\ t.p_callerq = s.p_callerq /\ t.p_int_blocked = ib /\ t.m_source = ms
         /\ t.p_pending = s.p_pending /\ t.p_pendcount = s.p_pendcount /\ t.alive = s.alive
         /\ t.sig_procs = s.sig_procs
    BY <2>8, <2>10 DEF SameMessages
  <2>12. Scheduled(t) /\ (BestRuns(s) => BestRuns(t))
    <3>1. CLOCK \notin Users
      BY <1>2, ProcAssumption
    <3>2. Runnable(t) = R \cup {CLOCK}
      BY <3>1, <1>2, <2>6, <2>11 DEF Runnable, isemptyp, R
    <3> QED
      BY <3>2, <2>9, <2>10 DEF Scheduled, BestRuns
  <2>13. Callers(t)
    <3>1. \A p \in Proc : "SENDING" \in t.p_flags[p] <=> "SENDING" \in s.p_flags[p]
      BY <2>2, <2>6, <2>11
    <3> QED
      BY <3>1, <2>11, <1>1, SameCallers
  <2>14. Partners(t)
    <3>1. \A p \in Proc : "SENDING" \in t.p_flags[p] <=> "SENDING" \in s.p_flags[p]
      BY <2>2, <2>6, <2>11
    <3> QED
      BY <3>1, <1>1, <1>2, <2>3, <2>5, <2>11 DEF Partners
  <2>15. FlagsAgree(t)
    BY <1>1, <1>2, <2>6, <2>11, ProcAssumption DEF FlagsAgree, Proc
  <2>16. Kept(s, t)
    BY <1>2, <2>2, <2>3, <2>6, <2>11 DEF Kept, Proc
  <2>17. Interrupts(s, t, CLOCK)
    BY <1>3, <2>3, <2>5, <2>6, <2>11 DEF Interrupts, FlagsBut, SourceBut, SameSignals
  <2> QED
    BY <2>11, <2>12, <2>13, <2>14, <2>15, <2>16, <2>17 DEF KInv, t
<1>4. CASE ~(Waiting(s, CLOCK) /\ s.p_getfrom[CLOCK] \in {ANY, HARDWARE})
  <2> DEFINE ib == [s.p_int_blocked EXCEPT ![CLOCK] = TRUE]
  <2>1. t = [s EXCEPT !.p_int_blocked = ib]
    BY <1>4 DEF interrupt
  <2>2. /\ ib \in [Tasks -> BOOLEAN] /\ ib[SYSTASK] = s.p_int_blocked[SYSTASK]
        /\ \A x \in Tasks : ib[x] = IF x = CLOCK THEN TRUE ELSE s.p_int_blocked[x]
    BY <1>1, <1>2 DEF KernelState
  <2> HIDE DEF t, ib
  <2>3. t \in KernelState
    BY <1>1, <2>1, <2>2 DEF KernelState
  <2>4. /\ t.queue = s.queue /\ t.proc_ptr = s.proc_ptr /\ t.bill_ptr = s.bill_ptr
        /\ t.sched_group = s.sched_group
        /\ t.p_flags = s.p_flags /\ t.p_getfrom = s.p_getfrom /\ t.p_sendto = s.p_sendto
        /\ t.p_callerq = s.p_callerq /\ t.p_int_blocked = ib /\ t.m_source = s.m_source
        /\ t.p_pending = s.p_pending /\ t.p_pendcount = s.p_pendcount
        /\ t.alive = s.alive /\ t.sig_procs = s.sig_procs
    BY <1>1, <2>1 DEF KernelState
  <2>5. Scheduled(t) /\ (BestRuns(s) => BestRuns(t))
    <3>1. Runnable(t) = Runnable(s)
      BY <2>4 DEF Runnable, isemptyp
    <3> QED
      BY <3>1, <1>1, <2>3, <2>4, StillScheduled
  <2>6. Callers(t)
    BY <1>1, <2>4, SameCallers
  <2>7. Partners(t) /\ FlagsAgree(t) /\ Kept(s, t)
    BY <1>1, <2>2, <2>4 DEF Partners, FlagsAgree, Kept
  <2>8. Interrupts(s, t, CLOCK)
    BY <1>4, <2>2, <2>4 DEF Interrupts, SameSignals
  <2> QED
    BY <2>4, <2>5, <2>6, <2>7, <2>8 DEF KInv, t
<1> QED
  BY <1>3, <1>4

(* u has one signal more.                                                  *)
Counts(s, t, u, sig) ==
  /\ \A x \in Users : t.p_pending[x] = IF x = u THEN s.p_pending[x] \cup {sig} ELSE s.p_pending[x]
  /\ \A x \in Users : t.p_pendcount[x] = IF x = u THEN s.p_pendcount[x] + 1 ELSE s.p_pendcount[x]
  /\ t.p_getfrom = s.p_getfrom /\ t.p_sendto = s.p_sendto
  /\ t.p_int_blocked = s.p_int_blocked /\ t.m_source = s.m_source

(* It is new, the first of several, or the first, of which MM may be told. *)
Signalled(s, t, u, sig) ==
  \/ sig \in s.p_pending[u] /\ t = s
  \/ /\ sig \notin s.p_pending[u] /\ Has(s, u, "PENDING")
     /\ Counts(s, t, u, sig) /\ t.p_flags = s.p_flags /\ t.sig_procs = s.sig_procs
  \/ /\ ~Has(s, u, "PENDING")
     /\ \E b : /\ KInv(b) /\ Counts(s, b, u, sig) /\ b.sig_procs = s.sig_procs + 1
               /\ FlagsBut(s, b, u, s.p_flags[u] \cup {"PENDING", "SIG_PENDING"})
               /\ IF Has(b, MM, "RECEIVING") /\ b.p_getfrom[MM] = ANY
                  THEN Informs(b, t) ELSE t = b

(* A task signals a user.                                                  *)
LEMMA CauseSigKInv ==
  ASSUME NEW s, KInv(s), NEW u \in Users, u \in s.alive, NEW sig \in Signals
  PROVE  LET t == cause_sig(s, u, sig)
         IN /\ KInv(t) /\ Kept(s, t) /\ t.alive = s.alive
            /\ {"SENDING", "RECEIVING"} \cap t.p_flags[u]
                 = {"SENDING", "RECEIVING"} \cap s.p_flags[u]
            /\ t.proc_ptr = s.proc_ptr \/ "SIG_PENDING" \in t.p_flags[u]
            /\ Signalled(s, t, u, sig)
            /\ BestRuns(s) => BestRuns(t)
<1> DEFINE pend == [s.p_pending EXCEPT ![u] = @ \cup {sig}]
           cnt == [s.p_pendcount EXCEPT ![u] = @ + 1]
           counted == [s EXCEPT !.p_pending = pend, !.p_pendcount = cnt]
           b == Block(counted, u, {"PENDING", "SIG_PENDING"})
           flagged == [b EXCEPT !.sig_procs = @ + 1]
           t == cause_sig(s, u, sig)
<1>1. Scheduled(s) /\ Callers(s) /\ Partners(s) /\ FlagsAgree(s) /\ s \in KernelState
  BY DEF KInv, Scheduled
<1>2. u \in Proc /\ u \notin Tasks /\ u \notin Servers
  BY ProcAssumption DEF Proc
<1>3. counted = [s EXCEPT !.p_pending[u] = @ \cup {sig}, !.p_pendcount[u] = @ + 1]
  BY <1>1 DEF KernelState
<1>4. /\ pend \in [Users -> SUBSET Signals] /\ cnt \in [Users -> Nat]
      /\ \A x \in Users : pend[x] = IF x = u THEN s.p_pending[x] \cup {sig} ELSE s.p_pending[x]
      /\ \A x \in Users : cnt[x] = IF x = u THEN s.p_pendcount[x] + 1 ELSE s.p_pendcount[x]
  <2>1. s.p_pending \in [Users -> SUBSET Signals] /\ s.p_pendcount \in [Users -> Nat]
    BY <1>1 DEF KernelState
  <2>2. pend \in [Users -> SUBSET Signals]
    BY <2>1
  <2>3. cnt \in [Users -> Nat]
    BY <2>1
  <2> QED
    BY <2>1, <2>2, <2>3
<1> HIDE DEF pend, cnt
<1>5. counted \in KernelState
  BY <1>1, <1>4 DEF KernelState
<1>6. /\ counted.queue = s.queue /\ counted.proc_ptr = s.proc_ptr
      /\ counted.bill_ptr = s.bill_ptr
      /\ counted.sched_group = s.sched_group /\ counted.p_flags = s.p_flags
      /\ counted.p_getfrom = s.p_getfrom /\ counted.p_sendto = s.p_sendto
      /\ counted.p_callerq = s.p_callerq /\ counted.p_int_blocked = s.p_int_blocked
      /\ counted.m_source = s.m_source /\ counted.p_pending = pend
      /\ counted.p_pendcount = cnt /\ counted.alive = s.alive
      /\ counted.sig_procs = s.sig_procs
  BY <1>1 DEF KernelState
<1>7. t = IF sig \in s.p_pending[u] THEN s
          ELSE IF Has(s, u, "PENDING") THEN counted
          ELSE IF Has(flagged, MM, "RECEIVING") /\ flagged.p_getfrom[MM] = ANY
               THEN inform(flagged) ELSE flagged
  BY <1>3 DEF cause_sig
<1> HIDE DEF counted
<1>8. Scheduled(counted) /\ (BestRuns(s) => BestRuns(counted))
  <2>1. Runnable(counted) = Runnable(s)
    BY <1>6 DEF Runnable, isemptyp
  <2> QED
    BY <2>1, <1>1, <1>5, <1>6, StillScheduled
<1>9. CASE sig \in s.p_pending[u]
  BY <1>7, <1>9 DEF Kept, Signalled
<1>10. CASE sig \notin s.p_pending[u] /\ Has(s, u, "PENDING")
  <2>1. t = counted
    BY <1>7, <1>10
  <2>2. Callers(counted) /\ Partners(counted)
    BY <1>1, <1>6, SameCallers DEF Partners
  <2>3. "SIG_PENDING" \in s.p_flags[u] /\ pend[u] # {}
    BY <1>1, <1>4, <1>10 DEF FlagsAgree, Has
  <2>4. FlagsAgree(counted)
    BY <1>1, <1>4, <1>6, <2>3 DEF FlagsAgree
  <2>5. Signalled(s, counted, u, sig)
    BY <1>4, <1>6, <1>10 DEF Signalled, Counts
  <2> QED
    BY <2>1, <2>2, <2>4, <2>5, <1>6, <1>8 DEF KInv, Kept
<1>11. CASE sig \notin s.p_pending[u] /\ ~Has(s, u, "PENDING")
  <2>1. ~isemptyp(counted, u)
    BY <1>2, <1>6 DEF isemptyp
  <2>2. /\ Scheduled(b) /\ SameButFlags(counted, b)
        /\ b.p_flags = [s.p_flags EXCEPT ![u] = @ \cup {"PENDING", "SIG_PENDING"}]
        /\ BestRuns(counted) => BestRuns(b)
    BY <2>1, <1>2, <1>6, <1>8, BlockScheduled DEF Flags
  <2> HIDE DEF b
  <2>3. b \in KernelState /\ b.sig_procs + 1 \in Int
    BY <2>2 DEF Scheduled, KernelState
  <2>4a. flagged \in KernelState
    BY <2>3 DEF KernelState
  <2>4. /\ flagged.queue = b.queue /\ flagged.proc_ptr = b.proc_ptr
        /\ flagged.bill_ptr = b.bill_ptr
        /\ flagged.sched_group = b.sched_group /\ flagged.p_flags = b.p_flags
        /\ flagged.p_getfrom = b.p_getfrom /\ flagged.p_sendto = b.p_sendto
        /\ flagged.p_callerq = b.p_callerq /\ flagged.p_int_blocked = b.p_int_blocked
        /\ flagged.m_source = b.m_source /\ flagged.p_pending = b.p_pending
        /\ flagged.p_pendcount = b.p_pendcount /\ flagged.alive = b.alive
        /\ flagged.sig_procs = b.sig_procs + 1
    BY <2>3 DEF KernelState
  <2> HIDE DEF flagged
  <2>5. Scheduled(flagged) /\ (BestRuns(s) => BestRuns(flagged))
    <3>1. Runnable(flagged) = Runnable(b)
      BY <2>4 DEF Runnable, isemptyp
    <3> QED
      BY <3>1, <1>8, <2>2, <2>4a, <2>4, StillScheduled
  <2>6. /\ flagged.p_getfrom = s.p_getfrom /\ flagged.p_sendto = s.p_sendto
        /\ flagged.p_callerq = s.p_callerq /\ flagged.p_int_blocked = s.p_int_blocked
        /\ flagged.m_source = s.m_source /\ flagged.p_pending = pend
        /\ flagged.p_pendcount = cnt /\ flagged.alive = s.alive
        /\ flagged.sig_procs = s.sig_procs + 1
    BY <2>2, <2>4, <1>6 DEF SameButFlags, SameRest
  <2>7. /\ \A x \in Proc \ {u} : flagged.p_flags[x] = s.p_flags[x]
        /\ flagged.p_flags[u] = s.p_flags[u] \cup {"PENDING", "SIG_PENDING"}
    <3>1. DOMAIN s.p_flags = Proc
      BY <1>1 DEF KernelState
    <3> QED
      BY <3>1, <2>2, <2>4, <1>2
  <2>8. /\ "SENDING" \in flagged.p_flags[u] <=> "SENDING" \in s.p_flags[u]
        /\ "RECEIVING" \in flagged.p_flags[u] <=> "RECEIVING" \in s.p_flags[u]
        /\ "SIG_PENDING" \in flagged.p_flags[u]
    BY <2>7
  <2>9. Callers(flagged)
    <3>1. \A p \in Proc : "SENDING" \in flagged.p_flags[p] <=> "SENDING" \in s.p_flags[p]
      BY <2>7, <2>8
    <3> QED
      BY <3>1, <1>1, <2>6, SameCallers
  <2>10. Partners(flagged)
    BY <1>1, <2>6, <2>7, <2>8 DEF Partners
  <2>11. FlagsAgree(flagged)
    <3>1. \A p \in Tasks \cup Servers : flagged.p_flags[p] = s.p_flags[p]
      BY <1>2, <2>7 DEF Proc
    <3>2. \A p \in Proc : "RECEIVING" \in flagged.p_flags[p] /\ flagged.p_getfrom[p] = ANY
                            => "SENDING" \notin flagged.p_flags[p]
      BY <1>1, <2>6, <2>7, <2>8 DEF FlagsAgree
    <3>3. ASSUME NEW x \in Users
          PROVE  /\ "PENDING" \in flagged.p_flags[x] => "SIG_PENDING" \in flagged.p_flags[x]
                 /\ "PENDING" \in flagged.p_flags[x] => flagged.p_pending[x] # {}
                 /\ flagged.p_pendcount[x] > 0 => "SIG_PENDING" \in flagged.p_flags[x]
                 /\ x \notin flagged.alive => flagged.p_flags[x] = {}
      <4>1. CASE x = u
        BY <4>1, <1>4, <2>6, <2>8
      <4>2. CASE x # u
        BY <4>2, <1>1, <1>4, <2>6, <2>7 DEF FlagsAgree, Proc
      <4> QED
        BY <4>1, <4>2
    <3> QED
      BY <3>1, <3>2, <3>3, <1>1 DEF FlagsAgree
  <2>12. KInv(flagged) /\ Kept(s, flagged)
    BY <1>2, <2>5, <2>6, <2>7, <2>9, <2>10, <2>11 DEF KInv, Kept, Proc
  <2>12a. /\ Counts(s, flagged, u, sig)
          /\ FlagsBut(s, flagged, u, s.p_flags[u] \cup {"PENDING", "SIG_PENDING"})
    BY <1>4, <2>6, <2>7 DEF Counts, FlagsBut
  <2>13. CASE Has(flagged, MM, "RECEIVING") /\ flagged.p_getfrom[MM] = ANY
    <3>1. t = inform(flagged)
      BY <1>7, <1>11, <2>13
    <3>2. /\ KInv(t) /\ Kept(flagged, t) /\ BestRuns(t) /\ t.alive = flagged.alive
          /\ t.p_flags[u] \in {flagged.p_flags[u], flagged.p_flags[u] \ {"PENDING"}}
          /\ Informs(flagged, t)
      BY <3>1, <2>12, <2>13, Inform DEF Has
    <3>3. KInv(t) /\ Kept(s, t) /\ t.alive = s.alive
      BY <3>2, <2>6, <2>12 DEF Kept
    <3>4. Signalled(s, t, u, sig)
      BY <3>2, <1>11, <2>6, <2>12, <2>12a, <2>13 DEF Signalled
    <3> QED
      BY <3>2, <3>3, <3>4, <2>8
  <2>14. CASE ~(Has(flagged, MM, "RECEIVING") /\ flagged.p_getfrom[MM] = ANY)
    <3>1. t = flagged
      BY <1>7, <1>11, <2>14
    <3>2. Signalled(s, flagged, u, sig)
      BY <1>11, <2>6, <2>12, <2>12a, <2>14 DEF Signalled
    <3> QED
      BY <3>1, <3>2, <2>5, <2>6, <2>8, <2>12
  <2> QED
    BY <2>13, <2>14
<1> QED
  BY <1>9, <1>10, <1>11
=============================================================================
