--------------------------- MODULE MonitorProofs ---------------------------
(***************************************************************************)
(* The monitors of the kitchen for any number of fillings and any size of  *)
(* the buffers.  The invariant says what the lock of a monitor keeps: a    *)
(* thread that changes a ring is alone there and need not wait.            *)
(***************************************************************************)
EXTENDS Monitors, SequenceLemmas, FiniteSetTheorems

(* Who is about to change a ring holds its lock, and finds what it needs.  *)
Locked == \A t \in Threads : pc[t] = "change" => lock[Monitor(t)] = t /\ ~MustWait(t)

(* How far each consumer has come with its pierog.                         *)
OnCourse(f) ==
  LET l == pc[<<"consumer", f>>]
  IN \/ wants[f] = f /\ meal[f] = << >> /\ l # "make"
     \/ wants[f] = Dough /\ Len(meal[f]) = 1 /\ l # "make"
     \/ wants[f] = Dough /\ Len(meal[f]) = 2 /\ l = "make"

Course == /\ \A i \in Ingredients : pc[<<"producer", i>>] # "make"
          /\ \A f \in Fillings : OnCourse(f)

(* in is count places behind out.                                          *)
Rings == \A i \in Ingredients : in[i] = (out[i] + count[i]) % N

MonInv == TypeOK /\ Locked /\ Course /\ Rings /\ NoSignalLost

-----------------------------------------------------------------------------
(* Threads and monitors.                                                   *)

LEMMA ThreadIs ==
  ASSUME NEW t \in Threads
  PROVE  \/ \E i \in Ingredients : t = <<"producer", i>> /\ t \in Producers /\ t \notin Consumers
                                   /\ t[2] = i
         \/ \E f \in Fillings : t = <<"consumer", f>> /\ t \in Consumers /\ t \notin Producers
                                /\ t[2] = f
BY DEF Threads, Producers, Consumers

LEMMA MonitorIs ==
  ASSUME TypeOK, NEW t \in Threads
  PROVE  Monitor(t) \in Ingredients
BY ThreadIs DEF TypeOK, Monitor, Ingredients

LEMMA FiniteThreads ==
  IsFiniteSet(Consumers)
<1> DEFINE g == [f \in Fillings |-> <<"consumer", f>>]
<1>1. g \in Surjection(Fillings, Consumers)
  BY DEF Surjection, Consumers
<1> QED
  BY <1>1, MonitorsAssumption, FS_Surjection

(* The consumers that are back for an item of i.                           *)
Back(i) == {t \in Consumers : Monitor(t) = i /\ pc[t] \in {"relock", "change"}}

LEMMA SomeConsumers ==
  ASSUME NEW S \in SUBSET Consumers
  PROVE  IsFiniteSet(S) /\ Cardinality(S) \in Nat
BY FiniteThreads, FS_Subset, FS_CardinalityType

LEMMA BackSize ==
  ASSUME NEW i
  PROVE  /\ IsFiniteSet(Back(i)) /\ Cardinality(Back(i)) \in Nat
         /\ IsFiniteSet(Back(i)') /\ Cardinality(Back(i)') \in Nat
<1>1. Back(i) \in SUBSET Consumers /\ Back(i)' \in SUBSET Consumers
  BY DEF Back
<1> QED
  BY <1>1, SomeConsumers

LEMMA InitMon == Init => MonInv
<1> SUFFICES ASSUME Init PROVE MonInv
  OBVIOUS
<1>1. TypeOK
  BY MonitorsAssumption DEF Init, TypeOK, Ingredients
<1>2. Locked
  BY DEF Init, Locked
<1>3. \A t \in Threads : pc[t] = "lock"
  BY DEF Init
<1>4. Course
  <2>1. \A i \in Ingredients : <<"producer", i>> \in Threads
    BY DEF Threads, Producers
  <2>2. \A f \in Fillings : <<"consumer", f>> \in Threads
    BY DEF Threads, Consumers
  <2> QED
    BY <2>1, <2>2, <1>3 DEF Init, Course, OnCourse
<1>5. Rings
  BY MonitorsAssumption, RingIndex DEF Init, Rings
<1>6. NoSignalLost
  BY <1>3 DEF NoSignalLost, NotEmpty, NotFull, Threads
<1> QED
  BY <1>1, <1>2, <1>4, <1>5, <1>6 DEF MonInv

-----------------------------------------------------------------------------
(* Steps that change no ring.                                              *)

(* A thread moves on, and its monitor stays the same.                      *)
Moves(t, to) ==
  /\ pc' = [pc EXCEPT ![t] = to]
  /\ UNCHANGED <<rings, item, meal, wants>>

LEMMA MovesKeeps ==
  ASSUME MonInv, NEW t \in Threads, NEW to \in {"wait", "relock", "change"}, Moves(t, to),
         pc[t] # "make", lock' \in [Ingredients -> Threads \cup {NoThread}]
  PROVE  TypeOK' /\ Course' /\ Rings' /\ \A u \in Threads : Monitor(u)' = Monitor(u) /\ MustWait(u)' = MustWait(u)
<1>1. TypeOK'
  BY DEF MonInv, TypeOK, Moves, rings
<1>2. Rings'
  BY DEF MonInv, Rings, Moves, rings
<1>3. \A u \in Threads : Monitor(u)' = Monitor(u) /\ MustWait(u)' = MustWait(u)
  BY DEF Moves, Monitor, MustWait, rings
<1>4. Course'
  <2>1. \A u \in Threads : pc'[u] = IF u = t THEN to ELSE pc[u]
    BY DEF MonInv, TypeOK, Moves
  <2>2. \A i \in Ingredients : <<"producer", i>> \in Threads
    BY DEF Threads, Producers
  <2>3. \A f \in Fillings : <<"consumer", f>> \in Threads
    BY DEF Threads, Consumers
  <2> QED
    BY <2>1, <2>2, <2>3 DEF MonInv, Course, OnCourse, Moves
<1> QED
  BY <1>1, <1>2, <1>3, <1>4

LEMMA LockOrWaitKeeps ==
  ASSUME MonInv, NEW t \in Threads, NEW from \in {"lock", "relock"}, LockOrWait(t, from)
  PROVE  MonInv'
<1> DEFINE m == Monitor(t)
<1>1. m \in Ingredients /\ pc[t] = from
  BY MonitorIs DEF MonInv, LockOrWait, Goto
<1>2. PICK to \in {"wait", "change"} :
        /\ Moves(t, to)
        /\ to = "wait" => MustWait(t) /\ lock' = lock
        /\ to = "change" => ~MustWait(t) /\ lock[m] = NoThread /\ lock' = [lock EXCEPT ![m] = t]
  BY DEF LockOrWait, Goto, Acquire, Moves
<1>3. lock' \in [Ingredients -> Threads \cup {NoThread}]
  BY <1>1, <1>2 DEF MonInv, TypeOK
<1>4. /\ TypeOK' /\ Course' /\ Rings'
      /\ \A u \in Threads : Monitor(u)' = Monitor(u) /\ MustWait(u)' = MustWait(u)
  BY <1>1, <1>2, <1>3, MovesKeeps
<1>5. \A u \in Threads : pc'[u] = IF u = t THEN to ELSE pc[u]
  BY <1>2 DEF MonInv, TypeOK, Moves
<1>6. Locked'
  <2> SUFFICES ASSUME NEW u \in Threads, pc'[u] = "change"
               PROVE  lock'[Monitor(u)'] = u /\ ~MustWait(u)'
    BY DEF Locked
  <2>1. CASE u = t
    <3>1. to = "change" /\ Monitor(t)' = m /\ MustWait(t)' = MustWait(t)
      BY <2>1, <1>4, <1>5
    <3>2. lock'[m] = t /\ ~MustWait(t)
      BY <3>1, <1>1, <1>2 DEF MonInv, TypeOK
    <3> QED
      BY <2>1, <3>1, <3>2
  <2>2. CASE u # t
    <3>1. lock[Monitor(u)] = u /\ ~MustWait(u) /\ u # NoThread
      BY <2>2, <1>5, MonitorsAssumption DEF MonInv, Locked
    <3>2. Monitor(u) \in Ingredients
      BY MonitorIs DEF MonInv
    <3>3. lock'[Monitor(u)] = lock[Monitor(u)]
      BY <3>1, <3>2, <1>1, <1>2 DEF MonInv, TypeOK
    <3> QED
      BY <3>1, <3>3, <1>4
  <2> QED
    BY <2>1, <2>2
<1>7. NoSignalLost'
  <2> SUFFICES ASSUME NEW i \in Ingredients
               PROVE  /\ NotEmpty(i)' # {} => count'[i] <= Cardinality(Back(i)')
                      /\ NotFull(i)' # {} => count'[i] = N
    BY DEF NoSignalLost, Back
  <2>1. count' = count /\ count[i] \in 0..N
    BY <1>2 DEF Moves, rings, MonInv, TypeOK
  <2>2. ASSUME NotEmpty(i)' # {} PROVE count'[i] <= Cardinality(Back(i)')
    <3>1. CASE t \in Consumers /\ i = m /\ to = "wait"
      <4>1. count[i] = 0
        BY <3>1, <1>2, ThreadIs DEF MustWait
      <4> QED
        BY <4>1, <2>1, BackSize, SMT
    <3>2. CASE ~(t \in Consumers /\ i = m /\ to = "wait")
      <4>1. NotEmpty(i) # {}
        BY <2>2, <3>2, <1>4, <1>5 DEF NotEmpty, Threads
      <4>2. Back(i) \in SUBSET Back(i)'
        BY <3>2, <1>1, <1>4, <1>5 DEF Back, Threads
      <4>3. IsFiniteSet(Back(i)') /\ Cardinality(Back(i)') \in Nat /\ Cardinality(Back(i)) \in Nat
        BY BackSize
      <4>4. Cardinality(Back(i)) <= Cardinality(Back(i)')
        BY <4>2, <4>3, FS_Subset
      <4>5. count[i] <= Cardinality(Back(i))
        BY <4>1 DEF MonInv, NoSignalLost, Back
      <4> QED
        BY <4>3, <4>4, <4>5, <2>1
    <3> QED
      BY <3>1, <3>2
  <2>3. ASSUME NotFull(i)' # {} PROVE count'[i] = N
    <3>1. CASE t \in Producers /\ i = m /\ to = "wait"
      BY <3>1, <1>2, <2>1 DEF MustWait
    <3>2. CASE ~(t \in Producers /\ i = m /\ to = "wait")
      <4>1. NotFull(i) # {}
        BY <2>3, <3>2, <1>4, <1>5 DEF NotFull, Threads
      <4> QED
        BY <4>1, <2>1 DEF MonInv, NoSignalLost
    <3> QED
      BY <3>1, <3>2
  <2> QED
    BY <2>2, <2>3
<1> QED
  BY <1>4, <1>6, <1>7 DEF MonInv

LEMMA WakeKeeps ==
  ASSUME MonInv, NEW t \in Threads, WakeSpuriously(t)
  PROVE  MonInv'
<1>1. Moves(t, "relock") /\ pc[t] = "wait" /\ lock' = lock
  BY DEF WakeSpuriously, Goto, Moves
<1>2. /\ TypeOK' /\ Course' /\ Rings'
      /\ \A u \in Threads : Monitor(u)' = Monitor(u) /\ MustWait(u)' = MustWait(u)
  BY <1>1, MovesKeeps DEF MonInv, TypeOK
<1>3. \A u \in Threads : pc'[u] = IF u = t THEN "relock" ELSE pc[u]
  BY <1>1 DEF MonInv, TypeOK, Moves
<1>4. Locked'
  BY <1>1, <1>2, <1>3 DEF MonInv, Locked
<1>5. NoSignalLost'
  <2> SUFFICES ASSUME NEW i \in Ingredients
               PROVE  /\ NotEmpty(i)' # {} => count'[i] <= Cardinality(Back(i)')
                      /\ NotFull(i)' # {} => count'[i] = N
    BY DEF NoSignalLost, Back
  <2>1. count' = count /\ count[i] \in 0..N
    BY <1>1 DEF Moves, rings, MonInv, TypeOK
  <2>2. ASSUME NotEmpty(i)' # {} PROVE count'[i] <= Cardinality(Back(i)')
    <3>1. NotEmpty(i) # {}
      BY <2>2, <1>2, <1>3 DEF NotEmpty, Threads
    <3>2. Back(i) \in SUBSET Back(i)'
      BY <1>2, <1>3 DEF Back, Threads
    <3>3. Cardinality(Back(i)) <= Cardinality(Back(i)')
      BY <3>2, BackSize, FS_Subset
    <3>4. count[i] <= Cardinality(Back(i))
      BY <3>1 DEF MonInv, NoSignalLost, Back
    <3> QED
      BY <3>3, <3>4, <2>1, BackSize
  <2>3. ASSUME NotFull(i)' # {} PROVE count'[i] = N
    <3>1. NotFull(i) # {}
      BY <2>3, <1>2, <1>3 DEF NotFull, Threads
    <3> QED
      BY <3>1, <2>1 DEF MonInv, NoSignalLost
  <2> QED
    BY <2>2, <2>3
<1> QED
  BY <1>2, <1>4, <1>5 DEF MonInv

LEMMA MakeKeeps ==
  ASSUME MonInv, NEW t \in Threads, make_pierogi(t)
  PROVE  MonInv'
<1>1. PICK f \in Fillings : t = <<"consumer", f>> /\ t \in Consumers /\ t \notin Producers /\ t[2] = f
  <2>1. pc[t] = "make"
    BY DEF make_pierogi, Goto
  <2> QED
    BY <2>1, ThreadIs DEF MonInv, Course
<1>2. /\ pc[t] = "make" /\ pc' = [pc EXCEPT ![t] = "lock"]
      /\ wants' = [wants EXCEPT ![f] = f] /\ meal' = [meal EXCEPT ![f] = << >>]
      /\ lock' = lock /\ count' = count /\ in' = in /\ out' = out /\ array' = array /\ item' = item
  BY <1>1 DEF make_pierogi, Goto, rings
<1>3. \A u \in Threads : pc'[u] = IF u = t THEN "lock" ELSE pc[u]
  BY <1>2 DEF MonInv, TypeOK
<1>4. /\ \A g \in Fillings : wants'[g] = IF g = f THEN f ELSE wants[g]
      /\ \A g \in Fillings : meal'[g] = IF g = f THEN << >> ELSE meal[g]
  BY <1>2 DEF MonInv, TypeOK
<1>5. \A u \in Threads : u # t => Monitor(u)' = Monitor(u) /\ MustWait(u)' = MustWait(u)
  <2> SUFFICES ASSUME NEW u \in Threads, u # t PROVE Monitor(u)' = Monitor(u) /\ MustWait(u)' = MustWait(u)
    OBVIOUS
  <2>1. Monitor(u)' = Monitor(u)
    BY <1>1, <1>4, ThreadIs DEF Monitor
  <2> QED
    BY <2>1, <1>2 DEF MustWait
<1>6. TypeOK'
  <2>1. f \in Ingredients /\ << >> \in Seq(0..Ids - 1)
    BY DEF Ingredients
  <2> QED
    BY <2>1, <1>2 DEF MonInv, TypeOK
<1>7. Locked'
  BY <1>2, <1>3, <1>5 DEF MonInv, Locked
<1>8. Course'
  <2>1. \A i \in Ingredients : <<"producer", i>> \in Threads /\ <<"producer", i>> # t
    BY <1>1 DEF Threads, Producers
  <2>2. \A g \in Fillings : <<"consumer", g>> \in Threads /\ (<<"consumer", g>> = t <=> g = f)
    BY <1>1 DEF Threads, Consumers
  <2> QED
    BY <2>1, <2>2, <1>3, <1>4 DEF MonInv, Course, OnCourse
<1>9. Rings'
  BY <1>2 DEF MonInv, Rings
<1>10. NoSignalLost'
  <2>1. \A i \in Ingredients : NotEmpty(i)' = NotEmpty(i) /\ NotFull(i)' = NotFull(i) /\ Back(i)' = Back(i)
    BY <1>1, <1>2, <1>3, <1>5 DEF NotEmpty, NotFull, Back, Threads
  <2> QED
    BY <2>1, <1>2 DEF MonInv, NoSignalLost, Back
<1> QED
  BY <1>6, <1>7, <1>8, <1>9, <1>10 DEF MonInv

-----------------------------------------------------------------------------
(* Steps that change a ring.                                               *)

(* The signal wakes one of those that wait, if there is one.               *)
Wakes(t, W, to, woken) ==
  /\ \A v \in Threads : pc'[v] = IF v = t THEN to ELSE IF v \in woken THEN "relock" ELSE pc[v]
  /\ W = {} \/ \E u \in W : woken = {u}

LEMMA SignalWakes ==
  ASSUME TypeOK, NEW t \in Threads, NEW W \in SUBSET Threads, NEW to,
         Signal(t, W, to), pc[t] # "wait", \A v \in W : pc[v] = "wait"
  PROVE  \E woken \in SUBSET W : Wakes(t, W, to, woken)
<1>1. CASE W = {} /\ pc' = [pc EXCEPT ![t] = to]
  <2>1. \A v \in Threads : pc'[v] = IF v = t THEN to ELSE IF v \in {} THEN "relock" ELSE pc[v]
    BY <1>1 DEF TypeOK
  <2> QED
    BY <1>1, <2>1 DEF Wakes
<1>2. CASE \E u \in W : pc' = [pc EXCEPT ![t] = to, ![u] = "relock"]
  <2>1. PICK u \in W : pc' = [pc EXCEPT ![t] = to, ![u] = "relock"]
    BY <1>2
  <2>2. u # t /\ u \in Threads /\ {u} \in SUBSET W
    BY <2>1
  <2>3. \A v \in Threads : pc'[v] = IF v = t THEN to ELSE IF v \in {u} THEN "relock" ELSE pc[v]
    BY <2>1, <2>2 DEF TypeOK
  <2> QED
    BY <2>1, <2>2, <2>3 DEF Wakes
<1> QED
  BY <1>1, <1>2 DEF Signal

(* A step of t at monitor i that gives back the lock, moves t to a place   *)
(* outside and changes the count of i alone, keeps the locks right.        *)
LEMMA ReleaseKeeps ==
  ASSUME MonInv, NEW t \in Threads, pc[t] = "change", NEW i, i = Monitor(t),
         lock' = [lock EXCEPT ![i] = NoThread],
         \A v \in Threads : pc'[v] = "change" => v # t /\ pc[v] = "change",
         \A v \in Threads : v # t => Monitor(v)' = Monitor(v),
         \A j \in Ingredients : j # i => count'[j] = count[j]
  PROVE  Locked'
<1> SUFFICES ASSUME NEW v \in Threads, pc'[v] = "change"
             PROVE  lock'[Monitor(v)'] = v /\ ~MustWait(v)'
  BY DEF Locked
<1>1. v # t /\ pc[v] = "change" /\ Monitor(v)' = Monitor(v)
  OBVIOUS
<1>2. i \in Ingredients /\ Monitor(v) \in Ingredients /\ lock[i] = t /\ lock[Monitor(v)] = v /\ ~MustWait(v)
  BY <1>1, MonitorIs DEF MonInv, Locked
<1>3. Monitor(v) # i
  BY <1>1, <1>2
<1>4. lock'[Monitor(v)] = v
  BY <1>2, <1>3 DEF MonInv, TypeOK
<1>5. MustWait(v)' = MustWait(v)
  BY <1>1, <1>2, <1>3 DEF MustWait
<1> QED
  BY <1>1, <1>2, <1>4, <1>5

LEMMA PutKeeps ==
  ASSUME MonInv, NEW t \in Threads, PutItem(t)
  PROVE  MonInv'
<1>1. PICK i \in Ingredients : t = <<"producer", i>> /\ t \in Producers /\ t \notin Consumers /\ t[2] = i
  BY ThreadIs DEF PutItem
<1>2. Monitor(t) = i
  BY <1>1 DEF Monitor
<1>3. /\ pc[t] = "change"
      /\ array' = [array EXCEPT ![i][in[i]] = item[i]]
      /\ in' = [in EXCEPT ![i] = (@ + 1) % N]
      /\ count' = [count EXCEPT ![i] = @ + 1]
      /\ Signal(t, NotEmpty(i), "lock")
      /\ lock' = [lock EXCEPT ![i] = NoThread]
      /\ item' = [item EXCEPT ![i] = (@ + 1) % Ids]
      /\ out' = out /\ meal' = meal /\ wants' = wants
  BY <1>2 DEF PutItem, Release
<1>4. PICK woken \in SUBSET NotEmpty(i) :
         /\ \A v \in Threads : pc'[v] = IF v = t THEN "lock" ELSE IF v \in woken THEN "relock" ELSE pc[v]
         /\ NotEmpty(i) = {} \/ \E u \in NotEmpty(i) : woken = {u}
  <2>1. NotEmpty(i) \in SUBSET Threads /\ \A v \in NotEmpty(i) : pc[v] = "wait"
    BY DEF NotEmpty, Threads
  <2>2. TypeOK /\ pc[t] # "wait"
    BY <1>3 DEF MonInv
  <2>3. \E woken \in SUBSET NotEmpty(i) : Wakes(t, NotEmpty(i), "lock", woken)
    BY <1>3, <2>1, <2>2, SignalWakes
  <2> QED
    BY <2>3 DEF Wakes
<1>5. \A u \in woken : u \in Consumers /\ pc[u] = "wait" /\ Monitor(u) = i /\ u # t
  BY <1>1 DEF NotEmpty
<1>6. \A v \in Threads : Monitor(v)' = Monitor(v)
  BY <1>3 DEF Monitor
<1>7. count[i] \in 0..N - 1
  BY <1>1, <1>2, <1>3, MonitorsAssumption DEF MonInv, Locked, MustWait, TypeOK
<1>8. \A j \in Ingredients : count'[j] = IF j = i THEN count[i] + 1 ELSE count[j]
  BY <1>3 DEF MonInv, TypeOK
<1>9. TypeOK'
  <2>1. (in[i] + 1) % N \in 0..N - 1 /\ (item[i] + 1) % Ids \in 0..Ids - 1
    BY MonitorsAssumption, RingNext DEF MonInv, TypeOK
  <2>2. /\ array' \in [Ingredients -> [0..N - 1 -> 0..Ids - 1]]
        /\ in' \in [Ingredients -> 0..N - 1] /\ item' \in [Ingredients -> 0..Ids - 1]
        /\ lock' \in [Ingredients -> Threads \cup {NoThread}]
    BY <1>3, <2>1 DEF MonInv, TypeOK
  <2>3. count' \in [Ingredients -> 0..N]
    <3>1. count[i] + 1 \in 0..N
      BY <1>7, MonitorsAssumption
    <3> QED
      BY <3>1, <1>3 DEF MonInv, TypeOK
  <2>4. pc' \in [Threads -> {"lock", "wait", "relock", "change", "make"}]
    BY <1>3 DEF MonInv, TypeOK, Signal, NotEmpty
  <2> QED
    BY <2>2, <2>3, <2>4, <1>3 DEF MonInv, TypeOK
<1>10. Locked'
  <2>1. \A v \in Threads : pc'[v] = "change" => v # t /\ pc[v] = "change"
    BY <1>4
  <2>2. /\ \A v \in Threads : v # t => Monitor(v)' = Monitor(v)
        /\ \A j \in Ingredients : j # i => count'[j] = count[j]
    BY <1>6, <1>8
  <2> QED
    BY <2>1, <2>2, <1>2, <1>3, ReleaseKeeps
<1>11. Course'
  <2>1. \A j \in Ingredients : <<"producer", j>> \in Threads /\ <<"producer", j>> \notin Consumers
    BY DEF Threads, Producers, Consumers
  <2>2. \A g \in Fillings : <<"consumer", g>> \in Threads /\ <<"consumer", g>> # t
    BY <1>1 DEF Threads, Consumers
  <2> QED
    BY <2>1, <2>2, <1>3, <1>4, <1>5 DEF MonInv, Course, OnCourse
<1>12. Rings'
  <2> SUFFICES ASSUME NEW j \in Ingredients PROVE in'[j] = (out'[j] + count'[j]) % N
    BY DEF Rings
  <2>1. CASE j = i
    <3>1. in'[i] = (in[i] + 1) % N /\ in[i] = (out[i] + count[i]) % N /\ out[i] \in 0..N - 1
      BY <1>3 DEF MonInv, TypeOK, Rings
    <3>2. (((out[i] + count[i]) % N) + 1) % N = (out[i] + (count[i] + 1)) % N
      BY <1>7, <3>1, MonitorsAssumption, RingNext
    <3> QED
      BY <2>1, <1>3, <1>8, <3>1, <3>2
  <2>2. CASE j # i
    BY <2>2, <1>3, <1>8 DEF MonInv, TypeOK, Rings
  <2> QED
    BY <2>1, <2>2
<1>13. NoSignalLost'
  <2> SUFFICES ASSUME NEW j \in Ingredients
               PROVE  /\ NotEmpty(j)' # {} => count'[j] <= Cardinality(Back(j)')
                      /\ NotFull(j)' # {} => count'[j] = N
    BY DEF NoSignalLost, Back
  <2>1. CASE j # i
    <3>1. NotEmpty(j)' = NotEmpty(j) /\ NotFull(j)' = NotFull(j) /\ Back(j)' = Back(j)
      BY <2>1, <1>2, <1>3, <1>4, <1>5, <1>6 DEF NotEmpty, NotFull, Back, Threads
    <3> QED
      BY <2>1, <3>1, <1>8 DEF MonInv, NoSignalLost, Back
  <2>2. NotFull(i)' = {}
    BY <1>1, <1>4, <1>6, ThreadIs DEF NotFull, Monitor, Threads
  <2>3. ASSUME NotEmpty(i)' # {} PROVE count'[i] <= Cardinality(Back(i)')
    <3>1. NotEmpty(i) # {}
      BY <2>3, <1>1, <1>4, <1>6 DEF NotEmpty, Threads
    <3>2. PICK u \in NotEmpty(i) : woken = {u}
      BY <3>1, <1>4
    <3>3. u \notin Back(i) /\ Back(i)' = Back(i) \cup {u}
      BY <3>2, <1>1, <1>4, <1>5, <1>6 DEF Back, Threads
    <3>4. Cardinality(Back(i)') = Cardinality(Back(i)) + 1
      BY <3>3, BackSize, FS_AddElement
    <3>5. count[i] <= Cardinality(Back(i))
      BY <3>1 DEF MonInv, NoSignalLost, Back
    <3> QED
      BY <3>4, <3>5, <1>7, <1>8, BackSize
  <2> QED
    BY <2>1, <2>2, <2>3
<1> QED
  BY <1>9, <1>10, <1>11, <1>12, <1>13 DEF MonInv

LEMMA GetKeeps ==
  ASSUME MonInv, NEW t \in Threads, GetItem(t)
  PROVE  MonInv'
<1>1. PICK f \in Fillings : t = <<"consumer", f>> /\ t \in Consumers /\ t \notin Producers /\ t[2] = f
  BY ThreadIs DEF GetItem
<1>0. PICK i \in Ingredients : wants[f] = i
  BY DEF MonInv, TypeOK
<1> DEFINE to == IF i = Dough THEN "make" ELSE "lock"
<1>2. Monitor(t) = i /\ wants[f] = i
  BY <1>0, <1>1 DEF Monitor
<1>3. /\ pc[t] = "change"
      /\ meal' = [meal EXCEPT ![f] = Append(@, array[i][out[i]])]
      /\ out' = [out EXCEPT ![i] = (@ + 1) % N]
      /\ count' = [count EXCEPT ![i] = @ - 1]
      /\ Signal(t, NotFull(i), to)
      /\ lock' = [lock EXCEPT ![i] = NoThread]
      /\ wants' = [wants EXCEPT ![f] = Dough]
      /\ array' = array /\ in' = in /\ item' = item
  BY <1>1, <1>2 DEF GetItem, Release
<1>4. PICK woken \in SUBSET NotFull(i) :
         /\ \A v \in Threads : pc'[v] = IF v = t THEN to ELSE IF v \in woken THEN "relock" ELSE pc[v]
         /\ NotFull(i) = {} \/ \E u \in NotFull(i) : woken = {u}
  <2>1. NotFull(i) \in SUBSET Threads /\ \A v \in NotFull(i) : pc[v] = "wait"
    BY DEF NotFull, Threads
  <2>2. TypeOK /\ pc[t] # "wait"
    BY <1>3 DEF MonInv
  <2> HIDE DEF to
  <2>3. \E woken \in SUBSET NotFull(i) : Wakes(t, NotFull(i), to, woken)
    BY <1>3, <2>1, <2>2, SignalWakes
  <2> QED
    BY <2>3 DEF Wakes
<1>5. \A u \in woken : u \in Producers /\ pc[u] = "wait" /\ Monitor(u) = i /\ u # t
  BY <1>1 DEF NotFull
<1>6. to \in {"make", "lock"} /\ to = IF i = Dough THEN "make" ELSE "lock"
  OBVIOUS
<1> HIDE DEF to
<1>7. \A g \in Fillings : /\ wants'[g] = IF g = f THEN Dough ELSE wants[g]
                          /\ meal'[g] = IF g = f THEN Append(meal[f], array[i][out[i]]) ELSE meal[g]
  BY <1>3 DEF MonInv, TypeOK
<1>8. \A v \in Threads : v # t => Monitor(v)' = Monitor(v)
  BY <1>1, <1>7, ThreadIs DEF Monitor
<1>9. count[i] \in 1..N
  BY <1>1, <1>2, <1>3, MonitorsAssumption DEF MonInv, Locked, MustWait, TypeOK
<1>10. \A j \in Ingredients : count'[j] = IF j = i THEN count[i] - 1 ELSE count[j]
  BY <1>2, <1>3 DEF MonInv, TypeOK
<1>11. TypeOK'
  <2>1. (out[i] + 1) % N \in 0..N - 1
    BY <1>2, MonitorsAssumption, RingNext DEF MonInv, TypeOK
  <2>2. out' \in [Ingredients -> 0..N - 1] /\ lock' \in [Ingredients -> Threads \cup {NoThread}]
    BY <1>3, <2>1 DEF MonInv, TypeOK
  <2>3. count' \in [Ingredients -> 0..N]
    <3>1. count[i] - 1 \in 0..N
      BY <1>9, MonitorsAssumption
    <3> QED
      BY <3>1, <1>3 DEF MonInv, TypeOK
  <2>4. pc' \in [Threads -> {"lock", "wait", "relock", "change", "make"}]
    BY <1>3, <1>6 DEF MonInv, TypeOK, Signal, NotFull
  <2>5. array[i][out[i]] \in 0..Ids - 1
    BY <1>2 DEF MonInv, TypeOK
  <2>6. Append(meal[f], array[i][out[i]]) \in Seq(0..Ids - 1)
    BY <2>5, AppendProperties DEF MonInv, TypeOK
  <2>7. meal' \in [Fillings -> Seq(0..Ids - 1)] /\ wants' \in [Fillings -> Ingredients]
    BY <1>3, <2>6 DEF MonInv, TypeOK, Ingredients
  <2> QED
    BY <2>2, <2>3, <2>4, <2>7, <1>3 DEF MonInv, TypeOK
<1>12. Locked'
  <2>1. \A v \in Threads : pc'[v] = "change" => v # t /\ pc[v] = "change"
    BY <1>4, <1>6
  <2>2. \A j \in Ingredients : j # i => count'[j] = count[j]
    BY <1>10
  <2> QED
    BY <2>1, <2>2, <1>2, <1>3, <1>8, ReleaseKeeps
<1>13. Course'
  <2>1. \A j \in Ingredients : <<"producer", j>> \in Threads /\ <<"producer", j>> # t
    BY <1>1 DEF Threads, Producers
  <2>2. \A g \in Fillings : <<"consumer", g>> \in Threads /\ (<<"consumer", g>> = t <=> g = f)
                            /\ <<"consumer", g>> \notin Producers
    BY <1>1 DEF Threads, Consumers, Producers
  <2>3. \A j \in Ingredients : pc'[<<"producer", j>>] # "make"
    BY <2>1, <1>4 DEF MonInv, Course
  <2>4. ASSUME NEW g \in Fillings, g # f PROVE OnCourse(g)'
    <3>1. wants'[g] = wants[g] /\ meal'[g] = meal[g] /\ pc'[<<"consumer", g>>] = pc[<<"consumer", g>>]
      BY <2>2, <2>4, <1>4, <1>5, <1>7
    <3> QED
      BY <3>1 DEF MonInv, Course, OnCourse
  <2>5. OnCourse(f)'
    <3>1. IF i = Dough THEN Len(meal[f]) = 1 ELSE Len(meal[f]) = 0
      BY <1>1, <1>2, <1>3, MonitorsAssumption DEF MonInv, Course, OnCourse
    <3>2. Len(Append(meal[f], array[i][out[i]])) = Len(meal[f]) + 1
      BY DEF MonInv, TypeOK
    <3>3. wants'[f] = Dough /\ Len(meal'[f]) = Len(meal[f]) + 1 /\ pc'[<<"consumer", f>>] = to
      BY <3>2, <1>1, <1>4, <1>7
    <3>4. IF to = "make" THEN Len(meal'[f]) = 2 ELSE Len(meal'[f]) = 1
      <4>1. CASE i = Dough
        <5>1. Len(meal[f]) = 1
          BY <4>1, <3>1
        <5>2. Len(meal'[f]) = 2
          BY <5>1, <3>3
        <5>3. to = "make"
          BY <4>1, <1>6
        <5> QED
          BY <5>2, <5>3
      <4>2. CASE i # Dough
        <5>1. Len(meal[f]) = 0
          BY <4>2, <3>1
        <5> QED
          BY <5>1, <4>2, <3>3, <1>6
      <4> QED
        BY <4>1, <4>2
    <3> QED
      BY <3>3, <3>4 DEF OnCourse
  <2> QED
    BY <2>3, <2>4, <2>5 DEF Course
<1>14. Rings'
  <2> SUFFICES ASSUME NEW j \in Ingredients PROVE in'[j] = (out'[j] + count'[j]) % N
    BY DEF Rings
  <2>1. CASE j = i
    <3>1. out'[i] = (out[i] + 1) % N /\ in[i] = (out[i] + count[i]) % N /\ out[i] \in 0..N - 1
      BY <1>2, <1>3 DEF MonInv, TypeOK, Rings
    <3>2. (((out[i] + 1) % N) + (count[i] - 1)) % N = (out[i] + count[i]) % N
      BY <1>9, <3>1, MonitorsAssumption, RingNext
    <3> QED
      BY <2>1, <1>3, <1>10, <3>1, <3>2
  <2>2. CASE j # i
    BY <2>2, <1>2, <1>3, <1>10 DEF MonInv, TypeOK, Rings
  <2> QED
    BY <2>1, <2>2
<1>15. NoSignalLost'
  <2> SUFFICES ASSUME NEW j \in Ingredients
               PROVE  /\ NotEmpty(j)' # {} => count'[j] <= Cardinality(Back(j)')
                      /\ NotFull(j)' # {} => count'[j] = N
    BY DEF NoSignalLost, Back
  <2>1. CASE j # i
    <3>1. NotEmpty(j)' = NotEmpty(j) /\ NotFull(j)' = NotFull(j) /\ Back(j)' = Back(j)
      BY <2>1, <1>1, <1>2, <1>3, <1>4, <1>5, <1>6, <1>8 DEF NotEmpty, NotFull, Back, Threads
    <3> QED
      BY <2>1, <3>1, <1>10 DEF MonInv, NoSignalLost, Back
  <2>2. NotFull(i)' = {}
    <3>1. ASSUME NEW v \in NotFull(i)' PROVE FALSE
      <4>1. v \in Producers /\ v \in Threads /\ v # t /\ pc'[v] = "wait" /\ Monitor(v) = i
        BY <3>1, <1>1, <1>8 DEF NotFull, Threads
      <4>2. v \notin woken /\ v \in NotFull(i)
        BY <4>1, <1>4 DEF NotFull
      <4>3. PICK u \in NotFull(i) : woken = {u}
        BY <4>2, <1>4
      <4>4. u \in Producers /\ u \in Threads /\ Monitor(u) = i
        BY <4>3 DEF NotFull, Threads
      <4>5. u = v
        BY <4>1, <4>4, ThreadIs DEF Monitor
      <4> QED
        BY <4>2, <4>3, <4>5
    <3> QED
      BY <3>1
  <2>3. ASSUME NotEmpty(i)' # {} PROVE count'[i] <= Cardinality(Back(i)')
    <3>1. NotEmpty(i) # {}
      <4>1. PICK v \in NotEmpty(i)' : TRUE
        BY <2>3
      <4>2. v \in Consumers /\ v \in Threads /\ Monitor(v)' = i /\ pc'[v] = "wait"
        BY <4>1 DEF NotEmpty, Threads
      <4>3. v # t /\ pc[v] = "wait"
        BY <4>2, <1>4, <1>6
      <4> QED
        BY <4>2, <4>3, <1>8 DEF NotEmpty
    <3>2. t \in Back(i) /\ Back(i)' = Back(i) \ {t}
      <4>1. \A v \in Consumers : v # t => pc'[v] = pc[v] /\ Monitor(v)' = Monitor(v)
        <5>1. \A v \in Consumers : v \in Threads /\ v \notin woken
          BY <1>5, ThreadIs DEF Threads
        <5> QED
          BY <5>1, <1>4, <1>8
      <4>2. pc'[t] \notin {"relock", "change"}
        BY <1>4, <1>6
      <4> QED
        BY <4>1, <4>2, <1>1, <1>2, <1>3 DEF Back
    <3>3. Cardinality(Back(i)') = Cardinality(Back(i)) - 1
      BY <3>2, BackSize, FS_RemoveElement
    <3>4. count[i] <= Cardinality(Back(i))
      BY <3>1, <1>2 DEF MonInv, NoSignalLost, Back
    <3> QED
      BY <3>3, <3>4, <1>2, <1>9, <1>10, BackSize
  <2> QED
    BY <2>1, <2>2, <2>3
<1> QED
  BY <1>11, <1>12, <1>13, <1>14, <1>15 DEF MonInv

-----------------------------------------------------------------------------
(* The invariant, and the kitchen behind the monitors.                     *)

LEMMA MonStep == MonInv /\ [Next]_vars => MonInv'
<1> SUFFICES ASSUME MonInv, [Next]_vars PROVE MonInv'
  OBVIOUS
<1>1. ASSUME NEW t \in Threads, Lock(t) PROVE MonInv'
  BY <1>1, LockOrWaitKeeps DEF Lock
<1>2. ASSUME NEW t \in Threads, Relock(t) PROVE MonInv'
  BY <1>2, LockOrWaitKeeps DEF Relock
<1>3. ASSUME NEW t \in Threads, PutItem(t) PROVE MonInv'
  BY <1>3, PutKeeps
<1>4. ASSUME NEW t \in Threads, GetItem(t) PROVE MonInv'
  BY <1>4, GetKeeps
<1>5. ASSUME NEW t \in Threads, make_pierogi(t) PROVE MonInv'
  BY <1>5, MakeKeeps
<1>6. ASSUME NEW t \in Threads, WakeSpuriously(t) PROVE MonInv'
  BY <1>6, WakeKeeps
<1>7. CASE UNCHANGED vars
  <2>1. /\ lock' = lock /\ array' = array /\ in' = in /\ out' = out /\ count' = count
        /\ item' = item /\ meal' = meal /\ pc' = pc /\ wants' = wants
    BY <1>7 DEF vars, rings
  <2>2. /\ \A t \in Threads : Monitor(t)' = Monitor(t) /\ MustWait(t)' = MustWait(t)
        /\ \A i \in Ingredients : NotEmpty(i)' = NotEmpty(i) /\ NotFull(i)' = NotFull(i) /\ Back(i)' = Back(i)
    BY <2>1 DEF Monitor, MustWait, NotEmpty, NotFull, Back
  <2>3. TypeOK' /\ Course' /\ Rings'
    BY <2>1 DEF MonInv, TypeOK, Course, OnCourse, Rings
  <2>4. Locked' /\ NoSignalLost'
    BY <2>1, <2>2 DEF MonInv, Locked, NoSignalLost, Back
  <2> QED
    BY <2>3, <2>4 DEF MonInv
<1> QED
  BY <1>1, <1>2, <1>3, <1>4, <1>5, <1>6, <1>7 DEF Next, Thread

LEMMA MonInvariant == Spec => []MonInv
BY InitMon, MonStep, PTL DEF Spec

(* The indices, counts and places in the code keep their ranges.           *)
THEOREM MonitorTypes == Spec => []TypeOK
<1>1. MonInv => TypeOK
  BY DEF MonInv
<1> QED
  BY <1>1, MonInvariant, PTL

(* A monitor with consumers waiting has somebody back for each item in it, *)
(* and one whose producer waits is full, for any number of consumers that  *)
(* share it, any choice of the woken and any spurious wake-up: one         *)
(* pthread_cond_signal after each change is enough.                        *)
THEOREM SignalsReach == Spec => []NoSignalLost
<1>1. MonInv => NoSignalLost
  BY DEF MonInv
<1> QED
  BY <1>1, MonInvariant, PTL

(* The items in each buffer, as Kitchen has them.                          *)
Stock == [i \in Ingredients |-> Ring(array[i], N, out[i], count[i])]

LEMMA StockItems ==
  ASSUME MonInv, NEW i \in Ingredients
  PROVE  IsRing(Stock[i], 0..Ids - 1, array[i], N, out[i], count[i])
<1>1. array[i] \in [0..N - 1 -> 0..Ids - 1] /\ out[i] \in 0..N - 1 /\ count[i] \in 0..N
  BY DEF MonInv, TypeOK
<1>2. IsRing(Ring(array[i], N, out[i], count[i]), 0..Ids - 1, array[i], N, out[i], count[i])
  BY <1>1, MonitorsAssumption, RingItems
<1> QED
  BY <1>2 DEF Stock

LEMMA KitchenInit == Init => Kitchen!Init
<1> SUFFICES ASSUME Init PROVE Kitchen!Init
  OBVIOUS
<1>1. MonInv
  BY InitMon
<1>2. ASSUME NEW i \in Ingredients PROVE Stock[i] = << >>
  BY <1>1, StockItems, EmptySeq DEF IsRing, Init
<1>3. Stock = [i \in Ingredients |-> << >>]
  BY <1>2 DEF Stock
<1> QED
  BY <1>3 DEF Init, Kitchen!Init, Kitchen!Ingredients, Ingredients, Stock, Ring

LEMMA PutIsPut ==
  ASSUME MonInv, NEW t \in Threads, PutItem(t)
  PROVE  \E i \in Ingredients : Kitchen!Put(i)
<1>1. PICK i \in Ingredients : Monitor(t) = i /\ t \in Producers
  BY ThreadIs DEF PutItem, Monitor
<1>2. /\ array' = [array EXCEPT ![i][in[i]] = item[i]]
      /\ count' = [count EXCEPT ![i] = @ + 1]
      /\ item' = [item EXCEPT ![i] = (@ + 1) % Ids]
      /\ out' = out /\ meal' = meal /\ pc[t] = "change"
  BY <1>1 DEF PutItem
<1>a. count[i] # N
  BY <1>1, <1>2 DEF MonInv, Locked, MustWait
<1>3. /\ array[i] \in [0..N - 1 -> 0..Ids - 1] /\ out[i] \in 0..N - 1 /\ item[i] \in 0..Ids - 1
      /\ count[i] \in 0..N - 1 /\ in[i] = (out[i] + count[i]) % N
  BY <1>a, MonitorsAssumption DEF MonInv, TypeOK, Rings
<1>4. Len(Stock[i]) < N
  BY <1>3, StockItems, MonitorsAssumption DEF IsRing
<1>5. Stock' = [Stock EXCEPT ![i] = Append(@, item[i])]
  <2>1. Ring(array'[i], N, out[i], count[i] + 1) = Append(Ring(array[i], N, out[i], count[i]), item[i])
    <3>0. array'[i] = [array[i] EXCEPT ![in[i]] = item[i]]
      BY <1>2 DEF MonInv, TypeOK
    <3>1. PICK a, b, o, n, x, w, S :
             /\ a = array[i] /\ b = array'[i] /\ o = out[i] /\ n = count[i]
             /\ x = item[i] /\ w = in[i] /\ S = 0..Ids - 1
      OBVIOUS
    <3>2. Replaces(b, a, w, x)
      BY <3>0, <3>1 DEF Replaces
    <3>3. /\ a \in [0..N - 1 -> S] /\ o \in 0..N - 1 /\ x \in S
          /\ n \in 0..N - 1 /\ N \in Nat \ {0} /\ w = (o + n) % N
      BY <3>1, <1>3, MonitorsAssumption
    <3>4. PutBehind(S, N, a, b, o, n, x)
      BY <3>2, <3>3 DEF PutBehind
    <3>5. Ring(b, N, o, n + 1) = Append(Ring(a, N, o, n), x)
      BY <3>4, RingPut
    <3> QED
      BY <3>1, <3>5
  <2>2. out'[i] = out[i] /\ count'[i] = count[i] + 1
    BY <1>2, <1>3 DEF MonInv, TypeOK
  <2>3. \A j \in Ingredients : j # i => array'[j] = array[j] /\ out'[j] = out[j] /\ count'[j] = count[j]
    BY <1>2 DEF MonInv, TypeOK
  <2>4. \A j \in Ingredients :
           Ring(array'[j], N, out'[j], count'[j])
             = IF j = i THEN Append(Ring(array[i], N, out[i], count[i]), item[i])
               ELSE Ring(array[j], N, out[j], count[j])
    BY <2>1, <2>2, <2>3
  <2> QED
    BY <2>4 DEF Stock
<1>6. Kitchen!Put(i)
  BY <1>2, <1>4, <1>5 DEF Kitchen!Put, Stock, Ring
<1> QED
  BY <1>6

LEMMA GetIsTake ==
  ASSUME MonInv, NEW t \in Threads, GetItem(t)
  PROVE  \E f \in Fillings : Kitchen!TakeFilling(f) \/ Kitchen!TakeDough(f)
<1>1. PICK f \in Fillings : t = <<"consumer", f>> /\ t \in Consumers /\ t \notin Producers /\ t[2] = f
  BY ThreadIs DEF GetItem
<1>2. PICK i \in Ingredients : wants[f] = i
  BY DEF MonInv, TypeOK
<1>3. Monitor(t) = i
  BY <1>1, <1>2 DEF Monitor
<1>4. /\ meal' = [meal EXCEPT ![f] = Append(@, array[i][out[i]])]
      /\ out' = [out EXCEPT ![i] = (@ + 1) % N]
      /\ count' = [count EXCEPT ![i] = @ - 1]
      /\ array' = array /\ item' = item /\ pc[t] = "change"
  BY <1>1, <1>3 DEF GetItem
<1>a. count[i] # 0
  BY <1>1, <1>3, <1>4 DEF MonInv, Locked, MustWait
<1>5. /\ array[i] \in [0..N - 1 -> 0..Ids - 1] /\ out[i] \in 0..N - 1 /\ count[i] \in 1..N
  <2>1. count[i] \in 0..N
    BY DEF MonInv, TypeOK
  <2>2. count[i] \in 1..N
    BY <2>1, <1>a, MonitorsAssumption
  <2>3. array[i] \in [0..N - 1 -> 0..Ids - 1] /\ out[i] \in 0..N - 1
    BY DEF MonInv, TypeOK
  <2> QED
    BY <2>2, <2>3
<1>6. /\ Ring(array[i], N, out[i], count[i]) # << >>
      /\ Head(Ring(array[i], N, out[i], count[i])) = array[i][out[i]]
      /\ Tail(Ring(array[i], N, out[i], count[i])) = Ring(array[i], N, (out[i] + 1) % N, count[i] - 1)
  <2> DEFINE a == array[i]
             o == out[i]
             n == count[i]
  <2>1. a \in [0..N - 1 -> 0..Ids - 1] /\ o \in 0..N - 1 /\ n \in 1..N /\ N \in Nat \ {0}
    BY <1>5, MonitorsAssumption
  <2> HIDE DEF a, o, n
  <2>2. /\ Ring(a, N, o, n) # << >> /\ Head(Ring(a, N, o, n)) = a[o]
        /\ Tail(Ring(a, N, o, n)) = Ring(a, N, (o + 1) % N, n - 1)
    BY <2>1, RingTake
  <2> QED
    BY <2>2 DEF a, o, n
<1>7. Stock[i] # << >> /\ Head(Stock[i]) = array[i][out[i]]
  BY <1>6 DEF Stock
<1>8. Stock' = [Stock EXCEPT ![i] = Tail(@)]
  <2>1. out'[i] = (out[i] + 1) % N /\ count'[i] = count[i] - 1
    BY <1>4 DEF MonInv, TypeOK
  <2>2. \A j \in Ingredients : j # i => out'[j] = out[j] /\ count'[j] = count[j]
    BY <1>4 DEF MonInv, TypeOK
  <2>3. \A j \in Ingredients :
           Ring(array'[j], N, out'[j], count'[j])
             = IF j = i THEN Tail(Ring(array[i], N, out[i], count[i]))
               ELSE Ring(array[j], N, out[j], count[j])
    <3>1. array' = array
      BY <1>4
    <3>2. Ring(array'[i], N, out'[i], count'[i]) = Tail(Ring(array[i], N, out[i], count[i]))
      BY <3>1, <2>1, <1>6
    <3> QED
      BY <3>1, <3>2, <2>2
  <2> QED
    BY <2>3 DEF Stock
<1>9. Kitchen!Take(f, i)
  <2>1. meal' = [meal EXCEPT ![f] = Append(@, Head(Stock[i]))]
    BY <1>4, <1>7
  <2> QED
    BY <2>1, <1>4, <1>7, <1>8 DEF Kitchen!Take, Stock, Ring
<1>10. (i = f /\ Len(meal[f]) = 0) \/ (i = Dough /\ Len(meal[f]) = 1)
  BY <1>1, <1>2, <1>4 DEF MonInv, Course, OnCourse
<1> QED
  BY <1>9, <1>10 DEF Kitchen!TakeFilling, Kitchen!TakeDough

LEMMA KitchenStep == MonInv /\ [Next]_vars => [Kitchen!Next]_Kitchen!kitchen
<1> SUFFICES ASSUME MonInv, [Next]_vars PROVE [Kitchen!Next]_Kitchen!kitchen
  OBVIOUS
<1>1. ASSUME UNCHANGED <<rings, item, meal>> PROVE UNCHANGED Kitchen!kitchen
  BY <1>1 DEF rings, Kitchen!kitchen
<1>2. ASSUME NEW t \in Threads, PutItem(t) PROVE Kitchen!Next
  BY <1>2, PutIsPut DEF Kitchen!Next, Kitchen!Ingredients, Ingredients
<1>3. ASSUME NEW t \in Threads, GetItem(t) PROVE Kitchen!Next
  BY <1>3, GetIsTake DEF Kitchen!Next
<1>4. ASSUME NEW t \in Threads, make_pierogi(t) PROVE Kitchen!Next
  <2>1. PICK f \in Fillings : t = <<"consumer", f>> /\ t[2] = f
    <3>1. pc[t] = "make"
      BY <1>4 DEF make_pierogi, Goto
    <3> QED
      BY <3>1, ThreadIs DEF MonInv, Course
  <2>2. Len(meal[f]) = 2
    BY <1>4, <2>1 DEF make_pierogi, Goto, MonInv, Course, OnCourse
  <2>3. Kitchen!make_pierogi(f)
    BY <1>4, <2>1, <2>2 DEF make_pierogi, rings, Kitchen!make_pierogi
  <2> QED
    BY <2>3 DEF Kitchen!Next
<1>5. ASSUME NEW t \in Threads, Lock(t) \/ Relock(t) \/ WakeSpuriously(t) PROVE UNCHANGED Kitchen!kitchen
  BY <1>1, <1>5 DEF Lock, Relock, LockOrWait, WakeSpuriously
<1>6. CASE UNCHANGED vars
  BY <1>1, <1>6 DEF vars
<1> QED
  BY <1>2, <1>3, <1>4, <1>5, <1>6 DEF Next, Thread

(* The monitors implement the kitchen: monitor_put is a put and            *)
(* monitor_get a take of the oldest item, each at the moment the ring is   *)
(* changed, with any number of consumers of the dough.                     *)
THEOREM KitchenImplemented == Spec => ImplementsKitchen
<1> QED
  BY KitchenInit, KitchenStep, MonInvariant, PTL DEF Spec, ImplementsKitchen, Kitchen!Spec
===============================================================================
