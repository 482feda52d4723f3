------------------------------- MODULE Monitors -------------------------------
(***************************************************************************)
(* monitors/: the same kitchen synchronised by monitors.  Each ingredient  *)
(* has a BufferMonitor: a ring buffer, a lock, and the conditions not_full *)
(* and not_empty, on which its producer and its consumers wait.            *)
(***************************************************************************)
EXTENDS Integers, SequencesExt

CONSTANTS Dough, Fillings,  \* the consumers are named by their filling
          N,                \* the capacity of a buffer
          Ids,              \* the producers number their items modulo Ids
          NoThread

Ingredients == {Dough} \cup Fillings

Producers == {"producer"} \X Ingredients
Consumers == {"consumer"} \X Fillings
Threads   == Producers \cup Consumers

ASSUME MonitorsAssumption ==
  /\ Dough \notin Fillings /\ IsFiniteSet(Fillings)
  /\ N \in Nat \ {0} /\ Ids \in Nat \ {0} /\ NoThread \notin Threads

VARIABLES lock,                   \* the thread that holds the lock of each monitor
          array, in, out, count,  \* its ring
          item,                   \* the item each producer has made
          meal,                   \* what each consumer has got for its pierog
          pc,                     \* where each thread is in its loop
          wants                   \* the ingredient each consumer gets next

rings == <<array, in, out, count>>
vars  == <<lock, rings, item, meal, pc, wants>>

Init ==
  /\ lock = [i \in Ingredients |-> NoThread]
  /\ array = [i \in Ingredients |-> [j \in 0..N - 1 |-> 0]]
  /\ in = [i \in Ingredients |-> 0]
  /\ out = [i \in Ingredients |-> 0]
  /\ count = [i \in Ingredients |-> 0]
  /\ item = [i \in Ingredients |-> 0]
  /\ meal = [c \in Fillings |-> << >>]
  /\ pc = [t \in Threads |-> "lock"]
  /\ wants = [c \in Fillings |-> c]

(* The monitor a thread calls.                                             *)
Monitor(t) == IF t \in Producers THEN t[2] ELSE wants[t[2]]

(* The condition of the while loops: a full or an empty buffer.            *)
MustWait(t) == count[Monitor(t)] = IF t \in Producers THEN N ELSE 0

(* The threads that wait on not_full, or on not_empty.                     *)
NotFull(i)  == {t \in Producers : Monitor(t) = i /\ pc[t] = "wait"}
NotEmpty(i) == {t \in Consumers : Monitor(t) = i /\ pc[t] = "wait"}

Goto(t, from, to) == pc[t] = from /\ pc' = [pc EXCEPT ![t] = to]

Acquire(t) == /\ lock[Monitor(t)] = NoThread
              /\ lock' = [lock EXCEPT ![Monitor(t)] = t]
Release_not(t) == UNCHANGED lock   \* faulty: the unlock is forgotten
Release(t) == lock' = [lock EXCEPT ![Monitor(t)] = NoThread]

-----------------------------------------------------------------------------
(* monitor_put and monitor_get, which differ in what they do to the ring   *)
(* and in the condition they wait for and signal.                          *)

(* A thread that must wait gives the lock it has just taken back and waits *)
(* in one step, which leaves the lock free.                                *)
LockOrWait(t, from) ==
  /\ IF MustWait(t)
     THEN /\ Goto(t, from, "wait")
          /\ lock[Monitor(t)] = NoThread
          /\ UNCHANGED lock
     ELSE Goto(t, from, "change") /\ Acquire(t)
  /\ UNCHANGED <<rings, item, meal, wants>>

Lock(t) == LockOrWait(t, "lock")

(* pthread_cond_wait may return although nobody has signalled.             *)
WakeSpuriously(t) ==
  /\ Goto(t, "wait", "relock")
  /\ UNCHANGED <<lock, rings, item, meal, wants>>

Relock_if(t) ==                    \* faulty: the condition is not tested again
  /\ Goto(t, "relock", "change")
  /\ Acquire(t)
  /\ UNCHANGED <<rings, item, meal, wants>>

(* The end of pthread_cond_wait, and the while.                            *)
Relock(t) == LockOrWait(t, "relock")

(***************************************************************************)
(* What a thread does under the lock -- change the ring, signal, unlock -- *)
(* is one step: whoever is woken needs the lock to go on.  A signal wakes  *)
(* one of the threads that wait for it, whichever, and is lost without one.*)
(***************************************************************************)
Signal_edge(t, waiting, to) ==     \* faulty: only if the buffer was empty or full
  LET edge == IF t \in Producers THEN 0 ELSE N
  IN \/ (waiting = {} \/ count[Monitor(t)] # edge) /\ pc' = [pc EXCEPT ![t] = to]
     \/ /\ count[Monitor(t)] = edge
        /\ \E u \in waiting : pc' = [pc EXCEPT ![t] = to, ![u] = "relock"]

Signal(t, waiting, to) ==
  \/ waiting = {} /\ pc' = [pc EXCEPT ![t] = to]
  \/ \E u \in waiting : pc' = [pc EXCEPT ![t] = to, ![u] = "relock"]

(* After it the producer sleeps and makes the next item.                   *)
PutItem(t) ==
  LET i == Monitor(t)
  IN /\ t \in Producers /\ pc[t] = "change"
     /\ array' = [array EXCEPT ![i][in[i]] = item[i]]
     /\ in' = [in EXCEPT ![i] = (@ + 1) % N]
     /\ count' = [count EXCEPT ![i] = @ + 1]
     /\ Signal(t, NotEmpty(i), "lock")
     /\ Release(t)
     /\ item' = [item EXCEPT ![i] = (@ + 1) % Ids]
     /\ UNCHANGED <<out, meal, wants>>

GetItem(t) ==
  LET i == Monitor(t)
  IN /\ t \in Consumers /\ pc[t] = "change"
     /\ meal' = [meal EXCEPT ![t[2]] = Append(@, array[i][out[i]])]
     /\ out' = [out EXCEPT ![i] = (@ + 1) % N]
     /\ count' = [count EXCEPT ![i] = @ - 1]
     /\ Signal(t, NotFull(i), IF i = Dough THEN "make" ELSE "lock")
     /\ Release(t)
     /\ wants' = [wants EXCEPT ![t[2]] = Dough]
     /\ UNCHANGED <<array, in, item>>

make_pierogi(t) ==
  /\ Goto(t, "make", "lock")
  /\ wants' = [wants EXCEPT ![t[2]] = t[2]]
  /\ meal' = [meal EXCEPT ![t[2]] = << >>]
  /\ UNCHANGED <<lock, rings, item>>

Thread(t) ==
  Lock(t) \/ Relock(t) \/ PutItem(t) \/ GetItem(t) \/ make_pierogi(t)

Next == \E t \in Threads : Thread(t) \/ WakeSpuriously(t)

Spec == Init /\ [][Next]_vars

(* The threads run, and wake up without a signal only so many times.  Who  *)
(* gets a lock, or a signal, of several that wait for it is left open.     *)
Fairness == /\ \A t \in Threads : WF_vars(Thread(t))
            /\ <>[][~ \E t \in Threads : WakeSpuriously(t)]_vars

FairSpec == Spec /\ Fairness

-----------------------------------------------------------------------------
(* Properties.                                                             *)

(* The indices and the count stay in their ranges.                         *)
TypeOK ==
  /\ lock \in [Ingredients -> Threads \cup {NoThread}]
  /\ array \in [Ingredients -> [0..N - 1 -> 0..Ids - 1]]
  /\ in \in [Ingredients -> 0..N - 1] /\ out \in [Ingredients -> 0..N - 1]
  /\ count \in [Ingredients -> 0..N]
  /\ item \in [Ingredients -> 0..Ids - 1]
  /\ meal \in [Fillings -> Seq(0..Ids - 1)]
  /\ pc \in [Threads -> {"lock", "wait", "relock", "change", "make"}]
  /\ wants \in [Fillings -> Ingredients]

(***************************************************************************)
(* No signal that matters is lost: while consumers wait at a monitor, each *)
(* item in it is one that some consumer is already back for; and while its *)
(* producer waits, no slot in it is free.                                  *)
(***************************************************************************)
NoSignalLost ==
  \A i \in Ingredients :
    /\ NotEmpty(i) # {} =>
         count[i] <= Cardinality({t \in Consumers : Monitor(t) = i /\ pc[t] \in {"relock", "change"}})
    /\ NotFull(i) # {} => count[i] = N

(* The kitchen this implements.                                            *)
Kitchen == INSTANCE Pierogi WITH
  buffer <- [i \in Ingredients |-> [j \in 1..count[i] |-> array[i][(out[i] + j - 1) % N]]]

(* report.md: items are used once and in order, buffers are not overfilled *)
(* and nothing is taken from an empty one.                                 *)
ImplementsKitchen == Kitchen!Spec

(* And the kitchen goes on: no wait at a monitor lasts while what is       *)
(* waited for is there.                                                    *)
GoesOn == Kitchen!Fairness
=============================================================================
