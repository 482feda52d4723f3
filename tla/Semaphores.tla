------------------------------ MODULE Semaphores ------------------------------
(***************************************************************************)
(* semafors/: the kitchen synchronised by semaphores.  Each ingredient has *)
(* a ring buffer and three semaphores; every step of a thread is one       *)
(* operation on a semaphore or one access to a ring.                       *)
(***************************************************************************)
EXTENDS Integers, SequencesExt

CONSTANTS Dough, Fillings,  \* the consumers are named by their filling
          N,                \* the size of a buffer
          Ids               \* the producers number their items modulo Ids

ASSUME SemaphoresAssumption ==
  Dough \notin Fillings /\ IsFiniteSet(Fillings) /\ N \in Nat \ {0} /\ Ids \in Nat \ {0}

Ingredients == {Dough} \cup Fillings

VARIABLES mutex, full, empty,  \* the semaphores of each buffer
          array, in, out,      \* its ring
          item,                \* the item each producer has made
          meal,                \* what each consumer has popped for its pierog
          producer,            \* where each producer is in its loop
          consumer,            \* where each consumer is in its loop
          wants                \* and in which half of it: from which buffer

semaphores == <<mutex, full, empty>>
rings      == <<array, in, out>>
consumers  == <<consumer, wants, meal>>
producers  == <<producer, item>>
vars       == <<semaphores, rings, producers, consumers>>

InitialMutex_N == N                \* faulty: sem_init with the size of the buffer

InitialMutex == 1

Init ==
  /\ mutex = [i \in Ingredients |-> InitialMutex]
  /\ full = [i \in Ingredients |-> 0]
  /\ empty = [i \in Ingredients |-> N]
  /\ array = [i \in Ingredients |-> [j \in 0..N - 1 |-> 0]]
  /\ in = [i \in Ingredients |-> 0]
  /\ out = [i \in Ingredients |-> 0]
  /\ item = [i \in Ingredients |-> 0]
  /\ meal = [c \in Fillings |-> << >>]
  /\ producer = [i \in Ingredients |-> "down_empty"]
  /\ consumer = [c \in Fillings |-> "down_full"]
  /\ wants = [c \in Fillings |-> c]

(* The effect of down and up on the semaphores of one kind.                *)
down(s, i) == [s EXCEPT ![i] = @ - 1]
up(s, i)   == [s EXCEPT ![i] = @ + 1]

CanLock_always(i) == TRUE          \* faulty: the mutex is not waited for

CanLock(i) == mutex[i] > 0

-----------------------------------------------------------------------------
(* The producer of i.                                                      *)

ProducerStep(i, from, to) ==
  /\ producer[i] = from
  /\ producer' = [producer EXCEPT ![i] = to]
  /\ UNCHANGED consumers

ProducerDownEmpty(i) ==
  /\ ProducerStep(i, "down_empty", "down_mutex")
  /\ empty[i] > 0
  /\ empty' = down(empty, i)
  /\ UNCHANGED <<mutex, full, rings, item>>

ProducerDownMutex(i) ==
  /\ ProducerStep(i, "down_mutex", "push")
  /\ CanLock(i)
  /\ mutex' = down(mutex, i)
  /\ UNCHANGED <<full, empty, rings, item>>

(* buffer_push, in two steps.                                              *)
PushItem(i) ==
  /\ ProducerStep(i, "push", "advance")
  /\ array' = [array EXCEPT ![i][in[i]] = item[i]]
  /\ UNCHANGED <<semaphores, in, out, item>>

PushAdvance(i) ==
  /\ ProducerStep(i, "advance", "up_mutex")
  /\ in' = [in EXCEPT ![i] = (@ + 1) % N]
  /\ UNCHANGED <<semaphores, array, out, item>>

ProducerUpMutex_not(i) ==          \* faulty: the mutex is not given back
  ProducerStep(i, "up_mutex", "up_full") /\ UNCHANGED <<semaphores, rings, item>>

ProducerUpMutex(i) ==
  /\ ProducerStep(i, "up_mutex", "up_full")
  /\ mutex' = up(mutex, i)
  /\ UNCHANGED <<full, empty, rings, item>>

(* up(&full), sleep, and the production of the next item.                  *)
ProducerUpFull(i) ==
  /\ ProducerStep(i, "up_full", "down_empty")
  /\ full' = up(full, i)
  /\ item' = [item EXCEPT ![i] = (@ + 1) % Ids]
  /\ UNCHANGED <<mutex, empty, rings>>

Producer(i) ==
  \/ ProducerDownEmpty(i) \/ ProducerDownMutex(i) \/ PushItem(i)
  \/ PushAdvance(i) \/ ProducerUpMutex(i) \/ ProducerUpFull(i)

-----------------------------------------------------------------------------
(* The consumer of filling c, in either half of its loop.                  *)

ConsumerStep(c, from, to) ==
  /\ consumer[c] = from
  /\ consumer' = [consumer EXCEPT ![c] = to]
  /\ UNCHANGED producers

ConsumerDownFull(c) ==
  LET i == wants[c]
  IN /\ ConsumerStep(c, "down_full", "down_mutex")
     /\ full[i] > 0
     /\ full' = down(full, i)
     /\ UNCHANGED <<mutex, empty, rings, wants, meal>>

ConsumerDownMutex(c) ==
  LET i == wants[c]
  IN /\ ConsumerStep(c, "down_mutex", "pop")
     /\ CanLock(i)
     /\ mutex' = down(mutex, i)
     /\ UNCHANGED <<full, empty, rings, wants, meal>>

(* buffer_pop, in two steps.                                               *)
PopItem(c) ==
  LET i == wants[c]
  IN /\ ConsumerStep(c, "pop", "advance")
     /\ meal' = [meal EXCEPT ![c] = Append(@, array[i][out[i]])]
     /\ UNCHANGED <<semaphores, rings, wants>>

PopAdvance(c) ==
  LET i == wants[c]
  IN /\ ConsumerStep(c, "advance", "up_mutex")
     /\ out' = [out EXCEPT ![i] = (@ + 1) % N]
     /\ UNCHANGED <<semaphores, array, in, wants, meal>>

ConsumerUpMutex(c) ==
  LET i == wants[c]
  IN /\ ConsumerStep(c, "up_mutex", "up_empty")
     /\ mutex' = up(mutex, i)
     /\ UNCHANGED <<full, empty, rings, wants, meal>>

ConsumerUpEmpty_full(c) ==         \* faulty: the wrong semaphore is raised
  LET i == wants[c]
  IN /\ ConsumerStep(c, "up_empty", IF i = Dough THEN "make" ELSE "down_full")
     /\ full' = up(full, i)
     /\ wants' = [wants EXCEPT ![c] = Dough]
     /\ UNCHANGED <<mutex, empty, rings, meal>>

ConsumerUpEmpty(c) ==
  LET i == wants[c]
  IN /\ ConsumerStep(c, "up_empty", IF i = Dough THEN "make" ELSE "down_full")
     /\ empty' = up(empty, i)
     /\ wants' = [wants EXCEPT ![c] = Dough]
     /\ UNCHANGED <<mutex, full, rings, meal>>

make_pierogi(c) ==
  /\ ConsumerStep(c, "make", "down_full")
  /\ wants' = [wants EXCEPT ![c] = c]
  /\ meal' = [meal EXCEPT ![c] = << >>]
  /\ UNCHANGED <<semaphores, rings>>

Consumer(c) ==
  \/ ConsumerDownFull(c) \/ ConsumerDownMutex(c) \/ PopItem(c) \/ PopAdvance(c)
  \/ ConsumerUpMutex(c) \/ ConsumerUpEmpty(c) \/ make_pierogi(c)

Next == (\E i \in Ingredients : Producer(i)) \/ (\E c \in Fillings : Consumer(c))

Spec == Init /\ [][Next]_vars

(* The threads run.  Who gets a semaphore several wait for is left open:   *)
(* sem_post wakes some waiter, or nobody if another thread is faster.      *)
Fairness == /\ \A i \in Ingredients : WF_vars(Producer(i))
            /\ \A c \in Fillings : WF_vars(Consumer(c))

FairSpec == Spec /\ Fairness

-----------------------------------------------------------------------------
(* Properties.                                                             *)

(* The semaphores and indices stay in their ranges: no buffer counts more  *)
(* than N items or N free slots.                                           *)
TypeOK ==
  /\ mutex \in [Ingredients -> 0..1]
  /\ full \in [Ingredients -> 0..N] /\ empty \in [Ingredients -> 0..N]
  /\ array \in [Ingredients -> [0..N - 1 -> 0..Ids - 1]]
  /\ in \in [Ingredients -> 0..N - 1] /\ out \in [Ingredients -> 0..N - 1]
  /\ item \in [Ingredients -> 0..Ids - 1]
  /\ meal \in [Fillings -> Seq(0..Ids - 1)]
  /\ producer \in [Ingredients -> {"down_empty", "down_mutex", "push", "advance",
                                   "up_mutex", "up_full"}]
  /\ consumer \in [Fillings -> {"down_full", "down_mutex", "pop", "advance",
                                "up_mutex", "up_empty", "make"}]
  /\ wants \in [Fillings -> Ingredients]

(* The threads inside the critical section of buffer i: the producer of i  *)
(* and consumers.                                                          *)
ProducersIn(i) == {p \in {i} : producer[p] \in {"push", "advance", "up_mutex"}}
ConsumersIn(i) == {c \in Fillings : wants[c] = i /\ consumer[c] \in {"pop", "advance", "up_mutex"}}

(* The mutex of a buffer keeps all but one thread out of its critical      *)
(* section.                                                                *)
Exclusion ==
  \A i \in Ingredients : Cardinality(ProducersIn(i)) + Cardinality(ConsumersIn(i)) <= 1

(* A thread that is about to do down() needs a count above zero; anywhere  *)
(* else it goes on in any case.                                            *)
ProducerGoesOn(i) == /\ producer[i] = "down_empty" => empty[i] > 0
                     /\ producer[i] = "down_mutex" => mutex[i] > 0
ConsumerGoesOn(c) == /\ consumer[c] = "down_full"  => full[wants[c]] > 0
                     /\ consumer[c] = "down_mutex" => mutex[wants[c]] > 0

(* The threads at one buffer never all wait for each other: whoever wants  *)
(* something from it, its producer or one of these consumers can go on,    *)
(* because nobody waits for a slot or an item while holding the mutex.     *)
NoStandstill ==
  \A i \in Ingredients : LET Takers == {c \in Fillings : wants[c] = i}
    IN Takers # {} => ProducerGoesOn(i) \/ \E c \in Takers : ConsumerGoesOn(c)

(***************************************************************************)
(* The kitchen this implements.  What is in a buffer follows from empty:   *)
(* the N slots but those that are free, that a producer has taken and not  *)
(* filled, or that a consumer has emptied and not yet given back.          *)
(***************************************************************************)
InBuffer(i) ==
  N - empty[i]
    - (IF producer[i] \in {"down_mutex", "push", "advance"} THEN 1 ELSE 0)
    - Cardinality({c \in Fillings : wants[c] = i /\ consumer[c] \in {"up_mutex", "up_empty"}})

Kitchen == INSTANCE Pierogi WITH
  item   <- [i \in Ingredients |-> IF producer[i] \in {"up_mutex", "up_full"}
                                   THEN (item[i] + 1) % Ids ELSE item[i]],
  buffer <- [i \in Ingredients |-> [j \in 1..InBuffer(i) |-> array[i][(out[i] + j - 1) % N]]],
  meal   <- [c \in Fillings |-> IF consumer[c] = "advance" THEN Front(meal[c]) ELSE meal[c]]

(* report.md: items are used once and in order, buffers are not overfilled *)
(* and nothing is taken from an empty one.                                 *)
ImplementsKitchen == Kitchen!Spec

(* report.md: "no consumer will be starved, each will have a chance to get *)
(* the shared ingredient", the dough.                                      *)
NoStarvation ==
  \A c \in Fillings : Len(meal[c]) = 1 ~> Len(meal[c]) = 2
=============================================================================
