-------------------------- MODULE SemaphoreProofs --------------------------
(***************************************************************************)
(* The semaphores of the kitchen for any number of fillings and any size   *)
(* of the buffers.  Semaphores are counters, so the invariant counts: what *)
(* a semaphore lacks is held by the threads between its down and its up.   *)
(***************************************************************************)
EXTENDS Semaphores, SequenceLemmas, FiniteSetTheorems

(* The consumers that have taken an item of buffer i and not yet given     *)
(* back its slot.                                                          *)
Holding == {"down_mutex", "pop", "advance", "up_mutex", "up_empty"}
HoldersOf(i) == {c \in Fillings : wants[c] = i /\ consumer[c] \in Holding}

InSection(i) == IF producer[i] \in {"push", "advance", "up_mutex"} THEN 1 ELSE 0
HasSlot(i) == IF producer[i] = "down_empty" THEN 0 ELSE 1

(* Each slot of a buffer is free, full, or with one thread; each mutex is  *)
(* free or with one thread.                                                *)
Counted(i) ==
  /\ mutex[i] \in Nat /\ full[i] \in Nat /\ empty[i] \in Nat
  /\ mutex[i] + InSection(i) + Cardinality(ConsumersIn(i)) = 1
  /\ full[i] + empty[i] + HasSlot(i) + Cardinality(HoldersOf(i)) = N

RingTypes ==
  /\ array \in [Ingredients -> [0..N - 1 -> 0..Ids - 1]]
  /\ in \in [Ingredients -> 0..N - 1] /\ out \in [Ingredients -> 0..N - 1]
  /\ item \in [Ingredients -> 0..Ids - 1]
  /\ meal \in [Fillings -> Seq(0..Ids - 1)]

ThreadTypes ==
  /\ producer \in [Ingredients -> {"down_empty", "down_mutex", "push", "advance",
                                   "up_mutex", "up_full"}]
  /\ consumer \in [Fillings -> {"down_full", "down_mutex", "pop", "advance",
                                "up_mutex", "up_empty", "make"}]
  /\ wants \in [Fillings -> Ingredients]

SemInv ==
  /\ RingTypes /\ ThreadTypes
  /\ mutex \in [Ingredients -> Int] /\ full \in [Ingredients -> Int]
  /\ empty \in [Ingredients -> Int]
  /\ \A i \in Ingredients : Counted(i)

(* Two sets that differ in one element at most.                            *)
LEMMA OneChanges ==
  ASSUME NEW S \in SUBSET Fillings, NEW T \in SUBSET Fillings, NEW c \in Fillings,
         \A d \in Fillings \ {c} : d \in S <=> d \in T
  PROVE  /\ Cardinality(S) \in Nat /\ Cardinality(T) \in Nat
         /\ Cardinality(T) + (IF c \in S THEN 1 ELSE 0) = Cardinality(S) + (IF c \in T THEN 1 ELSE 0)
<1>1. IsFiniteSet(S) /\ IsFiniteSet(T) /\ Cardinality(S) \in Nat /\ Cardinality(T) \in Nat
  BY SemaphoresAssumption, FS_Subset, FS_CardinalityType
<1>2. CASE c \in S /\ c \in T
  <2>1. S = T
    BY <1>2
  <2> QED
    BY <1>1, <1>2, <2>1
<1>3. CASE c \notin S /\ c \notin T
  <2>1. S = T
    BY <1>3
  <2> QED
    BY <1>1, <1>3, <2>1
<1>4. CASE c \in S /\ c \notin T
  <2>1. T = S \ {c}
    BY <1>4
  <2>2. Cardinality(T) = Cardinality(S) - 1
    BY <1>1, <1>4, <2>1, FS_RemoveElement
  <2> QED
    BY <1>1, <1>4, <2>2
<1>5. CASE c \notin S /\ c \in T
  <2>1. S = T \ {c}
    BY <1>5
  <2>2. Cardinality(S) = Cardinality(T) - 1
    BY <1>1, <1>5, <2>1, FS_RemoveElement
  <2> QED
    BY <1>1, <1>5, <2>2
<1> QED
  BY <1>2, <1>3, <1>4, <1>5

(* The counts of threads are numbers.                                      *)
LEMMA Sizes ==
  ASSUME NEW i
  PROVE  Cardinality(ConsumersIn(i)) \in Nat /\ Cardinality(HoldersOf(i)) \in Nat
BY SemaphoresAssumption, FS_Subset, FS_CardinalityType DEF ConsumersIn, HoldersOf

LEMMA SemInit == Init => SemInv
<1> SUFFICES ASSUME Init PROVE SemInv
  OBVIOUS
<1> USE SemaphoresAssumption
<1>1. \A i \in Ingredients : ConsumersIn(i) = {} /\ HoldersOf(i) = {}
  BY DEF Init, ConsumersIn, HoldersOf, Holding
<1>2. Cardinality({}) = 0
  BY FS_EmptySet
<1>3. \A i \in Ingredients : mutex[i] = 1 /\ full[i] = 0 /\ empty[i] = N
                             /\ InSection(i) = 0 /\ HasSlot(i) = 0
  BY DEF Init, InitialMutex, InSection, HasSlot
<1>4. \A i \in Ingredients : Counted(i)
  BY <1>1, <1>2, <1>3 DEF Counted
<1>5. RingTypes
  BY DEF Init, RingTypes
<1>6. ThreadTypes
  BY DEF Init, ThreadTypes, Ingredients
<1> QED
  BY <1>4, <1>5, <1>6 DEF SemInv, Init, InitialMutex

(* The counting of a step of the producer of i.                            *)
LEMMA ProducerCounts ==
  ASSUME SemInv, NEW i \in Ingredients, UNCHANGED consumers,
         NEW s, producer' = [producer EXCEPT ![i] = s]
  PROVE  /\ producer'[i] = s
         /\ \A j \in Ingredients : ConsumersIn(j)' = ConsumersIn(j) /\ HoldersOf(j)' = HoldersOf(j)
         /\ \A j \in Ingredients \ {i} : InSection(j)' = InSection(j) /\ HasSlot(j)' = HasSlot(j)
<1>1. producer'[i] = s /\ \A j \in Ingredients \ {i} : producer'[j] = producer[j]
  BY DEF SemInv, ThreadTypes
<1>2. wants' = wants /\ consumer' = consumer
  BY DEF consumers
<1> QED
  BY <1>1, <1>2 DEF ConsumersIn, HoldersOf, InSection, HasSlot

(* A semaphore that goes down or up.                                       *)
LEMMA DownUp ==
  ASSUME NEW s \in [Ingredients -> Int], NEW i \in Ingredients
  PROVE  /\ down(s, i) \in [Ingredients -> Int] /\ up(s, i) \in [Ingredients -> Int]
         /\ down(s, i)[i] = s[i] - 1 /\ up(s, i)[i] = s[i] + 1
         /\ \A j \in Ingredients \ {i} : down(s, i)[j] = s[j] /\ up(s, i)[j] = s[j]
BY DEF down, up

-----------------------------------------------------------------------------
(* The steps of the producer.                                              *)

LEMMA ProducerDownEmptyKeeps ==
  ASSUME SemInv, NEW i \in Ingredients, ProducerDownEmpty(i)
  PROVE  SemInv'
<1> USE SemaphoresAssumption DEF ProducerDownEmpty, ProducerStep
<1>1. /\ producer'[i] = "down_mutex"
      /\ \A j \in Ingredients : ConsumersIn(j)' = ConsumersIn(j) /\ HoldersOf(j)' = HoldersOf(j)
      /\ \A j \in Ingredients \ {i} : InSection(j)' = InSection(j) /\ HasSlot(j)' = HasSlot(j)
  BY ProducerCounts
<1>2. InSection(i) = 0 /\ InSection(i)' = 0 /\ HasSlot(i) = 0 /\ HasSlot(i)' = 1
  BY <1>1 DEF InSection, HasSlot
<1>3. /\ empty'[i] = empty[i] - 1 /\ \A j \in Ingredients \ {i} : empty'[j] = empty[j]
      /\ empty' \in [Ingredients -> Int]
  BY DownUp DEF SemInv
<1>4. \A j \in Ingredients : Cardinality(HoldersOf(j)) \in Nat /\ Cardinality(ConsumersIn(j)) \in Nat
  BY Sizes
<1>5. Counted(i)'
  BY <1>1, <1>2, <1>3, <1>4 DEF SemInv, Counted
<1>6. \A j \in Ingredients \ {i} : Counted(j)'
  BY <1>1, <1>3 DEF SemInv, Counted
<1>7. RingTypes' /\ ThreadTypes'
  BY DEF SemInv, RingTypes, ThreadTypes, rings, consumers
<1> QED
  BY <1>3, <1>5, <1>6, <1>7 DEF SemInv

LEMMA ProducerDownMutexKeeps ==
  ASSUME SemInv, NEW i \in Ingredients, ProducerDownMutex(i)
  PROVE  SemInv'
<1> USE SemaphoresAssumption DEF ProducerDownMutex, ProducerStep, CanLock
<1>1. /\ producer'[i] = "push"
      /\ \A j \in Ingredients : ConsumersIn(j)' = ConsumersIn(j) /\ HoldersOf(j)' = HoldersOf(j)
      /\ \A j \in Ingredients \ {i} : InSection(j)' = InSection(j) /\ HasSlot(j)' = HasSlot(j)
  BY ProducerCounts
<1>2. InSection(i) = 0 /\ InSection(i)' = 1 /\ HasSlot(i) = 1 /\ HasSlot(i)' = 1
  BY <1>1 DEF InSection, HasSlot
<1>3. /\ mutex'[i] = mutex[i] - 1 /\ \A j \in Ingredients \ {i} : mutex'[j] = mutex[j]
      /\ mutex' \in [Ingredients -> Int]
  BY DownUp DEF SemInv
<1>4. \A j \in Ingredients : Cardinality(HoldersOf(j)) \in Nat /\ Cardinality(ConsumersIn(j)) \in Nat
  BY Sizes
<1>5. Counted(i)'
  BY <1>1, <1>2, <1>3, <1>4 DEF SemInv, Counted
<1>6. \A j \in Ingredients \ {i} : Counted(j)'
  BY <1>1, <1>3 DEF SemInv, Counted
<1>7. RingTypes' /\ ThreadTypes'
  BY DEF SemInv, RingTypes, ThreadTypes, rings, consumers
<1> QED
  BY <1>3, <1>5, <1>6, <1>7 DEF SemInv

(* The two steps of buffer_push touch the ring only.                       *)
LEMMA PushKeeps ==
  ASSUME SemInv, NEW i \in Ingredients, PushItem(i) \/ PushAdvance(i)
  PROVE  SemInv'
<1> USE SemaphoresAssumption DEF ProducerStep
<1>1. PICK s \in {"advance", "up_mutex"} :
        producer' = [producer EXCEPT ![i] = s]
  BY DEF PushItem, PushAdvance
<1>2. UNCHANGED consumers /\ UNCHANGED semaphores
  BY DEF PushItem, PushAdvance
<1>3. /\ producer'[i] = s
      /\ \A j \in Ingredients : ConsumersIn(j)' = ConsumersIn(j) /\ HoldersOf(j)' = HoldersOf(j)
      /\ \A j \in Ingredients \ {i} : InSection(j)' = InSection(j) /\ HasSlot(j)' = HasSlot(j)
  BY <1>1, <1>2, ProducerCounts
<1>4. producer[i] \in {"push", "advance"}
  BY DEF PushItem, PushAdvance
<1>5. InSection(i) = 1 /\ InSection(i)' = 1 /\ HasSlot(i) = 1 /\ HasSlot(i)' = 1
  BY <1>3, <1>4 DEF InSection, HasSlot
<1>6. \A j \in Ingredients : Counted(j)'
  <2> SUFFICES ASSUME NEW j \in Ingredients PROVE Counted(j)'
    OBVIOUS
  <2>1. InSection(j)' = InSection(j) /\ HasSlot(j)' = HasSlot(j)
    BY <1>3, <1>5
  <2> QED
    BY <1>2, <1>3, <2>1 DEF SemInv, Counted, semaphores
<1>7. ThreadTypes'
  BY <1>1, <1>2 DEF SemInv, ThreadTypes, consumers
<1>8. RingTypes'
  <2>1. CASE PushItem(i)
    BY <1>2, <2>1 DEF PushItem, SemInv, RingTypes, consumers
  <2>2. CASE PushAdvance(i)
    <3>1. (in[i] + 1) % N \in 0..N - 1
      BY RingNext DEF SemInv, RingTypes
    <3> QED
      BY <1>2, <2>2, <3>1 DEF PushAdvance, SemInv, RingTypes, consumers
  <2> QED
    BY <2>1, <2>2
<1> QED
  BY <1>2, <1>6, <1>7, <1>8 DEF SemInv, semaphores

LEMMA ProducerUpMutexKeeps ==
  ASSUME SemInv, NEW i \in Ingredients, ProducerUpMutex(i)
  PROVE  SemInv'
<1> USE SemaphoresAssumption DEF ProducerUpMutex, ProducerStep
<1>1. /\ producer'[i] = "up_full"
      /\ \A j \in Ingredients : ConsumersIn(j)' = ConsumersIn(j) /\ HoldersOf(j)' = HoldersOf(j)
      /\ \A j \in Ingredients \ {i} : InSection(j)' = InSection(j) /\ HasSlot(j)' = HasSlot(j)
  BY ProducerCounts
<1>2. InSection(i) = 1 /\ InSection(i)' = 0 /\ HasSlot(i) = 1 /\ HasSlot(i)' = 1
  BY <1>1 DEF InSection, HasSlot
<1>3. /\ mutex'[i] = mutex[i] + 1 /\ \A j \in Ingredients \ {i} : mutex'[j] = mutex[j]
      /\ mutex' \in [Ingredients -> Int]
  BY DownUp DEF SemInv
<1>4. \A j \in Ingredients : Cardinality(HoldersOf(j)) \in Nat /\ Cardinality(ConsumersIn(j)) \in Nat
  BY Sizes
<1>5. Counted(i)'
  BY <1>1, <1>2, <1>3, <1>4 DEF SemInv, Counted
<1>6. \A j \in Ingredients \ {i} : Counted(j)'
  BY <1>1, <1>3 DEF SemInv, Counted
<1>7. RingTypes' /\ ThreadTypes'
  BY DEF SemInv, RingTypes, ThreadTypes, rings, consumers
<1> QED
  BY <1>3, <1>5, <1>6, <1>7 DEF SemInv

LEMMA ProducerUpFullKeeps ==
  ASSUME SemInv, NEW i \in Ingredients, ProducerUpFull(i)
  PROVE  SemInv'
<1> USE SemaphoresAssumption DEF ProducerUpFull, ProducerStep
<1>1. /\ producer'[i] = "down_empty"
      /\ \A j \in Ingredients : ConsumersIn(j)' = ConsumersIn(j) /\ HoldersOf(j)' = HoldersOf(j)
      /\ \A j \in Ingredients \ {i} : InSection(j)' = InSection(j) /\ HasSlot(j)' = HasSlot(j)
  BY ProducerCounts
<1>2. InSection(i) = 0 /\ InSection(i)' = 0 /\ HasSlot(i) = 1 /\ HasSlot(i)' = 0
  BY <1>1 DEF InSection, HasSlot
<1>3. /\ full'[i] = full[i] + 1 /\ \A j \in Ingredients \ {i} : full'[j] = full[j]
      /\ full' \in [Ingredients -> Int]
  BY DownUp DEF SemInv
<1>4. \A j \in Ingredients : Cardinality(HoldersOf(j)) \in Nat /\ Cardinality(ConsumersIn(j)) \in Nat
  BY Sizes
<1>5. Counted(i)'
  BY <1>1, <1>2, <1>3, <1>4 DEF SemInv, Counted
<1>6. \A j \in Ingredients \ {i} : Counted(j)'
  BY <1>1, <1>3 DEF SemInv, Counted
<1>7. (item[i] + 1) % Ids \in 0..Ids - 1
  BY DEF SemInv, RingTypes
<1>8. RingTypes' /\ ThreadTypes'
  BY <1>7 DEF SemInv, RingTypes, ThreadTypes, rings, consumers
<1> QED
  BY <1>3, <1>5, <1>6, <1>8 DEF SemInv

-----------------------------------------------------------------------------
(* The steps of the consumer.                                              *)

(* Consumer c goes from one place of its loop to another: the threads that *)
(* are inside or hold an item change by c at most.                         *)
LEMMA ConsumerCounts ==
  ASSUME SemInv, NEW c \in Fillings, UNCHANGED producers,
         NEW s, consumer' = [consumer EXCEPT ![c] = s],
         \A d \in Fillings \ {c} : wants'[d] = wants[d],
         NEW j \in Ingredients
  PROVE  /\ consumer'[c] = s
         /\ InSection(j)' = InSection(j) /\ HasSlot(j)' = HasSlot(j)
         /\ Cardinality(ConsumersIn(j)) \in Nat /\ Cardinality(ConsumersIn(j)') \in Nat
         /\ Cardinality(HoldersOf(j)) \in Nat /\ Cardinality(HoldersOf(j)') \in Nat
         /\ Cardinality(ConsumersIn(j)') + (IF c \in ConsumersIn(j) THEN 1 ELSE 0)
              = Cardinality(ConsumersIn(j)) + (IF c \in ConsumersIn(j)' THEN 1 ELSE 0)
         /\ Cardinality(HoldersOf(j)') + (IF c \in HoldersOf(j) THEN 1 ELSE 0)
              = Cardinality(HoldersOf(j)) + (IF c \in HoldersOf(j)' THEN 1 ELSE 0)
<1>1. consumer'[c] = s /\ \A d \in Fillings \ {c} : consumer'[d] = consumer[d]
  BY DEF SemInv, ThreadTypes
<1>2. producer' = producer
  BY DEF producers
<1>3. InSection(j)' = InSection(j) /\ HasSlot(j)' = HasSlot(j)
  BY <1>2 DEF InSection, HasSlot
<1>4. /\ ConsumersIn(j) \in SUBSET Fillings /\ ConsumersIn(j)' \in SUBSET Fillings
      /\ \A d \in Fillings \ {c} : d \in ConsumersIn(j) <=> d \in ConsumersIn(j)'
  BY <1>1 DEF ConsumersIn
<1>5. /\ HoldersOf(j) \in SUBSET Fillings /\ HoldersOf(j)' \in SUBSET Fillings
      /\ \A d \in Fillings \ {c} : d \in HoldersOf(j) <=> d \in HoldersOf(j)'
  BY <1>1 DEF HoldersOf
<1>6. /\ Cardinality(ConsumersIn(j)) \in Nat /\ Cardinality(ConsumersIn(j)') \in Nat
      /\ Cardinality(ConsumersIn(j)') + (IF c \in ConsumersIn(j) THEN 1 ELSE 0)
           = Cardinality(ConsumersIn(j)) + (IF c \in ConsumersIn(j)' THEN 1 ELSE 0)
  BY <1>4, OneChanges
<1>7. /\ Cardinality(HoldersOf(j)) \in Nat /\ Cardinality(HoldersOf(j)') \in Nat
      /\ Cardinality(HoldersOf(j)') + (IF c \in HoldersOf(j) THEN 1 ELSE 0)
           = Cardinality(HoldersOf(j)) + (IF c \in HoldersOf(j)' THEN 1 ELSE 0)
  BY <1>5, OneChanges
<1> QED
  BY <1>1, <1>3, <1>6, <1>7

LEMMA ConsumerDownFullKeeps ==
  ASSUME SemInv, NEW c \in Fillings, ConsumerDownFull(c)
  PROVE  SemInv'
<1> DEFINE i == wants[c]
<1> USE SemaphoresAssumption DEF ConsumerDownFull, ConsumerStep, CanLock
<1>1. i \in Ingredients /\ consumer'[c] = "down_mutex" /\ wants' = wants
  BY DEF SemInv, ThreadTypes
<1>2. \A j \in Ingredients :
        /\ c \in ConsumersIn(j) <=> FALSE
        /\ c \in ConsumersIn(j)' <=> FALSE
        /\ c \in HoldersOf(j) <=> FALSE
        /\ c \in HoldersOf(j)' <=> j = i
  BY <1>1 DEF ConsumersIn, HoldersOf, Holding
<1>3. /\ full'[i] = full[i] - 1 /\ \A j \in Ingredients \ {i} : full'[j] = full[j]
      /\ full' \in [Ingredients -> Int]
  BY <1>1, DownUp DEF SemInv
<1>4. mutex' = mutex /\ empty' = empty /\ full[i] > 0
  OBVIOUS
<1>5. \A j \in Ingredients : Counted(j)'
  <2> SUFFICES ASSUME NEW j \in Ingredients PROVE Counted(j)'
    OBVIOUS
  <2>1. /\ InSection(j)' = InSection(j) /\ HasSlot(j)' = HasSlot(j)
        /\ Cardinality(ConsumersIn(j)) \in Nat /\ Cardinality(ConsumersIn(j)') \in Nat
        /\ Cardinality(HoldersOf(j)) \in Nat /\ Cardinality(HoldersOf(j)') \in Nat
        /\ Cardinality(ConsumersIn(j)') + (IF c \in ConsumersIn(j) THEN 1 ELSE 0)
             = Cardinality(ConsumersIn(j)) + (IF c \in ConsumersIn(j)' THEN 1 ELSE 0)
        /\ Cardinality(HoldersOf(j)') + (IF c \in HoldersOf(j) THEN 1 ELSE 0)
             = Cardinality(HoldersOf(j)) + (IF c \in HoldersOf(j)' THEN 1 ELSE 0)
    BY <1>1, ConsumerCounts
  <2>2. InSection(j) \in {0, 1} /\ HasSlot(j) \in {0, 1}
    BY DEF InSection, HasSlot
  <2>3. Counted(j)
    BY DEF SemInv
  <2>4. full'[j] = IF j = i THEN full[j] - 1 ELSE full[j]
    BY <1>3
  <2> HIDE DEF i, ConsumerDownFull, ConsumerStep
  <2>5. CASE j = i
    BY <1>2, <1>3, <1>4, <2>1, <2>2, <2>3, <2>4, <2>5 DEF Counted
  <2>6. CASE j # i
    BY <1>2, <1>3, <1>4, <2>1, <2>2, <2>3, <2>4, <2>6 DEF Counted
  <2> QED
    BY <2>5, <2>6
<1>6. RingTypes' /\ ThreadTypes'
  BY DEF SemInv, RingTypes, ThreadTypes, rings, producers
<1> QED
  BY <1>3, <1>4, <1>5, <1>6 DEF SemInv

LEMMA ConsumerDownMutexKeeps ==
  ASSUME SemInv, NEW c \in Fillings, ConsumerDownMutex(c)
  PROVE  SemInv'
<1> DEFINE i == wants[c]
<1> USE SemaphoresAssumption DEF ConsumerDownMutex, ConsumerStep, CanLock
<1>1. i \in Ingredients /\ consumer'[c] = "pop" /\ wants' = wants
  BY DEF SemInv, ThreadTypes
<1>2. \A j \in Ingredients :
        /\ c \in ConsumersIn(j) <=> FALSE
        /\ c \in ConsumersIn(j)' <=> j = i
        /\ c \in HoldersOf(j) <=> j = i
        /\ c \in HoldersOf(j)' <=> j = i
  BY <1>1 DEF ConsumersIn, HoldersOf, Holding
<1>3. /\ mutex'[i] = mutex[i] - 1 /\ \A j \in Ingredients \ {i} : mutex'[j] = mutex[j]
      /\ mutex' \in [Ingredients -> Int]
  BY <1>1, DownUp DEF SemInv
<1>4. full' = full /\ empty' = empty /\ mutex[i] > 0
  OBVIOUS
<1>5. \A j \in Ingredients : Counted(j)'
  <2> SUFFICES ASSUME NEW j \in Ingredients PROVE Counted(j)'
    OBVIOUS
  <2>1. /\ InSection(j)' = InSection(j) /\ HasSlot(j)' = HasSlot(j)
        /\ Cardinality(ConsumersIn(j)) \in Nat /\ Cardinality(ConsumersIn(j)') \in Nat
        /\ Cardinality(HoldersOf(j)) \in Nat /\ Cardinality(HoldersOf(j)') \in Nat
        /\ Cardinality(ConsumersIn(j)') + (IF c \in ConsumersIn(j) THEN 1 ELSE 0)
             = Cardinality(ConsumersIn(j)) + (IF c \in ConsumersIn(j)' THEN 1 ELSE 0)
        /\ Cardinality(HoldersOf(j)') + (IF c \in HoldersOf(j) THEN 1 ELSE 0)
             = Cardinality(HoldersOf(j)) + (IF c \in HoldersOf(j)' THEN 1 ELSE 0)
    BY <1>1, ConsumerCounts
  <2>2. InSection(j) \in {0, 1} /\ HasSlot(j) \in {0, 1}
    BY DEF InSection, HasSlot
  <2>3. Counted(j)
    BY DEF SemInv
  <2>4. mutex'[j] = IF j = i THEN mutex[j] - 1 ELSE mutex[j]
    BY <1>3
  <2> HIDE DEF i, ConsumerDownMutex, ConsumerStep
  <2>5. CASE j = i
    BY <1>2, <1>3, <1>4, <2>1, <2>2, <2>3, <2>4, <2>5 DEF Counted
  <2>6. CASE j # i
    BY <1>2, <1>3, <1>4, <2>1, <2>2, <2>3, <2>4, <2>6 DEF Counted
  <2> QED
    BY <2>5, <2>6
<1>6. RingTypes' /\ ThreadTypes'
  BY DEF SemInv, RingTypes, ThreadTypes, rings, producers
<1> QED
  BY <1>3, <1>4, <1>5, <1>6 DEF SemInv

LEMMA ConsumerUpMutexKeeps ==
  ASSUME SemInv, NEW c \in Fillings, ConsumerUpMutex(c)
  PROVE  SemInv'
<1> DEFINE i == wants[c]
<1> USE SemaphoresAssumption DEF ConsumerUpMutex, ConsumerStep, CanLock
<1>1. i \in Ingredients /\ consumer'[c] = "up_empty" /\ wants' = wants
  BY DEF SemInv, ThreadTypes
<1>2. \A j \in Ingredients :
        /\ c \in ConsumersIn(j) <=> j = i
        /\ c \in ConsumersIn(j)' <=> FALSE
        /\ c \in HoldersOf(j) <=> j = i
        /\ c \in HoldersOf(j)' <=> j = i
  BY <1>1 DEF ConsumersIn, HoldersOf, Holding
<1>3. /\ mutex'[i] = mutex[i] + 1 /\ \A j \in Ingredients \ {i} : mutex'[j] = mutex[j]
      /\ mutex' \in [Ingredients -> Int]
  BY <1>1, DownUp DEF SemInv
<1>4. full' = full /\ empty' = empty
  OBVIOUS
<1>5. \A j \in Ingredients : Counted(j)'
  <2> SUFFICES ASSUME NEW j \in Ingredients PROVE Counted(j)'
    OBVIOUS
  <2>1. /\ InSection(j)' = InSection(j) /\ HasSlot(j)' = HasSlot(j)
        /\ Cardinality(ConsumersIn(j)) \in Nat /\ Cardinality(ConsumersIn(j)') \in Nat
        /\ Cardinality(HoldersOf(j)) \in Nat /\ Cardinality(HoldersOf(j)') \in Nat
        /\ Cardinality(ConsumersIn(j)') + (IF c \in ConsumersIn(j) THEN 1 ELSE 0)
             = Cardinality(ConsumersIn(j)) + (IF c \in ConsumersIn(j)' THEN 1 ELSE 0)
        /\ Cardinality(HoldersOf(j)') + (IF c \in HoldersOf(j) THEN 1 ELSE 0)
             = Cardinality(HoldersOf(j)) + (IF c \in HoldersOf(j)' THEN 1 ELSE 0)
    BY <1>1, ConsumerCounts
  <2>2. InSection(j) \in {0, 1} /\ HasSlot(j) \in {0, 1}
    BY DEF InSection, HasSlot
  <2>3. Counted(j)
    BY DEF SemInv
  <2>4. mutex'[j] = IF j = i THEN mutex[j] + 1 ELSE mutex[j]
    BY <1>3
  <2> HIDE DEF i, ConsumerUpMutex, ConsumerStep
  <2>5. CASE j = i
    BY <1>2, <1>3, <1>4, <2>1, <2>2, <2>3, <2>4, <2>5 DEF Counted
  <2>6. CASE j # i
    BY <1>2, <1>3, <1>4, <2>1, <2>2, <2>3, <2>4, <2>6 DEF Counted
  <2> QED
    BY <2>5, <2>6
<1>6. RingTypes' /\ ThreadTypes'
  BY DEF SemInv, RingTypes, ThreadTypes, rings, producers
<1> QED
  BY <1>3, <1>4, <1>5, <1>6 DEF SemInv

LEMMA ConsumerUpEmptyKeeps ==
  ASSUME SemInv, NEW c \in Fillings, ConsumerUpEmpty(c)
  PROVE  SemInv'
<1> DEFINE i == wants[c]
<1> USE SemaphoresAssumption DEF ConsumerUpEmpty, ConsumerStep, CanLock
<1>1. i \in Ingredients /\ consumer'[c] \in {"make", "down_full"}
      /\ \A d \in Fillings \ {c} : wants'[d] = wants[d]
  BY DEF SemInv, ThreadTypes
<1>2. \A j \in Ingredients :
        /\ c \in ConsumersIn(j) <=> FALSE
        /\ c \in ConsumersIn(j)' <=> FALSE
        /\ c \in HoldersOf(j) <=> j = i
        /\ c \in HoldersOf(j)' <=> FALSE
  BY <1>1 DEF ConsumersIn, HoldersOf, Holding
<1>3. /\ empty'[i] = empty[i] + 1 /\ \A j \in Ingredients \ {i} : empty'[j] = empty[j]
      /\ empty' \in [Ingredients -> Int]
  BY <1>1, DownUp DEF SemInv
<1>4. mutex' = mutex /\ full' = full
  OBVIOUS
<1>5. \A j \in Ingredients : Counted(j)'
  <2> SUFFICES ASSUME NEW j \in Ingredients PROVE Counted(j)'
    OBVIOUS
  <2>1. /\ InSection(j)' = InSection(j) /\ HasSlot(j)' = HasSlot(j)
        /\ Cardinality(ConsumersIn(j)) \in Nat /\ Cardinality(ConsumersIn(j)') \in Nat
        /\ Cardinality(HoldersOf(j)) \in Nat /\ Cardinality(HoldersOf(j)') \in Nat
        /\ Cardinality(ConsumersIn(j)') + (IF c \in ConsumersIn(j) THEN 1 ELSE 0)
             = Cardinality(ConsumersIn(j)) + (IF c \in ConsumersIn(j)' THEN 1 ELSE 0)
        /\ Cardinality(HoldersOf(j)') + (IF c \in HoldersOf(j) THEN 1 ELSE 0)
             = Cardinality(HoldersOf(j)) + (IF c \in HoldersOf(j)' THEN 1 ELSE 0)
    BY <1>1, ConsumerCounts
  <2>2. InSection(j) \in {0, 1} /\ HasSlot(j) \in {0, 1}
    BY DEF InSection, HasSlot
  <2>3. Counted(j)
    BY DEF SemInv
  <2>4. empty'[j] = IF j = i THEN empty[j] + 1 ELSE empty[j]
    BY <1>3
  <2> HIDE DEF i, ConsumerUpEmpty, ConsumerStep
  <2>5. CASE j = i
    BY <1>2, <1>3, <1>4, <2>1, <2>2, <2>3, <2>4, <2>5 DEF Counted
  <2>6. CASE j # i
    BY <1>2, <1>3, <1>4, <2>1, <2>2, <2>3, <2>4, <2>6 DEF Counted
  <2> QED
    BY <2>5, <2>6
<1>6. RingTypes' /\ ThreadTypes'
  BY DEF SemInv, RingTypes, ThreadTypes, Ingredients, rings, producers
<1> QED
  BY <1>3, <1>4, <1>5, <1>6 DEF SemInv

(* The two steps of buffer_pop fill the meal and turn the ring.            *)
LEMMA PopKeeps ==
  ASSUME SemInv, NEW c \in Fillings, PopItem(c) \/ PopAdvance(c)
  PROVE  SemInv'
<1> USE SemaphoresAssumption DEF ConsumerStep
<1>1. PICK s \in {"advance", "up_mutex"} : consumer' = [consumer EXCEPT ![c] = s]
  BY DEF PopItem, PopAdvance
<1>2. /\ UNCHANGED <<producers, semaphores, wants>> /\ wants[c] \in Ingredients
      /\ consumer[c] \in {"pop", "advance"}
  BY DEF PopItem, PopAdvance, SemInv, ThreadTypes
<1>3. consumer'[c] = s /\ \A d \in Fillings \ {c} : consumer'[d] = consumer[d]
  BY <1>1 DEF SemInv, ThreadTypes
<1>4. \A j \in Ingredients : ConsumersIn(j)' = ConsumersIn(j) /\ HoldersOf(j)' = HoldersOf(j)
  <2> SUFFICES ASSUME NEW j \in Ingredients
               PROVE  ConsumersIn(j)' = ConsumersIn(j) /\ HoldersOf(j)' = HoldersOf(j)
    OBVIOUS
  <2>1. \A d \in Fillings : wants'[d] = wants[d]
          /\ (consumer'[d] \in {"pop", "advance", "up_mutex"} <=> consumer[d] \in {"pop", "advance", "up_mutex"})
          /\ (consumer'[d] \in Holding <=> consumer[d] \in Holding)
    BY <1>2, <1>3 DEF Holding
  <2> QED
    BY <2>1 DEF ConsumersIn, HoldersOf
<1>5. \A j \in Ingredients : Counted(j)'
  BY <1>2, <1>4 DEF SemInv, Counted, semaphores, producers, InSection, HasSlot
<1>6. ThreadTypes'
  BY <1>1, <1>2 DEF SemInv, ThreadTypes, producers
<1>7. RingTypes'
  <2>1. CASE PopItem(c)
    <3>1. array[wants[c]][out[wants[c]]] \in 0..Ids - 1
      BY <1>2, SMTT(30) DEF SemInv, RingTypes
    <3>2. Append(meal[c], array[wants[c]][out[wants[c]]]) \in Seq(0..Ids - 1)
      BY <3>1 DEF SemInv, RingTypes
    <3> QED
      BY <1>2, <2>1, <3>2 DEF PopItem, SemInv, RingTypes, rings, producers
  <2>2. CASE PopAdvance(c)
    <3>1. (out[wants[c]] + 1) % N \in 0..N - 1
      BY <1>2, RingNext DEF SemInv, RingTypes
    <3>2. out' = [out EXCEPT ![wants[c]] = (@ + 1) % N] /\ UNCHANGED <<array, in, item, meal>>
      BY <1>2, <2>2 DEF PopAdvance, producers
    <3>3. out' \in [Ingredients -> 0..N - 1]
      BY <3>1, <3>2, <1>2 DEF SemInv, RingTypes
    <3> QED
      BY <3>2, <3>3 DEF SemInv, RingTypes
  <2> QED
    BY <2>1, <2>2
<1> QED
  BY <1>2, <1>5, <1>6, <1>7 DEF SemInv, semaphores

LEMMA MakeKeeps ==
  ASSUME SemInv, NEW c \in Fillings, make_pierogi(c)
  PROVE  SemInv'
<1> USE DEF make_pierogi, ConsumerStep
<1>1. /\ consumer[c] = "make" /\ consumer'[c] = "down_full"
      /\ \A d \in Fillings \ {c} : consumer'[d] = consumer[d] /\ wants'[d] = wants[d]
  BY DEF SemInv, ThreadTypes
<1>2. \A j \in Ingredients : ConsumersIn(j)' = ConsumersIn(j) /\ HoldersOf(j)' = HoldersOf(j)
  <2> SUFFICES ASSUME NEW j \in Ingredients
               PROVE  ConsumersIn(j)' = ConsumersIn(j) /\ HoldersOf(j)' = HoldersOf(j)
    OBVIOUS
  <2>1. c \notin ConsumersIn(j) /\ c \notin HoldersOf(j)
    BY <1>1 DEF ConsumersIn, HoldersOf, Holding
  <2>2. c \notin ConsumersIn(j)' /\ c \notin HoldersOf(j)'
    BY <1>1 DEF ConsumersIn, HoldersOf, Holding
  <2>3. \A d \in Fillings : d \in ConsumersIn(j)' <=> d \in ConsumersIn(j)
    BY <1>1, <2>1, <2>2 DEF ConsumersIn
  <2>4. \A d \in Fillings : d \in HoldersOf(j)' <=> d \in HoldersOf(j)
    BY <1>1, <2>1, <2>2 DEF HoldersOf
  <2>5. ConsumersIn(j)' = ConsumersIn(j)
    BY <2>3 DEF ConsumersIn
  <2>6. HoldersOf(j)' = HoldersOf(j)
    BY <2>4 DEF HoldersOf
  <2> QED
    BY <2>5, <2>6
<1>3. \A j \in Ingredients : Counted(j)'
  BY <1>2 DEF SemInv, Counted, semaphores, producers, InSection, HasSlot
<1>4. RingTypes' /\ ThreadTypes'
  <2>1. << >> \in Seq(0..Ids - 1) /\ c \in Ingredients
    BY DEF Ingredients
  <2>2. RingTypes'
    BY <2>1 DEF SemInv, RingTypes, rings, producers
  <2>3. ThreadTypes'
    BY <2>1 DEF SemInv, ThreadTypes, producers
  <2> QED
    BY <2>2, <2>3
<1> QED
  BY <1>3, <1>4 DEF SemInv, semaphores

-----------------------------------------------------------------------------
LEMMA SemStep == SemInv /\ [Next]_vars => SemInv'
<1> SUFFICES ASSUME SemInv, [Next]_vars PROVE SemInv'
  OBVIOUS
<1>1. ASSUME NEW i \in Ingredients, Producer(i) PROVE SemInv'
  BY <1>1, ProducerDownEmptyKeeps, ProducerDownMutexKeeps, PushKeeps,
     ProducerUpMutexKeeps, ProducerUpFullKeeps DEF Producer
<1>2. ASSUME NEW c \in Fillings, Consumer(c) PROVE SemInv'
  BY <1>2, ConsumerDownFullKeeps, ConsumerDownMutexKeeps, PopKeeps,
     ConsumerUpMutexKeeps, ConsumerUpEmptyKeeps, MakeKeeps DEF Consumer
<1>3. CASE UNCHANGED vars
  <2>1. UNCHANGED <<mutex, full, empty>> /\ UNCHANGED <<array, in, out, item, meal>>
        /\ UNCHANGED <<producer, consumer, wants>>
    BY <1>3 DEF vars, semaphores, rings, producers, consumers
  <2>2. RingTypes' /\ ThreadTypes'
    BY <2>1 DEF SemInv, RingTypes, ThreadTypes
  <2>3. \A i \in Ingredients : Counted(i)'
    BY <2>1 DEF SemInv, Counted, InSection, HasSlot, ConsumersIn, HoldersOf
  <2> QED
    BY <2>1, <2>2, <2>3 DEF SemInv
<1> QED
  BY <1>1, <1>2, <1>3 DEF Next

LEMMA SemInvariant == Spec => []SemInv
BY SemInit, SemStep, PTL DEF Spec

(* What Counted says of the ranges.                                        *)
LEMMA CountsBounded ==
  ASSUME SemInv, NEW i \in Ingredients
  PROVE  /\ mutex[i] \in 0..1 /\ full[i] \in 0..N /\ empty[i] \in 0..N
         /\ InSection(i) + Cardinality(ConsumersIn(i)) <= 1
<1>1. Cardinality(ConsumersIn(i)) \in Nat /\ Cardinality(HoldersOf(i)) \in Nat
  BY Sizes
<1>2. InSection(i) \in {0, 1} /\ HasSlot(i) \in {0, 1}
  BY DEF InSection, HasSlot
<1>3. /\ mutex[i] \in Nat /\ full[i] \in Nat /\ empty[i] \in Nat
      /\ mutex[i] + InSection(i) + Cardinality(ConsumersIn(i)) = 1
      /\ full[i] + empty[i] + HasSlot(i) + Cardinality(HoldersOf(i)) = N
  BY DEF SemInv, Counted
<1>4. mutex[i] \in 0..1 /\ InSection(i) + Cardinality(ConsumersIn(i)) <= 1
  BY <1>1, <1>2, <1>3
<1>5. N \in Nat
  BY SemaphoresAssumption
<1>6. full[i] \in 0..N /\ empty[i] \in 0..N
  BY <1>1, <1>2, <1>3, <1>5
<1> QED
  BY <1>4, <1>6

(* No buffer ever counts more than N items or free slots, and its mutex is *)
(* 0 or 1: sem_post never raises a semaphore past what sem_init gave it    *)
(* (semafors/main.c).                                                      *)
THEOREM KitchenTypes == Spec => []TypeOK
<1>1. SemInv => TypeOK
  <2> SUFFICES ASSUME SemInv PROVE TypeOK
    OBVIOUS
  <2>1. \A i \in Ingredients : mutex[i] \in 0..1 /\ full[i] \in 0..N /\ empty[i] \in 0..N
    BY CountsBounded
  <2> QED
    BY <2>1 DEF SemInv, RingTypes, ThreadTypes, TypeOK
<1> QED
  BY <1>1, SemInvariant, PTL

(* Of the producer of a buffer and all its consumers, one at most is       *)
(* between down(&mutex) and up(&mutex), whatever their number.             *)
THEOREM OneInside == Spec => []Exclusion
<1>1. SemInv => Exclusion
  <2> SUFFICES ASSUME SemInv, NEW i \in Ingredients
               PROVE  Cardinality(ProducersIn(i)) + Cardinality(ConsumersIn(i)) <= 1
    BY DEF Exclusion
  <2>1. CASE producer[i] \in {"push", "advance", "up_mutex"}
    <3>1. ProducersIn(i) = {i}
      BY <2>1 DEF ProducersIn
    <3>2. Cardinality(ProducersIn(i)) = 1
      BY <3>1, FS_Singleton
    <3> QED
      BY <2>1, <3>2, CountsBounded DEF InSection
  <2>2. CASE producer[i] \notin {"push", "advance", "up_mutex"}
    <3>1. ProducersIn(i) = {}
      BY <2>2 DEF ProducersIn
    <3>2. Cardinality(ProducersIn(i)) = 0
      BY <3>1, FS_EmptySet
    <3> QED
      BY <2>2, <3>2, CountsBounded DEF InSection
  <2> QED
    BY <2>1, <2>2
<1> QED
  BY <1>1, SemInvariant, PTL

(* main.c takes empty before mutex and full before mutex: since nobody     *)
(* waits for a slot or an item while holding a mutex, the threads of a     *)
(* buffer are never all blocked in down() while somebody wants an item of  *)
(* it, however large the buffer and however many consumers share it.       *)
THEOREM SomebodyGoesOn == Spec => []NoStandstill
<1>1. SemInv => NoStandstill
  <2> SUFFICES ASSUME SemInv, NEW i \in Ingredients, NEW c \in Fillings, wants[c] = i,
                      ~ProducerGoesOn(i),
                      \A d \in Fillings : wants[d] = i => ~ConsumerGoesOn(d)
               PROVE  FALSE
    BY DEF NoStandstill
  <2>1. /\ producer[i] \in {"down_empty", "down_mutex"}
        /\ \A d \in Fillings : wants[d] = i => consumer[d] \in {"down_full", "down_mutex"}
    BY DEF ProducerGoesOn, ConsumerGoesOn
  <2>2. /\ mutex[i] \in Nat /\ full[i] \in Nat /\ empty[i] \in Nat
        /\ mutex[i] + InSection(i) + Cardinality(ConsumersIn(i)) = 1
        /\ full[i] + empty[i] + HasSlot(i) + Cardinality(HoldersOf(i)) = N
    BY DEF SemInv, Counted
  <2>3. Cardinality({}) = 0
    BY FS_EmptySet
  <2>4. mutex[i] > 0
    <3>1. InSection(i) = 0 /\ ConsumersIn(i) = {}
      BY <2>1 DEF InSection, ConsumersIn
    <3> QED
      BY <2>2, <2>3, <3>1
  <2>5. /\ producer[i] = "down_empty" /\ ~(empty[i] > 0)
        /\ ~(full[i] > 0)
        /\ \A d \in Fillings : wants[d] = i => consumer[d] = "down_full"
    BY <2>1, <2>4 DEF ProducerGoesOn, ConsumerGoesOn
  <2>6. HasSlot(i) = 0 /\ HoldersOf(i) = {}
    BY <2>5 DEF HasSlot, HoldersOf, Holding
  <2> QED
    BY <2>2, <2>3, <2>5, <2>6, SemaphoresAssumption
<1> QED
  BY <1>1, SemInvariant, PTL
-----------------------------------------------------------------------------
(* The kitchen behind the semaphores.                                      *)

(* The producer of i has a slot that it has not filled, and the consumers  *)
(* that have emptied a slot and not yet given it back.                     *)
Filling(i) == IF producer[i] \in {"down_mutex", "push", "advance"} THEN 1 ELSE 0
Givers(i) == {c \in Fillings : wants[c] = i /\ consumer[c] \in {"up_mutex", "up_empty"}}

(* The producer's index is as many places behind the consumers' as there   *)
(* are items; an item put in the ring is in its place before the index     *)
(* moves on.                                                               *)
RingAt(i) ==
  /\ in[i] = (out[i] + InBuffer(i)) % N
  /\ producer[i] = "advance" => array[i][in[i]] = item[i]

(* A consumer has its filling first, then the dough; what it has just      *)
(* popped is still the first item of the ring.                             *)
Served(c) == IF consumer[c] \in {"advance", "up_mutex", "up_empty", "make"} THEN 1 ELSE 0
MealAt(c) ==
  /\ wants[c] \in {c, Dough}
  /\ consumer[c] = "make" => wants[c] = Dough
  /\ Len(meal[c]) = (IF wants[c] = c THEN 0 ELSE 1) + Served(c)
  /\ consumer[c] = "advance" => meal[c][Len(meal[c])] = array[wants[c]][out[wants[c]]]

ItemsInv == (\A i \in Ingredients : RingAt(i)) /\ (\A c \in Fillings : MealAt(c))

(* How many items there are, from the counts of the semaphores.            *)
LEMMA GiversSize ==
  ASSUME NEW i
  PROVE  /\ Cardinality(Givers(i)) \in Nat
         /\ InBuffer(i) = N - empty[i] - Filling(i) - Cardinality(Givers(i))
<1>1. Cardinality(Givers(i)) \in Nat
  BY SemaphoresAssumption, FS_Subset, FS_CardinalityType DEF Givers
<1> QED
  BY <1>1 DEF InBuffer, Filling, Givers

(* No buffer holds less than nothing or more than N items.  There is room  *)
(* for the producer with a slot, and an item for a consumer that is to     *)
(* pop.                                                                    *)
LEMMA InBufferRange ==
  ASSUME SemInv, NEW i \in Ingredients
  PROVE  /\ InBuffer(i) \in 0..N
         /\ Filling(i) = 1 => InBuffer(i) \in 0..N - 1
         /\ \A c \in Fillings : wants[c] = i /\ consumer[c] \in {"down_mutex", "pop", "advance"}
                                => InBuffer(i) \in 1..N
<1> DEFINE g == Cardinality(Givers(i))
           h == Cardinality(HoldersOf(i))
<1>1. g \in Nat /\ h \in Nat /\ InBuffer(i) = N - empty[i] - Filling(i) - g
  BY GiversSize, Sizes
<1>2. /\ full[i] \in Nat /\ empty[i] \in Nat /\ N \in Nat
      /\ full[i] + empty[i] + HasSlot(i) + h = N
  BY SemaphoresAssumption DEF SemInv, Counted
<1>3. Filling(i) \in {0, 1} /\ HasSlot(i) \in {0, 1} /\ Filling(i) <= HasSlot(i)
  BY DEF Filling, HasSlot
<1>4. Givers(i) \in SUBSET HoldersOf(i) /\ IsFiniteSet(HoldersOf(i))
  BY SemaphoresAssumption, FS_Subset DEF Givers, HoldersOf, Holding
<1>5. g <= h
  BY <1>4, FS_Subset
<1>6. ASSUME NEW c \in Fillings, wants[c] = i, consumer[c] \in {"down_mutex", "pop", "advance"}
      PROVE  g <= h - 1
  <2>1. c \in HoldersOf(i) /\ c \notin Givers(i)
    BY <1>6 DEF HoldersOf, Holding, Givers
  <2>2. Givers(i) \in SUBSET (HoldersOf(i) \ {c}) /\ IsFiniteSet(HoldersOf(i) \ {c})
    BY <2>1, <1>4, FS_Subset
  <2>3. Cardinality(HoldersOf(i) \ {c}) = h - 1
    BY <2>1, <1>4, FS_RemoveElement
  <2> QED
    BY <2>2, <2>3, FS_Subset
<1> HIDE DEF g, h
<1>7. InBuffer(i) \in 0..N /\ (Filling(i) = 1 => InBuffer(i) \in 0..N - 1)
  BY <1>1, <1>2, <1>3, <1>5
<1>8. ASSUME g <= h - 1 PROVE InBuffer(i) \in 1..N
  BY <1>1, <1>2, <1>3, <1>8
<1> QED
  BY <1>6, <1>7, <1>8

(* A thread that is in a ring is alone there.                              *)
LEMMA Alone ==
  ASSUME SemInv, NEW i \in Ingredients
  PROVE  /\ InSection(i) = 1 => ConsumersIn(i) = {}
         /\ \A c, d \in ConsumersIn(i) : c = d
<1>1. /\ mutex[i] \in Nat /\ InSection(i) \in {0, 1} /\ Cardinality(ConsumersIn(i)) \in Nat
      /\ mutex[i] + InSection(i) + Cardinality(ConsumersIn(i)) = 1
  BY Sizes DEF SemInv, Counted, InSection
<1>2. IsFiniteSet(ConsumersIn(i))
  BY SemaphoresAssumption, FS_Subset DEF ConsumersIn
<1>3. InSection(i) = 1 => ConsumersIn(i) = {}
  BY <1>1, <1>2, FS_EmptySet
<1>4. ASSUME NEW c \in ConsumersIn(i), NEW d \in ConsumersIn(i) PROVE c = d
  <2>1. /\ IsFiniteSet(ConsumersIn(i) \ {c})
        /\ Cardinality(ConsumersIn(i) \ {c}) = Cardinality(ConsumersIn(i)) - 1
    BY <1>2, <1>4, FS_RemoveElement
  <2>2. Cardinality(ConsumersIn(i) \ {c}) = 0
    BY <1>1, <2>1, FS_CardinalityType
  <2>3. ConsumersIn(i) \ {c} = {}
    BY <2>1, <2>2, FS_EmptySet
  <2> QED
    BY <2>3, <1>4
<1> QED
  BY <1>3, <1>4

(* What a step of the producer of i does to the number of items.           *)
LEMMA ProducerItems ==
  ASSUME SemInv, NEW i \in Ingredients, UNCHANGED consumers,
         NEW s, producer' = [producer EXCEPT ![i] = s],
         empty' \in [Ingredients -> Int],
         \A j \in Ingredients \ {i} : empty'[j] = empty[j],
         NEW d \in Int, empty'[i] + Filling(i)' + d = empty[i] + Filling(i)
  PROVE  /\ InBuffer(i)' = InBuffer(i) + d
         /\ \A j \in Ingredients \ {i} : InBuffer(j)' = InBuffer(j)
<1>1. \A j \in Ingredients : Givers(j)' = Givers(j)
  BY DEF Givers, consumers
<1>2. \A j \in Ingredients \ {i} : Filling(j)' = Filling(j)
  BY DEF Filling, SemInv, ThreadTypes
<1>3. \A j \in Ingredients : /\ Cardinality(Givers(j)) \in Nat
                             /\ InBuffer(j) = N - empty[j] - Filling(j) - Cardinality(Givers(j))
                             /\ InBuffer(j)' = N - empty'[j] - Filling(j)' - Cardinality(Givers(j)')
  <2> SUFFICES ASSUME NEW j \in Ingredients
               PROVE  /\ Cardinality(Givers(j)) \in Nat
                      /\ InBuffer(j) = N - empty[j] - Filling(j) - Cardinality(Givers(j))
                      /\ InBuffer(j)' = N - empty'[j] - Filling(j)' - Cardinality(Givers(j)')
    OBVIOUS
  <2>1. /\ Cardinality(Givers(j)) \in Nat
        /\ InBuffer(j) = N - empty[j] - Filling(j) - Cardinality(Givers(j))
    BY GiversSize
  <2>2. InBuffer(j)' = N - empty'[j] - Filling(j)' - Cardinality(Givers(j)')
    BY DEF InBuffer, Filling, Givers
  <2> QED
    BY <2>1, <2>2
<1>4. Filling(i) \in {0, 1} /\ Filling(i)' \in {0, 1} /\ empty[i] \in Int /\ empty'[i] \in Int /\ N \in Nat
  BY SemaphoresAssumption DEF Filling, SemInv
<1>5. \A j \in Ingredients \ {i} : InBuffer(j)' = InBuffer(j)
  BY <1>1, <1>2, <1>3
<1>6. InBuffer(i)' = InBuffer(i) + d
  BY <1>1, <1>3, <1>4
<1> QED
  BY <1>5, <1>6

(* And a step of consumer c.                                               *)
LEMMA ConsumerItems ==
  ASSUME SemInv, NEW c \in Fillings, UNCHANGED producers,
         NEW s, consumer' = [consumer EXCEPT ![c] = s],
         \A d \in Fillings \ {c} : wants'[d] = wants[d],
         empty' \in [Ingredients -> Int],
         NEW j \in Ingredients, NEW d \in Int,
         empty'[j] + (IF c \in Givers(j)' THEN 1 ELSE 0) + d
            = empty[j] + (IF c \in Givers(j) THEN 1 ELSE 0)
  PROVE  InBuffer(j)' = InBuffer(j) + d
<1>1. /\ Givers(j) \in SUBSET Fillings /\ Givers(j)' \in SUBSET Fillings
      /\ \A e \in Fillings \ {c} : e \in Givers(j) <=> e \in Givers(j)'
  BY DEF Givers, SemInv, ThreadTypes
<1>2. /\ Cardinality(Givers(j)) \in Nat /\ Cardinality(Givers(j)') \in Nat
      /\ Cardinality(Givers(j)') + (IF c \in Givers(j) THEN 1 ELSE 0)
           = Cardinality(Givers(j)) + (IF c \in Givers(j)' THEN 1 ELSE 0)
  BY <1>1, OneChanges
<1>3. InBuffer(j) = N - empty[j] - Filling(j) - Cardinality(Givers(j))
  BY GiversSize
<1>4. InBuffer(j)' = N - empty'[j] - Filling(j)' - Cardinality(Givers(j)')
  BY DEF InBuffer, Filling, Givers
<1>5. Filling(j)' = Filling(j) /\ Filling(j) \in {0, 1} /\ empty[j] \in Int /\ empty'[j] \in Int /\ N \in Nat
  BY SemaphoresAssumption DEF Filling, SemInv, producers
<1> QED
  BY <1>2, <1>3, <1>4, <1>5

(* A sequence but for its last element.                                    *)
LEMMA FrontIs ==
  ASSUME NEW S, NEW q \in Seq(S), q # << >>
  PROVE  /\ Front(q) \in Seq(S) /\ Len(Front(q)) = Len(q) - 1
         /\ \A j \in 1..Len(q) - 1 : Front(q)[j] = q[j]
         /\ q = Append(Front(q), q[Len(q)])
<1>1. /\ Len(q) \in Nat \ {0} /\ \A j \in 1..Len(q) : q[j] \in S
  BY EmptySeq, LenProperties, ElementOfSeq
<1>2. /\ Front(q) \in Seq(S) /\ Len(Front(q)) = Len(q) - 1
      /\ \A j \in 1..Len(q) - 1 : Front(q)[j] = q[j]
  <2>1. 1 \in Int /\ Len(q) - 1 \in Int /\ \A j \in 1..Len(q) - 1 : q[j] \in S
    BY <1>1
  <2> DEFINE n == Len(q) - 1
             f == SubSeq(q, 1, n)
  <2>2. /\ f \in Seq(S) /\ Len(f) = IF 1 <= n THEN n - 1 + 1 ELSE 0
        /\ \A j \in 1..n - 1 + 1 : f[j] = q[1 + j - 1]
    BY <2>1, SubSeqProperties
  <2>3. n \in Nat /\ f = Front(q)
    BY <1>1 DEF Front
  <2> HIDE DEF n, f
  <2>4. Len(f) = n /\ \A j \in 1..n : j \in 1..n - 1 + 1 /\ 1 + j - 1 = j
    BY <2>2, <2>3
  <2>5. \A j \in 1..n : f[j] = q[j]
    BY <2>2, <2>4
  <2> QED
    BY <2>2, <2>3, <2>4, <2>5 DEF n
<1>3. \A m \in Seq(S), x \in S :
        /\ Append(m, x) \in Seq(S) /\ Len(Append(m, x)) = Len(m) + 1
        /\ \A j \in 1..Len(m) : Append(m, x)[j] = m[j]
        /\ Append(m, x)[Len(m) + 1] = x
  BY AppendProperties
<1>4. q = Append(Front(q), q[Len(q)])
  <2> DEFINE r == Append(Front(q), q[Len(q)])
  <2>1. q[Len(q)] \in S
    BY <1>1
  <2>2. r \in Seq(S) /\ Len(r) = Len(q) /\ r[Len(q)] = q[Len(q)]
        /\ \A j \in 1..Len(q) - 1 : r[j] = q[j]
    BY <2>1, <1>1, <1>2, <1>3
  <2> HIDE DEF r
  <2>3. \A j \in 1..Len(q) : q[j] = r[j]
    BY <2>2, <1>1
  <2>4. q = r
    BY <2>2, <2>3, SeqEqual
  <2> QED
    BY <2>4 DEF r
<1>5. \A j \in 1..Len(q) - 1 : Front(q)[j] = q[j]
  BY <1>2
<1> QED
  BY <1>2, <1>4, <1>5

(* What Append adds, Front takes away.                                     *)
LEMMA FrontOf ==
  ASSUME NEW S, NEW m \in Seq(S), NEW x \in S
  PROVE  Front(Append(m, x)) = m
<1> DEFINE q == Append(m, x)
<1>1. /\ q \in Seq(S) /\ Len(m) \in Nat /\ Len(q) = Len(m) + 1
      /\ \A j \in 1..Len(m) : q[j] = m[j]
  BY AppendProperties, LenProperties
<1> HIDE DEF q
<1>2. q # << >>
  BY <1>1, EmptySeq
<1>3. /\ Front(q) \in Seq(S) /\ Len(Front(q)) = Len(q) - 1
      /\ \A j \in 1..Len(q) - 1 : Front(q)[j] = q[j]
  BY <1>1, <1>2, FrontIs
<1>4. Len(Front(q)) = Len(m) /\ \A j \in 1..Len(m) : Front(q)[j] = m[j]
  BY <1>1, <1>3
<1>5. Front(q) = m
  BY <1>1, <1>3, <1>4, SeqEqual
<1> QED
  BY <1>5 DEF q

(* The kitchen of Pierogi: what is in the rings, what the producers made   *)
(* and what the consumers took.                                            *)
Stock == [i \in Ingredients |-> Ring(array[i], N, out[i], InBuffer(i))]
Made == [i \in Ingredients |-> IF producer[i] \in {"up_mutex", "up_full"}
                               THEN (item[i] + 1) % Ids ELSE item[i]]
Eaten == [c \in Fillings |-> IF consumer[c] = "advance" THEN Front(meal[c]) ELSE meal[c]]

Unseen == Stock' = Stock /\ Made' = Made /\ Eaten' = Eaten

(* A step that changes none of them is none of the kitchen.                *)
LEMMA UnseenIs == Unseen => UNCHANGED Kitchen!kitchen
BY DEF Unseen, Stock, Ring, Made, Eaten, Kitchen!kitchen

(* What is in the ring of i, item by item.                                 *)
LEMMA StockItems ==
  ASSUME SemInv, NEW i \in Ingredients
  PROVE  /\ array[i] \in [0..N - 1 -> 0..Ids - 1] /\ out[i] \in 0..N - 1 /\ in[i] \in 0..N - 1
         /\ IsRing(Stock[i], 0..Ids - 1, array[i], N, out[i], InBuffer(i))
<1>1. array[i] \in [0..N - 1 -> 0..Ids - 1] /\ out[i] \in 0..N - 1 /\ in[i] \in 0..N - 1
  BY DEF SemInv, RingTypes
<1>2. IsRing(Ring(array[i], N, out[i], InBuffer(i)), 0..Ids - 1, array[i], N, out[i], InBuffer(i))
  BY <1>1, SemaphoresAssumption, InBufferRange, RingItems
<1> QED
  BY <1>1, <1>2 DEF Stock

LEMMA ItemsInit == Init => ItemsInv /\ Kitchen!Init
<1> SUFFICES ASSUME Init PROVE ItemsInv /\ Kitchen!Init
  OBVIOUS
<1>1. SemInv
  BY SemInit
<1>2. \A i \in Ingredients : Givers(i) = {} /\ Filling(i) = 0
  BY DEF Init, Givers, Filling
<1>3. ASSUME NEW i \in Ingredients PROVE InBuffer(i) = 0
  <2>1. empty[i] = N /\ N \in Nat
    BY SemaphoresAssumption DEF Init
  <2>2. Cardinality(Givers(i)) = 0
    BY <1>2, FS_EmptySet
  <2> QED
    BY <1>2, <2>1, <2>2, GiversSize
<1>4. \A i \in Ingredients : RingAt(i)
  <2>1. (0 + 0) % N = 0
    BY RingIndex, SemaphoresAssumption
  <2> QED
    BY <1>3, <2>1 DEF Init, RingAt
<1>5. \A c \in Fillings : MealAt(c)
  BY DEF Init, MealAt, Served
<1>6. ASSUME NEW i \in Ingredients PROVE Stock[i] = << >>
  BY <1>1, <1>3, StockItems, EmptySeq DEF IsRing
<1>7. Stock = [i \in Ingredients |-> << >>]
  BY <1>6 DEF Stock
<1>8. Made = [i \in Ingredients |-> 0] /\ Eaten = [c \in Fillings |-> << >>]
  BY DEF Init, Made, Eaten
<1>9. Kitchen!Init
  BY <1>7, <1>8 DEF Kitchen!Init, Kitchen!Ingredients, Ingredients, Stock, Ring, Made, Eaten
<1> QED
  BY <1>4, <1>5, <1>9 DEF ItemsInv

-----------------------------------------------------------------------------
(* The steps at the semaphores, which the kitchen does not see.            *)

(* A producer at its semaphores. The item it makes in ProducerUpFull was   *)
(* counted as made when the ring advanced.                                 *)
LEMMA ProducerAside ==
  ASSUME SemInv, ItemsInv, NEW i \in Ingredients,
         \/ ProducerDownEmpty(i) \/ ProducerDownMutex(i)
         \/ ProducerUpMutex(i) \/ ProducerUpFull(i)
  PROVE  ItemsInv' /\ Unseen
<1>1. /\ UNCHANGED consumers /\ array' = array /\ in' = in /\ out' = out
  BY DEF ProducerDownEmpty, ProducerDownMutex, ProducerUpMutex, ProducerUpFull, ProducerStep, rings
<1>2. PICK s \in {"down_mutex", "push", "up_full", "down_empty"} :
        producer' = [producer EXCEPT ![i] = s]
  BY DEF ProducerDownEmpty, ProducerDownMutex, ProducerUpMutex, ProducerUpFull, ProducerStep
<1>3. producer'[i] = s /\ \A j \in Ingredients \ {i} : producer'[j] = producer[j]
  BY <1>2 DEF SemInv, ThreadTypes
<1>4. /\ empty' \in [Ingredients -> Int] /\ \A j \in Ingredients \ {i} : empty'[j] = empty[j]
      /\ empty'[i] + Filling(i)' + 0 = empty[i] + Filling(i)
  <2>0. empty \in [Ingredients -> Int] /\ empty[i] \in Int
    BY DEF SemInv
  <2>1. CASE ProducerDownEmpty(i)
    <3>1. producer[i] = "down_empty" /\ producer'[i] = "down_mutex" /\ empty' = down(empty, i)
      BY <2>1 DEF ProducerDownEmpty, ProducerStep, SemInv, ThreadTypes
    <3>2. Filling(i) = 0 /\ Filling(i)' = 1
      BY <3>1 DEF Filling
    <3> QED
      BY <2>0, <3>1, <3>2, DownUp
  <2>2. CASE ProducerDownMutex(i) \/ ProducerUpMutex(i) \/ ProducerUpFull(i)
    <3>1. empty' = empty
      BY <2>2 DEF ProducerDownMutex, ProducerUpMutex, ProducerUpFull
    <3>2. Filling(i)' = Filling(i) /\ Filling(i) \in {0, 1}
      BY <2>2 DEF ProducerDownMutex, ProducerUpMutex, ProducerUpFull, ProducerStep, Filling, SemInv, ThreadTypes
    <3> QED
      BY <2>0, <3>1, <3>2
  <2> QED
    BY <2>1, <2>2
<1>5. \A j \in Ingredients : InBuffer(j)' = InBuffer(j)
  <2>0. 0 \in Int
    OBVIOUS
  <2>1. /\ InBuffer(i)' = InBuffer(i) + 0
        /\ \A j \in Ingredients \ {i} : InBuffer(j)' = InBuffer(j)
    BY <2>0, <1>1, <1>2, <1>4, ProducerItems
  <2> QED
    BY <2>1, InBufferRange
<1>6. /\ \A j \in Ingredients \ {i} : item'[j] = item[j]
      /\ Made'[i] = Made[i]
  <2>1. CASE ProducerDownEmpty(i) \/ ProducerDownMutex(i) \/ ProducerUpMutex(i)
    BY <2>1 DEF ProducerDownEmpty, ProducerDownMutex, ProducerUpMutex, ProducerStep, Made, SemInv, ThreadTypes
  <2>2. CASE ProducerUpFull(i)
    <3>1. /\ producer[i] = "up_full" /\ producer'[i] = "down_empty"
          /\ item'[i] = (item[i] + 1) % Ids /\ \A j \in Ingredients \ {i} : item'[j] = item[j]
      BY <2>2 DEF ProducerUpFull, ProducerStep, SemInv, ThreadTypes, RingTypes
    <3> QED
      BY <3>1 DEF Made
  <2> QED
    BY <2>1, <2>2
<1>7. \A j \in Ingredients : RingAt(j)'
  <2> SUFFICES ASSUME NEW j \in Ingredients PROVE RingAt(j)'
    OBVIOUS
  <2>1. RingAt(j) /\ InBuffer(j)' = InBuffer(j)
    BY <1>5 DEF ItemsInv
  <2>2. producer'[j] = "advance" => producer[j] = "advance" /\ item'[j] = item[j]
    BY <1>2, <1>3, <1>6
  <2> QED
    BY <2>1, <2>2, <1>1 DEF RingAt
<1>8. \A c \in Fillings : MealAt(c)'
  BY <1>1 DEF ItemsInv, MealAt, Served, consumers
<1>9. Unseen
  <2>1. Stock' = Stock
    BY <1>1, <1>5 DEF Stock
  <2>2. Made' = Made
    <3>1. \A j \in Ingredients : Made'[j] = Made[j]
      BY <1>3, <1>6 DEF Made
    <3> QED
      BY <3>1 DEF Made
  <2>3. Eaten' = Eaten
    BY <1>1 DEF Eaten, consumers
  <2> QED
    BY <2>1, <2>2, <2>3 DEF Unseen
<1> QED
  BY <1>7, <1>8, <1>9 DEF ItemsInv

(* What is common to the steps of a consumer that move no index.           *)
LEMMA ConsumerQuiet ==
  ASSUME ItemsInv, NEW c \in Fillings,
         producer' = producer, item' = item, meal' = meal, array' = array, in' = in, out' = out,
         \A d \in Fillings \ {c} : consumer'[d] = consumer[d] /\ wants'[d] = wants[d],
         \A j \in Ingredients : InBuffer(j)' = InBuffer(j),
         consumer[c] # "advance", consumer'[c] # "advance", MealAt(c)'
  PROVE  ItemsInv' /\ Unseen
<1>1. \A j \in Ingredients : RingAt(j)'
  BY DEF ItemsInv, RingAt
<1>2. ASSUME NEW d \in Fillings PROVE MealAt(d)'
  <2>1. CASE d # c
    <3>1. MealAt(d) /\ consumer'[d] = consumer[d] /\ wants'[d] = wants[d]
      BY <2>1 DEF ItemsInv
    <3> QED
      BY <3>1 DEF MealAt, Served
  <2> QED
    BY <2>1
<1>3. Stock' = Stock /\ Made' = Made
  BY DEF Stock, Made
<1>4. \A d \in Fillings : Eaten'[d] = Eaten[d]
  BY DEF Eaten
<1>5. Eaten' = Eaten
  BY <1>4 DEF Eaten
<1> QED
  BY <1>1, <1>2, <1>3, <1>5 DEF ItemsInv, Unseen

(* A consumer at its semaphores.                                           *)
LEMMA ConsumerAside ==
  ASSUME SemInv, ItemsInv, NEW c \in Fillings,
         \/ ConsumerDownFull(c) \/ ConsumerDownMutex(c)
         \/ ConsumerUpMutex(c) \/ ConsumerUpEmpty(c)
  PROVE  ItemsInv' /\ Unseen
<1>1. /\ producer' = producer /\ item' = item /\ meal' = meal
      /\ array' = array /\ in' = in /\ out' = out
  BY DEF ConsumerDownFull, ConsumerDownMutex, ConsumerUpMutex, ConsumerUpEmpty, ConsumerStep,
         rings, producers
<1>2. PICK s \in {"down_mutex", "pop", "up_empty", "down_full", "make"} :
        consumer' = [consumer EXCEPT ![c] = s]
  BY DEF ConsumerDownFull, ConsumerDownMutex, ConsumerUpMutex, ConsumerUpEmpty, ConsumerStep
<1>3. /\ consumer'[c] = s /\ consumer[c] # "advance"
      /\ \A d \in Fillings \ {c} : consumer'[d] = consumer[d] /\ wants'[d] = wants[d]
  <2>1. consumer'[c] = s /\ \A d \in Fillings \ {c} : consumer'[d] = consumer[d]
    BY <1>2 DEF SemInv, ThreadTypes
  <2>2. consumer[c] # "advance" /\ \A d \in Fillings \ {c} : wants'[d] = wants[d]
    BY DEF ConsumerDownFull, ConsumerDownMutex, ConsumerUpMutex, ConsumerUpEmpty, ConsumerStep,
           SemInv, ThreadTypes
  <2> QED
    BY <2>1, <2>2
<1>4. MealAt(c) /\ wants[c] \in Ingredients
  BY DEF ItemsInv, SemInv, ThreadTypes
<1>5. CASE ConsumerUpEmpty(c)
  <2>1. /\ consumer[c] = "up_empty" /\ wants'[c] = Dough /\ empty' = up(empty, wants[c])
        /\ s = IF wants[c] = Dough THEN "make" ELSE "down_full"
    BY <1>3, <1>5 DEF ConsumerUpEmpty, ConsumerStep, SemInv, ThreadTypes
  <2>2. /\ empty' \in [Ingredients -> Int]
        /\ \A j \in Ingredients : empty[j] \in Int /\ empty'[j] = IF j = wants[c] THEN empty[j] + 1 ELSE empty[j]
    BY <2>1, <1>4, DownUp DEF SemInv
  <2>3. \A j \in Ingredients : (c \in Givers(j) <=> j = wants[c]) /\ c \notin Givers(j)'
    BY <2>1, <1>2, <1>3 DEF Givers
  <2>4. \A j \in Ingredients : InBuffer(j)' = InBuffer(j)
    <3> SUFFICES ASSUME NEW j \in Ingredients PROVE InBuffer(j)' = InBuffer(j)
      OBVIOUS
    <3>1. empty'[j] + (IF c \in Givers(j)' THEN 1 ELSE 0) + 0 = empty[j] + (IF c \in Givers(j) THEN 1 ELSE 0)
      BY <2>2, <2>3
    <3>2. UNCHANGED producers /\ 0 \in Int /\ \A d \in Fillings \ {c} : wants'[d] = wants[d]
      BY <1>1, <1>3 DEF producers
    <3>3. InBuffer(j)' = InBuffer(j) + 0
      BY <3>1, <3>2, <2>2, <1>2, ConsumerItems
    <3> QED
      BY <3>3, InBufferRange
  <2>5. MealAt(c)'
    BY <2>1, <1>1, <1>3, <1>4, SemaphoresAssumption DEF MealAt, Served
  <2> QED
    BY <2>4, <2>5, <1>1, <1>3, ConsumerQuiet
<1>6. CASE ConsumerDownFull(c) \/ ConsumerDownMutex(c) \/ ConsumerUpMutex(c)
  <2>1. /\ wants' = wants /\ empty' = empty
        /\ (consumer[c] \in {"up_mutex", "up_empty"} <=> s \in {"up_mutex", "up_empty"})
        /\ consumer[c] \in {"down_full", "down_mutex", "up_mutex"}
        /\ consumer[c] = "up_mutex" <=> s = "up_empty"
        /\ s # "make"
    BY <1>3, <1>6 DEF ConsumerDownFull, ConsumerDownMutex, ConsumerUpMutex, ConsumerStep, SemInv, ThreadTypes
  <2>2. \A j \in Ingredients : Givers(j)' = Givers(j)
    <3>1. ASSUME NEW j \in Ingredients, NEW d \in Fillings PROVE d \in Givers(j)' <=> d \in Givers(j)
      <4>1. CASE d = c
        BY <4>1, <2>1, <1>3 DEF Givers
      <4>2. CASE d # c
        BY <4>2, <2>1, <1>3 DEF Givers
      <4> QED
        BY <4>1, <4>2
    <3>2. \A j \in Ingredients : Givers(j) \in SUBSET Fillings /\ Givers(j)' \in SUBSET Fillings
      BY DEF Givers
    <3> QED
      BY <3>1, <3>2
  <2>3. \A j \in Ingredients : InBuffer(j)' = InBuffer(j)
    <3>1. \A j \in Ingredients : Filling(j)' = Filling(j)
      BY <1>1 DEF Filling
    <3>2. \A j : InBuffer(j) = N - empty[j] - Filling(j) - Cardinality(Givers(j))
      BY DEF InBuffer, Filling, Givers
    <3>3. \A j : InBuffer(j)' = N - empty'[j] - Filling(j)' - Cardinality(Givers(j)')
      BY DEF InBuffer, Filling, Givers
    <3> QED
      BY <2>1, <2>2, <3>1, <3>2, <3>3
  <2>4. MealAt(c)'
    <3>1. Served(c)' = Served(c) /\ consumer'[c] \notin {"advance", "make"}
      BY <2>1, <1>2, <1>3 DEF Served
    <3> QED
      BY <3>1, <2>1, <1>1, <1>4 DEF MealAt
  <2> QED
    BY <2>3, <2>4, <1>1, <1>3, ConsumerQuiet
<1> QED
  BY <1>5, <1>6

-----------------------------------------------------------------------------
(* The steps in the rings.                                                 *)

(* The item written lies behind those in the ring and disturbs none.       *)
LEMMA PushItemAside ==
  ASSUME SemInv, ItemsInv, NEW i \in Ingredients, PushItem(i)
  PROVE  ItemsInv' /\ Unseen
<1>1. /\ producer[i] = "push" /\ producer' = [producer EXCEPT ![i] = "advance"]
      /\ array' = [array EXCEPT ![i][in[i]] = item[i]]
      /\ UNCHANGED <<consumer, wants, meal, empty, in, out, item>>
  BY DEF PushItem, ProducerStep, consumers, semaphores
<1>2. producer'[i] = "advance" /\ \A j \in Ingredients \ {i} : producer'[j] = producer[j]
  BY <1>1 DEF SemInv, ThreadTypes
<1>3. Filling(i) = 1 /\ Filling(i)' = 1 /\ InSection(i) = 1
  BY <1>1, <1>2 DEF Filling, InSection
<1>4. \A j \in Ingredients : InBuffer(j)' = InBuffer(j)
  <2>1. /\ UNCHANGED consumers /\ 0 \in Int /\ empty' \in [Ingredients -> Int]
        /\ \A j \in Ingredients \ {i} : empty'[j] = empty[j]
        /\ empty'[i] + Filling(i)' + 0 = empty[i] + Filling(i)
    BY <1>1, <1>3 DEF consumers, SemInv
  <2>2. /\ InBuffer(i)' = InBuffer(i) + 0
        /\ \A j \in Ingredients \ {i} : InBuffer(j)' = InBuffer(j)
    BY <2>1, <1>1, ProducerItems
  <2> QED
    BY <2>2, InBufferRange
<1>5. /\ array[i] \in [0..N - 1 -> 0..Ids - 1] /\ out[i] \in 0..N - 1 /\ in[i] \in 0..N - 1
      /\ InBuffer(i) \in 0..N - 1 /\ in[i] = (out[i] + InBuffer(i)) % N /\ item[i] \in 0..Ids - 1
  BY <1>3, StockItems, InBufferRange DEF ItemsInv, RingAt, SemInv, RingTypes
<1>6. /\ array'[i] = [array[i] EXCEPT ![in[i]] = item[i]] /\ array'[i][in[i]] = item[i]
      /\ \A j \in Ingredients \ {i} : array'[j] = array[j]
  BY <1>1, <1>5 DEF SemInv, RingTypes
<1>7. \A j \in Ingredients : RingAt(j)'
  <2> SUFFICES ASSUME NEW j \in Ingredients PROVE RingAt(j)'
    OBVIOUS
  <2>1. RingAt(j) /\ in'[j] = (out'[j] + InBuffer(j)') % N
    BY <1>1, <1>4 DEF ItemsInv, RingAt
  <2>2. CASE j = i
    BY <2>1, <2>2, <1>1, <1>6 DEF RingAt
  <2>3. CASE j # i
    BY <2>1, <2>3, <1>1, <1>2, <1>6 DEF RingAt
  <2> QED
    BY <2>2, <2>3
<1>8. \A c \in Fillings : MealAt(c)'
  <2> SUFFICES ASSUME NEW c \in Fillings PROVE MealAt(c)'
    OBVIOUS
  <2>1. MealAt(c) /\ wants[c] \in Ingredients
    BY DEF ItemsInv, SemInv, ThreadTypes
  <2>2. consumer[c] = "advance" => wants[c] # i
    BY <1>3, Alone DEF ConsumersIn
  <2>3. consumer[c] = "advance" => array'[wants[c]] = array[wants[c]]
    BY <2>1, <2>2, <1>6
  <2> QED
    BY <2>1, <2>3, <1>1 DEF MealAt, Served
<1>9. Stock' = Stock
  <2>1. Ring(array'[i], N, out[i], InBuffer(i)) = Ring(array[i], N, out[i], InBuffer(i))
    <3>1. PICK a, b, o, n, x, w, S :
             /\ a = array[i] /\ b = array'[i] /\ o = out[i] /\ n = InBuffer(i)
             /\ x = item[i] /\ w = in[i] /\ S = 0..Ids - 1
      OBVIOUS
    <3>2. Replaces(b, a, w, x)
      BY <1>6, <3>1 DEF Replaces
    <3>3. /\ a \in [0..N - 1 -> S] /\ o \in 0..N - 1 /\ x \in S
          /\ n \in 0..N - 1 /\ N \in Nat \ {0} /\ w = (o + n) % N
      BY <3>1, <1>5, SemaphoresAssumption
    <3>4. PutBehind(S, N, a, b, o, n, x)
      BY <3>2, <3>3 DEF PutBehind
    <3>5. Ring(b, N, o, n) = Ring(a, N, o, n)
      BY <3>4, RingSpare
    <3> QED
      BY <3>1, <3>5
  <2>2. \A j \in Ingredients : Ring(array'[j], N, out'[j], InBuffer(j)') = Ring(array[j], N, out[j], InBuffer(j))
    BY <2>1, <1>1, <1>4, <1>6
  <2> QED
    BY <2>2 DEF Stock
<1>10. Made' = Made
  <2>1. \A j \in Ingredients : Made'[j] = Made[j]
    BY <1>1, <1>2 DEF Made
  <2> QED
    BY <2>1 DEF Made
<1>11. Eaten' = Eaten
  BY <1>1 DEF Eaten
<1> QED
  BY <1>7, <1>8, <1>9, <1>10, <1>11 DEF ItemsInv, Unseen

(* The producer's index moves over it: now it is in the buffer.            *)
LEMMA PushAdvancePuts ==
  ASSUME SemInv, ItemsInv, NEW i \in Ingredients, PushAdvance(i)
  PROVE  ItemsInv' /\ Kitchen!Put(i)
<1>1. /\ producer[i] = "advance" /\ producer' = [producer EXCEPT ![i] = "up_mutex"]
      /\ in' = [in EXCEPT ![i] = (@ + 1) % N]
      /\ UNCHANGED <<consumer, wants, meal, empty, array, out, item>>
  BY DEF PushAdvance, ProducerStep, consumers, semaphores
<1>2. producer'[i] = "up_mutex" /\ \A j \in Ingredients \ {i} : producer'[j] = producer[j]
  BY <1>1 DEF SemInv, ThreadTypes
<1>3. Filling(i) = 1 /\ Filling(i)' = 0
  BY <1>1, <1>2 DEF Filling
<1>4. /\ InBuffer(i)' = InBuffer(i) + 1
      /\ \A j \in Ingredients \ {i} : InBuffer(j)' = InBuffer(j)
  <2>1. /\ UNCHANGED consumers /\ 1 \in Int /\ empty' \in [Ingredients -> Int] /\ empty[i] \in Int
        /\ \A j \in Ingredients \ {i} : empty'[j] = empty[j]
    BY <1>1 DEF consumers, SemInv
  <2>2. empty'[i] + Filling(i)' + 1 = empty[i] + Filling(i)
    BY <2>1, <1>1, <1>3
  <2> QED
    BY <2>1, <2>2, <1>1, ProducerItems
<1>5. /\ array[i] \in [0..N - 1 -> 0..Ids - 1] /\ out[i] \in 0..N - 1 /\ in[i] \in 0..N - 1
      /\ InBuffer(i) \in 0..N - 1 /\ in[i] = (out[i] + InBuffer(i)) % N /\ item[i] \in 0..Ids - 1
      /\ array[i][in[i]] = item[i]
  BY <1>1, <1>3, StockItems, InBufferRange DEF ItemsInv, RingAt, SemInv, RingTypes
<1>6. in'[i] = (in[i] + 1) % N /\ \A j \in Ingredients \ {i} : in'[j] = in[j]
  BY <1>1 DEF SemInv, RingTypes
<1>7. \A j \in Ingredients : RingAt(j)'
  <2> SUFFICES ASSUME NEW j \in Ingredients PROVE RingAt(j)'
    OBVIOUS
  <2>1. CASE j = i
    <3>1. (((out[i] + InBuffer(i)) % N) + 1) % N = (out[i] + (InBuffer(i) + 1)) % N
      BY <1>5, SemaphoresAssumption, RingNext
    <3> QED
      BY <2>1, <3>1, <1>1, <1>2, <1>4, <1>5, <1>6 DEF RingAt
  <2>2. CASE j # i
    BY <2>2, <1>1, <1>2, <1>4, <1>6 DEF ItemsInv, RingAt
  <2> QED
    BY <2>1, <2>2
<1>8. \A c \in Fillings : MealAt(c)'
  BY <1>1 DEF ItemsInv, MealAt, Served
<1>9. Len(Stock[i]) < N
  BY <1>5, StockItems, SemaphoresAssumption DEF IsRing
<1>10. Made[i] = item[i] /\ Made' = [Made EXCEPT ![i] = (@ + 1) % Ids]
  <2>1. Made[i] = item[i] /\ Made'[i] = (item[i] + 1) % Ids
    BY <1>1, <1>2 DEF Made
  <2>2. \A j \in Ingredients \ {i} : Made'[j] = Made[j]
    BY <1>1, <1>2 DEF Made
  <2> QED
    BY <2>1, <2>2 DEF Made
<1>11. Eaten' = Eaten
  BY <1>1 DEF Eaten
<1>12. Stock' = [Stock EXCEPT ![i] = Append(@, item[i])]
  <2>1. Ring(array[i], N, out[i], InBuffer(i) + 1) = Append(Ring(array[i], N, out[i], InBuffer(i)), item[i])
    <3>1. PICK a, o, n, x, w, S :
             /\ a = array[i] /\ o = out[i] /\ n = InBuffer(i)
             /\ x = item[i] /\ w = in[i] /\ S = 0..Ids - 1
      OBVIOUS
    <3>2. /\ a \in [0..N - 1 -> S] /\ o \in 0..N - 1 /\ x \in S /\ w \in 0..N - 1 /\ a[w] = x
          /\ n \in 0..N - 1 /\ N \in Nat \ {0} /\ w = (o + n) % N
      BY <3>1, <1>5, SemaphoresAssumption
    <3>3. Replaces(a, a, w, x)
      BY <3>2 DEF Replaces
    <3>4. PutBehind(S, N, a, a, o, n, x)
      BY <3>2, <3>3 DEF PutBehind
    <3>5. Ring(a, N, o, n + 1) = Append(Ring(a, N, o, n), x)
      BY <3>4, RingPut
    <3> QED
      BY <3>1, <3>5
  <2>2. \A j \in Ingredients :
           Ring(array'[j], N, out'[j], InBuffer(j)')
             = IF j = i THEN Append(Ring(array[i], N, out[i], InBuffer(i)), item[i])
               ELSE Ring(array[j], N, out[j], InBuffer(j))
    BY <2>1, <1>1, <1>4
  <2> QED
    BY <2>2 DEF Stock
<1>13. Kitchen!Put(i)
  BY <1>9, <1>10, <1>11, <1>12 DEF Kitchen!Put, Stock, Ring, Made, Eaten
<1> QED
  BY <1>7, <1>8, <1>13 DEF ItemsInv

(* A consumer has popped an item that is still the first of the ring.      *)
LEMMA PopItemAside ==
  ASSUME SemInv, ItemsInv, NEW c \in Fillings, PopItem(c)
  PROVE  ItemsInv' /\ Unseen
<1> DEFINE i == wants[c]
           x == array[i][out[i]]
<1>1. /\ consumer[c] = "pop" /\ consumer' = [consumer EXCEPT ![c] = "advance"]
      /\ meal' = [meal EXCEPT ![c] = Append(@, x)]
      /\ UNCHANGED <<producer, item, wants, empty, array, in, out>>
  BY DEF PopItem, ConsumerStep, producers, semaphores, rings
<1>2. i \in Ingredients /\ meal[c] \in Seq(0..Ids - 1) /\ MealAt(c)
  BY DEF ItemsInv, SemInv, ThreadTypes, RingTypes
<1>3. x \in 0..Ids - 1
  BY <1>2, StockItems
<1>4. /\ consumer'[c] = "advance" /\ meal'[c] = Append(meal[c], x)
      /\ \A d \in Fillings \ {c} : consumer'[d] = consumer[d] /\ meal'[d] = meal[d]
  BY <1>1 DEF SemInv, ThreadTypes, RingTypes
<1> HIDE DEF x
<1>5. /\ meal'[c] \in Seq(0..Ids - 1) /\ Len(meal'[c]) = Len(meal[c]) + 1
      /\ meal'[c][Len(meal[c]) + 1] = x /\ Len(meal[c]) \in Nat
  BY <1>2, <1>3, <1>4, AppendProperties, LenProperties
<1>6. Front(meal'[c]) = meal[c]
  <2>1. PICK S : S = 0..Ids - 1
    OBVIOUS
  <2>2. meal[c] \in Seq(S) /\ x \in S
    BY <2>1, <1>2, <1>3
  <2>3. Front(Append(meal[c], x)) = meal[c]
    BY <2>2, FrontOf
  <2> QED
    BY <2>3, <1>4
<1>7. \A j \in Ingredients : InBuffer(j)' = InBuffer(j)
  <2> SUFFICES ASSUME NEW j \in Ingredients PROVE InBuffer(j)' = InBuffer(j)
    OBVIOUS
  <2>1. c \notin Givers(j) /\ c \notin Givers(j)'
    BY <1>1, <1>4 DEF Givers
  <2>2. /\ UNCHANGED producers /\ 0 \in Int /\ empty' \in [Ingredients -> Int]
        /\ \A d \in Fillings \ {c} : wants'[d] = wants[d]
        /\ empty'[j] = empty[j] /\ empty[j] \in Int
    BY <1>1 DEF producers, SemInv
  <2>3. empty'[j] + (IF c \in Givers(j)' THEN 1 ELSE 0) + 0 = empty[j] + (IF c \in Givers(j) THEN 1 ELSE 0)
    BY <2>1, <2>2
  <2>4. InBuffer(j)' = InBuffer(j) + 0
    BY <2>2, <2>3, <1>1, ConsumerItems
  <2> QED
    BY <2>4, InBufferRange
<1>8. \A j \in Ingredients : RingAt(j)'
  BY <1>1, <1>7 DEF ItemsInv, RingAt
<1>9. ASSUME NEW d \in Fillings PROVE MealAt(d)'
  <2>1. CASE d = c
    <3>1. Served(c) = 0 /\ Served(c)' = 1
      BY <1>1, <1>4 DEF Served
    <3>2. meal'[c][Len(meal'[c])] = array'[wants'[c]][out'[wants'[c]]]
      BY <1>1, <1>5 DEF x
    <3> QED
      BY <2>1, <3>1, <3>2, <1>1, <1>2, <1>4, <1>5 DEF MealAt
  <2>2. CASE d # c
    <3>1. MealAt(d) /\ consumer'[d] = consumer[d] /\ meal'[d] = meal[d]
      BY <2>2, <1>4 DEF ItemsInv
    <3> QED
      BY <3>1, <1>1 DEF MealAt, Served
  <2> QED
    BY <2>1, <2>2
<1>10. Stock' = Stock /\ Made' = Made
  BY <1>1, <1>7 DEF Stock, Made
<1>11. Eaten' = Eaten
  <2>1. \A d \in Fillings : Eaten'[d] = Eaten[d]
    BY <1>1, <1>4, <1>6 DEF Eaten
  <2> QED
    BY <2>1 DEF Eaten
<1> QED
  BY <1>8, <1>9, <1>10, <1>11 DEF ItemsInv, Unseen

(* The consumers' index moves over it: now it is taken.                    *)
LEMMA PopAdvanceTakes ==
  ASSUME SemInv, ItemsInv, NEW c \in Fillings, PopAdvance(c)
  PROVE  ItemsInv' /\ (Kitchen!TakeFilling(c) \/ Kitchen!TakeDough(c))
<1>0. PICK i \in Ingredients : wants[c] = i
  BY DEF SemInv, ThreadTypes
<1>1. /\ consumer[c] = "advance" /\ consumer' = [consumer EXCEPT ![c] = "up_mutex"]
      /\ out' = [out EXCEPT ![i] = (@ + 1) % N] /\ wants'[c] = i
      /\ UNCHANGED <<producer, item, wants, empty, array, in, meal>>
  BY <1>0 DEF PopAdvance, ConsumerStep, producers, semaphores
<1>2. meal[c] \in Seq(0..Ids - 1) /\ MealAt(c)
  BY DEF ItemsInv, SemInv, ThreadTypes, RingTypes
<1>3. /\ consumer'[c] = "up_mutex" /\ \A d \in Fillings \ {c} : consumer'[d] = consumer[d]
      /\ out'[i] = (out[i] + 1) % N /\ \A j \in Ingredients \ {i} : out'[j] = out[j]
  BY <1>1, <1>2 DEF SemInv, ThreadTypes, RingTypes
<1>4. /\ array[i] \in [0..N - 1 -> 0..Ids - 1] /\ out[i] \in 0..N - 1
      /\ InBuffer(i) \in 1..N /\ in[i] = (out[i] + InBuffer(i)) % N
  BY <1>0, <1>1, StockItems, InBufferRange DEF ItemsInv, RingAt
<1>5. /\ InBuffer(i)' = InBuffer(i) - 1
      /\ \A j \in Ingredients \ {i} : InBuffer(j)' = InBuffer(j)
  <2>1. \A j \in Ingredients : c \notin Givers(j) /\ (c \in Givers(j)' <=> j = i)
    BY <1>0, <1>1, <1>3 DEF Givers
  <2>2. /\ UNCHANGED producers /\ 0 \in Int /\ -1 \in Int /\ empty' \in [Ingredients -> Int]
        /\ \A d \in Fillings \ {c} : wants'[d] = wants[d]
        /\ \A j \in Ingredients : empty'[j] = empty[j] /\ empty[j] \in Int
    BY <1>1 DEF producers, SemInv
  <2>3. InBuffer(i)' = InBuffer(i) + -1
    <3>1. empty'[i] + (IF c \in Givers(i)' THEN 1 ELSE 0) + -1 = empty[i] + (IF c \in Givers(i) THEN 1 ELSE 0)
      BY <2>1, <2>2, <1>2
    <3> QED
      BY <3>1, <2>2, <1>1, <1>2, ConsumerItems
  <2>4. ASSUME NEW j \in Ingredients, j # i PROVE InBuffer(j)' = InBuffer(j)
    <3>1. empty'[j] + (IF c \in Givers(j)' THEN 1 ELSE 0) + 0 = empty[j] + (IF c \in Givers(j) THEN 1 ELSE 0)
      BY <2>1, <2>2, <2>4
    <3>2. InBuffer(j)' = InBuffer(j) + 0
      BY <3>1, <2>2, <1>1, ConsumerItems
    <3> QED
      BY <3>2, InBufferRange
  <2>5. InBuffer(i)' = InBuffer(i) - 1
    BY <2>3, <1>4
  <2> QED
    BY <2>4, <2>5
<1>6. \A j \in Ingredients : RingAt(j)'
  <2> SUFFICES ASSUME NEW j \in Ingredients PROVE RingAt(j)'
    OBVIOUS
  <2>0. RingAt(j)
    BY DEF ItemsInv
  <2>1. CASE j = i
    <3>1. (((out[i] + 1) % N) + (InBuffer(i) - 1)) % N = (out[i] + InBuffer(i)) % N
      BY <1>4, SemaphoresAssumption, RingNext
    <3>2. in'[i] = (out'[i] + InBuffer(i)') % N
      BY <3>1, <1>1, <1>3, <1>4, <1>5
    <3> QED
      BY <2>0, <2>1, <3>2, <1>1 DEF RingAt
  <2>2. CASE j # i
    BY <2>0, <2>2, <1>1, <1>3, <1>5 DEF RingAt
  <2> QED
    BY <2>1, <2>2
<1>7. ASSUME NEW d \in Fillings PROVE MealAt(d)'
  <2>1. MealAt(d) /\ wants[d] \in Ingredients
    BY DEF ItemsInv, SemInv, ThreadTypes
  <2>2. CASE d = c
    <3>1. Served(c)' = Served(c) /\ consumer'[c] = "up_mutex"
      BY <1>1, <1>3 DEF Served
    <3> QED
      BY <2>1, <2>2, <3>1, <1>1 DEF MealAt
  <2>3. CASE d # c
    <3>1. consumer[d] = "advance" => wants[d] # i
      BY <2>3, <1>0, <1>1, Alone DEF ConsumersIn
    <3>2. consumer[d] = "advance" => out'[wants[d]] = out[wants[d]]
      BY <2>1, <3>1, <1>3
    <3>3. consumer'[d] = consumer[d] /\ Served(d)' = Served(d)
      BY <2>3, <1>3 DEF Served
    <3> QED
      BY <2>1, <3>2, <3>3, <1>1 DEF MealAt
  <2> QED
    BY <2>2, <2>3
<1>8. /\ Ring(array[i], N, out[i], InBuffer(i)) # << >>
      /\ Head(Ring(array[i], N, out[i], InBuffer(i))) = array[i][out[i]]
      /\ Tail(Ring(array[i], N, out[i], InBuffer(i))) = Ring(array[i], N, (out[i] + 1) % N, InBuffer(i) - 1)
  <2> DEFINE a == array[i]
             o == out[i]
             n == InBuffer(i)
  <2>1. a \in [0..N - 1 -> 0..Ids - 1] /\ o \in 0..N - 1 /\ n \in 1..N /\ N \in Nat \ {0}
    BY <1>4, SemaphoresAssumption
  <2> HIDE DEF a, o, n
  <2>2. /\ Ring(a, N, o, n) # << >> /\ Head(Ring(a, N, o, n)) = a[o]
        /\ Tail(Ring(a, N, o, n)) = Ring(a, N, (o + 1) % N, n - 1)
    BY <2>1, RingTake
  <2> QED
    BY <2>2 DEF a, o, n
<1>9. Stock[i] # << >> /\ Head(Stock[i]) = array[i][out[i]]
  BY <1>2, <1>8 DEF Stock
<1>10. Stock' = [Stock EXCEPT ![i] = Tail(@)]
  <2>1. \A j \in Ingredients :
           Ring(array'[j], N, out'[j], InBuffer(j)')
             = IF j = i THEN Tail(Ring(array[i], N, out[i], InBuffer(i)))
               ELSE Ring(array[j], N, out[j], InBuffer(j))
    <3>1. Ring(array'[i], N, out'[i], InBuffer(i)') = Tail(Ring(array[i], N, out[i], InBuffer(i)))
      BY <1>1, <1>3, <1>5, <1>8
    <3>2. ASSUME NEW j \in Ingredients, j # i
          PROVE  Ring(array'[j], N, out'[j], InBuffer(j)') = Ring(array[j], N, out[j], InBuffer(j))
      <4>1. array'[j] = array[j] /\ out'[j] = out[j] /\ InBuffer(j)' = InBuffer(j)
        BY <3>2, <1>1, <1>3, <1>5
      <4> QED
        BY <4>1
    <3> QED
      BY <3>1, <3>2
  <2> QED
    BY <2>1 DEF Stock
<1>11. Made' = Made
  BY <1>1 DEF Made
<1>12. /\ Eaten[c] = Front(meal[c]) /\ Len(Eaten[c]) = Len(meal[c]) - 1
       /\ Eaten' = [Eaten EXCEPT ![c] = Append(@, array[i][out[i]])]
  <2>1. Len(meal[c]) \in Nat /\ Len(meal[c]) # 0 /\ meal[c][Len(meal[c])] = array[i][out[i]]
    BY <1>0, <1>1, <1>2, LenProperties DEF MealAt, Served
  <2>2. Len(Front(meal[c])) = Len(meal[c]) - 1 /\ meal[c] = Append(Front(meal[c]), array[i][out[i]])
    BY <2>1, <1>2, EmptySeq, FrontIs
  <2>3. Eaten[c] = Front(meal[c]) /\ Eaten'[c] = meal[c]
    BY <1>1, <1>3 DEF Eaten
  <2>4. \A d \in Fillings \ {c} : Eaten'[d] = Eaten[d]
    BY <1>1, <1>3 DEF Eaten
  <2>5. Eaten' = [Eaten EXCEPT ![c] = Append(Eaten[c], array[i][out[i]])]
    BY <2>2, <2>3, <2>4 DEF Eaten
  <2> QED
    BY <2>2, <2>3, <2>5
<1>13. Kitchen!Take(c, i)
  BY <1>9, <1>10, <1>11, <1>12 DEF Kitchen!Take, Stock, Ring, Made, Eaten
<1>14. (i = c /\ Len(Eaten[c]) = 0) \/ (i = Dough /\ Len(Eaten[c]) = 1)
  <2>1. Len(meal[c]) = (IF i = c THEN 0 ELSE 1) + 1 /\ i \in {c, Dough} /\ c # Dough
    BY <1>0, <1>1, <1>2, SemaphoresAssumption DEF MealAt, Served
  <2> QED
    BY <2>1, <1>12
<1>15. Kitchen!TakeFilling(c) \/ Kitchen!TakeDough(c)
  <2>1. CASE i = c /\ Len(Eaten[c]) = 0
    <3>1. Kitchen!Take(c, c)
      BY <2>1, <1>13
    <3> QED
      BY <3>1, <2>1 DEF Kitchen!TakeFilling, Eaten
  <2>2. CASE i = Dough /\ Len(Eaten[c]) = 1
    <3>1. Kitchen!Take(c, Dough)
      BY <2>2, <1>13
    <3> QED
      BY <3>1, <2>2 DEF Kitchen!TakeDough, Eaten
  <2> QED
    BY <2>1, <2>2, <1>14
<1> QED
  BY <1>6, <1>7, <1>15 DEF ItemsInv

(* A pierog is made of the two items popped.                               *)
LEMMA MakeMakes ==
  ASSUME SemInv, ItemsInv, NEW c \in Fillings, make_pierogi(c)
  PROVE  ItemsInv' /\ Kitchen!make_pierogi(c)
<1>1. /\ consumer[c] = "make" /\ consumer' = [consumer EXCEPT ![c] = "down_full"]
      /\ wants' = [wants EXCEPT ![c] = c] /\ meal' = [meal EXCEPT ![c] = << >>]
      /\ UNCHANGED <<producer, item, empty, array, in, out>>
  BY DEF make_pierogi, ConsumerStep, producers, semaphores, rings
<1>2. /\ consumer'[c] = "down_full" /\ wants'[c] = c /\ meal'[c] = << >>
      /\ \A d \in Fillings \ {c} : consumer'[d] = consumer[d] /\ wants'[d] = wants[d] /\ meal'[d] = meal[d]
  BY <1>1 DEF SemInv, ThreadTypes, RingTypes
<1>3. \A j \in Ingredients : InBuffer(j)' = InBuffer(j)
  <2> SUFFICES ASSUME NEW j \in Ingredients PROVE InBuffer(j)' = InBuffer(j)
    OBVIOUS
  <2>1. c \notin Givers(j) /\ c \notin Givers(j)'
    BY <1>1, <1>2 DEF Givers
  <2>2. /\ UNCHANGED producers /\ 0 \in Int /\ empty' \in [Ingredients -> Int]
        /\ \A d \in Fillings \ {c} : wants'[d] = wants[d]
        /\ empty'[j] = empty[j] /\ empty[j] \in Int
    BY <1>1, <1>2 DEF producers, SemInv
  <2>3. empty'[j] + (IF c \in Givers(j)' THEN 1 ELSE 0) + 0 = empty[j] + (IF c \in Givers(j) THEN 1 ELSE 0)
    BY <2>1, <2>2
  <2>4. InBuffer(j)' = InBuffer(j) + 0
    BY <2>2, <2>3, <1>1, ConsumerItems
  <2> QED
    BY <2>4, InBufferRange
<1>4. \A j \in Ingredients : RingAt(j)'
  BY <1>1, <1>3 DEF ItemsInv, RingAt
<1>5. ASSUME NEW d \in Fillings PROVE MealAt(d)'
  <2>1. CASE d = c
    <3>1. Served(c)' = 0 /\ Len(<< >>) = 0
      BY <1>2 DEF Served
    <3> QED
      BY <2>1, <3>1, <1>2 DEF MealAt
  <2>2. CASE d # c
    <3>1. /\ MealAt(d) /\ consumer'[d] = consumer[d] /\ wants'[d] = wants[d] /\ meal'[d] = meal[d]
      BY <2>2, <1>2 DEF ItemsInv
    <3> QED
      BY <3>1, <1>1 DEF MealAt, Served
  <2> QED
    BY <2>1, <2>2
<1>6. Stock' = Stock /\ Made' = Made
  BY <1>1, <1>3 DEF Stock, Made
<1>7. Len(Eaten[c]) = 2 /\ Eaten' = [Eaten EXCEPT ![c] = << >>]
  <2>0. Eaten[c] = meal[c]
    BY <1>1 DEF Eaten
  <2>1. Len(meal[c]) = 2
    <3>1. MealAt(c) /\ c # Dough /\ Served(c) = 1
      BY <1>1, SemaphoresAssumption DEF ItemsInv, Served
    <3>2. wants[c] = Dough /\ Len(meal[c]) = (IF wants[c] = c THEN 0 ELSE 1) + Served(c)
      BY <3>1, <1>1 DEF MealAt
    <3> QED
      BY <3>1, <3>2
  <2>2. Eaten'[c] = << >> /\ \A d \in Fillings \ {c} : Eaten'[d] = Eaten[d]
    BY <1>2 DEF Eaten
  <2> QED
    BY <2>0, <2>1, <2>2 DEF Eaten
<1>8. Kitchen!make_pierogi(c)
  BY <1>6, <1>7 DEF Kitchen!make_pierogi, Stock, Ring, Made, Eaten
<1> QED
  BY <1>4, <1>5, <1>8 DEF ItemsInv

-----------------------------------------------------------------------------
(* Each step keeps the invariant and is a step of the kitchen or none.     *)
LEMMA ItemsStep ==
  ASSUME SemInv, ItemsInv, [Next]_vars
  PROVE  ItemsInv' /\ [Kitchen!Next]_Kitchen!kitchen
<1>1. ASSUME NEW i \in Ingredients, Producer(i)
      PROVE  ItemsInv' /\ [Kitchen!Next]_Kitchen!kitchen
  <2>1. CASE PushAdvance(i)
    <3>1. ItemsInv' /\ Kitchen!Put(i)
      BY <2>1, PushAdvancePuts
    <3> QED
      BY <3>1 DEF Kitchen!Next, Kitchen!Ingredients, Ingredients
  <2>2. CASE ~PushAdvance(i)
    <3>1. ItemsInv' /\ Unseen
      BY <1>1, <2>2, ProducerAside, PushItemAside DEF Producer
    <3> QED
      BY <3>1, UnseenIs
  <2> QED
    BY <2>1, <2>2
<1>2. ASSUME NEW c \in Fillings, Consumer(c)
      PROVE  ItemsInv' /\ [Kitchen!Next]_Kitchen!kitchen
  <2>1. CASE PopAdvance(c)
    <3>1. ItemsInv' /\ (Kitchen!TakeFilling(c) \/ Kitchen!TakeDough(c))
      BY <2>1, PopAdvanceTakes
    <3> QED
      BY <3>1 DEF Kitchen!Next
  <2>2. CASE make_pierogi(c)
    <3>1. ItemsInv' /\ Kitchen!make_pierogi(c)
      BY <2>2, MakeMakes
    <3> QED
      BY <3>1 DEF Kitchen!Next
  <2>3. CASE ~PopAdvance(c) /\ ~make_pierogi(c)
    <3>1. ItemsInv' /\ Unseen
      BY <1>2, <2>3, ConsumerAside, PopItemAside DEF Consumer
    <3> QED
      BY <3>1, UnseenIs
  <2> QED
    BY <2>1, <2>2, <2>3
<1>3. CASE UNCHANGED vars
  <2>1. /\ UNCHANGED <<empty, array, in, out, item, meal, producer, consumer, wants>>
    BY <1>3 DEF vars, semaphores, rings, producers, consumers
  <2>2. \A i : InBuffer(i)' = InBuffer(i)
    BY <2>1 DEF InBuffer
  <2>3. ItemsInv'
    BY <2>1, <2>2 DEF ItemsInv, RingAt, MealAt, Served
  <2>4. Unseen
    BY <2>1, <2>2 DEF Unseen, Stock, Made, Eaten
  <2> QED
    BY <2>3, <2>4, UnseenIs
<1> QED
  BY <1>1, <1>2, <1>3 DEF Next

(* The semaphores implement the kitchen: every step of every thread is a   *)
(* put behind the newest item, a take of the oldest, the making of a       *)
(* pierog, or nothing the kitchen sees, although buffer_push and           *)
(* buffer_pop change a ring in two steps, for any number of consumers of   *)
(* the dough and any size of the buffers.                                  *)
THEOREM SemaphoresImplement == Spec => ImplementsKitchen
<1>1. Spec => [](SemInv /\ ItemsInv)
  BY SemInit, SemStep, ItemsInit, ItemsStep, PTL DEF Spec
<1>2. SemInv /\ ItemsInv /\ [Next]_vars => [Kitchen!Next]_Kitchen!kitchen
  BY ItemsStep
<1>3. Init => Kitchen!Init
  BY ItemsInit
<1> QED
  BY <1>1, <1>2, <1>3, PTL DEF Spec, ImplementsKitchen, Kitchen!Spec
=============================================================================
