---------------------------- MODULE SequenceLemmas ----------------------------
(***************************************************************************)
(* What the kernel does to a queue: a queue that holds each element of a   *)
(* set exactly once, with one element put in or taken out.  The kernel     *)
(* proofs reason about the sets; only this module looks at positions.  At  *)
(* the end, ring buffers as queues, sequences sorted by a number, and the  *)
(* elements of a finite set in the order of a number.                      *)
(***************************************************************************)
EXTENDS Integers, SequencesExt, SequenceTheorems, FiniteSetTheorems, WellFoundedInduction, TLAPS

(* q is a sequence of the elements of S, each of which occurs in it once.  *)
Holds(q, S) == /\ q \in Seq(S)
               /\ IsInjective(q)
               /\ \A x \in S : \E i \in DOMAIN q : q[i] = x

(* What Holds says of positions.                                           *)
LEMMA HoldsAt ==
  ASSUME NEW S, NEW q, Holds(q, S)
  PROVE  /\ Len(q) \in Nat /\ DOMAIN q = 1..Len(q)
         /\ \A i \in 1..Len(q) : q[i] \in S
         /\ \A i, j \in 1..Len(q) : q[i] = q[j] => i = j
         /\ q = << >> <=> Len(q) = 0
         /\ q # << >> => Len(q) >= 1 /\ Head(q) = q[1] /\ q[1] \in S
<1>1. q \in Seq(S) /\ Len(q) \in Nat /\ DOMAIN q = 1..Len(q)
  BY LenProperties DEF Holds
<1>2. \A i \in 1..Len(q) : q[i] \in S
  BY <1>1, ElementOfSeq
<1>3. \A i, j \in 1..Len(q) : q[i] = q[j] => i = j
  BY <1>1 DEF Holds, IsInjective
<1>4. q = << >> <=> Len(q) = 0
  BY <1>1
<1>5. q # << >> => Len(q) >= 1 /\ Head(q) = q[1]
  BY <1>1, <1>4
<1> QED
  BY <1>1, <1>2, <1>3, <1>4, <1>5

LEMMA HoldsOnto ==
  ASSUME NEW S, NEW q, Holds(q, S), NEW x \in S
  PROVE  \E i \in 1..Len(q) : q[i] = x
BY LenProperties DEF Holds

(* A queue is empty when there is nothing to hold.                         *)
LEMMA HoldsEmpty ==
  ASSUME NEW S, NEW q, Holds(q, S)
  PROVE  q = << >> <=> S = {}
BY HoldsAt, HoldsOnto

(* A sequence of the elements of S that meets every one of them once.      *)
LEMMA HoldsIntro ==
  ASSUME NEW S, NEW q \in Seq(S),
         \A i, j \in 1..Len(q) : q[i] = q[j] => i = j,
         \A x \in S : \E i \in 1..Len(q) : q[i] = x
  PROVE  Holds(q, S)
BY LenProperties DEF Holds, IsInjective

(* A sequence is one of the elements it consists of.                       *)
LEMMA SeqOfElements ==
  ASSUME NEW S, NEW T, NEW q \in Seq(S), \A i \in 1..Len(q) : q[i] \in T
  PROVE  q \in Seq(T)
<1>1. q \in [1..Len(q) -> T] /\ Len(q) \in Nat
  BY LenProperties
<1> QED
  BY <1>1

(* What a sequence becomes when an element is put in or taken out at a     *)
(* position.                                                               *)
Inserted(r, q, n, e) ==
  /\ Len(r) = Len(q) + 1
  /\ \A i \in 1..Len(q) + 1 : r[i] = IF i < n THEN q[i] ELSE IF i = n THEN e ELSE q[i - 1]

Removed(r, q, n) ==
  /\ Len(r) = Len(q) - 1
  /\ \A i \in 1..Len(q) - 1 : r[i] = IF i < n THEN q[i] ELSE q[i + 1]

LEMMA InsertItems ==
  ASSUME NEW T, NEW q \in Seq(T), NEW e \in T, NEW n \in 1..Len(q) + 1
  PROVE  InsertAt(q, n, e) \in Seq(T) /\ Inserted(InsertAt(q, n, e), q, n, e)
<1> DEFINE a == SubSeq(q, 1, n - 1)
           b == SubSeq(q, n, Len(q))
           c == a \o <<e>>
           r == InsertAt(q, n, e)
<1>1. /\ Len(q) \in Nat /\ n \in Int /\ n >= 1 /\ n <= Len(q) + 1
      /\ \A i \in 1..Len(q) : q[i] \in T
  BY LenProperties
<1>2. a \in Seq(T) /\ Len(a) = n - 1 /\ \A i \in 1..n - 1 : a[i] = q[i]
  <2>1. \A i \in 1..n - 1 : q[i] \in T
    BY <1>1
  <2>2. n - 1 \in Int /\ 1 \in Int
    BY <1>1
  <2> QED
    BY <2>1, <2>2, <1>1, SubSeqProperties
<1>3. b \in Seq(T) /\ Len(b) = Len(q) - n + 1 /\ \A i \in 1..Len(q) - n + 1 : b[i] = q[n + i - 1]
  <2>1. \A i \in n..Len(q) : q[i] \in T
    BY <1>1
  <2> QED
    BY <2>1, <1>1, SubSeqProperties
<1>4. <<e>> \in Seq(T) /\ Len(<<e>>) = 1 /\ <<e>>[1] = e
  OBVIOUS
<1> HIDE DEF a, b
<1>5. /\ c \in Seq(T)
      /\ Len(c) = n
      /\ \A i \in 1..n : c[i] = IF i < n THEN q[i] ELSE e
  BY <1>1, <1>2, <1>4, ConcatProperties
<1>6. r = c \o b
  BY DEF InsertAt, a, b
<1> HIDE DEF r, c
<1>7. /\ r \in Seq(T)
      /\ Len(r) = Len(c) + Len(b)
      /\ \A i \in 1..Len(c) + Len(b) : r[i] = IF i <= Len(c) THEN c[i] ELSE b[i - Len(c)]
  <2>1. c \in Seq(T) /\ b \in Seq(T)
    BY <1>3, <1>5
  <2> QED
    BY <2>1, <1>6, ConcatProperties
<1>8. Len(c) = n /\ Len(b) = Len(q) - n + 1
  BY <1>3, <1>5
<1>9. Len(r) = Len(q) + 1
  BY <1>7, <1>8, <1>1
<1>10. ASSUME NEW i \in 1..Len(q) + 1
       PROVE  r[i] = IF i < n THEN q[i] ELSE IF i = n THEN e ELSE q[i - 1]
  <2>1. r[i] = IF i <= n THEN c[i] ELSE b[i - n]
    BY <1>7, <1>8, <1>1
  <2>2. CASE i <= n
    BY <2>1, <2>2, <1>1, <1>5
  <2>3. CASE i > n
    <3>1. i - n \in 1..Len(q) - n + 1 /\ n + (i - n) - 1 = i - 1
      BY <2>3, <1>1
    <3> QED
      BY <2>1, <2>3, <3>1, <1>1, <1>3
  <2> QED
    BY <2>2, <2>3, <1>1
<1> QED
  BY <1>7, <1>9, <1>10 DEF r, Inserted

LEMMA RemoveItems ==
  ASSUME NEW T, NEW q \in Seq(T), NEW n \in 1..Len(q)
  PROVE  RemoveAt(q, n) \in Seq(T) /\ Removed(RemoveAt(q, n), q, n)
<1> DEFINE a == SubSeq(q, 1, n - 1)
           b == SubSeq(q, n + 1, Len(q))
           r == RemoveAt(q, n)
<1>1. /\ Len(q) \in Nat /\ n \in Int /\ n >= 1 /\ n <= Len(q)
      /\ \A i \in 1..Len(q) : q[i] \in T
  BY LenProperties
<1>2. a \in Seq(T) /\ Len(a) = n - 1 /\ \A i \in 1..n - 1 : a[i] = q[i]
  <2>1. \A i \in 1..n - 1 : q[i] \in T
    BY <1>1
  <2>2. n - 1 \in Int /\ 1 \in Int
    BY <1>1
  <2> QED
    BY <2>1, <2>2, <1>1, SubSeqProperties
<1>3. b \in Seq(T) /\ Len(b) = Len(q) - n /\ \A i \in 1..Len(q) - n : b[i] = q[n + i]
  <2>1. \A i \in n + 1..Len(q) : q[i] \in T
    BY <1>1
  <2>2. n + 1 \in Int /\ Len(q) \in Int
    BY <1>1
  <2>3. /\ b \in Seq(T)
        /\ Len(b) = IF n + 1 <= Len(q) THEN Len(q) - (n + 1) + 1 ELSE 0
        /\ \A i \in 1..Len(q) - (n + 1) + 1 : b[i] = q[n + 1 + i - 1]
    BY <2>1, <2>2, SubSeqProperties
  <2> QED
    BY <2>3, <1>1, SMTT(30)
<1>4. r = a \o b
  BY DEF RemoveAt
<1> HIDE DEF a, b, r
<1>5. /\ r \in Seq(T)
      /\ Len(r) = Len(a) + Len(b)
      /\ \A i \in 1..Len(a) + Len(b) : r[i] = IF i <= Len(a) THEN a[i] ELSE b[i - Len(a)]
  <2>1. a \in Seq(T) /\ b \in Seq(T)
    BY <1>2, <1>3
  <2> QED
    BY <2>1, <1>4, ConcatProperties
<1>6. Len(a) = n - 1 /\ Len(b) = Len(q) - n
  BY <1>2, <1>3
<1>7. Len(r) = Len(q) - 1
  BY <1>6, <1>1, <1>5
<1>8. ASSUME NEW i \in 1..Len(q) - 1
      PROVE  r[i] = IF i < n THEN q[i] ELSE q[i + 1]
  <2>1. r[i] = IF i <= n - 1 THEN a[i] ELSE b[i - (n - 1)]
    BY <1>6, <1>1, <1>5
  <2>2. CASE i < n
    BY <2>1, <2>2, <1>1, <1>2
  <2>3. CASE i >= n
    <3>1. i - (n - 1) \in 1..Len(q) - n /\ n + (i - (n - 1)) = i + 1
      BY <2>3, <1>1
    <3> QED
      BY <2>1, <2>3, <3>1, <1>1, <1>3
  <2> QED
    BY <2>2, <2>3, <1>1
<1> QED
  BY <1>5, <1>7, <1>8 DEF r, Removed

(* Putting in a new element; what was in front of it stays the head.       *)
LEMMA HoldsInsert ==
  ASSUME NEW S, NEW q, Holds(q, S), NEW e, e \notin S, NEW n \in 1..Len(q) + 1
  PROVE  /\ Holds(InsertAt(q, n, e), S \cup {e})
         /\ InsertAt(q, n, e) # << >>
         /\ Head(InsertAt(q, n, e)) = IF n = 1 THEN e ELSE Head(q)
<1> DEFINE T == S \cup {e}
           r == InsertAt(q, n, e)
<1>1. /\ Len(q) \in Nat /\ n \in Int /\ n >= 1 /\ n <= Len(q) + 1
      /\ \A i \in 1..Len(q) : q[i] \in S
      /\ \A i, j \in 1..Len(q) : q[i] = q[j] => i = j
      /\ q # << >> => Head(q) = q[1]
      /\ q = << >> <=> Len(q) = 0
  BY HoldsAt
<1>2. q \in Seq(T) /\ e \in T
  <2>1. q \in Seq(S)
    BY DEF Holds
  <2> QED
    BY <2>1, SeqMonotonic
<1> HIDE DEF T, r
<1>3. r \in Seq(T) /\ Inserted(r, q, n, e)
  BY <1>2, InsertItems DEF r
<1>4. /\ r \in Seq(T)
      /\ Len(r) = Len(q) + 1
      /\ \A i \in 1..Len(q) + 1 :
           r[i] = IF i < n THEN q[i] ELSE IF i = n THEN e ELSE q[i - 1]
  BY <1>3 DEF Inserted
<1>5. \A i, j \in 1..Len(r) : r[i] = r[j] => i = j
  BY <1>1, <1>4, SMTT(60)
<1>6. \A x \in T : \E i \in 1..Len(r) : r[i] = x
  <2>1. r[n] = e /\ n \in 1..Len(r)
    BY <1>1, <1>4
  <2>2. ASSUME NEW x \in S PROVE \E i \in 1..Len(r) : r[i] = x
    <3>1. PICK i \in 1..Len(q) : q[i] = x
      BY HoldsOnto
    <3>2. CASE i < n
      BY <3>1, <3>2, <1>1, <1>4
    <3>3. CASE i >= n
      <4>1. i + 1 \in 1..Len(r) /\ r[i + 1] = q[i]
        BY <3>3, <1>1, <1>4
      <4> QED
        BY <4>1, <3>1
    <3> QED
      BY <3>2, <3>3, <1>1
  <2> QED
    BY <2>1, <2>2 DEF T
<1>7. Holds(r, T)
  BY <1>4, <1>5, <1>6, HoldsIntro, SMTT(60)
<1>8. r # << >> /\ Head(r) = r[1]
  BY <1>4, <1>1
<1>9. r[1] = IF n = 1 THEN e ELSE Head(q)
  BY <1>4, <1>1
<1> QED
  BY <1>7, <1>8, <1>9 DEF r, T

(* Taking out the element at a position; the head goes only if it is it.   *)
LEMMA HoldsRemove ==
  ASSUME NEW S, NEW q, Holds(q, S), NEW n \in 1..Len(q)
  PROVE  /\ Holds(RemoveAt(q, n), S \ {q[n]})
         /\ n # 1 => RemoveAt(q, n) # << >> /\ Head(RemoveAt(q, n)) = Head(q)
<1> DEFINE T == S \ {q[n]}
           r == RemoveAt(q, n)
<1>1. /\ Len(q) \in Nat /\ n \in Int /\ n >= 1 /\ n <= Len(q)
      /\ \A i \in 1..Len(q) : q[i] \in S
      /\ \A i, j \in 1..Len(q) : q[i] = q[j] => i = j
      /\ Head(q) = q[1]
  BY HoldsAt
<1> HIDE DEF T, r
<1>2. r \in Seq(S) /\ Removed(r, q, n)
  BY RemoveItems DEF r, Holds
<1>3. /\ Len(r) = Len(q) - 1
      /\ \A i \in 1..Len(q) - 1 : r[i] = IF i < n THEN q[i] ELSE q[i + 1]
  BY <1>2 DEF Removed
<1>4. r \in Seq(T)
  <2>1. \A i \in 1..Len(r) : r[i] \in T
    BY <1>1, <1>3 DEF T
  <2> QED
    BY <2>1, <1>2, SeqOfElements
<1>5. \A i, j \in 1..Len(r) : r[i] = r[j] => i = j
  BY <1>1, <1>3, SMTT(60)
<1>6. \A x \in T : \E i \in 1..Len(r) : r[i] = x
  <2> TAKE x \in T
  <2>1. PICK i \in 1..Len(q) : q[i] = x
    BY HoldsOnto DEF T
  <2>2. i # n
    BY <2>1 DEF T
  <2>3. CASE i < n
    BY <2>1, <2>3, <1>1, <1>3
  <2>4. CASE i > n
    <3>1. i - 1 \in 1..Len(r) /\ r[i - 1] = q[i]
      BY <2>4, <1>1, <1>3
    <3> QED
      BY <3>1, <2>1
  <2> QED
    BY <2>2, <2>3, <2>4, <1>1
<1>7. Holds(r, T)
  <2>1. r \in Seq(T)
    BY <1>4
  <2> QED
    BY <2>1, <1>5, <1>6, HoldsIntro, SMTT(60)
<1>8. n # 1 => r # << >> /\ Head(r) = Head(q)
  <2> HAVE n # 1
  <2>1. 1 \in 1..Len(q) - 1 /\ 1 < n
    BY <1>1
  <2>2. Len(r) >= 1 /\ r[1] = q[1]
    BY <2>1, <1>1, <1>3
  <2> QED
    BY <2>2, <1>1, <1>4
<1> QED
  BY <1>7, <1>8 DEF r, T

(* A new element at the back.                                              *)
LEMMA HoldsAppend ==
  ASSUME NEW S, NEW q, Holds(q, S), NEW e, e \notin S
  PROVE  /\ Holds(Append(q, e), S \cup {e})
         /\ Append(q, e) # << >>
         /\ Head(Append(q, e)) = IF q = << >> THEN e ELSE Head(q)
<1> DEFINE T == S \cup {e}
           r == Append(q, e)
<1>1. /\ q \in Seq(T) /\ Len(q) \in Nat
      /\ \A i \in 1..Len(q) : q[i] \in S
      /\ \A i, j \in 1..Len(q) : q[i] = q[j] => i = j
  <2>1. q \in Seq(S)
    BY DEF Holds
  <2>2. q \in Seq(T)
    BY <2>1, SeqMonotonic
  <2> QED
    BY <2>2, HoldsAt
<1>2. /\ r \in Seq(T) /\ r # << >> /\ Len(r) = Len(q) + 1
      /\ \A i \in 1..Len(q) : r[i] = q[i]
      /\ r[Len(q) + 1] = e
  BY <1>1, AppendProperties
<1>3. Head(r) = IF q = << >> THEN e ELSE Head(q)
  BY <1>1, HeadTailAppend
<1> HIDE DEF r
<1>4. \A i, j \in 1..Len(r) : r[i] = r[j] => i = j
  BY <1>1, <1>2
<1>5. \A x \in T : \E i \in 1..Len(r) : r[i] = x
  <2>1. Len(q) + 1 \in 1..Len(r)
    BY <1>1, <1>2
  <2>2. \A x \in S : \E i \in 1..Len(r) : r[i] = x
    BY <1>1, <1>2, HoldsOnto
  <2> QED
    BY <2>1, <2>2, <1>2 DEF T
<1>6. Holds(r, T)
  BY <1>2, <1>4, <1>5, HoldsIntro, SMTT(60)
<1> QED
  BY <1>2, <1>3, <1>6 DEF r, T

(* The head goes to the back.                                              *)
LEMMA HoldsRotate ==
  ASSUME NEW S, NEW q, Holds(q, S), q # << >>
  PROVE  Holds(Append(Tail(q), Head(q)), S)
<1>1. /\ q \in Seq(S) /\ Len(q) \in Nat /\ Len(q) >= 1
      /\ \A i \in 1..Len(q) : q[i] \in S
      /\ \A i, j \in 1..Len(q) : q[i] = q[j] => i = j
      /\ Head(q) = q[1] /\ q[1] \in S
  <2>1. q \in Seq(S)
    BY DEF Holds
  <2> QED
    BY <2>1, HoldsAt
<1> DEFINE T == S \ {Head(q)}
           t == Tail(q)
<1>2. /\ t \in Seq(S) /\ Len(t) = Len(q) - 1
      /\ \A i \in 1..Len(q) - 1 : t[i] = q[i + 1]
  BY <1>1, HeadTailProperties
<1> HIDE DEF t
<1>3. \A i \in 1..Len(t) : t[i] \in T
  BY <1>1, <1>2
<1>4. t \in Seq(T)
  BY <1>2, <1>3, SeqOfElements
<1>5. \A i, j \in 1..Len(t) : t[i] = t[j] => i = j
  BY <1>1, <1>2
<1>6. \A x \in T : \E i \in 1..Len(t) : t[i] = x
  <2> TAKE x \in T
  <2>1. PICK i \in 1..Len(q) : q[i] = x
    BY HoldsOnto
  <2>2. i - 1 \in 1..Len(t) /\ t[i - 1] = q[i]
    BY <2>1, <1>1, <1>2
  <2> QED
    BY <2>1, <2>2
<1>7. Holds(t, T)
  BY <1>4, <1>5, <1>6, HoldsIntro, SMTT(60)
<1>8. Holds(Append(t, Head(q)), T \cup {Head(q)})
  BY <1>7, HoldsAppend
<1>9. T \cup {Head(q)} = S
  BY <1>1
<1> QED
  BY <1>8, <1>9 DEF t

(* Every set of natural numbers that is not empty has a least element.     *)
LEMMA LeastNat ==
  ASSUME NEW T \in SUBSET Nat, T # {}
  PROVE  \E x \in T : \A y \in T : x <= y
<1>1. PICK x \in T : \A y \in T : <<y, x>> \notin OpToRel(<, Nat)
  BY WFMin, NatLessThanWellFounded
<1>2. ASSUME NEW y \in T PROVE x <= y
  <2>1. <<y, x>> \in Nat \X Nat
    OBVIOUS
  <2>2. ~(y < x)
    BY <1>1, <2>1 DEF OpToRel
  <2> QED
    BY <2>2
<1> QED
  BY <1>2

(* Taking out the first (and only) occurrence of an element.               *)
LEMMA HoldsRemoveFirst ==
  ASSUME NEW S, NEW q, Holds(q, S), NEW e \in S
  PROVE  /\ Holds(RemoveFirst(q, e), S \ {e})
         /\ e # Head(q) => RemoveFirst(q, e) # << >> /\ Head(RemoveFirst(q, e)) = Head(q)
<1>1. /\ Len(q) \in Nat
      /\ \E i \in 1..Len(q) : q[i] = e
      /\ \A i, j \in 1..Len(q) : q[i] = q[j] => i = j
      /\ Head(q) = q[1]
  BY HoldsAt, HoldsOnto
<1> DEFINE I == {i \in 1..Len(q) : q[i] = e}
<1>2. PICK n \in 1..Len(q) : q[n] = e
  BY <1>1
<1>3. I = {n}
  BY <1>1, <1>2
<1>4. Min(I) = n
  BY <1>2, <1>3 DEF Min
<1>5. SelectInSeq(q, LAMBDA v : v = e) = n
  BY <1>2, <1>3, <1>4 DEF SelectInSeq
<1>6. RemoveFirst(q, e) = RemoveAt(q, n)
  BY <1>1, <1>5 DEF RemoveFirst
<1> QED
  BY <1>1, <1>2, <1>6, HoldsRemove, SMTT(30)
-----------------------------------------------------------------------------
(* A ring buffer is a sequence: the items of an array from an index on,    *)
(* modulo its size.                                                        *)

(* The remainder of a sum of two indices.                                  *)
LEMMA Modulo ==
  ASSUME NEW n \in Nat \ {0}, NEW x \in 0..2 * n - 1
  PROVE  x % n = IF x < n THEN x ELSE x - n
BY SMTT(30)

(* The n items of a ring buffer a of size s, from index o on.              *)
Ring(a, s, o, n) == [j \in 1..n |-> a[(o + j - 1) % s]]

(* The index n places behind index o.                                      *)
LEMMA RingIndex ==
  ASSUME NEW s \in Nat \ {0}, NEW o \in 0..s - 1, NEW n \in 0..s
  PROVE  (o + n) % s = (IF o + n < s THEN o + n ELSE o + n - s)
<1> DEFINE x == o + n
<1>1. x \in 0..2 * s - 1
  BY SMT
<1>2. x % s = IF x < s THEN x ELSE x - s
  BY <1>1, Modulo
<1> QED
  BY <1>2

IsRing(q, S, a, s, o, n) ==
  /\ q \in Seq(S) /\ Len(q) = n
  /\ \A j \in 1..n : (o + j - 1) % s \in 0..s - 1 /\ q[j] = a[(o + j - 1) % s]

(* The definition of Ring, as facts about a sequence.                      *)
LEMMA RingItems ==
  ASSUME NEW S, NEW s \in Nat \ {0}, NEW a \in [0..s - 1 -> S],
         NEW o \in 0..s - 1, NEW n \in 0..s
  PROVE  IsRing(Ring(a, s, o, n), S, a, s, o, n)
<1> DEFINE q == Ring(a, s, o, n)
<1>1. ASSUME NEW j \in 1..n PROVE (o + j - 1) % s \in 0..s - 1
  <2>1. j - 1 \in 0..s /\ o + j - 1 = o + (j - 1)
    OBVIOUS
  <2>2. (o + (j - 1)) % s \in 0..s - 1
    BY <2>1, RingIndex
  <2> QED
    BY <2>1, <2>2
<1>2. q \in [1..n -> S]
  BY <1>1 DEF Ring
<1>3. \A j \in 1..n : q[j] = a[(o + j - 1) % s]
  BY DEF Ring
<1> HIDE DEF q
<1>4. n \in Nat
  OBVIOUS
<1>5. q \in Seq(S) /\ Len(q) = n
  BY <1>2, <1>4
<1> QED
  BY <1>1, <1>3, <1>5 DEF q, IsRing

(* Array b is a with x at index w.                                         *)
Replaces(b, a, w, x) == b = [a EXCEPT ![w] = x]

(* The array b is a with x put behind its n items.                         *)
PutBehind(S, s, a, b, o, n, x) ==
  /\ s \in Nat \ {0} /\ a \in [0..s - 1 -> S] /\ x \in S
  /\ o \in 0..s - 1 /\ n \in 0..s - 1
  /\ Replaces(b, a, (o + n) % s, x)

(* An item put behind the n others is the last of the sequence.            *)
LEMMA RingPut ==
  ASSUME NEW S, NEW s, NEW a, NEW b, NEW o, NEW n, NEW x,
         PutBehind(S, s, a, b, o, n, x)
  PROVE  Ring(b, s, o, n + 1) = Append(Ring(a, s, o, n), x)
<1> DEFINE q == Ring(a, s, o, n)
           r == Ring(b, s, o, n + 1)
           w == (o + n) % s
<1> USE DEF PutBehind
<1>0. n \in 0..s /\ n + 1 \in 0..s
  OBVIOUS
<1>1. w = IF o + n < s THEN o + n ELSE o + n - s
  BY <1>0, RingIndex
<1>2. w \in 0..s - 1
  BY <1>1
<1>3. b \in [0..s - 1 -> S] /\ b[w] = x /\ \A j \in 0..s - 1 : j # w => b[j] = a[j]
  BY <1>2 DEF Replaces
<1>4. ASSUME NEW j \in 1..n PROVE (o + j - 1) % s # w
  <2>1. j - 1 \in 0..s /\ o + j - 1 = o + (j - 1)
    OBVIOUS
  <2>2. (o + (j - 1)) % s = IF o + (j - 1) < s THEN o + (j - 1) ELSE o + (j - 1) - s
    BY <2>1, RingIndex
  <2> QED
    BY <2>1, <2>2, <1>1
<1>5. IsRing(q, S, a, s, o, n)
  BY <1>0, RingItems
<1>6. IsRing(r, S, b, s, o, n + 1)
  BY <1>0, <1>3, RingItems
<1> HIDE DEF q, r
<1>7. /\ Append(q, x) \in Seq(S) /\ Len(Append(q, x)) = n + 1
      /\ \A j \in 1..n : Append(q, x)[j] = q[j]
      /\ Append(q, x)[n + 1] = x
  BY <1>5, AppendProperties DEF IsRing
<1>8. ASSUME NEW j \in 1..n + 1 PROVE r[j] = Append(q, x)[j]
  <2>1. CASE j = n + 1
    <3>1. o + j - 1 = o + n
      BY <2>1
    <3>2. (o + j - 1) % s = w
      BY <3>1
    <3> QED
      BY <2>1, <3>2, <1>3, <1>6, <1>7 DEF IsRing
  <2>2. CASE j # n + 1
    <3>1. j \in 1..n
      BY <2>2
    <3> QED
      BY <3>1, <1>3, <1>4, <1>5, <1>6, <1>7 DEF IsRing
  <2> QED
    BY <2>1, <2>2
<1>9. r = Append(q, x)
  BY <1>6, <1>7, <1>8, SeqEqual DEF IsRing
<1> QED
  BY <1>9 DEF q, r

(* The place behind the n items is none of theirs.                         *)
LEMMA RingSpare ==
  ASSUME NEW S, NEW s, NEW a, NEW b, NEW o, NEW n, NEW x,
         PutBehind(S, s, a, b, o, n, x)
  PROVE  Ring(b, s, o, n) = Ring(a, s, o, n)
<1> DEFINE w == (o + n) % s
<1> USE DEF PutBehind
<1>0. n \in 0..s
  OBVIOUS
<1>1. w = IF o + n < s THEN o + n ELSE o + n - s
  BY <1>0, RingIndex
<1>2. \A j \in 0..s - 1 : j # w => b[j] = a[j]
  BY DEF Replaces
<1>3. ASSUME NEW j \in 1..n PROVE b[(o + j - 1) % s] = a[(o + j - 1) % s]
  <2>1. j - 1 \in 0..s /\ o + j - 1 = o + (j - 1)
    OBVIOUS
  <2>2. (o + (j - 1)) % s = IF o + (j - 1) < s THEN o + (j - 1) ELSE o + (j - 1) - s
    BY <2>1, RingIndex
  <2>3. (o + (j - 1)) % s \in 0..s - 1 /\ (o + (j - 1)) % s # w
    BY <2>1, <2>2, <1>1
  <2> QED
    BY <2>1, <2>3, <1>2
<1> QED
  BY <1>3 DEF Ring

(* The first of n items taken out.                                         *)
LEMMA RingTake ==
  ASSUME NEW S, NEW s \in Nat \ {0}, NEW a \in [0..s - 1 -> S],
         NEW o \in 0..s - 1, NEW n \in 1..s
  PROVE  /\ Ring(a, s, o, n) # << >> /\ Head(Ring(a, s, o, n)) = a[o]
         /\ Tail(Ring(a, s, o, n)) = Ring(a, s, (o + 1) % s, n - 1)
<1> DEFINE o2 == (o + 1) % s
           q == Ring(a, s, o, n)
           r == Ring(a, s, o2, n - 1)
<1>0. n \in 0..s /\ n - 1 \in 0..s /\ 1 \in 0..s
  OBVIOUS
<1>1. o2 = IF o + 1 < s THEN o + 1 ELSE o + 1 - s
  BY <1>0, RingIndex
<1>2. o2 \in 0..s - 1
  BY <1>1
<1>3. (o + 0) % s = o
  <2>1. 0 \in 0..s /\ o + 0 < s
    OBVIOUS
  <2>2. (o + 0) % s = IF o + 0 < s THEN o + 0 ELSE o + 0 - s
    BY <2>1, RingIndex
  <2> QED
    BY <2>1, <2>2
<1>4. ASSUME NEW j \in 1..n - 1 PROVE (o2 + j - 1) % s = (o + (j + 1) - 1) % s
  <2>1. j - 1 \in 0..s /\ j \in 0..s /\ o2 + j - 1 = o2 + (j - 1) /\ o + (j + 1) - 1 = o + j
    BY <1>2
  <2>2. (o2 + (j - 1)) % s = IF o2 + (j - 1) < s THEN o2 + (j - 1) ELSE o2 + (j - 1) - s
    BY <2>1, <1>2, RingIndex
  <2>3. (o + j) % s = IF o + j < s THEN o + j ELSE o + j - s
    BY <2>1, RingIndex
  <2> HIDE DEF o2
  <2> QED
    BY <1>1, <2>1, <2>2, <2>3
<1> HIDE DEF o2
<1>5. IsRing(q, S, a, s, o, n)
  BY <1>0, RingItems
<1>6. IsRing(r, S, a, s, o2, n - 1)
  BY <1>0, <1>2, RingItems
<1> HIDE DEF q, r
<1>7. q # << >>
  BY <1>5 DEF IsRing
<1>8. /\ Head(q) = q[1] /\ Tail(q) \in Seq(S) /\ Len(Tail(q)) = n - 1
      /\ \A j \in 1..n - 1 : Tail(q)[j] = q[j + 1]
  BY <1>5, <1>7, HeadTailProperties DEF IsRing
<1>9. ASSUME NEW j \in 1..n - 1 PROVE Tail(q)[j] = r[j]
  <2>1. j + 1 \in 1..n
    OBVIOUS
  <2> QED
    BY <2>1, <1>4, <1>5, <1>6, <1>8 DEF IsRing
<1>10. Tail(q) = r
  BY <1>6, <1>8, <1>9, SeqEqual DEF IsRing
<1>11. Head(q) = a[o]
  <2>1. 1 \in 1..n /\ o + 1 - 1 = o + 0
    OBVIOUS
  <2> QED
    BY <2>1, <1>3, <1>5, <1>8 DEF IsRing
<1> QED
  BY <1>7, <1>10, <1>11 DEF q, r, o2

(* The index behind one more item, and the same index from one place on.   *)
LEMMA RingNext ==
  ASSUME NEW s \in Nat \ {0}, NEW o \in 0..s - 1
  PROVE  /\ (o + 1) % s \in 0..s - 1
         /\ \A n \in 0..s - 1 : (((o + n) % s) + 1) % s = (o + (n + 1)) % s
         /\ \A n \in 1..s : (((o + 1) % s) + (n - 1)) % s = (o + n) % s
<1> DEFINE w == (o + 1) % s
<1>0. 1 \in 0..s
  OBVIOUS
<1>1. w = IF o + 1 < s THEN o + 1 ELSE o + 1 - s
  BY <1>0, RingIndex
<1>2. w \in 0..s - 1
  BY <1>1
<1>3. ASSUME NEW n \in 0..s - 1 PROVE (((o + n) % s) + 1) % s = (o + (n + 1)) % s
  <2> DEFINE x == (o + n) % s
  <2>1. n \in 0..s /\ n + 1 \in 0..s
    OBVIOUS
  <2>2. x = IF o + n < s THEN o + n ELSE o + n - s
    BY <2>1, RingIndex
  <2>3. x \in 0..s - 1
    BY <2>2
  <2> HIDE DEF x
  <2>4. (x + 1) % s = IF x + 1 < s THEN x + 1 ELSE x + 1 - s
    BY <1>0, <2>3, RingIndex
  <2>5. (o + (n + 1)) % s = IF o + (n + 1) < s THEN o + (n + 1) ELSE o + (n + 1) - s
    BY <2>1, RingIndex
  <2>6. (x + 1) % s = (o + (n + 1)) % s
    BY <2>2, <2>3, <2>4, <2>5
  <2> QED
    BY <2>6 DEF x
<1>4. ASSUME NEW n \in 1..s PROVE (w + (n - 1)) % s = (o + n) % s
  <2>1. n \in 0..s /\ n - 1 \in 0..s
    OBVIOUS
  <2> HIDE DEF w
  <2>2. (w + (n - 1)) % s = IF w + (n - 1) < s THEN w + (n - 1) ELSE w + (n - 1) - s
    BY <1>2, <2>1, RingIndex
  <2>3. (o + n) % s = IF o + n < s THEN o + n ELSE o + n - s
    BY <2>1, RingIndex
  <2> QED
    BY <1>1, <1>2, <2>2, <2>3
<1> QED
  BY <1>2, <1>3, <1>4

-----------------------------------------------------------------------------
(* Sequences sorted by a number that belongs to each element.              *)
Rising(q, est) == \A i, j \in 1..Len(q) : i < j => est[q[i]] <= est[q[j]]

(* Putting e in front of the first element that is not less keeps the      *)
(* order.                                                                  *)
LEMMA RisingInsert ==
  ASSUME NEW T, NEW q \in Seq(T), NEW e \in T, NEW n \in 1..Len(q) + 1,
         NEW est, \A x \in T : est[x] \in Int, Rising(q, est),
         n > Len(q) \/ est[q[n]] >= est[e],
         \A j \in 1..n - 1 : est[q[j]] < est[e]
  PROVE  InsertAt(q, n, e) \in Seq(T) /\ Rising(InsertAt(q, n, e), est)
<1> DEFINE r == InsertAt(q, n, e)
<1>1. r \in Seq(T) /\ Inserted(r, q, n, e)
  BY InsertItems
<1> HIDE DEF r
<1>2. /\ Len(q) \in Nat /\ Len(r) = Len(q) + 1
      /\ \A i \in 1..Len(q) : q[i] \in T
      /\ \A i \in 1..Len(q) : est[q[i]] \in Int
      /\ est[e] \in Int
  BY <1>1, LenProperties DEF Inserted
<1>3. ASSUME NEW i \in 1..Len(r), NEW j \in 1..Len(r), i < j
      PROVE  est[r[i]] <= est[r[j]]
  <2>1. /\ r[i] = IF i < n THEN q[i] ELSE IF i = n THEN e ELSE q[i - 1]
        /\ r[j] = IF j < n THEN q[j] ELSE IF j = n THEN e ELSE q[j - 1]
    BY <1>1, <1>2 DEF Inserted
  <2>2. \A h \in n..Len(q) : est[e] <= est[q[h]]
    <3> SUFFICES ASSUME NEW h \in n..Len(q) PROVE est[e] <= est[q[h]]
      OBVIOUS
    <3>1. n \in 1..Len(q) /\ h \in 1..Len(q) /\ est[q[n]] >= est[e]
      BY <1>2
    <3>2. est[q[n]] <= est[q[h]]
      BY <3>1, <1>2 DEF Rising
    <3> QED
      BY <3>1, <3>2, <1>2, SMTT(30)
  <2>3. CASE j < n
    BY <2>1, <2>3, <1>2, <1>3, SMTT(30) DEF Rising
  <2>4. CASE j = n
    BY <2>1, <2>4, <1>2, <1>3
  <2>5. CASE j > n /\ i < n
    <3>1. i \in 1..Len(q) /\ j - 1 \in 1..Len(q) /\ i < j - 1
      BY <2>5, <1>2
    <3> QED
      BY <3>1, <2>1, <2>5 DEF Rising
  <2>6. CASE j > n /\ i = n
    <3>1. j - 1 \in n..Len(q)
      BY <2>6, <1>2
    <3> QED
      BY <3>1, <2>1, <2>2, <2>6
  <2>7. CASE j > n /\ i > n
    <3>1. i - 1 \in 1..Len(q) /\ j - 1 \in 1..Len(q) /\ i - 1 < j - 1
      BY <2>7, <1>2, <1>3
    <3>2. est[q[i - 1]] <= est[q[j - 1]]
      BY <3>1 DEF Rising
    <3>3. r[i] = q[i - 1] /\ r[j] = q[j - 1]
      BY <2>1, <2>7
    <3> QED
      BY <3>2, <3>3
  <2> QED
    BY <2>3, <2>4, <2>5, <2>6, <2>7, <1>2
<1> QED
  BY <1>1, <1>3 DEF r, Rising

(* Taking an element out, if it is there, does too.                        *)
LEMMA RisingRemoveFirst ==
  ASSUME NEW T, NEW q \in Seq(T), NEW e, NEW est, Rising(q, est)
  PROVE  RemoveFirst(q, e) \in Seq(T) /\ Rising(RemoveFirst(q, e), est)
<1> DEFINE I == {i \in 1..Len(q) : q[i] = e}
           n == Min(I)
           r == RemoveAt(q, n)
<1>1. CASE I = {}
  BY <1>1 DEF RemoveFirst
<1>2. CASE I # {}
  <2>1. Len(q) \in Nat /\ I \in SUBSET Nat
    BY LenProperties
  <2>2. \E x \in I : \A y \in I : x <= y
    BY <1>2, <2>1, LeastNat
  <2>3. n \in I
    BY <2>2 DEF Min
  <2>4. RemoveFirst(q, e) = r
    BY <1>2 DEF RemoveFirst, SelectInSeq
  <2>5. n \in 1..Len(q)
    BY <2>3
  <2> HIDE DEF n, r
  <2>6. r \in Seq(T) /\ Removed(r, q, n)
    BY <2>5, RemoveItems DEF r
  <2>7. ASSUME NEW i \in 1..Len(r), NEW j \in 1..Len(r), i < j
        PROVE  est[r[i]] <= est[r[j]]
    <3> DEFINE a == IF i < n THEN i ELSE i + 1
               b == IF j < n THEN j ELSE j + 1
    <3>1. Len(r) = Len(q) - 1 /\ r[i] = q[a] /\ r[j] = q[b]
      BY <2>6, <2>1 DEF Removed
    <3>2. a \in 1..Len(q) /\ b \in 1..Len(q) /\ a < b
      BY <3>1, <2>1, <2>5, <2>7
    <3> HIDE DEF a, b
    <3>3. est[q[a]] <= est[q[b]]
      BY <3>2 DEF Rising
    <3> QED
      BY <3>1, <3>3
  <2> QED
    BY <2>4, <2>6, <2>7 DEF Rising
<1> QED
  BY <1>1, <1>2
-----------------------------------------------------------------------------
(* The elements of a finite set in the order of a number each of them has. *)

LEMMA ArrangedItems ==
  ASSUME NEW S, IsFiniteSet(S), NEW q \in SetToSeqs(S)
  PROVE  /\ Len(q) \in Nat /\ DOMAIN q = 1..Len(q)
         /\ \A i \in 1..Len(q) : q[i] \in S
         /\ \A i, j \in 1..Len(q) : i # j => q[i] # q[j]
         /\ \A x \in S : \E i \in 1..Len(q) : q[i] = x
<1> DEFINE n == Cardinality(S)
<1>1. n \in Nat
  BY FS_CardinalityType
<1>2. q \in [1..n -> S] /\ \A i, j \in 1..n : i # j => q[i] # q[j]
  BY DEF SetToSeqs
<1>3. q \in Seq(S) /\ Len(q) = n
  BY <1>1, <1>2
<1>4. q \in Injection(1..n, S)
  BY <1>2 DEF Injection, IsInjective
<1>5. Cardinality(1..n) = n
  BY <1>1, FS_Interval
<1>6. q \in Surjection(1..n, S)
  BY <1>4, <1>5, FS_Injection
<1>7. \A x \in S : \E i \in 1..n : q[i] = x
  BY <1>6 DEF Surjection
<1> QED
  BY <1>1, <1>2, <1>3, <1>7

(* An element's place is how many elements have a number up to its own.    *)
LEMMA ArrangedByNumber ==
  ASSUME NEW S, IsFiniteSet(S), NEW k \in [S -> Nat],
         \A x, y \in S : k[x] = k[y] => x = y
  PROVE  \E q \in SetToSeqs(S) : \A i, j \in DOMAIN q : i < j => k[q[i]] < k[q[j]]
<1> DEFINE n == Cardinality(S)
           Upto(x) == {y \in S : k[y] <= k[x]}
           place == [x \in S |-> Cardinality(Upto(x))]
<1>1. n \in Nat
  BY FS_CardinalityType
<1>2. ASSUME NEW x \in S
      PROVE  /\ IsFiniteSet(Upto(x))
             /\ Cardinality(Upto(x)) \in Nat /\ Cardinality(Upto(x)) \in 1..n
  <2>1. Upto(x) \in SUBSET S /\ x \in Upto(x)
    OBVIOUS
  <2> HIDE DEF Upto
  <2>2. IsFiniteSet(Upto(x)) /\ Cardinality(Upto(x)) <= n
    BY <2>1, FS_Subset
  <2>3. Cardinality(Upto(x)) \in Nat /\ Cardinality(Upto(x)) # 0
    BY <2>1, <2>2, FS_CardinalityType, FS_EmptySet
  <2>4. ASSUME NEW c \in Nat, NEW m \in Nat, c # 0, c <= m PROVE c \in 1..m
    BY <2>4
  <2> QED
    BY <1>1, <2>2, <2>3, <2>4, Zenon
<1>3. ASSUME NEW x \in S, NEW y \in S, k[x] < k[y]
      PROVE  place[x] < place[y]
  <2>1. Upto(x) \in SUBSET Upto(y) /\ y \in Upto(y) /\ y \notin Upto(x)
    BY <1>3
  <2>2. IsFiniteSet(Upto(y)) /\ Cardinality(Upto(x)) \in Nat /\ Cardinality(Upto(y)) \in Nat
    BY <1>2
  <2> HIDE DEF Upto
  <2>3. Cardinality(Upto(x)) <= Cardinality(Upto(y))
    BY <2>1, <2>2, FS_Subset
  <2>4. Cardinality(Upto(x)) # Cardinality(Upto(y))
    BY <2>1, <2>2, FS_Subset
  <2> QED
    BY <2>2, <2>3, <2>4
<1>4. place \in [S -> 1..n]
  BY <1>2
<1> HIDE DEF place
<1>5. ASSUME NEW x \in S, NEW y \in S, place[x] = place[y]
      PROVE  x = y
  <2>1. place[x] \in Nat /\ k[x] \in Nat /\ k[y] \in Nat
    BY <1>4
  <2>2. ~(k[x] < k[y]) /\ ~(k[y] < k[x])
    BY <1>3, <1>5, <2>1
  <2> QED
    BY <2>1, <2>2
<1>6. place \in Injection(S, 1..n)
  BY <1>4, <1>5 DEF Injection, IsInjective
<1>7. IsFiniteSet(1..n) /\ Cardinality(1..n) = n
  BY <1>1, FS_Interval
<1>8. place \in Surjection(S, 1..n)
  BY <1>6, <1>7, FS_Injection
<1>9. \A i \in 1..n : \E x \in S : place[x] = i
  BY <1>8 DEF Surjection
<1> DEFINE q == [i \in 1..n |-> CHOOSE x \in S : place[x] = i]
<1>10. \A i \in 1..n : q[i] \in S /\ place[q[i]] = i
  BY <1>9
<1>11. q \in [1..n -> S]
  BY <1>10
<1> HIDE DEF q
<1>12. \A i, j \in 1..n : i # j => q[i] # q[j]
  BY <1>10
<1>13. q \in SetToSeqs(S) /\ DOMAIN q = 1..n
  BY <1>11, <1>12 DEF SetToSeqs
<1>14. ASSUME NEW i \in 1..n, NEW j \in 1..n, i < j
       PROVE  k[q[i]] < k[q[j]]
  <2>1. q[i] \in S /\ q[j] \in S /\ place[q[i]] = i /\ place[q[j]] = j
    BY <1>10
  <2>2. ~(k[q[j]] < k[q[i]])
    BY <1>3, <1>14, <2>1
  <2>3. k[q[i]] # k[q[j]]
    BY <1>14, <2>1
  <2>4. k[q[i]] \in Nat /\ k[q[j]] \in Nat
    BY <2>1
  <2> QED
    BY <2>2, <2>3, <2>4
<1> QED
  BY <1>13, <1>14
===============================================================================
