-------------------------- MODULE AllocatorProofs --------------------------
(***************************************************************************)
(* Why the allocator loses no memory and gives none away twice: the list   *)
(* of holes as a set of clicks, what the routines of alloc.c do to it, and *)
(* the inductive invariant of MM's steps; and that the allocator           *)
(* implements Memory.  Worst fit and swapping are kept apart here          *)
(* (ModesMix = FALSE).                                                     *)
(***************************************************************************)
EXTENDS Allocator, SequenceLemmas, FiniteSetTheorems

Hole == [base : Nat, len : Nat \ {0}]

End(h) == h.base + h.len

In(c, h) == h.base <= c /\ c < End(h)

(* The holes are apart from each other, and in the order of their address. *)
Apart(hs) == \A i, j \in 1..Len(hs) : i < j => End(hs[i]) < hs[j].base

(* Two holes may touch.                                                    *)
Sorted(hs) == \A i, j \in 1..Len(hs) : i < j => End(hs[i]) <= hs[j].base

Touching(hs) == {k \in 1..Len(hs) - 1 : End(hs[k]) = hs[k + 1].base}

Free(hs) == {c \in Nat : \E k \in 1..Len(hs) : In(c, hs[k])}

Slots(t) == t.slots + Len(t.holes)

-----------------------------------------------------------------------------
(* The list.                                                               *)

(* A hole ends behind where it begins.                                     *)
LEMMA HoleEnds ==
  ASSUME NEW h \in Hole
  PROVE  /\ h.base \in Nat /\ h.len \in Nat /\ End(h) \in Nat
         /\ h.base < End(h) /\ End(h) = h.base + h.len /\ h.len > 0
BY DEF Hole, End

(* A sorted list in which no two neighbours touch is apart.                *)
LEMMA NoneTouch ==
  ASSUME NEW hs \in Seq(Hole), Sorted(hs), Touching(hs) = {}
  PROVE  Apart(hs)
<1> SUFFICES ASSUME NEW i \in 1..Len(hs), NEW j \in 1..Len(hs), i < j
             PROVE  End(hs[i]) < hs[j].base
  BY DEF Apart
<1>1. /\ Len(hs) \in Nat /\ i + 1 \in 1..Len(hs) /\ i \in 1..Len(hs) - 1
      /\ hs[i] \in Hole /\ hs[j] \in Hole /\ hs[i + 1] \in Hole
  <2>1. Len(hs) \in Nat
    BY LenProperties
  <2>2. i + 1 \in 1..Len(hs) /\ i \in 1..Len(hs) - 1
    BY <2>1
  <2>3. \A n \in 1..Len(hs) : hs[n] \in Hole
    BY ElementOfSeq
  <2> QED
    BY <2>1, <2>2, <2>3
<1>2. End(hs[i]) # hs[i + 1].base /\ End(hs[i]) <= hs[i + 1].base
  <2>1. End(hs[i]) # hs[i + 1].base
    BY <1>1 DEF Touching
  <2>2. i < i + 1
    OBVIOUS
  <2> QED
    BY <1>1, <2>1, <2>2 DEF Sorted
<1>3. End(hs[i]) < hs[i + 1].base
  BY <1>1, <1>2, SMTT(30) DEF Hole, End
<1>4. CASE j = i + 1
  BY <1>3, <1>4
<1>5. CASE j # i + 1
  <2>1. End(hs[i + 1]) <= hs[j].base
    BY <1>1, <1>5 DEF Sorted
  <2> QED
    BY <2>1, <1>1, <1>3, SMTT(30) DEF Hole, End
<1> QED
  BY <1>4, <1>5

(* del_slot with the hole before the one that leaves.                      *)
LEMMA DelSlot ==
  ASSUME NEW T, NEW t, t.holes \in Seq(T), NEW k \in 1..Len(t.holes)
  PROVE  LET u == del_slot(t, k - 1, k)
         IN u.holes \in Seq(T) /\ Removed(u.holes, t.holes, k) /\ u.slots = t.slots + 1
<1> DEFINE u == del_slot(t, k - 1, k)
           q == t.holes
<1>1. u.slots = t.slots + 1
  BY DEF del_slot
<1>2. CASE k = 1
  <2>1. u.holes = Tail(q) /\ q # << >>
    BY <1>2 DEF del_slot
  <2>2. Len(q) \in Nat /\ Len(Tail(q)) = Len(q) - 1 /\ Tail(q) \in Seq(T)
    BY <2>1, HeadTailProperties
  <2>3. \A i \in 1..Len(q) - 1 : Tail(q)[i] = q[i + 1]
    BY <2>1, <2>2, HeadTailProperties
  <2> HIDE DEF u, q
  <2>4. Removed(u.holes, q, k)
    BY <1>2, <2>1, <2>2, <2>3 DEF Removed
  <2> QED
    BY <1>1, <2>1, <2>2, <2>4 DEF u, q
<1>3. CASE k # 1
  <2>1. u.holes = RemoveAt(q, k)
    BY <1>3 DEF del_slot, RemoveAt
  <2>2. RemoveAt(q, k) \in Seq(T) /\ Removed(RemoveAt(q, k), q, k)
    BY RemoveItems
  <2> QED
    BY <1>1, <2>1, <2>2
<1> QED
  BY <1>2, <1>3

(* A list stays sorted without one of its holes.                           *)
LEMMA RemoveHole ==
  ASSUME NEW q \in Seq(Hole), NEW r \in Seq(Hole), NEW k \in 1..Len(q), Removed(r, q, k)
  PROVE  /\ Sorted(q) => Sorted(r)
         /\ Apart(q) => Apart(r)
         /\ Sorted(q) => Free(r) = Free(q) \ {c \in Nat : In(c, q[k])}
         /\ Len(r) = Len(q) - 1
<1> DEFINE At(i) == IF i < k THEN i ELSE i + 1
<1>1. Len(q) \in Nat /\ Len(r) = Len(q) - 1 /\ Len(r) \in Nat
  BY DEF Removed
<1>2. \A i \in 1..Len(r) : r[i] = q[At(i)] /\ At(i) \in 1..Len(q) /\ At(i) # k
  BY <1>1 DEF Removed
<1>3. \A i, j \in 1..Len(r) : i < j => At(i) < At(j)
  BY <1>1
<1>4. \A j \in 1..Len(q) : j # k => \E i \in 1..Len(r) : r[i] = q[j]
  <2> SUFFICES ASSUME NEW j \in 1..Len(q), j # k
               PROVE  \E i \in 1..Len(r) : At(i) = j
    BY <1>2
  <2>1. CASE j < k
    <3>1. j \in 1..Len(r) /\ At(j) = j
      BY <2>1, <1>1
    <3> QED
      BY <3>1
  <2>2. CASE j > k
    <3>1. j - 1 \in 1..Len(r) /\ At(j - 1) = j
      BY <2>2, <1>1
    <3> QED
      BY <3>1
  <2> QED
    BY <2>1, <2>2
<1>5. \A i \in 1..Len(q) : q[i] \in Hole
  BY ElementOfSeq
<1> HIDE DEF At
<1>6. Sorted(q) => Sorted(r)
  BY <1>2, <1>3 DEF Sorted
<1>7. Apart(q) => Apart(r)
  BY <1>2, <1>3 DEF Apart
<1>8. ASSUME Sorted(q) PROVE Free(r) = Free(q) \ {c \in Nat : In(c, q[k])}
  <2>1. ASSUME NEW c \in Nat, NEW i \in 1..Len(q), i # k, In(c, q[i]) PROVE ~In(c, q[k])
    <3>1. CASE i < k
      <4>1. End(q[i]) <= q[k].base
        BY <1>8, <3>1 DEF Sorted
      <4> QED
        BY <4>1, <2>1, <1>5, SMTT(30) DEF In, End, Hole
    <3>2. CASE i > k
      <4>1. End(q[k]) <= q[i].base
        BY <1>8, <3>2 DEF Sorted
      <4> QED
        BY <4>1, <2>1, <1>5, SMTT(30) DEF In, End, Hole
    <3> QED
      BY <3>1, <3>2, <2>1
  <2>2. ASSUME NEW c \in Nat
        PROVE  c \in Free(r) <=> c \in Free(q) /\ ~In(c, q[k])
    <3>1. ASSUME c \in Free(r) PROVE c \in Free(q) /\ ~In(c, q[k])
      <4>1. PICK i \in 1..Len(r) : In(c, r[i])
        BY <3>1 DEF Free
      <4>2. In(c, q[At(i)]) /\ At(i) \in 1..Len(q) /\ At(i) # k
        BY <4>1, <1>2
      <4> QED
        BY <4>2, <2>1 DEF Free
    <3>2. ASSUME c \in Free(q), ~In(c, q[k]) PROVE c \in Free(r)
      <4>1. PICK j \in 1..Len(q) : In(c, q[j])
        BY <3>2 DEF Free
      <4>2. PICK i \in 1..Len(r) : r[i] = q[j]
        BY <4>1, <3>2, <1>4
      <4> QED
        BY <4>1, <4>2 DEF Free
    <3> QED
      BY <3>1, <3>2
  <2> QED
    BY <2>2 DEF Free
<1> QED
  BY <1>1, <1>6, <1>7, <1>8

Tables == [holes : Seq(Hole), slots : Int]

(* Hole k of q, and the hole that follows it, are one in r.                *)
Joined(r, q, k) ==
  /\ Len(r) = Len(q) - 1
  /\ \A i \in 1..Len(q) - 1 : /\ r[i].base = q[IF i <= k THEN i ELSE i + 1].base
                              /\ End(r[i]) = End(q[IF i < k THEN i ELSE i + 1])

(* Two neighbours that touch become one hole: as many clicks are free as   *)
(* before.                                                                 *)
LEMMA JoinHoles ==
  ASSUME NEW q \in Seq(Hole), NEW r \in Seq(Hole), NEW k \in 1..Len(q) - 1,
         Sorted(q), k \in Touching(q), Joined(r, q, k)
  PROVE  /\ Sorted(r) /\ Free(r) = Free(q)
         /\ \A i \in Touching(r) : IF i < k THEN i \in Touching(q) ELSE i + 1 \in Touching(q)
<1> DEFINE A(i) == IF i <= k THEN i ELSE i + 1
           B(i) == IF i < k THEN i ELSE i + 1
<1>1. Len(q) \in Nat /\ Len(r) = Len(q) - 1 /\ Len(r) \in Nat /\ k \in Nat
  BY LenProperties DEF Joined
<1>2. \A i \in 1..Len(r) : /\ r[i].base = q[A(i)].base /\ End(r[i]) = End(q[B(i)])
                           /\ A(i) \in 1..Len(q) /\ B(i) \in 1..Len(q)
  BY <1>1 DEF Joined
<1>3. \A i, j \in 1..Len(r) : i < j => B(i) < A(j)
  BY <1>1
<1>4. \A i \in 1..Len(q) : q[i] \in Hole
  BY ElementOfSeq
<1>5. Sorted(r)
  <2> HIDE DEF A, B
  <2> QED
    BY <1>2, <1>3 DEF Sorted
<1>6. ASSUME NEW i \in Touching(r)
      PROVE  IF i < k THEN i \in Touching(q) ELSE i + 1 \in Touching(q)
  <2>1. i \in 1..Len(r) - 1 /\ i \in 1..Len(r) /\ i + 1 \in 1..Len(r) /\ End(r[i]) = r[i + 1].base
    BY <1>1 DEF Touching
  <2>2. End(q[B(i)]) = q[A(i + 1)].base
    <3> HIDE DEF A, B
    <3> QED
      BY <2>1, <1>2
  <2>3. A(i + 1) = B(i) + 1 /\ B(i) \in 1..Len(q) - 1
    BY <2>1, <1>1
  <2> HIDE DEF A
  <2>4. B(i) \in Touching(q)
    BY <2>2, <2>3 DEF Touching
  <2> QED
    BY <2>4
<1>7. End(q[k]) = q[k + 1].base /\ k + 1 \in 1..Len(q) /\ k \in 1..Len(q) /\ k \in 1..Len(r)
  BY <1>1 DEF Touching
<1>8. ASSUME NEW c \in Nat
      PROVE  (\E i \in 1..Len(r) : In(c, r[i])) <=> (\E i \in 1..Len(q) : In(c, q[i]))
  <2>1. ASSUME NEW i \in 1..Len(r), In(c, r[i]) PROVE \E j \in 1..Len(q) : In(c, q[j])
    <3>1. q[A(i)].base <= c /\ c < End(q[B(i)]) /\ A(i) \in 1..Len(q) /\ B(i) \in 1..Len(q)
      <4> HIDE DEF A, B
      <4> QED
        BY <2>1, <1>2 DEF In
    <3>2. CASE i = k
      <4>1. A(i) = k /\ B(i) = k + 1
        BY <3>2
      <4>2. q[k].base <= c /\ c < End(q[k + 1])
        <5> HIDE DEF A, B
        <5> QED
          BY <3>1, <4>1
      <4>3. In(c, q[k]) \/ In(c, q[k + 1])
        <5>1. End(q[k]) \in Nat
          BY <1>4, <1>7 DEF Hole, End
        <5> QED
          BY <4>2, <1>7, <5>1 DEF In
      <4> QED
        BY <4>3, <1>7
    <3>3. CASE i # k
      <4>1. A(i) = B(i)
        BY <3>3, <1>1
      <4> HIDE DEF A, B
      <4>2. In(c, q[A(i)])
        BY <3>1, <4>1 DEF In
      <4> QED
        BY <4>2, <3>1
    <3> QED
      BY <3>2, <3>3
  <2>2. ASSUME NEW j \in 1..Len(q), In(c, q[j]) PROVE \E i \in 1..Len(r) : In(c, r[i])
    <3>1. PICK i \in 1..Len(r) : j = A(i) \/ j = B(i)
      <4>1. CASE j <= k
        <5>1. j \in 1..Len(r) /\ A(j) = j
          BY <4>1, <1>1
        <5> QED
          BY <5>1
      <4>2. CASE j > k
        <5>1. j - 1 \in 1..Len(r) /\ B(j - 1) = j
          BY <4>2, <1>1
        <5> QED
          BY <5>1
      <4> QED
        BY <4>1, <4>2, <1>1
    <3>2. A(i) \in 1..Len(q) /\ B(i) \in 1..Len(q) /\ q[A(i)] \in Hole /\ q[B(i)] \in Hole
      BY <1>2, <1>4
    <3>3. A(i) = B(i) \/ End(q[A(i)]) = q[B(i)].base
      <4>1. A(i) = B(i) \/ (A(i) = k /\ B(i) = k + 1)
        BY <1>1
      <4> HIDE DEF A, B
      <4> QED
        BY <4>1, <1>7
    <3> HIDE DEF A, B
    <3>4. q[A(i)].base <= c /\ c < End(q[B(i)])
      <4>1. /\ q[A(i)].base \in Nat /\ q[A(i)].base < End(q[A(i)]) /\ End(q[A(i)]) \in Nat
            /\ q[B(i)].base \in Nat /\ q[B(i)].base < End(q[B(i)]) /\ End(q[B(i)]) \in Nat
        BY <3>2, HoleEnds
      <4>2. /\ j = A(i) => q[A(i)].base <= c /\ c < End(q[A(i)])
            /\ j = B(i) => q[B(i)].base <= c /\ c < End(q[B(i)])
        BY <2>2 DEF In
      <4>3. CASE A(i) = B(i)
        BY <4>2, <4>3, <3>1
      <4>4. CASE End(q[A(i)]) = q[B(i)].base
        BY <4>1, <4>2, <4>4, <3>1
      <4> QED
        BY <4>3, <4>4, <3>3
    <3>5. In(c, r[i])
      BY <3>4, <1>2 DEF In
    <3> QED
      BY <3>5
  <2> QED
    BY <2>1, <2>2
<1>9. Free(r) = Free(q)
  BY <1>8 DEF Free
<1> QED
  BY <1>5, <1>6, <1>9

(* Absorb, when the two holes touch.                                       *)
LEMMA AbsorbHole ==
  ASSUME NEW t \in Tables, NEW k \in 1..Len(t.holes) - 1, Sorted(t.holes), k \in Touching(t.holes)
  PROVE  LET u == Absorb(t, k)
         IN /\ u \in Tables /\ Sorted(u.holes) /\ Slots(u) = Slots(t) /\ Free(u.holes) = Free(t.holes)
            /\ Len(u.holes) = Len(t.holes) - 1
            /\ \A i \in Touching(u.holes) : IF i < k THEN i \in Touching(t.holes)
                                                     ELSE i + 1 \in Touching(t.holes)
<1> DEFINE q == t.holes
           w == [q EXCEPT ![k].len = q[k].len + q[k + 1].len]
           v == [t EXCEPT !.holes = w]
           u == Absorb(t, k)
<1>1. q \in Seq(Hole) /\ Len(q) \in Nat /\ t.slots \in Int /\ k \in 1..Len(q) /\ k + 1 \in 1..Len(q)
      /\ q \in [1..Len(q) -> Hole]
  BY LenProperties DEF Tables
<1>2. u = del_slot(v, k, k + 1)
  BY DEF Absorb, Tables
<1>3. \A i \in 1..Len(q) : q[i] \in Hole
  BY <1>1
<1>4. /\ w \in Seq(Hole) /\ Len(w) = Len(q)
      /\ \A i \in 1..Len(q) : /\ w[i].base = q[i].base
                              /\ w[i].len = IF i = k THEN q[k].len + q[k + 1].len ELSE q[i].len
  <2>1. q[k] \in Hole /\ q[k + 1] \in Hole
    BY <1>1
  <2>2. [q[k] EXCEPT !.len = q[k].len + q[k + 1].len]
           = [base |-> q[k].base, len |-> q[k].len + q[k + 1].len]
    BY <2>1 DEF Hole
  <2>3. w \in [1..Len(q) -> Hole]
    <3>1. [q[k] EXCEPT !.len = q[k].len + q[k + 1].len] \in Hole
      BY <2>1, <2>2, SMTT(30) DEF Hole
    <3> QED
      BY <1>1, <3>1
  <2>4. w \in Seq(Hole) /\ Len(w) = Len(q)
    <3> HIDE DEF w
    <3>1. w \in Seq(Hole) /\ DOMAIN w = 1..Len(q)
      BY <2>3, <1>1, IsASeq
    <3> QED
      BY <3>1, <1>1, LenProperties
  <2> QED
    BY <2>2, <2>4, <1>1
<1> HIDE DEF w
<1>5. v.holes = w /\ v.slots = t.slots
  BY DEF Tables
<1> HIDE DEF v
<1>6. u.holes \in Seq(Hole) /\ Removed(u.holes, w, k + 1) /\ u.slots = t.slots + 1
  <2>1. v.holes \in Seq(Hole) /\ k + 1 \in 1..Len(v.holes) /\ (k + 1) - 1 = k
    BY <1>1, <1>4, <1>5
  <2> QED
    BY <2>1, <1>2, <1>5, DelSlot
<1>7. u = [holes |-> u.holes, slots |-> u.slots]
  BY <1>2 DEF del_slot
<1> HIDE DEF u, q
<1>8. u \in Tables
  BY <1>1, <1>6, <1>7 DEF Tables
<1>9. Joined(u.holes, q, k)
  <2>1. Len(u.holes) = Len(q) - 1
    BY <1>4, <1>6 DEF Removed
  <2>2. ASSUME NEW i \in 1..Len(q) - 1
        PROVE  /\ u.holes[i].base = q[IF i <= k THEN i ELSE i + 1].base
               /\ End(u.holes[i]) = End(q[IF i < k THEN i ELSE i + 1])
    <3>1. u.holes[i] = IF i < k + 1 THEN w[i] ELSE w[i + 1]
      BY <1>4, <1>6 DEF Removed
    <3>2. i \in 1..Len(q) /\ i + 1 \in 1..Len(q)
      BY <1>1
    <3>3. CASE i < k
      <4>1. u.holes[i] = w[i]
        BY <3>1, <3>3, <1>1
      <4>2. w[i].base = q[i].base /\ w[i].len = q[i].len
        BY <3>2, <3>3, <1>4
      <4> QED
        BY <4>1, <4>2, <3>3, <1>1 DEF End
    <3>4. CASE i = k
      <4>1. End(q[k]) = q[k + 1].base
        BY DEF Touching, q
      <4>2. /\ q[k].base \in Nat /\ q[k].len \in Nat
            /\ q[k + 1].base \in Nat /\ q[k + 1].len \in Nat
        BY <1>1, <1>3 DEF Hole
      <4>3. u.holes[i] = w[k]
        BY <3>1, <3>4, <1>1
      <4>4. w[k].base = q[k].base /\ w[k].len = q[k].len + q[k + 1].len
        BY <1>1, <1>4
      <4> QED
        BY <4>1, <4>2, <4>3, <4>4, <3>4, <1>1 DEF End
    <3>5. CASE i > k
      <4>1. u.holes[i] = w[i + 1]
        BY <3>1, <3>5, <1>1
      <4>2. w[i + 1].base = q[i + 1].base /\ w[i + 1].len = q[i + 1].len
        BY <3>2, <3>5, <1>1, <1>4
      <4> QED
        BY <4>1, <4>2, <3>5, <1>1 DEF End
    <3> QED
      BY <3>3, <3>4, <3>5, <1>1
  <2> QED
    BY <2>1, <2>2 DEF Joined
<1>10. /\ Sorted(u.holes) /\ Free(u.holes) = Free(q)
       /\ \A i \in Touching(u.holes) : IF i < k THEN i \in Touching(q) ELSE i + 1 \in Touching(q)
  <2>1. Sorted(q) /\ k \in Touching(q) /\ k \in 1..Len(q) - 1
    BY DEF q
  <2> QED
    BY <2>1, <1>1, <1>6, <1>9, JoinHoles
<1>11. Slots(u) = Slots(t) /\ Len(u.holes) = Len(q) - 1
  BY <1>1, <1>6, <1>9, SMTT(30) DEF Joined, Slots, q
<1> QED
  BY <1>8, <1>10, <1>11 DEF q, u

(* The holes below an address are the first ones.                          *)
LEMMA HolesBelow ==
  ASSUME NEW hs \in Seq(Hole), Sorted(hs), NEW base \in Nat
  PROVE  LET b == Cardinality({k \in DOMAIN hs : hs[k].base < base})
         IN /\ b \in 0..Len(hs)
            /\ \A k \in 1..Len(hs) : hs[k].base < base <=> k <= b
<1> DEFINE S == {k \in DOMAIN hs : hs[k].base < base}
           T == {k \in 1..Len(hs) + 1 : k = Len(hs) + 1 \/ hs[k].base >= base}
<1>1. Len(hs) \in Nat /\ DOMAIN hs = 1..Len(hs) /\ \A k \in 1..Len(hs) : hs[k] \in Hole
  BY LenProperties, ElementOfSeq
<1>2. PICK m \in T : \A k \in T : m <= k
  <2>1. T \in SUBSET Nat /\ Len(hs) + 1 \in T
    BY <1>1
  <2> HIDE DEF T
  <2> QED
    BY <2>1, LeastNat
<1>3. m \in 1..Len(hs) + 1 /\ m - 1 \in 0..Len(hs)
  BY <1>1, <1>2
<1>4. ASSUME NEW k \in 1..Len(hs) PROVE hs[k].base < base <=> k <= m - 1
  <2>1. CASE k < m
    <3>1. k \notin T
      BY <1>1, <1>2, <1>3, <2>1
    <3> QED
      BY <3>1, <2>1, <1>1, <1>3, HoleEnds
  <2>2. CASE k = m
    BY <2>2, <1>1, <1>2, <1>3, HoleEnds
  <2>3. CASE k > m
    <3>1. m \in 1..Len(hs) /\ hs[m].base >= base
      BY <2>3, <1>1, <1>2
    <3>2. End(hs[m]) <= hs[k].base
      BY <3>1, <2>3 DEF Sorted
    <3>3. hs[m] \in Hole /\ hs[k] \in Hole
      BY <3>1, <1>1
    <3>4. hs[m].base < End(hs[m]) /\ hs[m].base \in Nat /\ End(hs[m]) \in Nat /\ hs[k].base \in Nat
      BY <3>3, HoleEnds
    <3> QED
      BY <3>1, <3>2, <3>4, <2>3, <1>3
  <2> QED
    BY <2>1, <2>2, <2>3, <1>3
<1>5. S = 1..m - 1
  BY <1>1, <1>3, <1>4
<1>6. Cardinality(S) = m - 1
  <2>1. Cardinality(1..m - 1) = m - 1
    BY <1>3, FS_Interval
  <2> QED
    BY <2>1, <1>5
<1> QED
  BY <1>3, <1>4, <1>6

(* A block that nobody has a click of takes its place in the list.         *)
LEMMA InsertHole ==
  ASSUME NEW q \in Seq(Hole), Apart(q), NEW h \in Hole, \A c \in Nat : In(c, h) => c \notin Free(q),
         NEW b \in 0..Len(q), \A k \in 1..Len(q) : q[k].base < h.base <=> k <= b
  PROVE  LET r == InsertAt(q, b + 1, h)
         IN /\ r \in Seq(Hole) /\ Sorted(r) /\ Len(r) = Len(q) + 1
            /\ \A k \in Touching(r) : k = b \/ k = b + 1
            /\ Free(r) = Free(q) \cup {c \in Nat : In(c, h)}
<1> DEFINE r == InsertAt(q, b + 1, h)
           At(i) == IF i <= b THEN i ELSE i - 1
<1>1. Len(q) \in Nat /\ b + 1 \in 1..Len(q) + 1 /\ \A k \in 1..Len(q) : q[k] \in Hole
  BY LenProperties, ElementOfSeq
<1>2. r \in Seq(Hole) /\ Inserted(r, q, b + 1, h)
  BY <1>1, InsertItems
<1> HIDE DEF r
<1>3. Len(r) = Len(q) + 1 /\ r[b + 1] = h
      /\ \A i \in 1..Len(r) : i # b + 1 => r[i] = q[At(i)] /\ At(i) \in 1..Len(q)
  BY <1>1, <1>2 DEF Inserted
<1>4. \A i, j \in 1..Len(r) : i < j /\ i # b + 1 /\ j # b + 1 => At(i) < At(j)
  BY <1>1, <1>3
<1>5. ASSUME NEW k \in 1..Len(q)
      PROVE  IF k <= b THEN End(q[k]) <= h.base ELSE End(h) <= q[k].base
  <2>1. /\ q[k].base \in Nat /\ End(q[k]) \in Nat /\ q[k].base < End(q[k])
        /\ h.base \in Nat /\ End(h) \in Nat /\ h.base < End(h)
    BY <1>1, HoleEnds
  <2>2. CASE k <= b /\ End(q[k]) > h.base
    <3>1. q[k].base < h.base
      BY <2>2
    <3>2. In(h.base, q[k]) /\ In(h.base, h)
      BY <2>1, <2>2, <3>1 DEF In
    <3> QED
      BY <2>1, <3>2 DEF Free
  <2>3. CASE ~(k <= b) /\ End(h) > q[k].base
    <3>1. ~(q[k].base < h.base)
      BY <2>3
    <3>2. In(q[k].base, q[k]) /\ In(q[k].base, h)
      BY <2>1, <2>3, <3>1 DEF In
    <3> QED
      BY <2>1, <3>2 DEF Free
  <2> QED
    BY <2>1, <2>2, <2>3
<1>6. ASSUME NEW i \in 1..Len(r), NEW j \in 1..Len(r), i < j, i # b + 1, j # b + 1
      PROVE  End(r[i]) < r[j].base
  <2>1. At(i) < At(j) /\ At(i) \in 1..Len(q) /\ At(j) \in 1..Len(q) /\ r[i] = q[At(i)] /\ r[j] = q[At(j)]
    BY <1>3, <1>4, <1>6
  <2> HIDE DEF At
  <2> QED
    BY <2>1 DEF Apart
<1>7. ASSUME NEW i \in 1..Len(r), i < b + 1 PROVE End(r[i]) <= h.base
  <2>1. r[i] = q[i] /\ i \in 1..Len(q) /\ i <= b
    BY <1>1, <1>3, <1>7
  <2> QED
    BY <2>1, <1>5
<1>8. ASSUME NEW j \in 1..Len(r), j > b + 1 PROVE End(h) <= r[j].base
  <2>1. r[j] = q[j - 1] /\ j - 1 \in 1..Len(q) /\ ~(j - 1 <= b)
    BY <1>1, <1>3, <1>8
  <2> QED
    BY <2>1, <1>5
<1>9. \A i \in 1..Len(r) : r[i] \in Hole
  BY <1>2, ElementOfSeq
<1>10. Sorted(r)
  <2> SUFFICES ASSUME NEW i \in 1..Len(r), NEW j \in 1..Len(r), i < j
               PROVE  End(r[i]) <= r[j].base
    BY DEF Sorted
  <2>1. CASE i # b + 1 /\ j # b + 1
    <3>1. End(r[i]) < r[j].base /\ End(r[i]) \in Nat /\ r[j].base \in Nat
      BY <2>1, <1>6, <1>9, HoleEnds
    <3> QED
      BY <3>1
  <2>2. CASE i = b + 1
    BY <2>2, <1>3, <1>8
  <2>3. CASE j = b + 1
    BY <2>3, <1>3, <1>7
  <2> QED
    BY <2>1, <2>2, <2>3
<1>11. ASSUME NEW k \in Touching(r) PROVE k = b \/ k = b + 1
  <2>1. k \in 1..Len(r) /\ k + 1 \in 1..Len(r) /\ k < k + 1 /\ End(r[k]) = r[k + 1].base
    BY <1>1, <1>3 DEF Touching
  <2>2. r[k + 1].base \in Nat
    BY <2>1, <1>9, HoleEnds
  <2>3. ~(End(r[k]) < r[k + 1].base)
    BY <2>1, <2>2
  <2> QED
    BY <2>1, <2>3, <1>6, <1>1
<1>12. ASSUME NEW c \in Nat
       PROVE  (\E i \in 1..Len(r) : In(c, r[i])) <=> (\E k \in 1..Len(q) : In(c, q[k])) \/ In(c, h)
  <2>1. ASSUME NEW i \in 1..Len(r), In(c, r[i]), i # b + 1 PROVE \E k \in 1..Len(q) : In(c, q[k])
    <3>1. r[i] = q[At(i)] /\ At(i) \in 1..Len(q)
      BY <1>3, <2>1
    <3> HIDE DEF At
    <3> QED
      BY <3>1, <2>1
  <2>2. ASSUME NEW k \in 1..Len(q), In(c, q[k]) PROVE \E i \in 1..Len(r) : In(c, r[i])
    <3>1. CASE k <= b
      <4>1. k \in 1..Len(r) /\ k # b + 1 /\ At(k) = k
        BY <3>1, <1>1, <1>3
      <4> QED
        BY <4>1, <2>2, <1>3
    <3>2. CASE k > b
      <4>1. k + 1 \in 1..Len(r) /\ k + 1 # b + 1 /\ At(k + 1) = k
        BY <3>2, <1>1, <1>3
      <4> QED
        BY <4>1, <2>2, <1>3
    <3> QED
      BY <3>1, <3>2, <1>1
  <2>3. b + 1 \in 1..Len(r)
    BY <1>1, <1>3
  <2> QED
    BY <2>1, <2>2, <2>3, <1>3
<1>13. Free(r) = Free(q) \cup {c \in Nat : In(c, h)}
  BY <1>12 DEF Free
<1> QED
  BY <1>2, <1>3, <1>10, <1>11, <1>13 DEF r

(* When Absorb is called by merge: the hole and its successor touch.       *)
LEMMA CanAbsorbIf ==
  ASSUME NEW t \in Tables, NEW k \in Nat \ {0}
  PROVE  CanAbsorb(t, k) <=> k \in 1..Len(t.holes) - 1 /\ k \in Touching(t.holes)
<1>1. Len(t.holes) \in Nat
  BY LenProperties DEF Tables
<1> QED
  BY <1>1 DEF CanAbsorb, Adjacent, Touching, End

(* merge, with the only places where holes may touch.                      *)
LEMMA MergeHoles ==
  ASSUME NEW t \in Tables, Sorted(t.holes), NEW b \in Nat,
         \A k \in Touching(t.holes) : k = b \/ k = b + 1
  PROVE  LET u == merge(t, IF b = 0 THEN 1 ELSE b)
         IN /\ u \in Tables /\ Apart(u.holes) /\ Slots(u) = Slots(t)
            /\ Free(u.holes) = Free(t.holes) /\ Len(u.holes) <= Len(t.holes)
<1> DEFINE k == IF b = 0 THEN 1 ELSE b
           first == IF CanAbsorb(t, k) THEN Absorb(t, k) ELSE t
           next == IF CanAbsorb(t, k) THEN k ELSE k + 1
           u == merge(t, k)
<1>1. u = IF CanAbsorb(first, next) THEN Absorb(first, next) ELSE first
  BY DEF merge
<1>2. k \in Nat \ {0} /\ Len(t.holes) \in Nat
  BY LenProperties DEF Tables
<1>3. /\ first \in Tables /\ Sorted(first.holes) /\ Slots(first) = Slots(t)
      /\ Free(first.holes) = Free(t.holes) /\ Len(first.holes) <= Len(t.holes)
      /\ \A i \in Touching(first.holes) : i = next
  <2>1. CASE CanAbsorb(t, k)
    <3>1. k \in 1..Len(t.holes) - 1 /\ k \in Touching(t.holes)
      BY <2>1, <1>2, CanAbsorbIf
    <3>2. first = Absorb(t, k) /\ next = k
      BY <2>1
    <3> HIDE DEF first, k, next
    <3>3. /\ first \in Tables /\ Sorted(first.holes) /\ Slots(first) = Slots(t)
          /\ Free(first.holes) = Free(t.holes) /\ Len(first.holes) = Len(t.holes) - 1
          /\ \A i \in Touching(first.holes) : IF i < k THEN i \in Touching(t.holes)
                                                      ELSE i + 1 \in Touching(t.holes)
      BY <3>1, <3>2, AbsorbHole
    <3>4. ASSUME NEW i \in Touching(first.holes) PROVE i = k
      <4>1. i \in Nat \ {0}
        <5>1. Len(first.holes) \in Nat
          BY <3>3, LenProperties DEF Tables
        <5> QED
          BY <5>1 DEF Touching
      <4> QED
        BY <4>1, <3>3, <1>2 DEF k
    <3> QED
      BY <3>2, <3>3, <3>4, <1>2
  <2>2. CASE ~CanAbsorb(t, k)
    <3>1. k \notin Touching(t.holes)
      BY <2>2, <1>2, CanAbsorbIf DEF Touching
    <3>2. \A i \in Touching(t.holes) : i \in Nat \ {0}
      BY <1>2 DEF Touching
    <3>3. \A i \in Touching(t.holes) : i = k + 1
      BY <3>1, <3>2
    <3> QED
      BY <2>2, <3>3, <1>2
  <2> QED
    BY <2>1, <2>2
<1>4. next \in Nat \ {0}
  BY <1>2
<1> HIDE DEF first, next, u, k
<1>5. CASE CanAbsorb(first, next)
  <2>1. next \in 1..Len(first.holes) - 1 /\ next \in Touching(first.holes)
    BY <1>3, <1>4, <1>5, CanAbsorbIf
  <2>2. u = Absorb(first, next)
    BY <1>1, <1>5
  <2>3. /\ u \in Tables /\ Sorted(u.holes) /\ Slots(u) = Slots(first)
        /\ Free(u.holes) = Free(first.holes) /\ Len(u.holes) = Len(first.holes) - 1
        /\ \A i \in Touching(u.holes) : IF i < next THEN i \in Touching(first.holes)
                                                    ELSE i + 1 \in Touching(first.holes)
    BY <2>1, <2>2, <1>3, AbsorbHole
  <2>4. Touching(u.holes) = {}
    <3> SUFFICES ASSUME NEW i \in Touching(u.holes) PROVE FALSE
      OBVIOUS
    <3>1. Len(u.holes) \in Nat
      BY <2>3, LenProperties DEF Tables
    <3>2. i \in Nat
      BY <3>1 DEF Touching
    <3> QED
      BY <3>2, <2>3, <1>3, <1>4
  <2>5. Apart(u.holes)
    BY <2>3, <2>4, NoneTouch DEF Tables
  <2>6. Len(first.holes) \in Nat
    BY <1>3, LenProperties DEF Tables
  <2> QED
    BY <2>3, <2>5, <2>6, <1>2, <1>3 DEF u, k
<1>6. CASE ~CanAbsorb(first, next)
  <2>1. next \notin Touching(first.holes)
    BY <1>3, <1>4, <1>6, CanAbsorbIf DEF Touching
  <2>2. Touching(first.holes) = {}
    BY <2>1, <1>3
  <2>3. Apart(first.holes)
    BY <2>2, <1>3, NoneTouch DEF Tables
  <2> QED
    BY <2>3, <1>1, <1>3, <1>6 DEF u, k
<1> QED
  BY <1>5, <1>6

(* free_mem gives back clicks that are not free, if a slot is left.        *)
LEMMA FreeMem ==
  ASSUME NEW t \in Tables, Apart(t.holes), NEW base \in Nat, NEW clicks \in Nat,
         Clicks(base, clicks) \cap Free(t.holes) = {},
         clicks # 0 => t.slots > 0
  PROVE  LET u == free_mem(t, base, clicks)
         IN /\ u \in Tables /\ Apart(u.holes) /\ Slots(u) = Slots(t)
            /\ Free(u.holes) = Free(t.holes) \cup Clicks(base, clicks)
            /\ Len(u.holes) <= Len(t.holes) + 1
<1> DEFINE q == t.holes
           b == Cardinality({k \in DOMAIN q : q[k].base < base})
           h == [base |-> base, len |-> clicks]
           r == InsertAt(q, b + 1, h)
           v == [holes |-> r, slots |-> t.slots - 1]
           u == free_mem(t, base, clicks)
<1>1. q \in Seq(Hole) /\ Len(q) \in Nat /\ t.slots \in Int
  BY LenProperties DEF Tables
<1>2. CASE clicks = 0
  <2>1. u = t
    BY <1>2 DEF free_mem
  <2>2. Clicks(base, clicks) = {}
    BY <1>2 DEF Clicks
  <2> QED
    BY <2>1, <2>2, <1>1
<1>3. CASE clicks # 0
  <2>1. u = merge(v, IF b = 0 THEN 1 ELSE b)
    BY <1>1, <1>3 DEF free_mem
  <2>2. h \in Hole /\ h.base = base /\ End(h) = base + clicks
    BY <1>3 DEF Hole, End
  <2>3. \A c \in Nat : In(c, h) <=> c \in Clicks(base, clicks)
    BY <2>2 DEF In, Clicks
  <2>4. Clicks(base, clicks) \subseteq Nat /\ Clicks(base, clicks) = {c \in Nat : In(c, h)}
    BY <2>3 DEF Clicks
  <2>5. Sorted(q)
    <3>1. \A i \in 1..Len(q) : End(q[i]) \in Nat /\ q[i].base \in Nat
      BY <1>1, ElementOfSeq, HoleEnds
    <3> QED
      BY <3>1 DEF Sorted, Apart
  <2>6. b \in 0..Len(q) /\ \A k \in 1..Len(q) : q[k].base < base <=> k <= b
    BY <1>1, <2>5, HolesBelow
  <2> HIDE DEF b, h, q
  <2>7. /\ r \in Seq(Hole) /\ Sorted(r) /\ Len(r) = Len(q) + 1
        /\ \A k \in Touching(r) : k = b \/ k = b + 1
        /\ Free(r) = Free(q) \cup {c \in Nat : In(c, h)}
    <3>1. \A c \in Nat : In(c, h) => c \notin Free(q)
      BY <2>3 DEF q
    <3>2. Apart(q) /\ \A k \in 1..Len(q) : q[k].base < h.base <=> k <= b
      BY <2>2, <2>6 DEF q
    <3> QED
      BY <3>1, <3>2, <1>1, <2>2, <2>6, InsertHole
  <2> HIDE DEF r
  <2>8. v \in Tables /\ v.holes = r /\ v.slots = t.slots - 1
    BY <2>7, <1>1 DEF Tables
  <2> HIDE DEF v, u
  <2>9. b \in Nat /\ \A k \in Touching(v.holes) : k = b \/ k = b + 1
    BY <2>6, <2>7, <2>8, <1>1
  <2>10. /\ u \in Tables /\ Apart(u.holes) /\ Slots(u) = Slots(v)
         /\ Free(u.holes) = Free(v.holes) /\ Len(u.holes) <= Len(v.holes)
    BY <2>1, <2>7, <2>8, <2>9, MergeHoles
  <2>11. Slots(v) = Slots(t) /\ Len(v.holes) = Len(t.holes) + 1
    BY <2>7, <2>8, <1>1 DEF Slots, q
  <2> QED
    BY <2>4, <2>7, <2>8, <2>10, <2>11 DEF u, q
<1> QED
  BY <1>2, <1>3

(* Clicks from the start of a hole.                                        *)
LEMMA BiteHole ==
  ASSUME NEW t \in Tables, Apart(t.holes), NEW k \in 1..Len(t.holes),
         NEW clicks \in Nat \ {0}, clicks <= t.holes[k].len
  PROVE  LET u == Bite(t, k - 1, k, clicks)
             bite == Clicks(t.holes[k].base, clicks)
         IN /\ u \in Tables /\ Apart(u.holes) /\ Slots(u) = Slots(t)
            /\ bite \subseteq Free(t.holes)
            /\ Free(u.holes) = Free(t.holes) \ bite
            /\ Len(u.holes) <= Len(t.holes)
<1> DEFINE q == t.holes
           h == [base |-> q[k].base + clicks, len |-> q[k].len - clicks]
           w == [q EXCEPT ![k] = h]
           v == [t EXCEPT !.holes = w]
           u == Bite(t, k - 1, k, clicks)
           bite == Clicks(q[k].base, clicks)
<1>1. q \in Seq(Hole) /\ Len(q) \in Nat /\ t.slots \in Int /\ q \in [1..Len(q) -> Hole]
  BY LenProperties DEF Tables
<1>2. /\ q[k] \in Hole /\ q[k].base \in Nat /\ q[k].len \in Nat /\ End(q[k]) \in Nat
      /\ q[k].base < End(q[k]) /\ End(q[k]) = q[k].base + q[k].len
      /\ \A i \in 1..Len(q) : q[i] \in Hole
  BY <1>1, HoleEnds
<1>3. bite \subseteq Nat /\ \A c \in Nat : c \in bite <=> q[k].base <= c /\ c < q[k].base + clicks
  BY <1>2, SMTT(30) DEF Clicks
<1>4. Sorted(q)
  <2>1. \A i \in 1..Len(q) : End(q[i]) \in Nat /\ q[i].base \in Nat
    BY <1>2, HoleEnds
  <2> QED
    BY <2>1 DEF Sorted, Apart
<1> HIDE DEF bite
<1>5. \A c \in bite : In(c, q[k])
  BY <1>2, <1>3, SMTT(30) DEF In
<1>6. bite \subseteq Free(q)
  BY <1>3, <1>5 DEF Free
<1>7. /\ w \in Seq([base : Nat, len : Nat]) /\ Len(w) = Len(q)
      /\ \A i \in 1..Len(q) : w[i] = IF i = k THEN h ELSE q[i]
      /\ v.holes = w /\ v.slots = t.slots
  <2>1. h \in [base : Nat, len : Nat]
    BY <1>2, SMTT(30)
  <2>2. \A i \in 1..Len(q) : q[i] \in [base : Nat, len : Nat]
    BY <1>2 DEF Hole
  <2>3. w \in [1..Len(q) -> [base : Nat, len : Nat]]
    BY <1>1, <2>1, <2>2
  <2>4. v.holes = w /\ v.slots = t.slots
    BY DEF Tables
  <2>5. \A i \in 1..Len(q) : w[i] = IF i = k THEN h ELSE q[i]
    BY <1>1
  <2> HIDE DEF w, h, v
  <2> DEFINE T == [base : Nat, len : Nat]
             n == Len(q)
  <2>6. w \in [1..n -> T] /\ n \in Nat
    BY <1>1, <2>3
  <2> HIDE DEF T, n
  <2>7. w \in Seq(T) /\ DOMAIN w = 1..n
    BY <2>6, IsASeq
  <2>8. Len(w) = n
    BY <2>6, <2>7, LenProperties
  <2> QED
    BY <2>4, <2>5, <2>7, <2>8 DEF T, n
<1>8. u = IF v.holes[k].len = 0 THEN del_slot(v, k - 1, k) ELSE v
  BY DEF Bite, Tables
<1>9. h.base = q[k].base + clicks /\ h.len = q[k].len - clicks
  OBVIOUS
<1> HIDE DEF w, v, u
<1>10. CASE q[k].len = clicks
  <2>1. u = del_slot(v, k - 1, k) /\ k \in 1..Len(v.holes)
    BY <1>2, <1>7, <1>8, <1>9, <1>10
  <2>2. /\ u.holes \in Seq([base : Nat, len : Nat]) /\ Removed(u.holes, w, k)
        /\ u.slots = t.slots + 1
    BY <2>1, <1>7, DelSlot
  <2>3. u = [holes |-> u.holes, slots |-> u.slots]
    BY <2>1 DEF del_slot
  <2> HIDE DEF q, h
  <2>4. Removed(u.holes, q, k)
    <3>1. Len(u.holes) = Len(q) - 1
      BY <2>2, <1>7 DEF Removed
    <3>2. ASSUME NEW i \in 1..Len(q) - 1
          PROVE  u.holes[i] = IF i < k THEN q[i] ELSE q[i + 1]
      <4>1. u.holes[i] = IF i < k THEN w[i] ELSE w[i + 1]
        BY <2>2, <1>7 DEF Removed
      <4>2. /\ i \in 1..Len(q) /\ i + 1 \in 1..Len(q)
            /\ i < k => i # k
            /\ ~(i < k) => i + 1 # k
        BY <1>1, <2>1, <1>7
      <4> QED
        BY <4>1, <4>2, <1>7
    <3> QED
      BY <3>1, <3>2 DEF Removed
  <2>5. u.holes \in Seq(Hole)
    <3>1. \A i \in 1..Len(u.holes) : u.holes[i] \in Hole
      <4>1. ASSUME NEW i \in 1..Len(q) - 1 PROVE u.holes[i] \in Hole
        <5>1. i \in 1..Len(q) /\ i + 1 \in 1..Len(q)
          BY <1>1
        <5> QED
          BY <5>1, <2>4, <1>2 DEF Removed
      <4> QED
        BY <4>1, <2>4 DEF Removed
    <3> QED
      BY <3>1, <2>2, SeqOfElements
  <2>6. u \in Tables
    BY <2>2, <2>3, <2>5, <1>1, SMTT(30) DEF Tables
  <2>7. /\ Apart(u.holes) /\ Free(u.holes) = Free(q) \ {c \in Nat : In(c, q[k])}
        /\ Len(u.holes) = Len(q) - 1
    <3>1. Apart(q) /\ k \in 1..Len(q)
      BY DEF q
    <3> QED
      BY <3>1, <2>4, <2>5, <1>1, <1>4, RemoveHole
  <2>8. {c \in Nat : In(c, q[k])} = bite
    BY <1>2, <1>3, <1>10 DEF In
  <2>9. Slots(u) = Slots(t)
    BY <2>2, <2>7, <1>1 DEF Slots, q
  <2> QED
    BY <2>6, <2>7, <2>8, <2>9, <1>1, <1>6 DEF q, u, bite
<1>11. CASE q[k].len # clicks
  <2>1. u = v /\ h \in Hole
    <3>1. h.len # 0
      BY <1>2, <1>9, <1>11
    <3>2. h \in Hole
      BY <1>2, <1>11 DEF Hole
    <3> QED
      BY <3>1, <3>2, <1>7, <1>8
  <2>2. u \in Tables /\ u.holes = w
    <3>1. \A i \in 1..Len(w) : w[i] \in Hole
      BY <2>1, <1>2, <1>7
    <3>2. w \in Seq(Hole)
      BY <3>1, <1>7, SeqOfElements
    <3>3. v = [t EXCEPT !.holes = w]
      BY DEF v
    <3> QED
      BY <2>1, <3>2, <3>3, <1>7 DEF Tables
  <2>3. Slots(u) = Slots(t)
    BY <2>1, <1>7 DEF Slots
  <2>4. /\ h.base = q[k].base + clicks /\ End(h) = End(q[k])
        /\ h.base \in Nat /\ h.base > q[k].base
    BY <1>2, <1>9 DEF End
  <2> HIDE DEF h
  <2>5. Apart(w)
    <3> SUFFICES ASSUME NEW i \in 1..Len(w), NEW j \in 1..Len(w), i < j
                 PROVE  End(w[i]) < w[j].base
      BY DEF Apart
    <3>0. i \in 1..Len(q) /\ j \in 1..Len(q)
      BY <1>7
    <3>1. i \in 1..Len(q) /\ j \in 1..Len(q) /\ End(q[i]) < q[j].base
      BY <3>0 DEF Apart
    <3>2. w[i] = (IF i = k THEN h ELSE q[i]) /\ w[j] = (IF j = k THEN h ELSE q[j])
      BY <3>0, <1>7
    <3>3. End(w[i]) = End(q[i]) /\ (w[j].base = q[j].base \/ (j = k /\ w[j].base = h.base))
      BY <3>2, <2>4
    <3>4. End(q[i]) \in Nat /\ q[j].base \in Nat
      BY <3>0, <1>2, HoleEnds
    <3> QED
      BY <3>1, <3>3, <3>4, <2>4
  <2>6. ASSUME NEW c \in Nat
        PROVE  c \in Free(w) <=> c \in Free(q) /\ c \notin bite
    <3>1. In(c, h) <=> In(c, q[k]) /\ c \notin bite
      BY <2>4, <1>2, <1>3 DEF In
    <3>2. ASSUME NEW i \in 1..Len(q), i # k, In(c, q[i]) PROVE ~In(c, q[k])
      <4>1. /\ q[i].base \in Nat /\ End(q[i]) \in Nat /\ (i < k \/ k < i)
        BY <3>2, <1>2, HoleEnds
      <4>2. End(q[i]) < q[k].base \/ End(q[k]) < q[i].base
        BY <4>1 DEF Apart
      <4> QED
        BY <4>1, <4>2, <3>2, <1>2, HoleEnds, SMTT(30) DEF In
    <3>3. ASSUME NEW i \in 1..Len(q), In(c, w[i]) PROVE c \in Free(q) /\ c \notin bite
      <4>1. CASE i = k
        BY <4>1, <3>1, <3>3, <1>7 DEF Free
      <4>2. CASE i # k
        <5>1. In(c, q[i])
          BY <4>2, <3>3, <1>7
        <5> QED
          BY <5>1, <4>2, <3>2, <1>5 DEF Free
      <4> QED
        BY <4>1, <4>2
    <3>4. ASSUME NEW i \in 1..Len(q), In(c, q[i]), c \notin bite PROVE In(c, w[i])
      BY <3>1, <3>4, <1>7
    <3> QED
      BY <3>3, <3>4, <1>7 DEF Free
  <2>7. Free(w) = Free(q) \ bite
    BY <2>6 DEF Free
  <2> HIDE DEF q
  <2> QED
    BY <2>2, <2>3, <2>5, <2>7, <1>1, <1>6, <1>7 DEF q, u, bite
<1> QED
  BY <1>10, <1>11

-----------------------------------------------------------------------------
(* The invariant.  Its parts take the values of the variables as           *)
(* parameters, so that the lemmas about them are about any state.          *)

KnownChunks == IF job.step = "init" THEN job.at - 1 ELSE Len(Chunks)

ChunkEnd(i) == Chunks[i].base + Chunks[i].len

(* The clicks of the first chunks and of the swap area.                    *)
Clicked(known, base, len) ==
  {c \in Nat : \/ \E i \in 1..known : c \in Clicks(Chunks[i].base, Chunks[i].len)
               \/ c \in Clicks(base, len)}

Seg(pr, p) == Clicks(pr[p].base, pr[p].size)

(* Each click of the pool is free or has one owner.                        *)
Shares(free, pr, pool) ==
  /\ pool = free \cup {c \in Nat : \E p \in Procs : c \in Seg(pr, p)}
  /\ \A p \in Procs : Seg(pr, p) \cap free = {}
  /\ \A p, q \in Procs : p # q => Seg(pr, p) \cap Seg(pr, q) = {}

ListRight(t) == t \in Tables /\ Apart(t.holes) /\ Slots(t) = NrHoles

Proc == [inuse : BOOLEAN, waiting : BOOLEAN, reply : BOOLEAN, onswap : BOOLEAN,
         swapin : BOOLEAN, base : Nat, size : Sizes \cup {0}]

ProcTypes == [Procs -> Proc]

(* What the flags say of a process, and of where it is.                    *)
ProcRight(r, base) ==
  /\ IF r.inuse THEN r.size \in Sizes /\ (r.onswap <=> r.base >= base) ELSE r = NoProc
  /\ r.onswap => r.waiting \/ (r.reply /\ r.swapin)
  /\ r.swapin => r.onswap

ProcsRight(pr, base) == pr \in ProcTypes /\ \A p \in Procs : ProcRight(pr[p], base)

(* Everybody on the queue wants to come back or is gone; before index from *)
(* nobody is gone.                                                         *)
QueueGood(q, pr, from) ==
  /\ q \in Seq(Procs)
  /\ \A i, j \in 1..Len(q) : q[i] = q[j] => i = j
  /\ \A p \in Procs : pr[p].swapin => \E i \in 1..Len(q) : q[i] = p
  /\ \A i \in 1..Len(q) : pr[q[i]].swapin \/ ~pr[q[i]].inuse
  /\ \A i \in 1..Len(q) : i < from => pr[q[i]].swapin

(* The queue is walked, or left for a moment to look at who has come back. *)
Walks == job.step \in {"swap_in", "check_pending"}

(* The first index swap_in() has not looked at.                            *)
Unseen == IF Walks THEN job.at ELSE Len(in_queue) + 1

AreaRight ==
  /\ swap_base \in Nat /\ swap_len \in Nat /\ swap_base + swap_len <= MaxClick
  /\ wf_mode \in BOOLEAN /\ swapping \in BOOLEAN
  /\ ~swapping => swap_len = 0
  /\ wf_mode => ~swapping

(* Before MM takes the first call there are no processes.                  *)
StartRight ==
  IF job.step = "init"
  THEN /\ job.at \in 1..Len(Chunks) + 1
       /\ swap_base < MaxClick /\ \A i \in 1..job.at - 1 : ChunkEnd(i) <= swap_base
       /\ ~swapping /\ ~wf_mode
       /\ proc = [p \in Procs |-> NoProc] /\ in_queue = <<>>
  ELSE \A i \in 1..Len(Chunks) : ChunkEnd(i) < swap_base

JobTypes ==
  {Idle, [step |-> "lost"]}
    \cup [step : {"init", "queue_all", "swap_off"}, at : Nat \ {0}]
    \cup [step : {"alloc"}, for : Procs, size : Sizes]
    \cup [step : {"swap_in"}, at : Nat \ {0}, then : {"idle", "swap_off"}]
    \cup [step : {"check_pending"}, at : Nat \ {0}, then : {"idle", "swap_off"}, for : Procs]

(* Who gets memory is in memory and awake, who has come back in memory;    *)
(* while the swap area is removed nobody is on it, and the loop has not    *)
(* passed its hole.                                                        *)
JobRight ==
  /\ job \in JobTypes /\ outswap \in Procs
  /\ job.step = "alloc" =>
       /\ ~proc[job.for].waiting /\ ~proc[job.for].reply /\ ~proc[job.for].onswap
  /\ job.step = "check_pending" => ~proc[job.for].onswap
  /\ job.step = "swap_off" =>
       /\ OnSwap = {}
       /\ swap_len > 0 => \A k \in 1..Len(holes) : k < job.at => holes[k].base < swap_base

IInv == /\ ListRight(Table)
        /\ Shares(Free(holes), proc, Clicked(KnownChunks, swap_base, swap_len))
        /\ ProcsRight(proc, swap_base)
        /\ QueueGood(in_queue, proc, Unseen)
        /\ AreaRight /\ StartRight /\ JobRight

-----------------------------------------------------------------------------
(* There is room in the table: the click behind a hole is the first of a   *)
(* process, or the end of a chunk or of the swap area.                     *)
LEMMA ChunkTypes ==
  ASSUME NEW i \in 1..Len(Chunks)
  PROVE  /\ Chunks[i].base \in Nat /\ Chunks[i].len \in Nat /\ Chunks[i].len > 0
         /\ ChunkEnd(i) \in Nat /\ ChunkEnd(i) < MaxClick /\ Len(Chunks) \in Nat
<1>1. Chunks \in Seq([base : Nat, len : Nat \ {0}]) /\ Len(Chunks) \in Nat /\ i \in DOMAIN Chunks
  BY AllocatorAssumption, LenProperties
<1>2. Chunks[i] \in [base : Nat, len : Nat \ {0}]
  BY <1>1, ElementOfSeq
<1> QED
  BY <1>1, <1>2, AllocatorAssumption DEF ChunkEnd

(* Where a process is and how much it has are numbers.                     *)
LEMMA ProcSizes ==
  ASSUME NEW pr \in ProcTypes, NEW p \in Procs
  PROVE  pr[p].base \in Nat /\ pr[p].size \in Nat
<1>1. Sizes \cup {0} \subseteq Nat
  BY AllocatorAssumption
<1> QED
  BY <1>1 DEF ProcTypes, Proc

(* Behind each hole there is a click that is not free: the first of a      *)
(* process, or one behind a chunk or the swap area.                        *)
LEMMA HolesEnd ==
  ASSUME NEW hs \in Seq(Hole), Apart(hs), NEW pr \in ProcTypes, NEW known \in 0..Len(Chunks),
         NEW base \in Nat, NEW len \in Nat, Shares(Free(hs), pr, Clicked(known, base, len)),
         NEW k \in 1..Len(hs)
  PROVE  \/ \E p \in Procs : End(hs[k]) = pr[p].base
         \/ \E i \in 1..Len(Chunks) : End(hs[k]) = ChunkEnd(i)
         \/ End(hs[k]) = base + len
<1> DEFINE e == End(hs[k])
<1>1. /\ hs[k].base \in Nat /\ e \in Nat /\ e - 1 \in Nat
      /\ hs[k].base <= e - 1 /\ e - 1 < e /\ hs[k].base < e
  BY ElementOfSeq, HoleEnds
<1>2. e - 1 \in Free(hs)
  BY <1>1 DEF Free, In
<1>3. e \notin Free(hs)
  <2>0. SUFFICES ASSUME NEW j \in 1..Len(hs), In(e, hs[j]) PROVE FALSE
    BY DEF Free
  <2>1. j # k
    BY <2>0, <1>1 DEF In
  <2>2. hs[j] \in Hole /\ hs[j].base \in Nat /\ End(hs[j]) \in Nat /\ j \in Nat /\ k \in Nat
    BY ElementOfSeq, HoleEnds
  <2>3. CASE j < k
    <3>1. End(hs[j]) < hs[k].base
      BY <2>3 DEF Apart
    <3> QED
      BY <3>1, <2>0, <2>2, <1>1 DEF In
  <2>4. CASE k < j
    <3>1. e < hs[j].base
      BY <2>4 DEF Apart
    <3> QED
      BY <3>1, <2>0, <2>2, <1>1 DEF In
  <2> QED
    BY <2>1, <2>2, <2>3, <2>4
<1>4. e - 1 \in Clicked(known, base, len)
  BY <1>2 DEF Shares
<1> HIDE DEF e
<1>5. CASE e \in Clicked(known, base, len)
  <2>1. PICK p \in Procs : e \in Seg(pr, p)
    BY <1>3, <1>5 DEF Shares
  <2>2. e - 1 \notin Seg(pr, p)
    BY <1>2 DEF Shares
  <2>3. pr[p].base \in Nat /\ pr[p].size \in Nat
    BY ProcSizes
  <2>4. e = pr[p].base
    BY <1>1, <2>1, <2>2, <2>3, SMTT(30) DEF Seg, Clicks
  <2> QED
    BY <2>4 DEF e
<1>6. CASE e \notin Clicked(known, base, len)
  <2>1. CASE \E i \in 1..known : e - 1 \in Clicks(Chunks[i].base, Chunks[i].len)
    <3>1. PICK i \in 1..known : e - 1 \in Clicks(Chunks[i].base, Chunks[i].len)
      BY <2>1
    <3>2. i \in 1..Len(Chunks) /\ Chunks[i].base \in Nat /\ Chunks[i].len \in Nat
      <4>1. Len(Chunks) \in Nat /\ i \in 1..Len(Chunks)
        BY AllocatorAssumption, LenProperties
      <4> QED
        BY <4>1, ChunkTypes
    <3>3. e \notin Clicks(Chunks[i].base, Chunks[i].len)
      BY <1>1, <1>6 DEF Clicked
    <3>4. e = ChunkEnd(i)
      BY <1>1, <3>1, <3>2, <3>3, SMTT(30) DEF Clicks, ChunkEnd
    <3> QED
      BY <3>2, <3>4 DEF e
  <2>2. CASE e - 1 \in Clicks(base, len)
    <3>1. e \notin Clicks(base, len)
      BY <1>1, <1>6 DEF Clicked
    <3>2. e = base + len
      BY <1>1, <2>2, <3>1 DEF Clicks
    <3> QED
      BY <3>2 DEF e
  <2> QED
    BY <1>4, <2>1, <2>2 DEF Clicked
<1> QED
  BY <1>5, <1>6

(* So a slot is left.                                                      *)
LEMMA Room ==
  ASSUME NEW t, ListRight(t), NEW pr \in ProcTypes, NEW known \in 0..Len(Chunks),
         NEW base \in Nat, NEW len \in Nat, Shares(Free(t.holes), pr, Clicked(known, base, len))
  PROVE  t.slots \in Nat /\ t.slots > 0 /\ Len(t.holes) \in Nat
<1> DEFINE hs == t.holes
           n == Len(hs)
           I == 1..(NrProcs + Len(Chunks) + 1)
           EndsAt(m, e) == \/ m \in Procs /\ e = pr[m].base
                           \/ m - NrProcs \in 1..Len(Chunks) /\ e = ChunkEnd(m - NrProcs)
                           \/ m = NrProcs + Len(Chunks) + 1 /\ e = base + len
<1>1. /\ hs \in Seq(Hole) /\ n \in Nat /\ t.slots \in Int /\ Apart(hs)
      /\ t.slots + n = NrHoles
  BY LenProperties DEF ListRight, Tables, Slots
<1>2. NrProcs \in Nat /\ Len(Chunks) \in Nat /\ NrHoles \in Nat /\ NrHoles >= NrProcs + Len(Chunks) + 2
  BY AllocatorAssumption, LenProperties
<1>3. ASSUME NEW k \in 1..n PROVE \E m \in I : EndsAt(m, End(hs[k]))
  <2>1. \/ \E p \in Procs : End(hs[k]) = pr[p].base
        \/ \E i \in 1..Len(Chunks) : End(hs[k]) = ChunkEnd(i)
        \/ End(hs[k]) = base + len
    BY <1>1, HolesEnd
  <2>2. CASE \E p \in Procs : End(hs[k]) = pr[p].base
    <3>1. \A p \in Procs : p \in I
      BY <1>2 DEF Procs
    <3> QED
      BY <2>2, <3>1
  <2>3. CASE \E i \in 1..Len(Chunks) : End(hs[k]) = ChunkEnd(i)
    <3>1. PICK i \in 1..Len(Chunks) : End(hs[k]) = ChunkEnd(i)
      BY <2>3
    <3>2. NrProcs + i \in I /\ (NrProcs + i) - NrProcs = i
      BY <1>2
    <3> QED
      BY <3>1, <3>2
  <2>4. CASE End(hs[k]) = base + len
    <3>1. NrProcs + Len(Chunks) + 1 \in I
      BY <1>2
    <3> QED
      BY <2>4, <3>1
  <2> QED
    BY <2>1, <2>2, <2>3, <2>4
<1>4. ASSUME NEW m \in I, NEW d, NEW e, EndsAt(m, d), EndsAt(m, e) PROVE d = e
  <2>1. m \in Procs => m <= NrProcs
    BY <1>2 DEF Procs
  <2>2. m - NrProcs \in 1..Len(Chunks) => m > NrProcs /\ m < NrProcs + Len(Chunks) + 1
    BY <1>2
  <2> QED
    BY <1>2, <1>4, <2>1, <2>2
<1>5. ASSUME NEW j \in 1..n, NEW k \in 1..n, j # k PROVE End(hs[j]) # End(hs[k])
  <2>1. /\ hs[j].base \in Nat /\ End(hs[j]) \in Nat /\ hs[j].base < End(hs[j])
        /\ hs[k].base \in Nat /\ End(hs[k]) \in Nat /\ hs[k].base < End(hs[k])
    BY <1>1, ElementOfSeq, HoleEnds
  <2>2. j < k \/ k < j
    BY <1>1, <1>5
  <2>3. End(hs[j]) < hs[k].base \/ End(hs[k]) < hs[j].base
    BY <1>1, <2>2 DEF Apart
  <2> QED
    BY <2>1, <2>3
<1> DEFINE f == [k \in 1..n |-> CHOOSE m \in I : EndsAt(m, End(hs[k]))]
<1> HIDE DEF EndsAt, I, n
<1>6. ASSUME NEW k \in 1..n PROVE f[k] \in I /\ EndsAt(f[k], End(hs[k]))
  BY <1>3
<1>7. f \in [1..n -> I]
  BY <1>6
<1> HIDE DEF f
<1>8. \A j, k \in 1..n : f[j] = f[k] => j = k
  BY <1>4, <1>5, <1>6
<1>9. f \in Injection(1..n, I)
  BY <1>7, <1>8 DEF Injection, IsInjective
<1>10. Cardinality(1..n) = n
  BY <1>1, FS_Interval
<1>11. IsFiniteSet(I) /\ Cardinality(I) = NrProcs + Len(Chunks) + 1
  <2>1. NrProcs + Len(Chunks) + 1 \in Int /\ 1 \in Int /\ 1 <= NrProcs + Len(Chunks) + 1
    BY <1>2
  <2> QED
    BY <2>1, FS_Interval DEF I
<1>12. n <= NrProcs + Len(Chunks) + 1
  BY <1>9, <1>10, <1>11, FS_Injection
<1> QED
  BY <1>1, <1>2, <1>12 DEF n

-----------------------------------------------------------------------------
(* What the steps of MM do to the holes and to the processes.              *)

(* p gets the clicks in new, which were free, and its old memory is free.  *)
LEMMA Exchange ==
  ASSUME NEW free, NEW pool, NEW pr \in ProcTypes, NEW pr2 \in ProcTypes, NEW p \in Procs,
         Shares(free, pr, pool), NEW new \in SUBSET free, Seg(pr2, p) = new,
         \A q \in Procs : q # p => Seg(pr2, q) = Seg(pr, q)
  PROVE  Shares((free \ new) \cup Seg(pr, p), pr2, pool)
<1>1. \A q \in Procs : Seg(pr, q) \subseteq Nat
  BY ProcSizes DEF Seg, Clicks
<1> DEFINE free2 == (free \ new) \cup Seg(pr, p)
<1>2. ASSUME NEW c PROVE c \in pool <=> c \in free2 \/ (c \in Nat /\ \E q \in Procs : c \in Seg(pr2, q))
  <2>0. free \subseteq pool /\ \A q \in Procs : Seg(pr, q) \subseteq pool
    BY <1>1 DEF Shares
  <2>1. ASSUME c \in pool PROVE c \in free2 \/ (c \in Nat /\ \E q \in Procs : c \in Seg(pr2, q))
    <3>1. CASE c \in Seg(pr, p)
      BY <3>1
    <3>2. CASE c \in new
      <4>1. c \in Seg(pr2, p)
        BY <3>2
      <4>2. pr2[p].base \in Nat /\ pr2[p].size \in Nat
        BY ProcSizes
      <4>3. c \in Nat
        BY <4>1, <4>2 DEF Seg, Clicks
      <4> QED
        BY <4>1, <4>3
    <3>3. CASE c \in free /\ c \notin new
      BY <3>3
    <3>4. CASE \E q \in Procs : q # p /\ c \in Seg(pr, q)
      <4>1. PICK q \in Procs : q # p /\ c \in Seg(pr, q)
        BY <3>4
      <4>2. c \in Seg(pr2, q) /\ c \in Nat
        BY <4>1, <1>1
      <4> QED
        BY <4>2
    <3> QED
      BY <2>1, <3>1, <3>2, <3>3, <3>4 DEF Shares
  <2>2. ASSUME c \in free2 PROVE c \in pool
    BY <2>0, <2>2
  <2>3. ASSUME NEW q \in Procs, c \in Seg(pr2, q) PROVE c \in pool
    BY <2>0, <2>3
  <2> QED
    BY <2>1, <2>2, <2>3
<1>3. ASSUME NEW q \in Procs PROVE Seg(pr2, q) \cap free2 = {}
  <2>1. CASE q = p
    <3>1. Seg(pr2, q) = new /\ new \cap Seg(pr, p) = {}
      BY <2>1 DEF Shares
    <3> QED
      BY <3>1
  <2>2. CASE q # p
    <3>1. Seg(pr2, q) = Seg(pr, q) /\ Seg(pr, q) \cap free = {} /\ Seg(pr, q) \cap Seg(pr, p) = {}
      BY <2>2 DEF Shares
    <3> QED
      BY <3>1
  <2> QED
    BY <2>1, <2>2
<1>4. ASSUME NEW q \in Procs, NEW r \in Procs, q # r PROVE Seg(pr2, q) \cap Seg(pr2, r) = {}
  <2>1. Seg(pr, q) \cap free = {} /\ Seg(pr, r) \cap free = {} /\ Seg(pr, q) \cap Seg(pr, r) = {}
    BY <1>4 DEF Shares
  <2>2. CASE q = p
    BY <2>1, <2>2, <1>4
  <2>3. CASE r = p
    BY <2>1, <2>3, <1>4
  <2>4. CASE q # p /\ r # p
    BY <2>1, <2>4
  <2> QED
    BY <2>2, <2>3, <2>4
<1> HIDE DEF free2
<1>5. pool = free2 \cup {c \in Nat : \E q \in Procs : c \in Seg(pr2, q)}
  BY <1>2
<1>6. Shares(free2, pr2, pool)
  BY <1>3, <1>4, <1>5 DEF Shares
<1> QED
  BY <1>6 DEF free2

(* Nobody's memory changes.                                                *)
LEMMA StayPut ==
  ASSUME NEW free, NEW pool, NEW pr, NEW pr2, Shares(free, pr, pool),
         \A q \in Procs : pr2[q].base = pr[q].base /\ pr2[q].size = pr[q].size
  PROVE  Shares(free, pr2, pool)
<1>1. \A q \in Procs : Seg(pr2, q) = Seg(pr, q)
  BY DEF Seg
<1> QED
  BY <1>1 DEF Shares

(* There is more to share, or less of what is free.                        *)
LEMMA MoreToShare ==
  ASSUME NEW free, NEW pool, NEW pr \in ProcTypes, Shares(free, pr, pool), NEW more
  PROVE  /\ more \cap pool = {} => Shares(free \cup more, pr, pool \cup more)
         /\ more \subseteq free => Shares(free \ more, pr, pool \ more)
<1> DEFINE owned == {c \in Nat : \E p \in Procs : c \in Seg(pr, p)}
<1>1. pool = free \cup owned /\ \A p \in Procs : Seg(pr, p) \cap free = {}
  BY DEF Shares
<1>2. ASSUME more \cap pool = {} PROVE Shares(free \cup more, pr, pool \cup more)
  <2>1. ASSUME NEW p \in Procs PROVE Seg(pr, p) \cap (free \cup more) = {}
    <3>1. Seg(pr, p) \cap more = {}
      <4> SUFFICES ASSUME NEW c \in Seg(pr, p), c \in more PROVE FALSE
        OBVIOUS
      <4>1. c \in Nat => c \in owned
        OBVIOUS
      <4>2. c \in Nat
        BY ProcSizes DEF Seg, Clicks
      <4> QED
        BY <4>1, <4>2, <1>1, <1>2
    <3> QED
      BY <3>1, <1>1
  <2> QED
    BY <2>1, <1>1 DEF Shares
<1>3. ASSUME more \subseteq free PROVE Shares(free \ more, pr, pool \ more)
  <2>1. owned \cap free = {}
    BY <1>1
  <2>2. pool \ more = (free \ more) \cup owned
    BY <2>1, <1>1, <1>3
  <2> QED
    BY <2>2, <1>1 DEF Shares
<1> QED
  BY <1>2, <1>3

(* All is right with the memory, and there is room to free some.           *)
MemoryRight(t, pr, pool) ==
  /\ ListRight(t) /\ pr \in ProcTypes /\ Shares(Free(t.holes), pr, pool)
  /\ \E known \in 0..Len(Chunks), base, len \in Nat : pool = Clicked(known, base, len)

(* There is a slot for free_mem to use.                                    *)
LEMMA RoomLeft ==
  ASSUME NEW t, NEW pr, NEW pool, MemoryRight(t, pr, pool)
  PROVE  t.slots \in Nat /\ t.slots > 0 /\ Len(t.holes) \in Nat
<1>1. PICK known \in 0..Len(Chunks), base \in Nat, len \in Nat : pool = Clicked(known, base, len)
  BY DEF MemoryRight
<1>2. ListRight(t) /\ pr \in ProcTypes /\ Shares(Free(t.holes), pr, Clicked(known, base, len))
  BY <1>1 DEF MemoryRight
<1> QED
  BY <1>2, Room

(* free_mem gives back what p has.                                         *)
LEMMA GiveBack ==
  ASSUME NEW t, NEW pr, NEW pool, MemoryRight(t, pr, pool),
         NEW p \in Procs
  PROVE  LET u == free_mem(t, pr[p].base, pr[p].size)
         IN ListRight(u) /\ Free(u.holes) = Free(t.holes) \cup Seg(pr, p)
<1> DEFINE u == free_mem(t, pr[p].base, pr[p].size)
<1>1. pr[p].base \in Nat /\ pr[p].size \in Nat
  BY ProcSizes DEF MemoryRight
<1>2. Clicks(pr[p].base, pr[p].size) \cap Free(t.holes) = {}
  BY DEF MemoryRight, Shares, Seg
<1>3. t \in Tables /\ Apart(t.holes) /\ t.slots > 0
  BY RoomLeft DEF MemoryRight, ListRight
<1> HIDE DEF u
<1>4. /\ u \in Tables /\ Apart(u.holes) /\ Slots(u) = Slots(t)
      /\ Free(u.holes) = Free(t.holes) \cup Clicks(pr[p].base, pr[p].size)
  BY <1>1, <1>2, <1>3, FreeMem DEF u
<1> QED
  BY <1>4 DEF u, ListRight, Seg, MemoryRight

(* The clicks in new are taken, those in old given back.                   *)
Exchanged(free, free2, new, old) == new \subseteq free /\ free2 = (free \ new) \cup old

(* p has clicks of hole k instead of what it had.                          *)
LEMMA TakeAndGiveBack ==
  ASSUME NEW t, NEW pr, NEW pool, MemoryRight(t, pr, pool),
         NEW p \in Procs, NEW k \in 1..Len(t.holes),
         NEW clicks \in Nat \ {0}, clicks <= t.holes[k].len
  PROVE  LET u == free_mem(Bite(t, k - 1, k, clicks), pr[p].base, pr[p].size)
         IN /\ ListRight(u)
            /\ Exchanged(Free(t.holes), Free(u.holes), Clicks(t.holes[k].base, clicks), Seg(pr, p))
<1> DEFINE v == Bite(t, k - 1, k, clicks)
           u == free_mem(v, pr[p].base, pr[p].size)
           new == Clicks(t.holes[k].base, clicks)
<1>1. pr[p].base \in Nat /\ pr[p].size \in Nat
  BY ProcSizes DEF MemoryRight
<1>2. Clicks(pr[p].base, pr[p].size) \cap Free(t.holes) = {}
  BY DEF MemoryRight, Shares, Seg
<1>3. t \in Tables /\ Apart(t.holes) /\ t.slots > 0 /\ Len(t.holes) \in Nat /\ t.slots \in Nat
  BY RoomLeft DEF MemoryRight, ListRight
<1> HIDE DEF u, v, new
<1>4. /\ v \in Tables /\ Apart(v.holes) /\ Slots(v) = Slots(t) /\ new \subseteq Free(t.holes)
      /\ Free(v.holes) = Free(t.holes) \ new /\ Len(v.holes) <= Len(t.holes)
  BY <1>3, BiteHole DEF v, new
<1>5. v.slots > 0
  <2>1. v.slots \in Int /\ Len(v.holes) \in Nat
    BY <1>4, LenProperties DEF Tables
  <2> QED
    BY <2>1, <1>3, <1>4 DEF Slots
<1>6. Clicks(pr[p].base, pr[p].size) \cap Free(v.holes) = {}
  BY <1>2, <1>4
<1>7. /\ u \in Tables /\ Apart(u.holes) /\ Slots(u) = Slots(v)
      /\ Free(u.holes) = Free(v.holes) \cup Clicks(pr[p].base, pr[p].size)
  BY <1>1, <1>4, <1>5, <1>6, FreeMem DEF u
<1> QED
  BY <1>4, <1>7 DEF u, v, new, ListRight, Seg, MemoryRight, Exchanged

(* MM gets clicks it did not have.                                         *)
LEMMA GrowPool ==
  ASSUME NEW t, NEW pr, NEW pool, MemoryRight(t, pr, pool),
         NEW from \in Nat, NEW clicks \in Nat,
         Clicks(from, clicks) \cap pool = {}
  PROVE  LET u == free_mem(t, from, clicks)
         IN /\ ListRight(u)
            /\ Shares(Free(u.holes), pr, pool \cup Clicks(from, clicks))
<1> DEFINE u == free_mem(t, from, clicks)
<1>1. t \in Tables /\ Apart(t.holes) /\ t.slots > 0
  BY RoomLeft DEF MemoryRight, ListRight
<1>2. Clicks(from, clicks) \cap Free(t.holes) = {}
  BY DEF MemoryRight, Shares
<1> HIDE DEF u
<1>3. /\ u \in Tables /\ Apart(u.holes) /\ Slots(u) = Slots(t)
      /\ Free(u.holes) = Free(t.holes) \cup Clicks(from, clicks)
  BY <1>1, <1>2, FreeMem DEF u
<1>4. Shares(Free(t.holes) \cup Clicks(from, clicks), pr, pool \cup Clicks(from, clicks))
  BY MoreToShare DEF MemoryRight
<1> QED
  BY <1>3, <1>4 DEF u, ListRight, MemoryRight

-----------------------------------------------------------------------------
(* What the invariant says of a state.                                     *)

(* A set of indices that is not empty has its least element.               *)
LEMMA LeastIn ==
  ASSUME NEW S \in SUBSET Nat, S # {}
  PROVE  Least(S) \in S /\ \A y \in S : Least(S) <= y
<1>1. \E x \in S : \A y \in S : x <= y
  BY LeastNat
<1> QED
  BY <1>1 DEF Least

(* The parts of the invariant that are about memory.                       *)
LEMMA Shared ==
  ASSUME IInv
  PROVE  /\ Table.holes = holes /\ Table.slots = free_slots
         /\ ListRight(Table) /\ holes \in Seq(Hole) /\ Apart(holes) /\ Len(holes) \in Nat
         /\ DOMAIN holes = 1..Len(holes)
         /\ KnownChunks \in 0..Len(Chunks) /\ swap_base \in Nat /\ swap_len \in Nat
         /\ Shares(Free(Table.holes), proc, Clicked(KnownChunks, swap_base, swap_len))
         /\ proc \in ProcTypes
         /\ MemoryRight(Table, proc, Clicked(KnownChunks, swap_base, swap_len))
<1>1. Table.holes = holes /\ Table.slots = free_slots
  BY DEF Table
<1>2. holes \in Seq(Hole) /\ Apart(holes)
  BY <1>1 DEF IInv, ListRight, Tables
<1>3. Len(holes) \in Nat /\ DOMAIN holes = 1..Len(holes) /\ Len(Chunks) \in Nat
  BY <1>2, AllocatorAssumption, LenProperties
<1>4. KnownChunks \in 0..Len(Chunks)
  BY <1>3 DEF IInv, StartRight, KnownChunks
<1>5. /\ ListRight(Table) /\ swap_base \in Nat /\ swap_len \in Nat /\ proc \in ProcTypes
      /\ Shares(Free(Table.holes), proc, Clicked(KnownChunks, swap_base, swap_len))
  BY <1>1 DEF IInv, AreaRight, ProcsRight
<1>6. MemoryRight(Table, proc, Clicked(KnownChunks, swap_base, swap_len))
  BY <1>4, <1>5 DEF MemoryRight
<1> QED
  BY <1>1, <1>2, <1>3, <1>4, <1>5, <1>6

(* A click of the pool is below the largest address; from swap_base on it  *)
(* is one of the swap area, and the click before swap_base is in no chunk. *)
LEMMA PoolBound ==
  ASSUME IInv, NEW c \in Clicked(KnownChunks, swap_base, swap_len)
  PROVE  /\ c \in Nat /\ c < MaxClick
         /\ job.step # "init" /\ c >= swap_base => swap_len > 0 /\ c < swap_base + swap_len
         /\ job.step # "init" => c # swap_base - 1
<1>1. /\ KnownChunks \in 0..Len(Chunks) /\ swap_base \in Nat /\ swap_len \in Nat /\ MaxClick \in Nat
      /\ swap_base + swap_len <= MaxClick
  BY Shared, AllocatorAssumption DEF IInv, AreaRight
<1>2. Len(Chunks) \in Nat /\ c \in Nat
  BY LenProperties, AllocatorAssumption DEF Clicked
<1>3. CASE c \in Clicks(swap_base, swap_len)
  BY <1>1, <1>2, <1>3 DEF Clicks
<1>4. CASE \E i \in 1..KnownChunks : c \in Clicks(Chunks[i].base, Chunks[i].len)
  <2>1. PICK i \in 1..KnownChunks : c \in Clicks(Chunks[i].base, Chunks[i].len)
    BY <1>4
  <2>2. i \in 1..Len(Chunks)
    BY <1>1, <1>2
  <2>3. Chunks[i].base \in Nat /\ Chunks[i].len \in Nat /\ ChunkEnd(i) \in Nat /\ ChunkEnd(i) < MaxClick
    BY <2>2, ChunkTypes
  <2>4. c < ChunkEnd(i)
    BY <2>1, <2>3, <1>2 DEF Clicks, ChunkEnd
  <2>5. job.step # "init" => ChunkEnd(i) < swap_base
    BY <2>2 DEF IInv, StartRight
  <2> QED
    BY <2>3, <2>4, <2>5, <1>1, <1>2
<1> QED
  BY <1>3, <1>4 DEF Clicked

(* A hole is free memory within the addresses there are.                   *)
LEMMA HoleBounds ==
  ASSUME IInv, NEW k \in 1..Len(holes)
  PROVE  /\ holes[k] \in Hole /\ holes[k].base \in Nat /\ holes[k].len \in Nat /\ holes[k].len > 0
         /\ Clicks(holes[k].base, holes[k].len) \subseteq Free(holes)
         /\ holes[k].base \in Free(holes)
         /\ End(holes[k]) \in Nat /\ End(holes[k]) <= MaxClick
         /\ End(holes[k]) = holes[k].base + holes[k].len
<1>1. /\ holes[k] \in Hole /\ holes[k].base \in Nat /\ holes[k].len \in Nat /\ End(holes[k]) \in Nat
      /\ holes[k].base < End(holes[k]) /\ End(holes[k]) = holes[k].base + holes[k].len
  BY Shared, ElementOfSeq, HoleEnds
<1>2. \A c \in Nat : In(c, holes[k]) => c \in Free(holes)
  BY DEF Free
<1>3. Clicks(holes[k].base, holes[k].len) \subseteq Free(holes)
  BY <1>1, <1>2 DEF Clicks, In
<1>4. End(holes[k]) - 1 \in Free(holes) /\ holes[k].base \in Free(holes)
  BY <1>1, <1>2 DEF In
<1>5. End(holes[k]) - 1 < MaxClick
  <2>1. End(holes[k]) - 1 \in Clicked(KnownChunks, swap_base, swap_len)
    BY <1>4, Shared DEF Shares
  <2> QED
    BY <2>1, PoolBound
<1> QED
  BY <1>1, <1>3, <1>4, <1>5, AllocatorAssumption

(* What a process has is part of the pool; a free slot has nothing.        *)
LEMMA ProcBounds ==
  ASSUME IInv, NEW p \in Procs
  PROVE  /\ proc[p].base \in Nat /\ proc[p].size \in Nat
         /\ Seg(proc, p) \subseteq Clicked(KnownChunks, swap_base, swap_len)
         /\ proc[p].inuse => proc[p].size > 0 /\ proc[p].base \in Seg(proc, p)
         /\ proc[p].onswap \/ proc[p].waiting \/ proc[p].reply \/ proc[p].swapin => proc[p].inuse
         /\ ~proc[p].inuse => proc[p] = NoProc /\ Seg(proc, p) = {}
<1>1. proc[p].base \in Nat /\ proc[p].size \in Nat
  BY Shared, ProcSizes
<1>2. Seg(proc, p) \subseteq Clicked(KnownChunks, swap_base, swap_len)
  <2>1. Seg(proc, p) \subseteq Nat
    BY <1>1 DEF Seg, Clicks
  <2> QED
    BY <2>1, Shared DEF Shares
<1>3. ProcRight(proc[p], swap_base)
  BY DEF IInv, ProcsRight
<1>4. ASSUME proc[p].inuse PROVE proc[p].size > 0 /\ proc[p].base \in Seg(proc, p)
  <2>1. proc[p].size \in Sizes
    BY <1>3, <1>4 DEF ProcRight
  <2>2. \A n \in Sizes : n \in Nat /\ n > 0
    BY AllocatorAssumption
  <2> QED
    BY <2>1, <2>2, <1>1 DEF Seg, Clicks
<1>5. ASSUME ~proc[p].inuse PROVE proc[p] = NoProc /\ Seg(proc, p) = {}
  <2>1. proc[p] = NoProc
    BY <1>3, <1>5 DEF ProcRight
  <2> QED
    BY <2>1 DEF NoProc, Seg, Clicks
<1>6. ASSUME ~proc[p].inuse
      PROVE  ~proc[p].onswap /\ ~proc[p].waiting /\ ~proc[p].reply /\ ~proc[p].swapin
  BY <1>5, <1>6 DEF NoProc
<1> QED
  BY <1>1, <1>2, <1>4, <1>5, <1>6

(* Once MM knows its memory, a hole is below the swap area or in it.       *)
LEMMA HolesBelowArea ==
  ASSUME IInv, job.step # "init", NEW k \in 1..Len(holes), holes[k].base >= swap_base
  PROVE  swap_len > 0 /\ Clicks(holes[k].base, holes[k].len) \subseteq Clicks(swap_base, swap_len)
<1>1. /\ holes[k].base \in Nat /\ holes[k].len \in Nat /\ holes[k].base \in Free(holes)
      /\ Clicks(holes[k].base, holes[k].len) \subseteq Free(holes)
  BY HoleBounds
<1>2. Free(holes) \subseteq Clicked(KnownChunks, swap_base, swap_len)
  BY Shared DEF Shares
<1>3. swap_base \in Nat /\ swap_len \in Nat
  BY Shared
<1>4. swap_len > 0
  BY <1>1, <1>2, PoolBound
<1>5. ASSUME NEW c \in Clicks(holes[k].base, holes[k].len) PROVE c \in Clicks(swap_base, swap_len)
  <2>1. c \in Clicked(KnownChunks, swap_base, swap_len)
    BY <1>1, <1>2
  <2>2. c \in Nat /\ c >= swap_base
    BY <1>1, <1>3 DEF Clicks
  <2>3. c < swap_base + swap_len
    BY <2>1, <2>2, PoolBound
  <2> QED
    BY <2>2, <2>3, <1>3 DEF Clicks
<1> QED
  BY <1>4, <1>5

(* The hole alloc_mem chooses is big enough, and not in the swap area.     *)
LEMMA ChosenFits ==
  ASSUME IInv, NEW clicks, Fitting(clicks) # {}
  PROVE  /\ Chosen(clicks) \in 1..Len(holes) /\ holes[Chosen(clicks)].len >= clicks
         /\ job.step # "init" => holes[Chosen(clicks)].base < swap_base
<1> DEFINE F == Fitting(clicks)
<1>1. F \subseteq 1..Len(holes) /\ Len(holes) \in Nat /\ F \in SUBSET Nat
  BY Shared DEF Fitting
<1>2. Largest(F) \subseteq F
  BY DEF Largest
<1>3. Largest(F) # {}
  <2> DEFINE T == {n \in Nat : \E k \in F : n = MaxClick - holes[k].len}
  <2>1. \A k \in F : MaxClick - holes[k].len \in Nat /\ holes[k].len \in Nat
    <3>1. MaxClick \in Nat
      BY AllocatorAssumption
    <3> QED
      BY <3>1, <1>1, HoleBounds
  <2>2. T # {} /\ T \in SUBSET Nat
    BY <2>1
  <2>3. PICK n \in T : \A m \in T : n <= m
    <3> HIDE DEF T
    <3> QED
      BY <2>2, LeastNat
  <2>4. PICK k \in F : n = MaxClick - holes[k].len
    OBVIOUS
  <2>5. ASSUME NEW j \in F PROVE holes[j].len <= holes[k].len
    <3>1. MaxClick - holes[j].len \in T
      BY <2>1
    <3>2. MaxClick - holes[k].len <= MaxClick - holes[j].len
      BY <3>1, <2>3, <2>4
    <3> QED
      BY <3>2, <2>1, AllocatorAssumption, SMTT(30)
  <2>6. k \in Largest(F)
    BY <2>5 DEF Largest
  <2> QED
    BY <2>6
<1> HIDE DEF F
<1>4. Chosen(clicks) \in F
  <2> DEFINE S == IF wf_mode THEN Largest(F) ELSE F
  <2>1. S # {} /\ S \subseteq F /\ S \in SUBSET Nat
    BY <1>1, <1>2, <1>3 DEF F
  <2>2. Least(S) \in S
    <3> HIDE DEF S
    <3> QED
      BY <2>1, LeastIn
  <2> QED
    BY <2>1, <2>2 DEF Chosen, F
<1> DEFINE k == Chosen(clicks)
<1> HIDE DEF k
<1>5. k \in 1..Len(holes) /\ holes[k].len >= clicks /\ (wf_mode \/ holes[k].base < swap_base)
  BY <1>1, <1>4 DEF F, Fitting, k
<1>6. ASSUME job.step # "init" PROVE holes[k].base < swap_base
  <2>1. CASE wf_mode
    <3>1. swap_len = 0
      BY <2>1 DEF IInv, AreaRight
    <3>2. ~(holes[k].base >= swap_base)
      BY <1>5, <1>6, <3>1, HolesBelowArea
    <3> QED
      BY <3>2, <1>5, HoleBounds, Shared
  <2> QED
    BY <2>1, <1>5
<1> QED
  BY <1>5, <1>6 DEF k

(* The search for somebody to swap out goes round the table.               *)
LEMMA AfterReaches ==
  ASSUME outswap \in Procs
  PROVE  /\ \A d \in Procs : After(d) \in Procs
         /\ \A p \in Procs : \E d \in Procs : After(d) = p
<1> DEFINE n == NrProcs
<1>1. n \in Nat \ {0} /\ Procs = 1..n /\ outswap \in 1..n
  BY AllocatorAssumption DEF Procs
<1>2. \A d \in Procs : After(d) = ((outswap - 1 + d) % n) + 1
  BY DEF After
<1> HIDE DEF n
<1>3. ASSUME NEW d \in 1..n
      PROVE  After(d) = IF outswap - 1 + d < n THEN outswap + d ELSE outswap + d - n
  <2>1. PICK x \in 0..2 * n - 1 : x = outswap - 1 + d
    BY <1>1
  <2>2. x % n = IF x < n THEN x ELSE x - n
    BY <1>1, <2>1, Modulo
  <2>3. After(d) = (x % n) + 1
    BY <1>1, <1>2, <2>1
  <2> QED
    BY <2>1, <2>2, <2>3, <1>1
<1>4. ASSUME NEW d \in Procs PROVE After(d) \in Procs
  BY <1>1, <1>3
<1>5. ASSUME NEW p \in Procs PROVE \E d \in Procs : After(d) = p
  <2>1. CASE p > outswap
    <3>1. p - outswap \in 1..n /\ outswap - 1 + (p - outswap) < n
      BY <1>1, <2>1
    <3>2. After(p - outswap) = p
      BY <3>1, <1>1, <1>3
    <3> QED
      BY <3>1, <3>2, <1>1
  <2>2. CASE p <= outswap
    <3>1. p - outswap + n \in 1..n /\ ~(outswap - 1 + (p - outswap + n) < n)
      BY <1>1, <2>2
    <3>2. After(p - outswap + n) = p
      BY <3>1, <1>1, <1>3
    <3> QED
      BY <3>1, <3>2, <1>1
  <2> QED
    BY <2>1, <2>2, <1>1
<1> QED
  BY <1>4, <1>5

(* If anybody can be swapped out, swap_out finds one who can.              *)
LEMMA NextOutWaits ==
  ASSUME IInv, Candidates # {}
  PROVE  /\ NextOut \in Candidates
         /\ LET k == Least(SwapHoles(proc[NextOut].size))
            IN k \in 1..Len(holes) /\ holes[k].base >= swap_base /\ holes[k].len >= proc[NextOut].size
<1>1. outswap \in Procs /\ Procs \in SUBSET Nat
  <2>1. outswap \in Procs
    BY DEF IInv, JobRight
  <2>2. NrProcs \in Nat
    BY AllocatorAssumption
  <2> QED
    BY <2>1, <2>2 DEF Procs
<1> DEFINE D == {d \in Procs : After(d) \in Candidates}
<1>2. D # {}
  <2>1. PICK p \in Candidates : p \in Procs
    BY DEF Candidates
  <2> QED
    BY <2>1, <1>1, AfterReaches
<1>3. Least(D) \in D
  <2>1. D \in SUBSET Nat
    BY <1>1
  <2> HIDE DEF D
  <2> QED
    BY <1>2, <2>1, LeastIn
<1>4. NextOut \in Candidates
  BY <1>3 DEF NextOut
<1> DEFINE S == SwapHoles(proc[NextOut].size)
<1>5. S # {}
  BY <1>4 DEF Candidates
<1>6. S \in SUBSET Nat
  BY Shared DEF SwapHoles
<1>7. Least(S) \in S
  <2> HIDE DEF S
  <2> QED
    BY <1>5, <1>6, LeastIn
<1> QED
  BY <1>4, <1>7, Shared DEF SwapHoles

-----------------------------------------------------------------------------
(* Steps keep the parts of the invariant.                                  *)

(* The table after a step that sets it.                                    *)
LEMMA SetTableIs ==
  ASSUME NEW u \in Tables, holes' = u.holes, free_slots' = u.slots
  PROVE  Table' = u
<1>1. u = [holes |-> u.holes, slots |-> u.slots]
  BY DEF Tables
<1> QED
  BY <1>1 DEF Table

(* All processes are right if the one that changes is.                     *)
LEMMA ProcsChange ==
  ASSUME NEW pr, NEW base, ProcsRight(pr, base), NEW p \in Procs, NEW r \in Proc,
         ProcRight(r, base)
  PROVE  ProcsRight([pr EXCEPT ![p] = r], base)
BY DEF ProcsRight, ProcTypes

(* The memory of MM stays what it is.                                      *)
LEMMA Quiet ==
  ASSUME IInv, job.step # "init", job'.step # "init",
         swap_base' = swap_base, swap_len' = swap_len, swapping' = swapping, wf_mode' = wf_mode
  PROVE  /\ AreaRight' /\ StartRight'
         /\ KnownChunks' = KnownChunks
<1>1. AreaRight /\ StartRight
  BY DEF IInv
<1>2. AreaRight'
  BY <1>1 DEF AreaRight
<1>3. StartRight'
  BY <1>1 DEF StartRight
<1> QED
  BY <1>2, <1>3 DEF KnownChunks

(* The queue stays good when nobody on it stops to want to come back.      *)
LEMMA QueueStays ==
  ASSUME NEW q, NEW pr, NEW pr2, NEW from, NEW to, QueueGood(q, pr, from),
         \A x \in Procs : pr2[x].swapin => pr[x].swapin,
         \A i \in 1..Len(q) : q[i] \in Procs /\ (pr[q[i]].swapin \/ ~pr[q[i]].inuse)
                                 => pr2[q[i]].swapin \/ ~pr2[q[i]].inuse,
         \A i \in 1..Len(q) : i < to => pr2[q[i]].swapin
  PROVE  QueueGood(q, pr2, to)
<1>1. \A i \in 1..Len(q) : q[i] \in Procs
  BY ElementOfSeq DEF QueueGood
<1> QED
  BY <1>1 DEF QueueGood

(* One who was not on the queue is put behind the others.                  *)
LEMMA QueueAppends ==
  ASSUME NEW q, NEW pr, NEW pr2, NEW from, NEW to, QueueGood(q, pr, from),
         NEW p \in Procs, pr[p].inuse, ~pr[p].swapin, pr2[p].swapin,
         \A x \in Procs : x # p => pr2[x] = pr[x],
         \A i \in 1..Len(q) : i < to => pr[q[i]].swapin
  PROVE  QueueGood(Append(q, p), pr2, to)
<1> DEFINE r == Append(q, p)
<1>1. q \in Seq(Procs) /\ Len(q) \in Nat /\ \A i \in 1..Len(q) : q[i] \in Procs
  BY LenProperties, ElementOfSeq DEF QueueGood
<1>2. /\ r \in Seq(Procs) /\ Len(r) = Len(q) + 1
      /\ \A i \in 1..Len(q) : r[i] = q[i]
      /\ r[Len(q) + 1] = p
  BY <1>1, AppendProperties
<1> HIDE DEF r
<1>3. \A i \in 1..Len(q) : q[i] # p
  BY DEF QueueGood
<1>4. \A i \in 1..Len(r) : IF i = Len(q) + 1 THEN r[i] = p
                           ELSE i \in 1..Len(q) /\ r[i] = q[i] /\ r[i] # p
  BY <1>1, <1>2, <1>3
<1>5. \A i, j \in 1..Len(r) : r[i] = r[j] => i = j
  BY <1>4 DEF QueueGood
<1>6. ASSUME NEW x \in Procs, pr2[x].swapin PROVE \E i \in 1..Len(r) : r[i] = x
  <2>1. CASE x = p
    <3>1. Len(q) + 1 \in 1..Len(r)
      BY <1>1, <1>2
    <3> QED
      BY <3>1, <2>1, <1>2
  <2>2. CASE x # p
    <3>1. PICK i \in 1..Len(q) : q[i] = x
      BY <2>2, <1>6 DEF QueueGood
    <3>2. i \in 1..Len(r) /\ r[i] = x
      BY <3>1, <1>1, <1>2
    <3> QED
      BY <3>2
  <2> QED
    BY <2>1, <2>2
<1>7. ASSUME NEW i \in 1..Len(r)
      PROVE  (pr2[r[i]].swapin \/ ~pr2[r[i]].inuse) /\ (i < to => pr2[r[i]].swapin)
  <2>1. CASE i = Len(q) + 1
    BY <2>1, <1>4
  <2>2. CASE i # Len(q) + 1
    <3>1. i \in 1..Len(q) /\ r[i] = q[i] /\ pr2[r[i]] = pr[q[i]]
      BY <2>2, <1>1, <1>4
    <3> QED
      BY <3>1 DEF QueueGood
  <2> QED
    BY <2>1, <2>2
<1> QED
  BY <1>2, <1>5, <1>6, <1>7 DEF QueueGood, r

(* The process swap_in looks at leaves the queue.                          *)
LEMMA QueueRemoves ==
  ASSUME NEW q, NEW pr, NEW pr2, NEW at, QueueGood(q, pr, at), at \in 1..Len(q),
         ~pr2[q[at]].swapin,
         \A x \in Procs : x # q[at] => pr2[x] = pr[x]
  PROVE  QueueGood(RemoveAt(q, at), pr2, at)
<1> DEFINE r == RemoveAt(q, at)
           At(i) == IF i < at THEN i ELSE i + 1
<1>1. q \in Seq(Procs) /\ Len(q) \in Nat /\ at \in Nat /\ \A i \in 1..Len(q) : q[i] \in Procs
  BY LenProperties, ElementOfSeq DEF QueueGood
<1>2. r \in Seq(Procs) /\ Removed(r, q, at)
  BY <1>1, RemoveItems
<1> HIDE DEF r
<1>3. /\ Len(r) = Len(q) - 1
      /\ \A i \in 1..Len(r) : r[i] = q[At(i)] /\ At(i) \in 1..Len(q) /\ At(i) # at
  BY <1>1, <1>2 DEF Removed
<1>4. \A i, j \in 1..Len(r) : At(i) = At(j) => i = j
  BY <1>1, <1>3
<1>5. \A i, j \in 1..Len(r) : r[i] = r[j] => i = j
  <2> HIDE DEF At
  <2> QED
    BY <1>3, <1>4 DEF QueueGood
<1>6. ASSUME NEW x \in Procs, pr2[x].swapin PROVE \E i \in 1..Len(r) : r[i] = x
  <2>1. x # q[at]
    BY <1>6
  <2>2. PICK j \in 1..Len(q) : q[j] = x
    BY <2>1, <1>6 DEF QueueGood
  <2>3. PICK i \in 1..Len(r) : At(i) = j
    <3>1. CASE j < at
      <4>1. j \in 1..Len(r) /\ At(j) = j
        BY <3>1, <1>1, <1>3
      <4> QED
        BY <4>1
    <3>2. CASE j > at
      <4>1. j - 1 \in 1..Len(r) /\ At(j - 1) = j
        BY <3>2, <1>1, <1>3
      <4> QED
        BY <4>1
    <3> QED
      BY <3>1, <3>2, <2>1, <2>2, <1>1
  <2> QED
    BY <2>2, <2>3, <1>3
<1>7. ASSUME NEW i \in 1..Len(r), i < at PROVE pr2[r[i]].swapin
  <2>1. r[i] = q[i] /\ i \in 1..Len(q) /\ i # at
    BY <1>7, <1>3
  <2>2. pr[q[i]].swapin /\ q[i] # q[at] /\ q[i] \in Procs
    BY <2>1, <1>1, <1>7 DEF QueueGood
  <2> QED
    BY <2>1, <2>2
<1>8. ASSUME NEW i \in 1..Len(r) PROVE pr2[r[i]].swapin \/ ~pr2[r[i]].inuse
  <2> HIDE DEF At
  <2>1. r[i] = q[At(i)] /\ At(i) \in 1..Len(q) /\ At(i) # at
    BY <1>3
  <2>2. q[At(i)] # q[at] /\ q[At(i)] \in Procs
    BY <2>1, <1>1 DEF QueueGood
  <2> QED
    BY <2>1, <2>2 DEF QueueGood
<1> QED
  BY <1>2, <1>5, <1>6, <1>7, <1>8 DEF QueueGood, r

(* p moves to the start of hole k.                                         *)
LEMMA MoveTo ==
  ASSUME IInv, NEW p \in Procs, NEW k \in 1..Len(holes), NEW size \in Sizes,
         size <= holes[k].len,
         SetTable(free_mem(Bite(Table, k - 1, k, size), proc[p].base, proc[p].size)),
         proc' \in ProcTypes, proc'[p].base = holes[k].base, proc'[p].size = size,
         \A q \in Procs : q # p => proc'[q].base = proc[q].base /\ proc'[q].size = proc[q].size,
         KnownChunks' = KnownChunks, swap_base' = swap_base, swap_len' = swap_len
  PROVE  /\ ListRight(Table)'
         /\ Shares(Free(holes), proc, Clicked(KnownChunks, swap_base, swap_len))'
         /\ Seg(proc, p)' \subseteq Free(holes)
<1> DEFINE u == free_mem(Bite(Table, k - 1, k, size), proc[p].base, proc[p].size)
           new == Clicks(holes[k].base, size)
<1>1. size \in Nat \ {0}
  BY AllocatorAssumption
<1> HIDE DEF u
<1>2. /\ ListRight(u) /\ new \subseteq Free(holes)
      /\ Free(u.holes) = (Free(holes) \ new) \cup Seg(proc, p)
  <2>1. PICK t : t = Table
    OBVIOUS
  <2>2. t.holes = holes /\ MemoryRight(t, proc, Clicked(KnownChunks, swap_base, swap_len))
    BY <2>1, Shared
  <2>3. u = free_mem(Bite(t, k - 1, k, size), proc[p].base, proc[p].size) /\ new = Clicks(t.holes[k].base, size)
    BY <2>1, <2>2 DEF u
  <2>4. k \in 1..Len(t.holes) /\ size <= t.holes[k].len
    BY <2>2
  <2> HIDE DEF new
  <2>5. LET v == free_mem(Bite(t, k - 1, k, size), proc[p].base, proc[p].size)
        IN /\ ListRight(v)
           /\ Exchanged(Free(t.holes), Free(v.holes), Clicks(t.holes[k].base, size), Seg(proc, p))
    BY <1>1, <2>2, <2>4, TakeAndGiveBack
  <2> QED
    BY <2>2, <2>3, <2>5 DEF Exchanged
<1>3. Table' = u /\ holes' = u.holes
  <2>1. u \in Tables /\ holes' = u.holes /\ free_slots' = u.slots
    BY <1>2 DEF ListRight, SetTable, u
  <2> QED
    BY <2>1, SetTableIs
<1>4. Seg(proc', p) = new /\ \A q \in Procs : q # p => Seg(proc', q) = Seg(proc, q)
  BY DEF Seg
<1> HIDE DEF new
<1>5. Shares((Free(holes) \ new) \cup Seg(proc, p), proc', Clicked(KnownChunks, swap_base, swap_len))
  BY <1>2, <1>4, Shared, Exchange
<1> QED
  BY <1>2, <1>3, <1>4, <1>5

(* What MM does, by step.                                                  *)
LEMMA JobForms ==
  ASSUME IInv
  PROVE  /\ job \in JobTypes /\ outswap \in Procs
         /\ job.step \in {"idle", "lost", "init", "queue_all", "swap_off", "alloc", "swap_in",
                          "check_pending"}
         /\ job.step = "idle" => job = Idle
         /\ job.step \in {"init", "queue_all", "swap_off"} =>
              job \in [step : {"init", "queue_all", "swap_off"}, at : Nat \ {0}]
         /\ job.step = "alloc" => job \in [step : {"alloc"}, for : Procs, size : Sizes]
         /\ job.step = "swap_in" =>
              job \in [step : {"swap_in"}, at : Nat \ {0}, then : {"idle", "swap_off"}]
         /\ job.step = "check_pending" =>
              job \in [step : {"check_pending"}, at : Nat \ {0}, then : {"idle", "swap_off"},
                       for : Procs]
<1>1. job \in JobTypes /\ outswap \in Procs
  BY DEF IInv, JobRight
<1>2. Idle.step = "idle" /\ [step |-> "lost"].step = "lost"
  BY DEF Idle
<1> QED
  BY <1>1, <1>2 DEF JobTypes

(* To serve the queue is to begin with its first.                          *)
LEMMA ServeQueueForm ==
  /\ ServeQueue \in JobTypes /\ ServeQueue.step = "swap_in" /\ ServeQueue.at = 1
  /\ Idle \in JobTypes /\ Idle.step = "idle"
BY DEF ServeQueue, Idle, JobTypes

(* Neither the holes nor anybody's memory changes.                         *)
LEMMA MemoryQuiet ==
  ASSUME IInv, job.step # "init", job'.step # "init", UNCHANGED <<table, wf_mode, area>>,
         \A q \in Procs : proc'[q].base = proc[q].base /\ proc'[q].size = proc[q].size
  PROVE  /\ ListRight(Table)'
         /\ Shares(Free(holes), proc, Clicked(KnownChunks, swap_base, swap_len))'
         /\ AreaRight' /\ StartRight'
<1>1. /\ holes' = holes /\ free_slots' = free_slots /\ wf_mode' = wf_mode
      /\ swap_base' = swap_base /\ swap_len' = swap_len /\ swapping' = swapping
  BY DEF table, area
<1>2. AreaRight' /\ StartRight' /\ KnownChunks' = KnownChunks
  BY <1>1, Quiet
<1>3. Table' = Table
  BY <1>1 DEF Table
<1>4. Shares(Free(holes), proc', Clicked(KnownChunks, swap_base, swap_len))
  BY StayPut DEF IInv
<1> QED
  BY <1>1, <1>2, <1>3, <1>4 DEF IInv

(* After most calls MM serves the queue from its first on.                 *)
LEMMA JobServes ==
  ASSUME job' = ServeQueue, outswap' \in Procs
  PROVE  JobRight' /\ Unseen' = 1 /\ job'.step # "init"
BY ServeQueueForm DEF JobRight, Unseen, Walks

(* Everybody on the queue wants to come back: MM does not walk it, or is   *)
(* at its end.                                                             *)
LEMMA AllWant ==
  ASSUME IInv, \/ ~Walks
               \/ job.step = "swap_in" /\ job.at > Len(in_queue)
  PROVE  /\ QueueGood(in_queue, proc, Len(in_queue) + 1)
         /\ \A i \in 1..Len(in_queue) : proc[in_queue[i]].swapin
<1>1. QueueGood(in_queue, proc, Unseen) /\ Len(in_queue) \in Nat
  BY LenProperties DEF IInv, QueueGood
<1>2. \A i \in 1..Len(in_queue) : i < Unseen
  <2>1. CASE ~Walks
    BY <2>1, <1>1 DEF Unseen
  <2>2. CASE job.step = "swap_in" /\ job.at > Len(in_queue)
    <3>1. job.at \in Nat /\ Unseen = job.at
      BY <2>2, JobForms DEF Unseen, Walks
    <3> QED
      BY <3>1, <2>2, <1>1
  <2> QED
    BY <2>1, <2>2
<1> QED
  BY <1>1, <1>2 DEF QueueGood

-----------------------------------------------------------------------------
(* The steps, one by one.                                                  *)

(* NO_MEM.                                                                 *)
LEMMA RefuseStep ==
  ASSUME IInv, Refuse
  PROVE  IInv'
<1>1. /\ job.step = "alloc" /\ job' = ServeQueue /\ proc' = proc /\ in_queue' = in_queue
      /\ outswap' = outswap /\ UNCHANGED <<table, wf_mode, area>>
  BY DEF Refuse, queue
<1>2. JobRight' /\ Unseen' = 1 /\ job'.step # "init"
  BY <1>1, JobForms, JobServes
<1>3. /\ ListRight(Table)' /\ AreaRight' /\ StartRight'
      /\ Shares(Free(holes), proc, Clicked(KnownChunks, swap_base, swap_len))'
  BY <1>1, <1>2, MemoryQuiet
<1>4. ProcsRight(proc, swap_base)'
  BY <1>1 DEF IInv, area
<1>5. QueueGood(in_queue, proc, Unseen)'
  <2>1. QueueGood(in_queue, proc, 1)
    BY QueueStays DEF IInv
  <2> QED
    BY <2>1, <1>1, <1>2
<1> QED
  BY <1>2, <1>3, <1>4, <1>5 DEF IInv

(* There is no memory for the one on the queue.                            *)
LEMMA LeaveOutStep ==
  ASSUME IInv, LeaveOut
  PROVE  IInv'
<1>1. /\ SwapsIn /\ proc[Incoming].swapin /\ job' = [job EXCEPT !.at = @ + 1]
      /\ proc' = proc /\ in_queue' = in_queue
      /\ outswap' = outswap /\ UNCHANGED <<table, wf_mode, area>>
  BY DEF LeaveOut, queue
<1>2. /\ job \in [step : {"swap_in"}, at : Nat \ {0}, then : {"idle", "swap_off"}]
      /\ job.step = "swap_in"
  BY <1>1, JobForms DEF SwapsIn
<1>3. job'.step = "swap_in" /\ job'.at = job.at + 1 /\ job' \in JobTypes
  <2>1. job' \in [step : {"swap_in"}, at : Nat \ {0}, then : {"idle", "swap_off"}]
    BY <1>1, <1>2
  <2> QED
    BY <2>1, <1>1, <1>2 DEF JobTypes
<1>4. JobRight'
  BY <1>1, <1>3, JobForms DEF JobRight
<1>5. /\ ListRight(Table)' /\ AreaRight' /\ StartRight'
      /\ Shares(Free(holes), proc, Clicked(KnownChunks, swap_base, swap_len))'
  BY <1>1, <1>2, <1>3, MemoryQuiet
<1>6. ProcsRight(proc, swap_base)'
  BY <1>1 DEF IInv, area
<1>7. QueueGood(in_queue, proc, Unseen)'
  <2>1. Unseen = job.at /\ Unseen' = job.at + 1 /\ job.at \in Nat
    BY <1>2, <1>3 DEF Unseen, Walks
  <2>2. QueueGood(in_queue, proc, job.at)
    BY <2>1 DEF IInv
  <2>3. \A i \in 1..Len(in_queue) : i < job.at + 1 => proc[in_queue[i]].swapin
    <3>1. ASSUME NEW i \in 1..Len(in_queue), i < job.at + 1 PROVE proc[in_queue[i]].swapin
      <4>1. i < job.at \/ i = job.at
        BY <2>1, <3>1
      <4> QED
        BY <4>1, <1>1, <2>2 DEF QueueGood, Incoming
    <3> QED
      BY <3>1
  <2>4. QueueGood(in_queue, proc, job.at + 1)
    BY <2>2, <2>3, QueueStays
  <2> QED
    BY <2>1, <2>4, <1>1
<1> QED
  BY <1>4, <1>5, <1>6, <1>7 DEF IInv

(* One who got killed leaves the queue.                                    *)
LEMMA CleanStep ==
  ASSUME IInv, Clean
  PROVE  IInv'
<1>1. /\ SwapsIn /\ ~proc[Incoming].swapin /\ in_queue' = RemoveAt(in_queue, job.at)
      /\ proc' = proc /\ job' = job /\ outswap' = outswap /\ UNCHANGED <<table, wf_mode, area>>
  BY DEF Clean
<1>2. job.step = "swap_in" /\ job.at \in Nat \ {0} /\ job.at <= Len(in_queue)
  BY <1>1, JobForms DEF SwapsIn
<1>3. JobRight'
  BY <1>1, <1>2, JobForms DEF JobRight
<1>4. /\ ListRight(Table)' /\ AreaRight' /\ StartRight'
      /\ Shares(Free(holes), proc, Clicked(KnownChunks, swap_base, swap_len))'
  BY <1>1, <1>2, MemoryQuiet
<1>5. ProcsRight(proc, swap_base)'
  BY <1>1 DEF IInv, area
<1>6. QueueGood(in_queue, proc, Unseen)'
  <2>1. Unseen = job.at /\ Unseen' = job.at
    BY <1>1, <1>2 DEF Unseen, Walks
  <2>2. QueueGood(in_queue, proc, job.at) /\ job.at \in 1..Len(in_queue)
    <3>1. Len(in_queue) \in Nat
      BY LenProperties DEF IInv, QueueGood
    <3> QED
      BY <2>1, <3>1, <1>2 DEF IInv
  <2>3. QueueGood(RemoveAt(in_queue, job.at), proc, job.at)
    BY <2>2, <1>1, QueueRemoves DEF Incoming
  <2> QED
    BY <2>1, <2>3, <1>1
<1> QED
  BY <1>3, <1>4, <1>5, <1>6 DEF IInv

(* The replies change no memory.                                           *)
LEMMA SendRepliesStep ==
  ASSUME IInv, SendReplies
  PROVE  IInv'
<1>1. /\ job.step = "swap_in" /\ job.at > Len(in_queue) /\ job' = Idle
      /\ proc' = [p \in Procs |-> [proc[p] EXCEPT !.reply = @ /\ proc[p].onswap]]
      /\ in_queue' = in_queue /\ outswap' = outswap /\ UNCHANGED <<table, wf_mode, area>>
  BY DEF SendReplies, queue
<1>2. proc \in [Procs -> Proc] /\ ProcsRight(proc, swap_base)
  BY DEF IInv, ProcsRight, ProcTypes
<1>3. ASSUME NEW p \in Procs
      PROVE  /\ proc'[p] \in Proc /\ ProcRight(proc'[p], swap_base)
             /\ proc'[p].base = proc[p].base /\ proc'[p].size = proc[p].size
             /\ proc'[p].swapin = proc[p].swapin /\ proc'[p].inuse = proc[p].inuse
  <2> DEFINE r == proc[p]
             s == [r EXCEPT !.reply = r.reply /\ r.onswap]
  <2>1. proc'[p] = s /\ r \in Proc /\ ProcRight(r, swap_base)
    BY <1>1, <1>2 DEF ProcsRight
  <2> HIDE DEF r
  <2>2. /\ s \in Proc /\ s.inuse = r.inuse /\ s.waiting = r.waiting /\ s.onswap = r.onswap
        /\ s.swapin = r.swapin /\ s.base = r.base /\ s.size = r.size
        /\ s.reply = (r.reply /\ r.onswap)
    BY <2>1 DEF Proc
  <2>3. ~r.inuse => s = NoProc
    <3> HAVE ~r.inuse
    <3>1. r = NoProc
      BY <2>1 DEF ProcRight
    <3>2. /\ s \in Proc /\ s.inuse = FALSE /\ s.waiting = FALSE /\ s.reply = FALSE /\ s.onswap = FALSE
          /\ s.swapin = FALSE /\ s.base = 0 /\ s.size = 0
      BY <3>1, <2>2 DEF NoProc
    <3> HIDE DEF s
    <3> QED
      BY <3>2 DEF NoProc, Proc
  <2> HIDE DEF s
  <2>4. ProcRight(s, swap_base)
    BY <2>1, <2>2, <2>3 DEF ProcRight
  <2> QED
    BY <2>1, <2>2, <2>4 DEF r
<1>4. ProcsRight(proc, swap_base)'
  <2>1. proc' \in [Procs -> Proc]
    BY <1>1, <1>3
  <2> QED
    BY <2>1, <1>1, <1>3 DEF ProcsRight, ProcTypes, area
<1>5. job'.step = "idle" /\ JobRight'
  BY <1>1, JobForms, ServeQueueForm DEF JobRight
<1>6. /\ ListRight(Table)' /\ AreaRight' /\ StartRight'
      /\ Shares(Free(holes), proc, Clicked(KnownChunks, swap_base, swap_len))'
  BY <1>1, <1>3, <1>5, MemoryQuiet
<1>7. QueueGood(in_queue, proc, Unseen)'
  <2>1. \A i \in 1..Len(in_queue) : in_queue[i] \in Procs
    BY ElementOfSeq DEF IInv, QueueGood
  <2>2. \A i \in 1..Len(in_queue) : proc'[in_queue[i]].swapin
    BY <1>1, <1>3, <2>1, AllWant
  <2>3. QueueGood(in_queue, proc', Unseen')
    BY <2>2, <1>3, QueueStays DEF IInv
  <2> QED
    BY <2>3, <1>1
<1> QED
  BY <1>4, <1>5, <1>6, <1>7 DEF IInv

(* Only the record of p changes.                                           *)
LEMMA OneProc ==
  ASSUME IInv, NEW p \in Procs, NEW s \in Proc, ProcRight(s, swap_base),
         proc' = [proc EXCEPT ![p] = s], swap_base' = swap_base
  PROVE  /\ ProcsRight(proc, swap_base)' /\ proc' \in ProcTypes
         /\ proc'[p] = s /\ \A q \in Procs : q # p => proc'[q] = proc[q]
<1>1. proc \in [Procs -> Proc] /\ ProcsRight(proc, swap_base)
  BY DEF IInv, ProcsRight, ProcTypes
<1>2. ProcsRight([proc EXCEPT ![p] = s], swap_base)
  BY <1>1, ProcsChange
<1>3. proc'[p] = s /\ \A q \in Procs : q # p => proc'[q] = proc[q]
  BY <1>1
<1> QED
  BY <1>2, <1>3 DEF ProcsRight

(* Who is on the swap area is queued, if it is not yet.                    *)
LEMMA QueuesOne ==
  ASSUME IInv, job.step # "init", job'.step # "init", ~Walks, NEW p \in OnSwap,
         in_queue' = swap_inqueue(p), proc' = [proc EXCEPT ![p].swapin = TRUE],
         UNCHANGED <<table, wf_mode, area>>
  PROVE  JobRight' => IInv'
<1> DEFINE r == proc[p]
           s == [r EXCEPT !.swapin = TRUE]
<1>1. p \in Procs /\ swap_base' = swap_base
  BY DEF OnSwap, area
<1>2. QueueGood(in_queue, proc, Len(in_queue) + 1) /\ \A i \in 1..Len(in_queue) : proc[in_queue[i]].swapin
  BY AllWant
<1>3. r \in Proc /\ ProcRight(r, swap_base) /\ r.onswap
  BY <1>1 DEF IInv, ProcsRight, ProcTypes, OnSwap
<1>4. proc' = [proc EXCEPT ![p] = s]
  OBVIOUS
<1> HIDE DEF r
<1>5. /\ s \in Proc /\ s.inuse = r.inuse /\ s.waiting = r.waiting /\ s.onswap = r.onswap
      /\ s.swapin = TRUE /\ s.base = r.base /\ s.size = r.size /\ s.reply = r.reply
  BY <1>3 DEF Proc
<1>6. r.inuse
  <2>1. ASSUME ~r.inuse PROVE FALSE
    <3>1. r = NoProc
      BY <1>3, <2>1 DEF ProcRight
    <3> QED
      BY <3>1, <1>3 DEF NoProc
  <2> QED
    BY <2>1
<1> HIDE DEF s
<1>7. ProcRight(s, swap_base)
  BY <1>3, <1>5, <1>6 DEF ProcRight
<1>8. /\ ProcsRight(proc, swap_base)' /\ proc'[p] = s
      /\ \A q \in Procs : q # p => proc'[q] = proc[q]
  BY <1>1, <1>4, <1>5, <1>7, OneProc
<1>9. \A q \in Procs : proc'[q].base = proc[q].base /\ proc'[q].size = proc[q].size
  BY <1>5, <1>8 DEF r
<1>10. /\ ListRight(Table)' /\ AreaRight' /\ StartRight'
       /\ Shares(Free(holes), proc, Clicked(KnownChunks, swap_base, swap_len))'
  BY <1>9, MemoryQuiet
<1>11. QueueGood(in_queue, proc, Unseen)'
  <2>1. CASE r.swapin
    <3>1. in_queue' = in_queue
      BY <2>1 DEF swap_inqueue, r
    <3>2. \A q \in Procs : proc'[q].swapin = proc[q].swapin
      BY <1>5, <1>8, <2>1 DEF r
    <3>3. \A i \in 1..Len(in_queue) : in_queue[i] \in Procs
      BY <1>2, ElementOfSeq DEF QueueGood
    <3>4. QueueGood(in_queue, proc', Unseen')
      BY <1>2, <3>2, <3>3, QueueStays
    <3> QED
      BY <3>1, <3>4
  <2>2. CASE ~r.swapin
    <3>1. in_queue' = Append(in_queue, p)
      BY <2>2 DEF swap_inqueue, r
    <3>2. /\ proc[p].inuse /\ ~proc[p].swapin /\ proc'[p].swapin
          /\ \A x \in Procs : x # p => proc'[x] = proc[x]
      BY <1>5, <1>6, <1>8, <2>2 DEF r
    <3>3. QueueGood(Append(in_queue, p), proc', Unseen')
      BY <1>1, <1>2, <3>2, QueueAppends
    <3> QED
      BY <3>1, <3>3
  <2> QED
    BY <2>1, <2>2
<1> QED
  BY <1>8, <1>10, <1>11 DEF IInv

(* swap_off queues one more.                                               *)
LEMMA QueueNextStep ==
  ASSUME IInv, QueueNext
  PROVE  IInv'
<1> DEFINE p == job.at
<1>1. /\ job.step = "queue_all" /\ p \in Procs
      /\ IF p \in OnSwap THEN in_queue' = swap_inqueue(p) /\ proc' = [proc EXCEPT ![p].swapin = TRUE]
                         ELSE UNCHANGED <<in_queue, proc>>
      /\ job' = IF p = NrProcs THEN [ServeQueue EXCEPT !.then = "swap_off"]
                ELSE [job EXCEPT !.at = @ + 1]
      /\ outswap' = outswap /\ UNCHANGED <<table, wf_mode, area>>
  BY DEF QueueNext
<1>2. /\ job' \in JobTypes /\ job'.step \in {"swap_in", "queue_all"}
      /\ job'.step = "swap_in" => job'.at = 1
  <2>1. job \in [step : {"init", "queue_all", "swap_off"}, at : Nat \ {0}]
    BY <1>1, JobForms
  <2>2. CASE p = NrProcs
    <3>1. job' = [step |-> "swap_in", at |-> 1, then |-> "swap_off"]
      BY <1>1, <2>2 DEF ServeQueue
    <3> QED
      BY <3>1 DEF JobTypes
  <2>3. CASE p # NrProcs
    <3>1. job' \in [step : {"init", "queue_all", "swap_off"}, at : Nat \ {0}] /\ job'.step = "queue_all"
      BY <1>1, <2>1, <2>3
    <3> QED
      BY <3>1 DEF JobTypes
  <2> QED
    BY <2>2, <2>3
<1>3. JobRight'
  BY <1>1, <1>2, JobForms DEF JobRight
<1>4. QueueGood(in_queue, proc, Len(in_queue) + 1) /\ \A i \in 1..Len(in_queue) : proc[in_queue[i]].swapin
  BY <1>1, AllWant DEF Walks
<1>5. swap_base' = swap_base
  BY <1>1 DEF area
<1>6. CASE p \in OnSwap
  BY <1>1, <1>2, <1>3, <1>6, QueuesOne DEF Walks
<1>7. CASE p \notin OnSwap
  <2>1. in_queue' = in_queue /\ proc' = proc
    BY <1>1, <1>7
  <2>2. ProcsRight(proc, swap_base)'
    BY <2>1, <1>5 DEF IInv
  <2>3. /\ ListRight(Table)' /\ AreaRight' /\ StartRight'
        /\ Shares(Free(holes), proc, Clicked(KnownChunks, swap_base, swap_len))'
    BY <1>1, <1>2, <2>1, MemoryQuiet
  <2>4. QueueGood(in_queue, proc, Unseen)'
    <3>1. QueueGood(in_queue, proc, Unseen')
      BY <1>4, QueueStays
    <3> QED
      BY <3>1, <2>1
  <2> QED
    BY <1>3, <2>2, <2>3, <2>4 DEF IInv
<1> QED
  BY <1>6, <1>7

(* Steps that change what MM does, and nothing else.                       *)
LEMMA JobChanges ==
  ASSUME IInv, job.step # "init", job'.step # "init", JobRight',
         \/ ~Walks
         \/ job.step = "swap_in" /\ job.at > Len(in_queue),
         UNCHANGED <<table, proc, in_queue, wf_mode, area>>
  PROVE  IInv'
<1>1. proc' = proc /\ in_queue' = in_queue /\ swap_base' = swap_base /\ UNCHANGED <<table, wf_mode, area>>
  BY DEF area
<1>2. /\ ListRight(Table)' /\ AreaRight' /\ StartRight'
      /\ Shares(Free(holes), proc, Clicked(KnownChunks, swap_base, swap_len))'
  BY <1>1, MemoryQuiet
<1>3. ProcsRight(proc, swap_base)'
  BY <1>1 DEF IInv
<1>4. QueueGood(in_queue, proc, Unseen)'
  <2>1. QueueGood(in_queue, proc, Unseen')
    BY AllWant, QueueStays
  <2> QED
    BY <2>1, <1>1
<1> QED
  BY <1>2, <1>3, <1>4 DEF IInv

(* swap_off goes on only with nobody on the swap area.                     *)
LEMMA AllInMemoryStep ==
  ASSUME IInv, AllInMemory
  PROVE  IInv'
<1>1. /\ job.step = "swap_in" /\ job.at > Len(in_queue)
      /\ job' = IF OnSwap # {} THEN ServeQueue ELSE [step |-> "swap_off", at |-> 1]
      /\ proc' = proc /\ holes' = holes /\ swap_len' = swap_len /\ swap_base' = swap_base
      /\ UNCHANGED <<table, proc, in_queue, wf_mode, area>> /\ outswap' = outswap
  BY DEF AllInMemory, queue, table, area
<1>2. JobRight' /\ job'.step # "init"
  <2>1. CASE OnSwap # {}
    BY <1>1, <2>1, JobForms, JobServes
  <2>2. CASE OnSwap = {}
    <3>1. job' = [step |-> "swap_off", at |-> 1] /\ OnSwap' = {}
      BY <1>1, <2>2 DEF OnSwap
    <3>2. job' \in JobTypes /\ job'.step = "swap_off" /\ job'.at = 1
      BY <3>1 DEF JobTypes
    <3>3. \A k \in 1..Len(holes') : ~(k < job'.at)
      BY <3>2
    <3> QED
      BY <1>1, <3>1, <3>2, <3>3, JobForms DEF JobRight
  <2> QED
    BY <2>1, <2>2
<1> QED
  BY <1>1, <1>2, JobChanges

(* swap_off begins.                                                        *)
LEMMA SwapOffStep ==
  ASSUME IInv, swap_off
  PROVE  IInv'
<1>1. /\ job.step = "idle" /\ job' = [step |-> "queue_all", at |-> 1] /\ outswap' = outswap
      /\ UNCHANGED <<table, proc, in_queue, wf_mode, area>>
  BY DEF swap_off, queue, Idle
<1>2. job' \in JobTypes /\ job'.step = "queue_all"
  BY <1>1 DEF JobTypes
<1>3. JobRight'
  BY <1>1, <1>2, JobForms DEF JobRight
<1> QED
  BY <1>1, <1>2, <1>3, JobChanges DEF Walks

(* fork() and exec() ask for memory.                                       *)
LEMMA AsksStep ==
  ASSUME IInv, NEW p \in Procs, NEW size \in Sizes, Fork(p, size) \/ Exec(p, size)
  PROVE  IInv'
<1>1. /\ job.step = "idle" /\ job' = [step |-> "alloc", for |-> p, size |-> size]
      /\ outswap' = outswap /\ proc' = proc
      /\ UNCHANGED <<table, proc, in_queue, wf_mode, area>>
  BY DEF Fork, Exec, queue, Idle
<1>2. job' \in JobTypes /\ job'.step = "alloc" /\ job'.for = p
  BY <1>1 DEF JobTypes
<1>3. ~proc[p].waiting /\ ~proc[p].reply /\ ~proc[p].onswap
  <2>1. CASE Fork(p, size)
    BY <2>1, ProcBounds DEF Fork
  <2>2. CASE Exec(p, size)
    BY <2>2 DEF Exec, Awake
  <2> QED
    BY <2>1, <2>2
<1>4. JobRight'
  BY <1>1, <1>2, <1>3, JobForms DEF JobRight
<1> QED
  BY <1>1, <1>2, <1>4, JobChanges DEF Walks

(* Who is on the swap area is queued for a signal.                         *)
LEMMA SignalStep ==
  ASSUME IInv, NEW p \in Procs, Signal(p)
  PROVE  IInv'
<1>1. /\ job.step = "idle" /\ p \in OnSwap /\ job' = ServeQueue /\ outswap' = outswap
      /\ in_queue' = swap_inqueue(p) /\ proc' = [proc EXCEPT ![p].swapin = TRUE]
      /\ UNCHANGED <<table, wf_mode, area>>
  BY DEF Signal, Idle, OnSwap
<1>2. JobRight' /\ job'.step # "init"
  BY <1>1, JobForms, JobServes
<1> QED
  BY <1>1, <1>2, QueuesOne DEF Walks

(* A free slot is all right, wherever the swap area is.                    *)
LEMMA NoProcRight ==
  ASSUME NEW base
  PROVE  NoProc \in Proc /\ ProcRight(NoProc, base)
BY DEF NoProc, Proc, ProcRight

(* A process that waits may be swapped out from now on.                    *)
LEMMA WaitStep ==
  ASSUME IInv, NEW p \in Procs, Wait(p)
  PROVE  IInv'
<1> DEFINE r == proc[p]
           s == [r EXCEPT !.waiting = TRUE]
<1>1. /\ job.step = "idle" /\ r.inuse /\ ~r.onswap /\ job' = ServeQueue /\ outswap' = outswap
      /\ proc' = [proc EXCEPT ![p] = s] /\ in_queue' = in_queue /\ swap_base' = swap_base
      /\ UNCHANGED <<table, wf_mode, area>>
  BY DEF Wait, Awake, queue, area, Idle
<1>2. r \in Proc /\ ProcRight(r, swap_base)
  BY DEF IInv, ProcsRight, ProcTypes
<1> HIDE DEF r
<1>3. /\ s \in Proc /\ s.inuse = r.inuse /\ s.waiting = TRUE /\ s.onswap = r.onswap
      /\ s.swapin = r.swapin /\ s.base = r.base /\ s.size = r.size /\ s.reply = r.reply
  BY <1>2 DEF Proc
<1> HIDE DEF s
<1>4. ProcRight(s, swap_base)
  BY <1>1, <1>2, <1>3 DEF ProcRight
<1>5. /\ ProcsRight(proc, swap_base)' /\ proc'[p] = s
      /\ \A q \in Procs : q # p => proc'[q] = proc[q]
  BY <1>1, <1>3, <1>4, OneProc
<1>6. \A q \in Procs : /\ proc'[q].base = proc[q].base /\ proc'[q].size = proc[q].size
                       /\ proc'[q].swapin = proc[q].swapin /\ proc'[q].inuse = proc[q].inuse
  BY <1>3, <1>5 DEF r
<1>7. JobRight' /\ Unseen' = 1 /\ job'.step # "init"
  BY <1>1, JobForms, JobServes
<1>8. /\ ListRight(Table)' /\ AreaRight' /\ StartRight'
      /\ Shares(Free(holes), proc, Clicked(KnownChunks, swap_base, swap_len))'
  BY <1>1, <1>6, <1>7, MemoryQuiet
<1>9. QueueGood(in_queue, proc, Unseen)'
  <2>1. QueueGood(in_queue, proc', 1)
    BY <1>6, QueueStays DEF IInv
  <2> QED
    BY <2>1, <1>1, <1>7
<1> QED
  BY <1>5, <1>7, <1>8, <1>9 DEF IInv

(* The call of p is answered; on the swap area p is queued, behind those   *)
(* that have been looked at.                                               *)
LEMMA Answers ==
  ASSUME IInv, job.step # "init", job'.step # "init", NEW p \in Procs, Answer(p),
         UNCHANGED <<table, wf_mode, area>>,
         \A i \in 1..Len(in_queue) : i < Unseen' => proc[in_queue[i]].swapin
  PROVE  /\ JobRight' => IInv'
         /\ proc'[p].onswap = proc[p].onswap /\ \A q \in Procs : q # p => proc'[q] = proc[q]
<1> DEFINE r == proc[p]
           s == [r EXCEPT !.waiting = FALSE, !.reply = TRUE, !.swapin = r.onswap]
<1>1. /\ r.waiting /\ proc' = [proc EXCEPT ![p] = s] /\ swap_base' = swap_base
      /\ in_queue' = IF r.onswap THEN swap_inqueue(p) ELSE in_queue
  BY DEF Answer, area
<1>2. r \in Proc /\ ProcRight(r, swap_base) /\ r.inuse
  BY <1>1, ProcBounds DEF IInv, ProcsRight, ProcTypes
<1> HIDE DEF r
<1>3. /\ s \in Proc /\ s.inuse = r.inuse /\ s.waiting = FALSE /\ s.onswap = r.onswap
      /\ s.swapin = r.onswap /\ s.base = r.base /\ s.size = r.size /\ s.reply = TRUE
  BY <1>2 DEF Proc
<1> HIDE DEF s
<1>4. ProcRight(s, swap_base)
  BY <1>1, <1>2, <1>3 DEF ProcRight
<1>5. /\ ProcsRight(proc, swap_base)' /\ proc'[p] = s
      /\ \A q \in Procs : q # p => proc'[q] = proc[q]
  BY <1>1, <1>3, <1>4, OneProc
<1>6. \A q \in Procs : proc'[q].base = proc[q].base /\ proc'[q].size = proc[q].size
  BY <1>3, <1>5 DEF r
<1>7. /\ ListRight(Table)' /\ AreaRight' /\ StartRight'
      /\ Shares(Free(holes), proc, Clicked(KnownChunks, swap_base, swap_len))'
  BY <1>6, MemoryQuiet
<1>8. QueueGood(in_queue, proc, Unseen) /\ (r.swapin => r.onswap)
  BY <1>2 DEF IInv, ProcRight
<1>9. QueueGood(in_queue, proc, Unseen)'
  <2>1. CASE r.onswap /\ ~r.swapin
    <3>1. in_queue' = Append(in_queue, p)
      BY <1>1, <2>1 DEF swap_inqueue, r
    <3>2. /\ proc[p].inuse /\ ~proc[p].swapin /\ proc'[p].swapin
          /\ \A x \in Procs : x # p => proc'[x] = proc[x]
      BY <1>2, <1>3, <1>5, <2>1 DEF r
    <3>3. QueueGood(Append(in_queue, p), proc', Unseen')
      BY <1>8, <3>2, QueueAppends
    <3> QED
      BY <3>1, <3>3
  <2>2. CASE ~(r.onswap /\ ~r.swapin)
    <3>1. in_queue' = in_queue
      BY <1>1, <2>2 DEF swap_inqueue, r
    <3>2. \A x \in Procs : proc'[x].swapin = proc[x].swapin /\ proc'[x].inuse = proc[x].inuse
      BY <1>2, <1>3, <1>5, <1>8, <2>2 DEF r, Proc
    <3>3. \A i \in 1..Len(in_queue) : in_queue[i] \in Procs
      BY <1>8, ElementOfSeq DEF QueueGood
    <3>4. QueueGood(in_queue, proc', Unseen')
      BY <1>8, <3>2, <3>3, QueueStays
    <3> QED
      BY <3>1, <3>4
  <2> QED
    BY <2>1, <2>2
<1> QED
  BY <1>3, <1>5, <1>7, <1>9 DEF IInv, r

(* A child exits, or a signal interrupts the call.                         *)
LEMMA WakeUpStep ==
  ASSUME IInv, NEW p \in Procs, WakeUp(p)
  PROVE  IInv'
<1>1. /\ job.step = "idle" /\ Answer(p) /\ job' = ServeQueue /\ outswap' = outswap
      /\ UNCHANGED <<table, wf_mode, area>>
  BY DEF WakeUp, Idle
<1>2. JobRight' /\ Unseen' = 1 /\ job'.step # "init"
  BY <1>1, JobForms, JobServes
<1>3. \A i \in 1..Len(in_queue) : ~(i < Unseen')
  BY <1>2
<1> QED
  BY <1>1, <1>2, <1>3, Answers

(* So it is for the one that has come back, or the parent of one that got  *)
(* killed.                                                                 *)
LEMMA InterruptStep ==
  ASSUME IInv, NEW p \in Procs, Interrupt(p)
  PROVE  IInv'
<1>1. /\ job.step = "check_pending" /\ Answer(p) /\ job' = job /\ outswap' = outswap
      /\ UNCHANGED <<table, wf_mode, area>>
  BY DEF Interrupt
<1>2. Unseen' = Unseen /\ \A i \in 1..Len(in_queue) : i < Unseen => proc[in_queue[i]].swapin
  BY <1>1 DEF Unseen, Walks, IInv, QueueGood
<1>3. /\ JobRight' => IInv'
      /\ proc'[p].onswap = proc[p].onswap /\ \A q \in Procs : q # p => proc'[q] = proc[q]
  BY <1>1, <1>2, Answers
<1>4. job.for \in Procs /\ ~proc[job.for].onswap /\ job \in JobTypes /\ outswap \in Procs
  BY <1>1, JobForms DEF IInv, JobRight
<1>5. JobRight'
  BY <1>1, <1>3, <1>4 DEF JobRight
<1> QED
  BY <1>3, <1>5

(* Back to the queue.                                                      *)
LEMMA CheckedStep ==
  ASSUME IInv, Checked
  PROVE  IInv'
<1>1. /\ job.step = "check_pending" /\ job' = [step |-> "swap_in", at |-> job.at, then |-> job.then]
      /\ proc' = proc /\ in_queue' = in_queue
      /\ outswap' = outswap /\ UNCHANGED <<table, wf_mode, area>>
  BY DEF Checked, queue
<1>2. /\ job'.step = "swap_in" /\ job'.at = job.at
      /\ job' \in [step : {"swap_in"}, at : Nat \ {0}, then : {"idle", "swap_off"}]
  BY <1>1, JobForms
<1>3. JobRight'
  BY <1>1, <1>2, JobForms DEF JobRight, JobTypes
<1>4. /\ ListRight(Table)' /\ AreaRight' /\ StartRight'
      /\ Shares(Free(holes), proc, Clicked(KnownChunks, swap_base, swap_len))'
  BY <1>1, <1>2, MemoryQuiet
<1>5. ProcsRight(proc, swap_base)'
  BY <1>1 DEF IInv, area
<1>6. QueueGood(in_queue, proc, Unseen)'
  BY <1>1, <1>2 DEF IInv, Unseen, Walks
<1> QED
  BY <1>3, <1>4, <1>5, <1>6 DEF IInv

(* The memory of a process that ends is free, in memory or on the swap     *)
(* area.                                                                   *)
LEMMA EndsOne ==
  ASSUME IInv, job.step # "init", job'.step # "init", NEW p \in Procs, Ends(p),
         in_queue' = in_queue, UNCHANGED <<wf_mode, area>>,
         \A i \in 1..Len(in_queue) : i < Unseen' => proc[in_queue[i]].swapin /\ in_queue[i] # p
  PROVE  /\ JobRight' => IInv'
         /\ proc'[p] = NoProc /\ \A q \in Procs : q # p => proc'[q] = proc[q]
<1> DEFINE u == free_mem(Table, proc[p].base, proc[p].size)
           pool == Clicked(KnownChunks, swap_base, swap_len)
<1>1. /\ holes' = u.holes /\ free_slots' = u.slots /\ proc' = [proc EXCEPT ![p] = NoProc]
      /\ swap_base' = swap_base /\ swap_len' = swap_len /\ swapping' = swapping /\ wf_mode' = wf_mode
  BY DEF Ends, area, SetTable
<1> HIDE DEF u, pool
<1>2. ListRight(u) /\ Free(u.holes) = Free(holes) \cup Seg(proc, p)
  <2>1. MemoryRight(Table, proc, pool) /\ Table.holes = holes
    BY Shared DEF pool
  <2>2. ListRight(u) /\ Free(u.holes) = Free(Table.holes) \cup Seg(proc, p)
    BY <2>1, GiveBack DEF u
  <2> QED
    BY <2>1, <2>2
<1>3. Table' = u
  BY <1>1, <1>2, SetTableIs DEF ListRight
<1>4. /\ ProcsRight(proc, swap_base)' /\ proc'[p] = NoProc /\ proc' \in ProcTypes
      /\ \A q \in Procs : q # p => proc'[q] = proc[q]
  BY <1>1, NoProcRight, OneProc
<1>5. Seg(proc', p) = {} /\ \A q \in Procs : q # p => Seg(proc', q) = Seg(proc, q)
  BY <1>4 DEF Seg, NoProc, Clicks
<1>6. Shares(Free(u.holes), proc', pool)
  <2>1. Shares(Free(holes), proc, pool) /\ proc \in ProcTypes
    BY Shared DEF pool
  <2>2. {} \in SUBSET Free(holes)
    OBVIOUS
  <2>3. Shares((Free(holes) \ {}) \cup Seg(proc, p), proc', pool)
    BY <1>4, <1>5, <2>1, <2>2, Exchange
  <2>4. Free(holes) \ {} = Free(holes)
    OBVIOUS
  <2> QED
    BY <2>3, <2>4, <1>2
<1>7. AreaRight' /\ StartRight' /\ KnownChunks' = KnownChunks
  BY <1>1, Quiet
<1>8. QueueGood(in_queue, proc, Unseen)'
  <2>1. ~proc'[p].swapin /\ ~proc'[p].inuse
    BY <1>4 DEF NoProc
  <2>2. QueueGood(in_queue, proc, Unseen) /\ \A i \in 1..Len(in_queue) : in_queue[i] \in Procs
    BY ElementOfSeq DEF IInv, QueueGood
  <2>3. QueueGood(in_queue, proc', Unseen')
    BY <2>1, <2>2, <1>4, QueueStays
  <2> QED
    BY <2>3
<1>9. Shares(Free(holes), proc, Clicked(KnownChunks, swap_base, swap_len))'
  BY <1>1, <1>6, <1>7 DEF pool
<1> QED
  BY <1>2, <1>3, <1>4, <1>7, <1>8, <1>9 DEF IInv

(* A process ends, or is killed, between calls.                            *)
LEMMA ExitStep ==
  ASSUME IInv, NEW p \in Procs, Exit(p)
  PROVE  IInv'
<1>1. /\ job.step = "idle" /\ Ends(p) /\ job' = ServeQueue /\ outswap' = outswap
      /\ in_queue' = in_queue /\ UNCHANGED <<wf_mode, area>>
  BY DEF Exit, queue, Idle
<1>2. JobRight' /\ Unseen' = 1 /\ job'.step # "init"
  BY <1>1, JobForms, JobServes
<1>3. \A i \in 1..Len(in_queue) : ~(i < Unseen')
  BY <1>2
<1> QED
  BY <1>1, <1>2, <1>3, EndsOne

(* The one that has come back is killed: it is on the queue no more.       *)
LEMMA KillStep ==
  ASSUME IInv, Kill
  PROVE  IInv' /\ job.for \in Procs
<1>1. PICK p : p = job.for
  OBVIOUS
<1>2. /\ job.step = "check_pending" /\ Ends(p) /\ job' = job /\ outswap' = outswap
      /\ in_queue' = in_queue /\ UNCHANGED <<wf_mode, area>>
  BY <1>1 DEF Kill, queue
<1>3. p \in Procs /\ ~proc[p].onswap /\ ~proc[p].swapin /\ job \in JobTypes /\ outswap \in Procs
  <2>1. p \in Procs /\ ~proc[p].onswap
    BY <1>1, <1>2, JobForms DEF IInv, JobRight
  <2> QED
    BY <2>1, JobForms DEF IInv, ProcsRight, ProcRight
<1>4. Unseen' = Unseen /\ \A i \in 1..Len(in_queue) : i < Unseen => proc[in_queue[i]].swapin
  BY <1>2 DEF Unseen, Walks, IInv, QueueGood
<1>5. /\ JobRight' => IInv'
      /\ proc'[p] = NoProc /\ \A q \in Procs : q # p => proc'[q] = proc[q]
  BY <1>2, <1>3, <1>4, EndsOne
<1>6. JobRight'
  BY <1>1, <1>2, <1>3, <1>5 DEF JobRight, NoProc
<1> QED
  BY <1>1, <1>3, <1>5, <1>6

(* p gets clicks that were free, and nobody else loses any.                *)
Takes(p, size) ==
  /\ proc'[p].size = size /\ Seg(proc, p)' \subseteq Free(holes)
  /\ \A q \in Procs : q # p => proc'[q] = proc[q]

(* p moves to the first clicks of hole k and becomes s.                    *)
MovesTo(p, k, size, s) ==
  /\ job.step # "init" /\ job'.step # "init"
  /\ p \in Procs /\ k \in 1..Len(holes) /\ size \in Sizes /\ size <= holes[k].len
  /\ SetTable(free_mem(Bite(Table, k - 1, k, size), proc[p].base, proc[p].size))
  /\ s \in Proc /\ ProcRight(s, swap_base) /\ s.base = holes[k].base /\ s.size = size
  /\ proc' = [proc EXCEPT ![p] = s] /\ UNCHANGED <<wf_mode, area>>

(* The parts of the invariant that are about memory, after p has moved.    *)
HasMoved(p, size, s) ==
  /\ ListRight(Table)' /\ AreaRight' /\ StartRight' /\ ProcsRight(proc, swap_base)'
  /\ Shares(Free(holes), proc, Clicked(KnownChunks, swap_base, swap_len))'
  /\ Takes(p, size) /\ proc'[p] = s

(* They are right.                                                         *)
LEMMA MovesRight ==
  ASSUME IInv, NEW p, NEW k, NEW size, NEW s, MovesTo(p, k, size, s)
  PROVE  HasMoved(p, size, s)
<1>0. /\ job.step # "init" /\ job'.step # "init"
      /\ p \in Procs /\ k \in 1..Len(holes) /\ size \in Sizes /\ size <= holes[k].len
      /\ SetTable(free_mem(Bite(Table, k - 1, k, size), proc[p].base, proc[p].size))
      /\ s \in Proc /\ ProcRight(s, swap_base) /\ s.base = holes[k].base /\ s.size = size
      /\ proc' = [proc EXCEPT ![p] = s] /\ UNCHANGED <<wf_mode, area>>
  BY DEF MovesTo
<1>1. swap_base' = swap_base /\ swap_len' = swap_len /\ swapping' = swapping /\ wf_mode' = wf_mode
  BY <1>0 DEF area
<1>2. AreaRight' /\ StartRight' /\ KnownChunks' = KnownChunks
  BY <1>0, <1>1, Quiet
<1>3. /\ ProcsRight(proc, swap_base)' /\ proc' \in ProcTypes
      /\ proc'[p] = s /\ \A q \in Procs : q # p => proc'[q] = proc[q]
  BY <1>0, <1>1, OneProc
<1>4. /\ proc'[p].base = holes[k].base /\ proc'[p].size = size
      /\ \A q \in Procs : q # p => proc'[q].base = proc[q].base /\ proc'[q].size = proc[q].size
  BY <1>0, <1>3
<1>5. /\ ListRight(Table)'
      /\ Shares(Free(holes), proc, Clicked(KnownChunks, swap_base, swap_len))'
      /\ Seg(proc, p)' \subseteq Free(holes)
  BY <1>0, <1>1, <1>2, <1>3, <1>4, MoveTo
<1> QED
  BY <1>2, <1>3, <1>4, <1>5 DEF Takes, HasMoved

(* A sleeping process moves to a hole of the swap area; its memory becomes *)
(* free.                                                                   *)
LEMMA SwapOutsStep ==
  ASSUME IInv, swap_out
  PROVE  /\ IInv' /\ NextOut \in Candidates /\ NextOut \in Procs
         /\ Takes(NextOut, proc[NextOut].size)
         /\ proc'[NextOut].waiting = proc[NextOut].waiting /\ proc'[NextOut].onswap
<1>1. PICK p : p = NextOut
  OBVIOUS
<1>2. PICK k : k = Least(SwapHoles(proc[p].size))
  OBVIOUS
<1> DEFINE r == proc[p]
           s == [r EXCEPT !.base = holes[k].base, !.onswap = TRUE]
<1>3. /\ job.step = "alloc" \/ (job.step = "swap_in" /\ job.at <= Len(in_queue))
      /\ Candidates # {}
      /\ SetTable(free_mem(Bite(Table, k - 1, k, proc[p].size), proc[p].base, proc[p].size))
      /\ proc' = [proc EXCEPT ![p] = s] /\ job' = job
      /\ outswap' = p /\ in_queue' = in_queue /\ UNCHANGED <<wf_mode, area>>
  BY <1>1, <1>2 DEF swap_out, Allocates, SwapsIn, CanSwapOut
<1>4. p \in Candidates /\ p \in Procs /\ r.waiting /\ ~r.reply /\ ~r.onswap
  BY <1>1, <1>3, NextOutWaits DEF Candidates
<1>5. k \in 1..Len(holes) /\ holes[k].base >= swap_base /\ holes[k].len >= proc[p].size
  BY <1>1, <1>2, <1>3, NextOutWaits
<1>6. r \in Proc /\ ProcRight(r, swap_base) /\ r.inuse /\ r.size \in Sizes
  <2>1. r \in Proc /\ ProcRight(r, swap_base) /\ r.inuse
    BY <1>4, ProcBounds DEF IInv, ProcsRight, ProcTypes
  <2> QED
    BY <2>1 DEF ProcRight
<1>7. holes[k].base \in Nat /\ holes[k].len \in Nat
  BY <1>5, HoleBounds
<1> HIDE DEF r
<1>8. /\ s \in Proc /\ s.inuse = r.inuse /\ s.waiting = r.waiting /\ s.onswap = TRUE
      /\ s.swapin = r.swapin /\ s.base = holes[k].base /\ s.size = r.size /\ s.reply = r.reply
  BY <1>6, <1>7 DEF Proc
<1> HIDE DEF s
<1>9. ProcRight(s, swap_base)
  BY <1>4, <1>5, <1>6, <1>8 DEF ProcRight
<1>10. r.size <= holes[k].len /\ r.size = proc[p].size
  <2>1. r.size \in Nat
    BY <1>6, AllocatorAssumption
  <2> QED
    BY <2>1, <1>5, <1>7 DEF r
<1>11. /\ ListRight(Table)' /\ AreaRight' /\ StartRight' /\ ProcsRight(proc, swap_base)'
       /\ Shares(Free(holes), proc, Clicked(KnownChunks, swap_base, swap_len))'
       /\ Takes(p, r.size) /\ proc'[p] = s
  <2>1. /\ SetTable(free_mem(Bite(Table, k - 1, k, r.size), proc[p].base, proc[p].size))
        /\ job.step # "init" /\ job'.step # "init"
    BY <1>3, <1>10
  <2>2. MovesTo(p, k, r.size, s)
    BY <2>1, <1>3, <1>4, <1>5, <1>6, <1>8, <1>9, <1>10 DEF MovesTo
  <2> QED
    BY <2>2, MovesRight DEF HasMoved
<1>12. JobRight'
  <2>1. ASSUME job.step = "alloc"
        PROVE  ~proc'[job.for].waiting /\ ~proc'[job.for].reply /\ ~proc'[job.for].onswap
    <3>1. job.for \in Procs /\ ~proc[job.for].waiting /\ ~proc[job.for].reply /\ ~proc[job.for].onswap
      BY <2>1, JobForms DEF IInv, JobRight
    <3>2. job.for # p
      BY <3>1, <1>4 DEF r
    <3>3. proc'[job.for] = proc[job.for]
      BY <3>1, <3>2, <1>11 DEF Takes
    <3> QED
      BY <3>1, <3>3
  <2> QED
    BY <2>1, <1>3, <1>4, JobForms DEF JobRight
<1>13. QueueGood(in_queue, proc, Unseen)'
  <2>1. Unseen' = Unseen
    BY <1>3 DEF Unseen, Walks
  <2>2. \A q \in Procs : proc'[q].swapin = proc[q].swapin /\ proc'[q].inuse = proc[q].inuse
    BY <1>8, <1>11 DEF Takes, r
  <2>3. QueueGood(in_queue, proc, Unseen) /\ \A i \in 1..Len(in_queue) : in_queue[i] \in Procs
    BY ElementOfSeq DEF IInv, QueueGood
  <2>4. \A i \in 1..Len(in_queue) : i < Unseen => proc'[in_queue[i]].swapin
    BY <2>2, <2>3 DEF QueueGood
  <2>5. QueueGood(in_queue, proc', Unseen)
    BY <2>2, <2>3, <2>4, QueueStays
  <2> QED
    BY <2>1, <2>5, <1>3
<1>14. IInv'
  BY <1>11, <1>12, <1>13 DEF IInv
<1> QED
  BY <1>1, <1>4, <1>8, <1>10, <1>11, <1>14 DEF r

(* fork and exec get memory; exec gives back the old.                      *)
LEMMA AllocateStep ==
  ASSUME IInv, Allocate
  PROVE  /\ IInv' /\ job.for \in Procs /\ job.size \in Sizes /\ Takes(job.for, job.size)
         /\ ~proc[job.for].waiting /\ ~proc[job.for].onswap
         /\ ~proc'[job.for].waiting /\ ~proc'[job.for].onswap
<1>1. PICK p : p = job.for
  OBVIOUS
<1>2. PICK size : size = job.size
  OBVIOUS
<1>3. PICK k : k = Chosen(size)
  OBVIOUS
<1> DEFINE r == proc[p]
           s == [r EXCEPT !.inuse = TRUE, !.base = holes[k].base, !.size = size]
<1>4. /\ job.step = "alloc" /\ Fitting(size) # {}
      /\ SetTable(free_mem(Bite(Table, k - 1, k, size), proc[p].base, proc[p].size))
      /\ proc' = [proc EXCEPT ![p] = s] /\ job' = ServeQueue
      /\ outswap' = outswap /\ in_queue' = in_queue /\ UNCHANGED <<wf_mode, area>>
  BY <1>1, <1>2, <1>3 DEF Allocate, alloc_mem, queue
<1>5. /\ p \in Procs /\ size \in Sizes /\ size \in Nat /\ size # 0
      /\ ~r.waiting /\ ~r.reply /\ ~r.onswap
  <2>1. p \in Procs /\ size \in Sizes
    BY <1>1, <1>2, <1>4, JobForms
  <2> QED
    BY <2>1, <1>1, <1>4, AllocatorAssumption DEF IInv, JobRight
<1>6. k \in 1..Len(holes) /\ holes[k].len >= size /\ holes[k].base < swap_base
  BY <1>3, <1>4, ChosenFits
<1>7. r \in Proc /\ ProcRight(r, swap_base)
  BY <1>5 DEF IInv, ProcsRight, ProcTypes
<1>8. holes[k].base \in Nat /\ holes[k].len \in Nat /\ swap_base \in Nat
  BY <1>6, HoleBounds, Shared
<1> HIDE DEF r
<1>9. /\ s \in Proc /\ s.inuse = TRUE /\ s.waiting = r.waiting /\ s.onswap = r.onswap
      /\ s.swapin = r.swapin /\ s.base = holes[k].base /\ s.size = size /\ s.reply = r.reply
  BY <1>5, <1>7, <1>8 DEF Proc
<1> HIDE DEF s
<1>10. ProcRight(s, swap_base)
  BY <1>5, <1>6, <1>7, <1>8, <1>9 DEF ProcRight
<1>11. JobRight' /\ Unseen' = 1 /\ job'.step # "init"
  BY <1>4, JobForms, JobServes
<1>12. /\ ListRight(Table)' /\ AreaRight' /\ StartRight' /\ ProcsRight(proc, swap_base)'
       /\ Shares(Free(holes), proc, Clicked(KnownChunks, swap_base, swap_len))'
       /\ Takes(p, size) /\ proc'[p] = s
  <2>1. size <= holes[k].len /\ job.step # "init"
    BY <1>4, <1>5, <1>6, <1>8
  <2>2. MovesTo(p, k, size, s)
    BY <2>1, <1>4, <1>5, <1>6, <1>9, <1>10, <1>11 DEF MovesTo
  <2> QED
    BY <2>2, MovesRight DEF HasMoved
<1>13. QueueGood(in_queue, proc, Unseen)'
  <2>1. \A q \in Procs : proc'[q].swapin = proc[q].swapin
    BY <1>9, <1>12 DEF Takes, r
  <2>2. QueueGood(in_queue, proc, Unseen) /\ \A i \in 1..Len(in_queue) : in_queue[i] \in Procs
    BY ElementOfSeq DEF IInv, QueueGood
  <2>3. \A i \in 1..Len(in_queue) : proc'[in_queue[i]].swapin
    BY <1>4, <2>1, <2>2, AllWant DEF Walks
  <2>4. QueueGood(in_queue, proc', 1)
    BY <2>1, <2>2, <2>3, QueueStays
  <2> QED
    BY <2>4, <1>4, <1>11
<1>14. IInv'
  BY <1>11, <1>12, <1>13 DEF IInv
<1> QED
  BY <1>1, <1>2, <1>5, <1>9, <1>12, <1>14 DEF r

(* A process of the queue moves from the swap area to a hole in memory.    *)
LEMMA BringInStep ==
  ASSUME IInv, BringIn
  PROVE  /\ IInv' /\ Incoming \in Procs /\ Takes(Incoming, proc[Incoming].size)
         /\ proc[Incoming].onswap
         /\ proc'[Incoming].waiting = proc[Incoming].waiting /\ ~proc'[Incoming].onswap
<1>1. PICK p : p = Incoming
  OBVIOUS
<1>2. PICK k : k = Chosen(proc[p].size)
  OBVIOUS
<1> DEFINE r == proc[p]
           s == [r EXCEPT !.base = holes[k].base, !.onswap = FALSE, !.swapin = FALSE]
<1>3. /\ job.step = "swap_in" /\ job.at <= Len(in_queue) /\ r.swapin /\ Fitting(r.size) # {}
      /\ SetTable(free_mem(Bite(Table, k - 1, k, r.size), proc[p].base, proc[p].size))
      /\ proc' = [proc EXCEPT ![p] = s]
      /\ job' = [step |-> "check_pending", at |-> job.at, then |-> job.then, for |-> p]
      /\ outswap' = outswap /\ in_queue' = RemoveAt(in_queue, job.at) /\ UNCHANGED <<wf_mode, area>>
  BY <1>1, <1>2 DEF BringIn, alloc_mem, Wanted, SwapsIn
<1>4. job.at \in 1..Len(in_queue) /\ QueueGood(in_queue, proc, job.at)
  <2>1. Len(in_queue) \in Nat /\ job.at \in Nat \ {0}
    BY <1>3, JobForms, LenProperties DEF IInv, QueueGood
  <2> QED
    BY <2>1, <1>3 DEF IInv, Unseen, Walks
<1>5. p \in Procs /\ p = in_queue[job.at]
  BY <1>1, <1>4, ElementOfSeq DEF QueueGood, Incoming
<1>6. r \in Proc /\ ProcRight(r, swap_base) /\ r.inuse /\ r.size \in Sizes /\ r.onswap
  <2>1. r \in Proc /\ ProcRight(r, swap_base) /\ r.inuse
    BY <1>3, <1>5, ProcBounds DEF IInv, ProcsRight, ProcTypes
  <2> QED
    BY <2>1, <1>3 DEF ProcRight
<1>7. k \in 1..Len(holes) /\ holes[k].len >= r.size /\ holes[k].base < swap_base
  BY <1>2, <1>3, ChosenFits
<1>8. holes[k].base \in Nat /\ holes[k].len \in Nat /\ swap_base \in Nat /\ r.size \in Nat
  BY <1>6, <1>7, HoleBounds, Shared, AllocatorAssumption
<1> HIDE DEF r
<1>9. /\ s \in Proc /\ s.inuse = r.inuse /\ s.waiting = r.waiting /\ s.onswap = FALSE
      /\ s.swapin = FALSE /\ s.base = holes[k].base /\ s.size = r.size /\ s.reply = r.reply
  BY <1>6, <1>8 DEF Proc
<1> HIDE DEF s
<1>10. ProcRight(s, swap_base)
  BY <1>6, <1>7, <1>8, <1>9 DEF ProcRight
<1>11. /\ ListRight(Table)' /\ AreaRight' /\ StartRight' /\ ProcsRight(proc, swap_base)'
       /\ Shares(Free(holes), proc, Clicked(KnownChunks, swap_base, swap_len))'
       /\ Takes(p, r.size) /\ proc'[p] = s
  <2>1. r.size <= holes[k].len /\ job.step # "init" /\ job'.step # "init"
    BY <1>3, <1>7, <1>8
  <2>2. MovesTo(p, k, r.size, s)
    BY <2>1, <1>3, <1>5, <1>6, <1>7, <1>9, <1>10 DEF MovesTo
  <2> QED
    BY <2>2, MovesRight DEF HasMoved
<1>12. JobRight'
  <2>1. job' \in JobTypes /\ job'.step = "check_pending" /\ job'.for = p
    BY <1>3, <1>5, JobForms DEF JobTypes
  <2> QED
    BY <2>1, <1>3, <1>9, <1>11, JobForms DEF JobRight
<1>13. QueueGood(in_queue, proc, Unseen)'
  <2>1. ~proc'[in_queue[job.at]].swapin
    BY <1>5, <1>9, <1>11
  <2>2. \A x \in Procs : x # in_queue[job.at] => proc'[x] = proc[x]
    BY <1>5, <1>11 DEF Takes
  <2>3. QueueGood(RemoveAt(in_queue, job.at), proc', job.at)
    BY <2>1, <2>2, <1>4, QueueRemoves
  <2> QED
    BY <2>3, <1>3 DEF Unseen, Walks
<1>14. IInv'
  BY <1>11, <1>12, <1>13 DEF IInv
<1> QED
  BY <1>1, <1>5, <1>6, <1>9, <1>11, <1>14 DEF r

(* The modes are not mixed.                                                *)
LEMMA WorstFitStep ==
  ASSUME IInv, ModesMix = FALSE, NEW mode \in BOOLEAN, do_worst_fit(mode)
  PROVE  IInv'
<1>1. /\ job.step = "idle" /\ (mode => ~swapping) /\ wf_mode' = mode /\ job' = ServeQueue
      /\ holes' = holes /\ free_slots' = free_slots /\ proc' = proc /\ in_queue' = in_queue
      /\ outswap' = outswap /\ swap_base' = swap_base /\ swap_len' = swap_len /\ swapping' = swapping
  BY DEF do_worst_fit, table, queue, area, Idle
<1>2. JobRight' /\ Unseen' = 1 /\ job'.step # "init"
  BY <1>1, JobForms, JobServes
<1>3. AreaRight'
  BY <1>1 DEF IInv, AreaRight
<1>4. StartRight' /\ KnownChunks' = KnownChunks
  BY <1>1, <1>2 DEF IInv, StartRight, KnownChunks
<1>5. Table' = Table
  BY <1>1 DEF Table
<1>6. QueueGood(in_queue, proc, Unseen)'
  <2>1. QueueGood(in_queue, proc, 1)
    BY QueueStays DEF IInv
  <2> QED
    BY <2>1, <1>1, <1>2
<1>7. /\ ListRight(Table)' /\ ProcsRight(proc, swap_base)'
      /\ Shares(Free(holes), proc, Clicked(KnownChunks, swap_base, swap_len))'
  BY <1>1, <1>4, <1>5 DEF IInv
<1> QED
  BY <1>2, <1>3, <1>4, <1>6, <1>7 DEF IInv

(* The pool grows by the swap area, which is behind all chunks.            *)
LEMMA SwapOnStep ==
  ASSUME IInv, ModesMix = FALSE, NEW size \in SwapSizes, swap_on(size)
  PROVE  IInv'
<1> DEFINE clicks == IF size > swap_maxsize THEN swap_maxsize ELSE size
           pool == Clicked(KnownChunks, swap_base, swap_len)
           u == free_mem(Table, swap_base, clicks)
<1>1. /\ job.step = "idle" /\ ~swapping /\ ~wf_mode /\ holes' = u.holes /\ free_slots' = u.slots
      /\ swapping' = TRUE /\ swap_len' = clicks /\ job' = ServeQueue
      /\ proc' = proc /\ in_queue' = in_queue /\ outswap' = outswap
      /\ wf_mode' = wf_mode /\ swap_base' = swap_base
  BY DEF swap_on, SetTable, queue, Idle, IInv, AreaRight
<1>2. /\ swap_base \in Nat /\ clicks \in Nat /\ swap_base + clicks <= MaxClick /\ swap_len = 0
  <2>1. size \in Nat /\ MaxClick \in Nat
    BY AllocatorAssumption
  <2>2. swap_base \in Nat /\ swap_len \in Nat /\ swap_base + swap_len <= MaxClick /\ swap_len = 0
    BY <1>1 DEF IInv, AreaRight
  <2> QED
    BY <2>1, <2>2 DEF swap_maxsize
<1> HIDE DEF clicks
<1>3. Clicks(swap_base, clicks) \cap pool = {}
  <2> SUFFICES ASSUME NEW c \in Clicks(swap_base, clicks), c \in pool PROVE FALSE
    OBVIOUS
  <2>1. c >= swap_base
    BY <1>2 DEF Clicks
  <2> QED
    BY <2>1, <1>1, <1>2, PoolBound
<1> HIDE DEF pool, u
<1>4. ListRight(u) /\ Shares(Free(u.holes), proc, pool \cup Clicks(swap_base, clicks))
  <2>1. MemoryRight(Table, proc, pool)
    BY Shared DEF pool
  <2> QED
    BY <2>1, <1>2, <1>3, GrowPool DEF u
<1>5. Table' = u
  BY <1>1, <1>4, SetTableIs DEF ListRight
<1>6. JobRight' /\ Unseen' = 1 /\ job'.step # "init"
  BY <1>1, JobForms, JobServes
<1>7. AreaRight'
  <2>1. wf_mode \in BOOLEAN
    BY DEF IInv, AreaRight
  <2> QED
    BY <2>1, <1>1, <1>2 DEF AreaRight
<1>8. StartRight' /\ KnownChunks' = KnownChunks
  BY <1>1, <1>6 DEF IInv, StartRight, KnownChunks
<1>9. Clicked(KnownChunks, swap_base, clicks) = pool \cup Clicks(swap_base, clicks)
  <2>1. Clicks(swap_base, swap_len) = {} /\ Clicks(swap_base, clicks) \subseteq Nat
    BY <1>2 DEF Clicks
  <2> QED
    BY <2>1 DEF Clicked, pool
<1>10. /\ ListRight(Table)' /\ ProcsRight(proc, swap_base)'
       /\ Shares(Free(holes), proc, Clicked(KnownChunks, swap_base, swap_len))'
  BY <1>1, <1>4, <1>5, <1>8, <1>9 DEF IInv
<1>11. QueueGood(in_queue, proc, Unseen)'
  <2>1. QueueGood(in_queue, proc, 1)
    BY QueueStays DEF IInv
  <2> QED
    BY <2>1, <1>1, <1>6
<1> QED
  BY <1>6, <1>7, <1>8, <1>10, <1>11 DEF IInv

(* Another chunk of memory.                                                *)
LEMMA ChunkStep ==
  ASSUME IInv, mem_init, job.at <= Len(Chunks)
  PROVE  IInv'
<1> DEFINE i == job.at
           c == Chunks[i]
           pool == Clicked(KnownChunks, swap_base, swap_len)
           u == free_mem(Table, c.base, c.len)
<1>1. job.step = "init" /\ i \in 1..Len(Chunks) /\ KnownChunks = i - 1 /\ Len(Chunks) \in Nat
  <2>1. job.step = "init"
    BY DEF mem_init
  <2>2. Len(Chunks) \in Nat
    BY AllocatorAssumption, LenProperties
  <2> QED
    BY <2>1, <2>2 DEF IInv, StartRight, KnownChunks
<1>2. /\ holes' = u.holes /\ free_slots' = u.slots
      /\ swap_base' = (IF swap_base < ChunkEnd(i) THEN ChunkEnd(i) ELSE swap_base)
      /\ job' = [job EXCEPT !.at = @ + 1]
      /\ UNCHANGED <<proc, queue, wf_mode, swapping, swap_len>>
  BY <1>1 DEF mem_init, SetTable, ChunkEnd
<1>3. /\ c.base \in Nat /\ c.len \in Nat /\ ChunkEnd(i) \in Nat /\ ChunkEnd(i) < MaxClick
      /\ ChunkEnd(i) = c.base + c.len
  BY <1>1, ChunkTypes DEF ChunkEnd
<1>4. /\ swap_base \in Nat /\ swap_len = 0 /\ ~swapping /\ ~wf_mode /\ swap_base < MaxClick
      /\ \A j \in 1..i - 1 : ChunkEnd(j) <= swap_base
      /\ proc = [p \in Procs |-> NoProc] /\ in_queue = <<>>
  BY <1>1 DEF IInv, AreaRight, StartRight
<1> HIDE DEF i, c
<1>5. ASSUME NEW x \in Nat
      PROVE  x \in pool <=> \E j \in 1..i - 1 : x \in Clicks(Chunks[j].base, Chunks[j].len)
  <2>1. Clicks(swap_base, swap_len) = {}
    BY <1>4 DEF Clicks
  <2> QED
    BY <2>1, <1>1 DEF Clicked
<1>6. Clicks(c.base, c.len) \cap pool = {}
  <2> SUFFICES ASSUME NEW x \in Clicks(c.base, c.len), x \in pool PROVE FALSE
    OBVIOUS
  <2>0. x \in Nat
    BY <1>3 DEF Clicks
  <2>1. PICK j \in 1..i - 1 : x \in Clicks(Chunks[j].base, Chunks[j].len)
    BY <2>0, <1>5
  <2>2. j \in 1..Len(Chunks) /\ j # i
    BY <1>1
  <2>3. Chunks[j].base \in Nat /\ Chunks[j].len \in Nat
    BY <2>2, ChunkTypes
  <2>4. c.base + c.len <= Chunks[j].base \/ Chunks[j].base + Chunks[j].len <= c.base
    <3>1. DOMAIN Chunks = 1..Len(Chunks)
      BY AllocatorAssumption, LenProperties
    <3> QED
      BY <3>1, <2>2, <1>1, AllocatorAssumption DEF c
  <2> QED
    BY <2>0, <2>1, <2>3, <2>4, <1>3, SMTT(30) DEF Clicks
<1> HIDE DEF pool, u
<1>7. ListRight(u) /\ Shares(Free(u.holes), proc, pool \cup Clicks(c.base, c.len))
  <2>1. MemoryRight(Table, proc, pool)
    BY Shared DEF pool
  <2> QED
    BY <2>1, <1>3, <1>6, GrowPool DEF u
<1>8. Table' = u
  BY <1>2, <1>7, SetTableIs DEF ListRight
<1>9. /\ job' \in [step : {"init", "queue_all", "swap_off"}, at : Nat \ {0}]
      /\ job'.step = "init" /\ job'.at = i + 1
  BY <1>1, <1>2, JobForms DEF i
<1>10. /\ swap_base' \in Nat /\ swap_base' < MaxClick /\ swap_base' >= ChunkEnd(i)
       /\ swap_base' >= swap_base /\ swap_len' = 0 /\ swapping' = swapping /\ wf_mode' = wf_mode
       /\ proc' = proc /\ in_queue' = in_queue /\ outswap' = outswap
  BY <1>2, <1>3, <1>4 DEF queue
<1>11. AreaRight'
  <2>1. MaxClick \in Nat
    BY AllocatorAssumption
  <2>2. wf_mode \in BOOLEAN /\ swapping \in BOOLEAN
    BY DEF IInv, AreaRight
  <2>3. swap_base' \in Nat /\ swap_len' = 0 /\ swap_base' + swap_len' <= MaxClick
    <3>1. swap_base' \in Nat /\ swap_base' < MaxClick /\ swap_len' = 0
      BY <1>10
    <3>2. \A n \in Nat : n < MaxClick => n + 0 <= MaxClick
      BY <2>1
    <3>3. swap_base' + 0 <= MaxClick
      BY <3>1, <3>2
    <3> QED
      BY <3>1, <3>3
  <2>4. /\ wf_mode' \in BOOLEAN /\ swapping' \in BOOLEAN /\ (wf_mode' => ~swapping')
        /\ swap_len' \in Nat
    BY <2>2, <1>4, <1>10
  <2> QED
    BY <2>3, <2>4 DEF AreaRight
<1>12. StartRight' /\ KnownChunks' = i
  <2>1. i + 1 \in 1..Len(Chunks) + 1 /\ (i + 1) - 1 = i /\ i \in Nat
    BY <1>1
  <2>2. \A j \in 1..i : ChunkEnd(j) <= swap_base'
    <3>1. ASSUME NEW j \in 1..i, j # i PROVE ChunkEnd(j) <= swap_base'
      <4>1. j \in 1..i - 1 /\ j \in 1..Len(Chunks)
        BY <3>1, <1>1
      <4>2. ChunkEnd(j) \in Nat /\ ChunkEnd(j) <= swap_base
        BY <4>1, <1>4, ChunkTypes
      <4> QED
        BY <4>2, <1>4, <1>10
    <3> QED
      BY <3>1, <1>3, <1>10
  <2> QED
    BY <2>1, <2>2, <1>4, <1>9, <1>10 DEF StartRight, KnownChunks
<1>13. Clicked(i, swap_base', 0) = pool \cup Clicks(c.base, c.len)
  <2>1. Clicks(swap_base', 0) = {} /\ Clicks(c.base, c.len) \subseteq Nat
    <3>1. \A n \in Nat : Clicks(n, 0) = {}
      BY DEF Clicks
    <3>2. \A n, m \in Nat : Clicks(n, m) \subseteq Nat
      BY DEF Clicks
    <3> QED
      BY <3>1, <3>2, <1>3, <1>10
  <2>3. pool \subseteq Nat
    BY DEF pool, Clicked
  <2>2. ASSUME NEW x \in Nat
        PROVE  (\E j \in 1..i : x \in Clicks(Chunks[j].base, Chunks[j].len))
                 <=> x \in pool \/ x \in Clicks(c.base, c.len)
    <3>1. \A j : j \in 1..i <=> j \in 1..i - 1 \/ j = i
      BY <1>1
    <3> QED
      BY <3>1, <1>5 DEF c
  <2> QED
    BY <2>1, <2>2, <2>3 DEF Clicked
<1>14. ProcsRight(proc, swap_base)'
  BY <1>4, <1>10, NoProcRight DEF ProcsRight, ProcTypes
<1>15. JobRight'
  BY <1>9, <1>10, JobForms DEF JobRight, JobTypes
<1>16. QueueGood(in_queue, proc, Unseen)'
  <2>1. QueueGood(<<>>, proc', Unseen')
    BY <1>4, <1>10 DEF QueueGood, NoProc
  <2> QED
    BY <2>1, <1>4, <1>10
<1>17. Shares(Free(holes), proc, Clicked(KnownChunks, swap_base, swap_len))'
  BY <1>2, <1>7, <1>10, <1>12, <1>13
<1> QED
  BY <1>7, <1>8, <1>11, <1>12, <1>14, <1>15, <1>16, <1>17 DEF IInv

(* The swap area begins behind all chunks.                                 *)
LEMMA NoMoreChunksStep ==
  ASSUME IInv, mem_init, job.at > Len(Chunks)
  PROVE  IInv'
<1>1. /\ job.step = "init" /\ job.at \in 1..Len(Chunks) + 1 /\ Len(Chunks) \in Nat
      /\ swap_base \in Nat /\ swap_len = 0 /\ ~swapping /\ ~wf_mode /\ swap_base < MaxClick
      /\ \A j \in 1..job.at - 1 : ChunkEnd(j) <= swap_base
      /\ proc = [p \in Procs |-> NoProc] /\ in_queue = <<>>
  <2>1. job.step = "init"
    BY DEF mem_init
  <2>2. Len(Chunks) \in Nat
    BY AllocatorAssumption, LenProperties
  <2> QED
    BY <2>1, <2>2 DEF IInv, AreaRight, StartRight
<1>2. /\ swap_base' = swap_base + 1 /\ job' = Idle /\ holes' = holes /\ free_slots' = free_slots
      /\ proc' = proc /\ in_queue' = in_queue /\ outswap' = outswap
      /\ wf_mode' = wf_mode /\ swapping' = swapping /\ swap_len' = swap_len
  BY DEF mem_init, table, queue
<1>3. job.at - 1 = Len(Chunks) /\ KnownChunks = Len(Chunks)
  BY <1>1 DEF KnownChunks
<1>4. job'.step = "idle" /\ KnownChunks' = Len(Chunks)
  BY <1>2, ServeQueueForm DEF KnownChunks
<1>5. AreaRight'
  <2>1. MaxClick \in Nat
    BY AllocatorAssumption
  <2>2. wf_mode \in BOOLEAN /\ swapping \in BOOLEAN
    BY DEF IInv, AreaRight
  <2> QED
    BY <2>1, <2>2, <1>1, <1>2 DEF AreaRight
<1>6. StartRight'
  <2>1. \A i \in 1..Len(Chunks) : ChunkEnd(i) < swap_base'
    BY <1>1, <1>2, <1>3, ChunkTypes
  <2> QED
    BY <2>1, <1>4 DEF StartRight
<1>7. Clicked(Len(Chunks), swap_base + 1, 0) = Clicked(Len(Chunks), swap_base, 0)
  BY <1>1 DEF Clicked, Clicks
<1>8. ProcsRight(proc, swap_base)'
  BY <1>1, <1>2, NoProcRight DEF ProcsRight, ProcTypes
<1>9. JobRight'
  BY <1>2, <1>4, JobForms, ServeQueueForm DEF JobRight
<1>10. QueueGood(in_queue, proc, Unseen)'
  <2>1. QueueGood(<<>>, proc', Unseen')
    BY <1>1, <1>2 DEF QueueGood, NoProc
  <2> QED
    BY <2>1, <1>1, <1>2
<1>11. Shares(Free(holes), proc, Clicked(KnownChunks, swap_base, swap_len))'
  BY <1>1, <1>2, <1>3, <1>4, <1>7 DEF IInv
<1>12. ListRight(Table)'
  BY <1>2 DEF IInv, Table
<1> QED
  BY <1>5, <1>6, <1>8, <1>9, <1>10, <1>11, <1>12 DEF IInv

(* The clicks before and behind a hole are not free.                       *)
LEMMA AroundHole ==
  ASSUME NEW hs \in Seq(Hole), Apart(hs), NEW k \in 1..Len(hs)
  PROVE  End(hs[k]) \notin Free(hs) /\ hs[k].base - 1 \notin Free(hs)
<1> DEFINE h == hs[k]
<1>1. h.base \in Nat /\ h.len \in Nat /\ End(h) \in Nat /\ h.base < End(h)
  BY ElementOfSeq, HoleEnds
<1>2. ASSUME NEW c \in Free(hs) PROVE c # End(h) /\ c # h.base - 1
  <2>1. PICK j \in 1..Len(hs) : In(c, hs[j])
    BY DEF Free
  <2>2. /\ hs[j].base \in Nat /\ End(hs[j]) \in Nat /\ hs[j].base < End(hs[j]) /\ c \in Nat
        /\ Len(hs) \in Nat
    BY ElementOfSeq, HoleEnds, LenProperties DEF Free
  <2>3. j = k \/ End(hs[j]) < h.base \/ End(h) < hs[j].base
    BY <2>2 DEF Apart
  <2> HIDE DEF h
  <2>4. CASE j = k
    BY <2>1, <2>4, <1>1, <2>2 DEF In, h
  <2>5. CASE j # k
    BY <2>1, <2>2, <2>3, <2>5, <1>1 DEF In
  <2> QED
    BY <2>4, <2>5
<1> QED
  BY <1>2

(* With nobody on it, the swap area is free.                               *)
LEMMA AreaFree ==
  ASSUME IInv, job.step # "init", OnSwap = {}
  PROVE  Clicks(swap_base, swap_len) \subseteq Free(holes)
<1>1. swap_base \in Nat /\ swap_len \in Nat
  BY Shared
<1> SUFFICES ASSUME NEW c \in Clicks(swap_base, swap_len) PROVE c \in Free(holes)
  OBVIOUS
<1>2. c \in Nat /\ c >= swap_base
  BY <1>1 DEF Clicks
<1>3. c \in Clicked(KnownChunks, swap_base, swap_len)
  BY <1>2 DEF Clicked
<1>4. ASSUME NEW p \in Procs, c \in Seg(proc, p) PROVE FALSE
  <2>1. /\ proc[p].base \in Nat /\ proc[p].size \in Nat /\ proc[p].inuse
        /\ Seg(proc, p) \subseteq Clicked(KnownChunks, swap_base, swap_len)
    BY <1>4, ProcBounds
  <2>2. ~proc[p].onswap
    BY DEF OnSwap
  <2>3. ProcRight(proc[p], swap_base)
    BY DEF IInv, ProcsRight
  <2>4. proc[p].base < swap_base
    BY <2>1, <2>2, <2>3, <1>1 DEF ProcRight
  <2>5. swap_base - 1 \in Seg(proc, p)
    BY <2>1, <2>4, <1>1, <1>2, <1>4 DEF Seg, Clicks
  <2> QED
    BY <2>1, <2>5, PoolBound
<1> QED
  BY <1>2, <1>3, <1>4, Shared DEF Shares

(* Then one hole is the swap area.                                         *)
LEMMA AreaIsHole ==
  ASSUME IInv, job.step # "init", OnSwap = {},
         NEW k \in 1..Len(holes), holes[k].base >= swap_base
  PROVE  {c \in Nat : In(c, holes[k])} = Clicks(swap_base, swap_len)
<1> DEFINE h == holes[k]
<1>1. swap_base \in Nat /\ swap_len \in Nat
  BY Shared
<1>2. h.base \in Nat /\ h.len \in Nat /\ h.len > 0 /\ End(h) \in Nat /\ End(h) = h.base + h.len
  BY HoleBounds
<1>3. Clicks(h.base, h.len) \subseteq Clicks(swap_base, swap_len)
  BY HolesBelowArea
<1>4. Clicks(swap_base, swap_len) \subseteq Free(holes)
  BY AreaFree
<1>5. End(h) \notin Clicks(swap_base, swap_len) /\ h.base - 1 \notin Clicks(swap_base, swap_len)
  BY <1>4, AroundHole, Shared
<1>6. h.base >= swap_base
  OBVIOUS
<1> HIDE DEF h
<1>7. h.base = swap_base /\ End(h) = swap_base + swap_len
  <2>1. h.base \in Clicks(swap_base, swap_len) /\ End(h) - 1 \in Clicks(swap_base, swap_len)
    BY <1>2, <1>3 DEF Clicks
  <2> QED
    BY <2>1, <1>1, <1>2, <1>5, <1>6, SMTT(30) DEF Clicks
<1> QED
  BY <1>1, <1>2, <1>7 DEF h, In, Clicks

(* The swap area is no chunk.                                              *)
LEMMA AreaLeaves ==
  ASSUME IInv, job.step # "init"
  PROVE  Clicked(KnownChunks, swap_base, swap_len) \ Clicks(swap_base, swap_len)
           = Clicked(KnownChunks, swap_base, 0)
<1>1. swap_base \in Nat /\ swap_len \in Nat /\ KnownChunks = Len(Chunks)
  BY Shared DEF KnownChunks
<1>2. ASSUME NEW i \in 1..Len(Chunks), NEW c \in Clicks(Chunks[i].base, Chunks[i].len)
      PROVE  c \notin Clicks(swap_base, swap_len)
  <2>1. Chunks[i].base \in Nat /\ Chunks[i].len \in Nat /\ ChunkEnd(i) = Chunks[i].base + Chunks[i].len
    BY ChunkTypes DEF ChunkEnd
  <2>2. ChunkEnd(i) < swap_base
    BY DEF IInv, StartRight
  <2> QED
    BY <2>1, <2>2, <1>1 DEF Clicks
<1>3. Clicks(swap_base, 0) = {}
  BY <1>1 DEF Clicks
<1> QED
  BY <1>1, <1>2, <1>3 DEF Clicked

(* The hole that is removed is the swap area.                              *)
LEMMA RemoveSwapHoleStep ==
  ASSUME IInv, RemoveSwapHole
  PROVE  IInv'
<1> DEFINE k == job.at
           u == del_slot(Table, k - 1, k)
           pool == Clicked(KnownChunks, swap_base, swap_len)
<1>1. /\ job.step = "swap_off" /\ k <= Len(holes) /\ proc' = proc /\ in_queue' = in_queue
      /\ outswap' = outswap /\ wf_mode' = wf_mode /\ swapping' = swapping /\ swap_base' = swap_base
  BY DEF RemoveSwapHole, queue
<1>2. job \in [step : {"init", "queue_all", "swap_off"}, at : Nat \ {0}]
  BY <1>1, JobForms
<1>3. k \in 1..Len(holes) /\ k \in Nat /\ Len(holes) \in Nat
  BY <1>1, <1>2, Shared
<1>4. /\ OnSwap = {} /\ OnSwap' = {} /\ outswap \in Procs
      /\ swap_len > 0 => \A j \in 1..Len(holes) : j < k => holes[j].base < swap_base
  BY <1>1 DEF IInv, JobRight, OnSwap
<1>5. swap_base \in Nat /\ holes[k].base \in Nat
  BY <1>3, Shared, HoleBounds
<1>6. ASSUME holes[k].base >= swap_base PROVE IInv'
  <2>1. /\ holes' = u.holes /\ free_slots' = u.slots /\ swap_len' = 0
        /\ job' \in {[job EXCEPT !.at = 2], [step |-> "lost"]}
    BY <1>6 DEF RemoveSwapHole, SetTable
  <2>2. job' \in JobTypes /\ job'.step \in {"swap_off", "lost"}
    BY <2>1, <1>1, <1>2 DEF JobTypes
  <2>3. JobRight'
    BY <2>1, <2>2, <1>1, <1>4 DEF JobRight
  <2>4. Unseen' = Unseen /\ KnownChunks' = KnownChunks
    BY <2>2, <1>1 DEF Unseen, Walks, KnownChunks
  <2>5. ListRight(Table) /\ Table.holes = holes /\ Shares(Free(holes), proc, pool) /\ proc \in ProcTypes
    BY Shared
  <2>6. u.holes \in Seq(Hole) /\ Removed(u.holes, holes, k) /\ u.slots = Table.slots + 1
    BY <2>5, <1>3, Shared, DelSlot
  <2>7. holes \in Seq(Hole) /\ Apart(holes) /\ Sorted(holes)
    <3>1. holes \in Seq(Hole) /\ Apart(holes)
      BY Shared
    <3>2. \A i \in 1..Len(holes) : End(holes[i]) \in Nat /\ holes[i].base \in Nat
      BY HoleBounds
    <3>3. Sorted(holes)
      BY <3>1, <3>2, SMTT(30) DEF Apart, Sorted
    <3> QED
      BY <3>1, <3>3
  <2>8. Free(u.holes) = Free(holes) \ Clicks(swap_base, swap_len) /\ Apart(u.holes)
        /\ Len(u.holes) = Len(holes) - 1
    <3>1. {c \in Nat : In(c, holes[k])} = Clicks(swap_base, swap_len)
      BY <1>1, <1>3, <1>4, <1>6, AreaIsHole
    <3> HIDE DEF u, k
    <3> QED
      BY <3>1, <2>6, <2>7, <1>3, RemoveHole
  <2>9. ListRight(u)
    <3>1. u = [holes |-> u.holes, slots |-> u.slots]
      BY DEF del_slot
    <3> HIDE DEF u
    <3>2. Table.slots \in Int /\ Table.slots + Len(holes) = NrHoles
      BY <2>5 DEF ListRight, Tables, Slots
    <3> QED
      BY <3>1, <3>2, <2>6, <2>8, <1>3 DEF ListRight, Tables, Slots
  <2> HIDE DEF u, pool, k
  <2>10. Shares(Free(u.holes), proc, Clicked(KnownChunks, swap_base, 0))
    <3>1. Shares(Free(holes) \ Clicks(swap_base, swap_len), proc, pool \ Clicks(swap_base, swap_len))
      BY <2>5, <1>1, <1>4, AreaFree, MoreToShare
    <3> QED
      BY <3>1, <2>8, <1>1, AreaLeaves DEF pool
  <2>11. Table' = u
    BY <2>1, <2>9, SetTableIs DEF ListRight
  <2>12. AreaRight'
    <3>1. /\ swap_len \in Nat /\ swap_base + swap_len <= MaxClick /\ MaxClick \in Nat
          /\ wf_mode \in BOOLEAN /\ swapping \in BOOLEAN /\ (wf_mode => ~swapping)
      BY AllocatorAssumption DEF IInv, AreaRight
    <3>2. swap_base' + swap_len' <= MaxClick
      BY <3>1, <2>1, <1>1, <1>5
    <3> QED
      BY <3>1, <3>2, <2>1, <1>1, <1>5 DEF AreaRight
  <2>13. StartRight'
    BY <2>2, <1>1 DEF IInv, StartRight
  <2>14. QueueGood(in_queue, proc, Unseen)' /\ ProcsRight(proc, swap_base)'
    BY <2>4, <1>1 DEF IInv
  <2>15. ListRight(Table)' /\ Shares(Free(holes), proc, Clicked(KnownChunks, swap_base, swap_len))'
    BY <2>1, <2>4, <2>9, <2>10, <2>11, <1>1
  <2> QED
    BY <2>3, <2>12, <2>13, <2>14, <2>15 DEF IInv
<1>7. ASSUME ~(holes[k].base >= swap_base) PROVE IInv'
  <2>1. /\ job' = [job EXCEPT !.at = @ + 1] /\ UNCHANGED <<table, swap_len>>
        /\ UNCHANGED <<proc, in_queue, wf_mode, swapping, swap_base>>
    BY <1>7 DEF RemoveSwapHole, queue
  <2>2. job' \in JobTypes /\ job'.step = "swap_off" /\ job'.at = k + 1
    BY <2>1, <1>1, <1>2 DEF JobTypes
  <2>3. holes' = holes /\ swap_len' = swap_len
    BY <2>1 DEF table
  <2>4. \A j \in 1..Len(holes) : j < k + 1 => j < k \/ j = k
    BY <1>3
  <2>5. JobRight'
    BY <2>2, <2>3, <2>4, <1>1, <1>4, <1>5, <1>7 DEF JobRight
  <2>6. UNCHANGED <<table, proc, in_queue, wf_mode, area>>
    BY <2>1 DEF area
  <2> QED
    BY <2>2, <2>5, <2>6, <1>1, JobChanges DEF Walks
<1> QED
  BY <1>6, <1>7

(* The swap file is closed when its area is gone.                          *)
LEMMA CloseSwapStep ==
  ASSUME IInv, CloseSwap
  PROVE  IInv'
<1>1. /\ job.step = "swap_off" /\ job.at > Len(holes) /\ swapping' = FALSE /\ job' = ServeQueue
      /\ holes' = holes /\ free_slots' = free_slots /\ proc' = proc /\ in_queue' = in_queue
      /\ outswap' = outswap /\ wf_mode' = wf_mode /\ swap_base' = swap_base /\ swap_len' = swap_len
  BY DEF CloseSwap, table, queue
<1>2. job.at \in Nat /\ Len(holes) \in Nat /\ swap_base \in Nat /\ swap_len \in Nat
  BY <1>1, JobForms, Shared
<1>3. OnSwap = {} /\ (swap_len > 0 => \A k \in 1..Len(holes) : holes[k].base < swap_base)
  BY <1>1, <1>2 DEF IInv, JobRight
<1>4. swap_len = 0
  <2> SUFFICES ASSUME swap_len > 0 PROVE FALSE
    BY <1>2
  <2>1. swap_base \in Free(holes)
    <3>1. swap_base \in Clicks(swap_base, swap_len)
      BY <1>2 DEF Clicks
    <3> QED
      BY <3>1, <1>1, <1>3, AreaFree
  <2>2. PICK k \in 1..Len(holes) : In(swap_base, holes[k])
    BY <2>1 DEF Free
  <2>3. holes[k].base < swap_base /\ holes[k].base \in Nat /\ End(holes[k]) \in Nat
    BY <1>3, HoleBounds
  <2>4. swap_base - 1 \in Nat /\ In(swap_base - 1, holes[k])
    BY <2>2, <2>3, <1>2 DEF In
  <2>5. swap_base - 1 \in Free(holes)
    BY <2>4 DEF Free
  <2>6. swap_base - 1 \in Clicked(KnownChunks, swap_base, swap_len)
    BY <2>5, Shared DEF Shares
  <2> QED
    BY <2>6, <1>1, PoolBound
<1>5. JobRight' /\ Unseen' = 1 /\ job'.step # "init"
  BY <1>1, JobForms, JobServes
<1>6. AreaRight'
  <2>1. AreaRight
    BY DEF IInv
  <2> QED
    BY <2>1, <1>1, <1>4 DEF AreaRight
<1>7. StartRight' /\ KnownChunks' = KnownChunks
  BY <1>1, <1>5 DEF IInv, StartRight, KnownChunks
<1>8. Table' = Table
  BY <1>1 DEF Table
<1>9. QueueGood(in_queue, proc, Unseen)'
  <2>1. QueueGood(in_queue, proc, 1)
    BY QueueStays DEF IInv
  <2> QED
    BY <2>1, <1>1, <1>5
<1>10. /\ ListRight(Table)' /\ ProcsRight(proc, swap_base)'
       /\ Shares(Free(holes), proc, Clicked(KnownChunks, swap_base, swap_len))'
  BY <1>1, <1>7, <1>8 DEF IInv
<1> QED
  BY <1>5, <1>6, <1>7, <1>9, <1>10 DEF IInv

(* Nothing happens.                                                        *)
LEMMA LostStep ==
  ASSUME IInv, UNCHANGED vars
  PROVE  IInv'
<1>1. /\ holes' = holes /\ free_slots' = free_slots /\ proc' = proc /\ in_queue' = in_queue
      /\ outswap' = outswap /\ wf_mode' = wf_mode /\ swapping' = swapping
      /\ swap_base' = swap_base /\ swap_len' = swap_len /\ job' = job
  BY DEF vars, table, queue, area
<1>2. Table' = Table /\ KnownChunks' = KnownChunks /\ Unseen' = Unseen
  BY <1>1 DEF Table, KnownChunks, Unseen, Walks
<1>3. AreaRight' /\ StartRight'
  BY <1>1 DEF IInv, AreaRight, StartRight
<1>4. JobRight'
  BY <1>1 DEF IInv, JobRight, OnSwap
<1> QED
  BY <1>1, <1>2, <1>3, <1>4 DEF IInv

(* MM starts with no memory, no process and no queue.                      *)
LEMMA Start ==
  ASSUME Init
  PROVE  IInv
<1>1. /\ holes = <<>> /\ free_slots = NrHoles /\ proc = [p \in Procs |-> NoProc]
      /\ in_queue = <<>> /\ outswap = 1 /\ wf_mode = FALSE /\ swapping = FALSE
      /\ swap_base = 0 /\ swap_len = 0 /\ job = [step |-> "init", at |-> 1]
  BY DEF Init
<1>2. NrHoles \in Nat /\ Len(Chunks) \in Nat /\ MaxClick \in Nat /\ MaxClick > 0 /\ 1 \in Procs
  <2>1. NrProcs \in Nat \ {0} /\ NrHoles \in Nat /\ MaxClick \in Nat \ {0}
    BY AllocatorAssumption
  <2> QED
    BY <2>1, AllocatorAssumption, LenProperties DEF Procs
<1>3. ListRight(Table)
  <2>1. Table = [holes |-> <<>>, slots |-> NrHoles] /\ <<>> \in Seq(Hole) /\ Len(<<>>) = 0
    BY <1>1 DEF Table
  <2> QED
    BY <2>1, <1>2 DEF ListRight, Tables, Apart, Slots
<1>4. job.step = "init" /\ job.at = 1 /\ KnownChunks = 0
  BY <1>1 DEF KnownChunks
<1>5. Shares(Free(holes), proc, Clicked(KnownChunks, swap_base, swap_len))
  <2>1. \A p \in Procs : Seg(proc, p) = {}
    BY <1>1 DEF Seg, NoProc, Clicks
  <2>2. Free(holes) = {}
    BY <1>1 DEF Free
  <2>3. Clicked(0, 0, 0) = {}
    <3>1. Clicks(0, 0) = {}
      BY DEF Clicks
    <3> QED
      BY <3>1 DEF Clicked
  <2> QED
    BY <2>1, <2>2, <2>3, <1>1, <1>4 DEF Shares
<1>6. ProcsRight(proc, swap_base)
  BY <1>1, NoProcRight DEF ProcsRight, ProcTypes
<1>7. QueueGood(in_queue, proc, Unseen)
  <2>1. \A p \in Procs : ~proc[p].swapin
    BY <1>1 DEF NoProc
  <2> QED
    BY <2>1, <1>1 DEF QueueGood
<1>8. AreaRight /\ StartRight
  <2>1. swap_base < MaxClick /\ swap_base + swap_len <= MaxClick
    BY <1>1, <1>2
  <2>2. AreaRight
    BY <2>1, <1>1 DEF AreaRight
  <2>3. job.at \in 1..Len(Chunks) + 1 /\ \A i \in 1..job.at - 1 : FALSE
    BY <1>2, <1>4
  <2> QED
    BY <2>1, <2>2, <2>3, <1>1, <1>4 DEF StartRight
<1>9. JobRight
  BY <1>1, <1>2, <1>4 DEF JobRight, JobTypes
<1> QED
  BY <1>3, <1>5, <1>6, <1>7, <1>8, <1>9 DEF IInv

(* Every step keeps the invariant, when the modes are not mixed.           *)
LEMMA AllocatorStep ==
  ASSUME ModesMix = FALSE
  PROVE  IInv /\ [Next]_vars => IInv'
<1> SUFFICES ASSUME IInv, [Next]_vars PROVE IInv'
  OBVIOUS
<1>1. ASSUME Works PROVE IInv'
  <2>1. CASE mem_init
    <3>1. job.at \in Nat /\ Len(Chunks) \in Nat
      BY <2>1, JobForms, AllocatorAssumption, LenProperties DEF mem_init
    <3> QED
      BY <3>1, <2>1, ChunkStep, NoMoreChunksStep
  <2>2. CASE swap_out
    BY <2>2, SwapOutsStep
  <2>3. CASE Allocate
    BY <2>3, AllocateStep
  <2>4. CASE BringIn
    BY <2>4, BringInStep
  <2>5. CASE Refuse \/ LeaveOut \/ Clean \/ SendReplies
    BY <2>5, RefuseStep, LeaveOutStep, CleanStep, SendRepliesStep
  <2>6. CASE QueueNext \/ AllInMemory \/ RemoveSwapHole \/ CloseSwap
    BY <2>6, QueueNextStep, AllInMemoryStep, RemoveSwapHoleStep, CloseSwapStep
  <2>7. CASE Kill \/ Checked
    BY <2>7, KillStep, CheckedStep
  <2>8. ASSUME NEW p \in Procs, Interrupt(p) PROVE IInv'
    BY <2>8, InterruptStep
  <2> QED
    BY <1>1, <2>1, <2>2, <2>3, <2>4, <2>5, <2>6, <2>7, <2>8 DEF Works
<1>2. ASSUME Calls PROVE IInv'
  <2>1. CASE swap_off
    BY <2>1, SwapOffStep
  <2>2. ASSUME NEW mode \in BOOLEAN, do_worst_fit(mode) PROVE IInv'
    BY <2>2, WorstFitStep
  <2>3. ASSUME NEW size \in SwapSizes, swap_on(size) PROVE IInv'
    BY <2>3, SwapOnStep
  <2>4. ASSUME NEW p \in Procs, Exit(p) \/ Wait(p) \/ WakeUp(p) \/ Signal(p) PROVE IInv'
    BY <2>4, ExitStep, WaitStep, WakeUpStep, SignalStep
  <2>5. ASSUME NEW p \in Procs, NEW size \in Sizes, Fork(p, size) \/ Exec(p, size) PROVE IInv'
    BY <2>5, AsksStep
  <2> QED
    BY <1>2, <2>1, <2>2, <2>3, <2>4, <2>5 DEF Calls
<1>3. CASE Lost \/ UNCHANGED vars
  BY <1>3, LostStep DEF Lost
<1> QED
  BY <1>1, <1>2, <1>3 DEF Next

(* The invariant holds for ever.                                           *)
LEMMA AllocatorInvariant ==
  ASSUME ModesMix = FALSE
  PROVE  Spec => []IInv
BY Start, AllocatorStep, PTL DEF Spec

-----------------------------------------------------------------------------
(* What follows from the invariant.                                        *)

(* The addresses and lengths are those of the pool, the rest is in IInv.   *)
LEMMA TypesRight == IInv => TypeOK
<1> SUFFICES ASSUME IInv PROVE TypeOK
  OBVIOUS
<1>1. MaxClick \in Nat /\ NrHoles \in Nat
  BY AllocatorAssumption
<1>2. holes \in Seq([base : 0..MaxClick, len : 0..MaxClick])
  <2>1. ASSUME NEW k \in 1..Len(holes) PROVE holes[k] \in [base : 0..MaxClick, len : 0..MaxClick]
    <3>1. /\ holes[k] \in Hole /\ holes[k].base \in Nat /\ holes[k].len \in Nat
          /\ holes[k].base + holes[k].len <= MaxClick
      BY HoleBounds
    <3>2. holes[k].base \in 0..MaxClick /\ holes[k].len \in 0..MaxClick
      BY <3>1, <1>1
    <3> QED
      BY <3>1, <3>2 DEF Hole
  <2>2. holes \in Seq(Hole)
    BY Shared
  <2> QED
    BY <2>1, <2>2, SeqOfElements
<1>3. free_slots \in 0..NrHoles
  <2>1. /\ MemoryRight(Table, proc, Clicked(KnownChunks, swap_base, swap_len)) /\ ListRight(Table)
        /\ Table.slots = free_slots
    BY Shared
  <2>2. Table.slots \in Nat /\ Len(Table.holes) \in Nat
    BY <2>1, RoomLeft
  <2>3. Table.slots + Len(Table.holes) = NrHoles
    BY <2>1 DEF ListRight, Slots
  <2> QED
    BY <2>1, <2>2, <2>3, <1>1
<1>4. proc \in [Procs -> [inuse : BOOLEAN, waiting : BOOLEAN, reply : BOOLEAN, onswap : BOOLEAN,
                          swapin : BOOLEAN, base : 0..MaxClick, size : Sizes \cup {0}]]
  <2>1. ASSUME NEW p \in Procs
        PROVE  proc[p] \in [inuse : BOOLEAN, waiting : BOOLEAN, reply : BOOLEAN, onswap : BOOLEAN,
                            swapin : BOOLEAN, base : 0..MaxClick, size : Sizes \cup {0}]
    <3>1. proc[p] \in Proc
      BY Shared DEF ProcTypes
    <3>2. proc[p].base \in 0..MaxClick
      <4>1. CASE proc[p].inuse
        <5>1. proc[p].base \in Clicked(KnownChunks, swap_base, swap_len)
          BY <4>1, ProcBounds
        <5>2. proc[p].base \in Nat /\ proc[p].base < MaxClick
          BY <5>1, PoolBound
        <5> QED
          BY <5>2, <1>1
      <4>2. CASE ~proc[p].inuse
        <5>1. proc[p].base = 0
          BY <4>2, ProcBounds DEF NoProc
        <5> QED
          BY <5>1, <1>1
      <4> QED
        BY <4>1, <4>2
    <3> QED
      BY <3>1, <3>2 DEF Proc
  <2>2. proc \in ProcTypes
    BY Shared
  <2> QED
    BY <2>1, <2>2 DEF ProcTypes
<1>5. in_queue \in Seq(Procs)
  BY DEF IInv, QueueGood
<1>6. /\ swap_base \in 0..MaxClick /\ swap_len \in 0..MaxClick
      /\ wf_mode \in BOOLEAN /\ swapping \in BOOLEAN
  BY <1>1 DEF IInv, AreaRight
<1>7. /\ outswap \in Procs
      /\ \/ job \in {Idle, [step |-> "lost"]}
         \/ job \in [step : {"init", "queue_all", "swap_off"}, at : Nat \ {0}]
         \/ job \in [step : {"alloc"}, for : Procs, size : Sizes]
         \/ job \in [step : {"swap_in"}, at : Nat \ {0}, then : {"idle", "swap_off"}]
         \/ job \in [step : {"check_pending"}, at : Nat \ {0}, then : {"idle", "swap_off"},
                     for : Procs]
  BY JobForms DEF JobTypes
<1> QED
  BY <1>2, <1>3, <1>4, <1>5, <1>6, <1>7 DEF TypeOK

(* Apart is what merge is for.                                             *)
LEMMA HolesRight == IInv => HolesMerged
<1> SUFFICES ASSUME IInv PROVE HolesMerged
  OBVIOUS
<1>1. DOMAIN holes = 1..Len(holes) /\ Len(holes) \in Nat /\ Apart(holes)
  BY Shared
<1>2. \A k \in 1..Len(holes) : holes[k].len > 0 /\ End(holes[k]) = holes[k].base + holes[k].len
  BY HoleBounds
<1>3. ASSUME NEW k \in 1..Len(holes) - 1
      PROVE  holes[k].base + holes[k].len < holes[k + 1].base
  <2>1. k \in 1..Len(holes) /\ k + 1 \in 1..Len(holes) /\ k < k + 1
    BY <1>1
  <2> QED
    BY <2>1, <1>1, <1>2 DEF Apart
<1> QED
  BY <1>1, <1>2, <1>3 DEF HolesMerged

(* What is in the pool, from the chunks known and the swap area.           *)
LEMMA PoolIs ==
  ASSUME IInv
  PROVE  Pool = Clicked(KnownChunks, swap_base, swap_len)
<1>1. swap_base \in Nat /\ swap_len \in Nat /\ KnownChunks \in 0..Len(Chunks) /\ Len(Chunks) \in Nat
  BY Shared, AllocatorAssumption, LenProperties
<1>2. Clicks(swap_base, swap_len) \subseteq Nat
  BY <1>1 DEF Clicks
<1>3. \A i \in 1..KnownChunks : Clicks(Chunks[i].base, Chunks[i].len) \subseteq Nat
  <2>1. ASSUME NEW i \in 1..KnownChunks PROVE Clicks(Chunks[i].base, Chunks[i].len) \subseteq Nat
    <3>1. i \in 1..Len(Chunks)
      BY <1>1
    <3> QED
      BY <3>1, ChunkTypes DEF Clicks
  <2> QED
    BY <2>1
<1>4. Pool = (UNION {Clicks(Chunks[i].base, Chunks[i].len) : i \in 1..KnownChunks})
               \cup Clicks(swap_base, swap_len)
  BY DEF Pool, KnownChunks
<1>5. ASSUME NEW c
      PROVE  c \in Pool <=> (\/ \E i \in 1..KnownChunks : c \in Clicks(Chunks[i].base, Chunks[i].len)
                             \/ c \in Clicks(swap_base, swap_len))
  BY <1>4
<1>6. ASSUME NEW c \in Pool PROVE c \in Nat
  BY <1>2, <1>3, <1>5
<1> QED
  BY <1>5, <1>6 DEF Clicked

(* Shares, counted: one hole or one process.                               *)
LEMMA OwnersRight == IInv => NothingLostOrShared
<1> SUFFICES ASSUME IInv PROVE NothingLostOrShared
  OBVIOUS
<1> DEFINE HolesOf(c) == {k \in DOMAIN holes : c \in Clicks(holes[k].base, holes[k].len)}
           ProcsOf(c) == {p \in Procs : c \in Segment(p)}
<1>1. /\ DOMAIN holes = 1..Len(holes) /\ Len(holes) \in Nat /\ Apart(holes)
      /\ Shares(Free(holes), proc, Pool)
  BY Shared, PoolIs
<1>2. \A k \in 1..Len(holes) :
        /\ holes[k].base \in Nat /\ holes[k].len \in Nat /\ End(holes[k]) = holes[k].base + holes[k].len
        /\ Clicks(holes[k].base, holes[k].len) \subseteq Free(holes)
  BY HoleBounds
<1>3. \A p \in Procs : Segment(p) = Seg(proc, p) /\ Seg(proc, p) \subseteq Nat
  <2>1. ASSUME NEW p \in Procs PROVE Segment(p) = Seg(proc, p) /\ Seg(proc, p) \subseteq Nat
    BY ProcBounds DEF Segment, Seg, Clicks
  <2> QED
    BY <2>1
<1>4. \A k \in 1..Len(holes), c \in Nat : In(c, holes[k]) <=> c \in Clicks(holes[k].base, holes[k].len)
  BY <1>2 DEF In, Clicks
<1>5. ASSUME NEW c \in Pool
      PROVE  Cardinality(HolesOf(c)) + Cardinality(ProcsOf(c)) = 1
  <2>0. c \in Nat
    BY PoolIs DEF Clicked
  <2>1. CASE c \in Free(holes)
    <3>1. ProcsOf(c) = {}
      BY <2>1, <1>1, <1>3 DEF Shares
    <3>2. PICK k \in 1..Len(holes) : In(c, holes[k])
      BY <2>1 DEF Free
    <3>3. ASSUME NEW j \in 1..Len(holes), In(c, holes[j]) PROVE j = k
      <4>1. j < k => End(holes[j]) < holes[k].base
        BY <1>1 DEF Apart
      <4>2. k < j => End(holes[k]) < holes[j].base
        BY <1>1 DEF Apart
      <4>3. holes[j].base \in Nat /\ holes[k].base \in Nat /\ End(holes[j]) \in Nat /\ End(holes[k]) \in Nat
        BY <1>2, SMTT(30)
      <4> QED
        BY <2>0, <3>2, <3>3, <4>1, <4>2, <4>3 DEF In
    <3>4. HolesOf(c) = {k}
      BY <2>0, <3>2, <3>3, <1>1, <1>4
    <3>5. Cardinality({k}) = 1 /\ Cardinality(ProcsOf(c)) = 0
      BY <3>1, FS_Singleton, FS_EmptySet
    <3> HIDE DEF HolesOf, ProcsOf
    <3> QED
      BY <3>4, <3>5
  <2>2. CASE c \notin Free(holes)
    <3>1. HolesOf(c) = {}
      BY <2>2, <1>1, <1>2
    <3>2. PICK p \in Procs : c \in Seg(proc, p)
      BY <2>2, <1>1 DEF Shares
    <3>3. ProcsOf(c) = {p}
      BY <3>2, <1>1, <1>3 DEF Shares
    <3>4. Cardinality({p}) = 1 /\ Cardinality(HolesOf(c)) = 0
      BY <3>1, FS_Singleton, FS_EmptySet
    <3> HIDE DEF HolesOf, ProcsOf
    <3> QED
      BY <3>3, <3>4
  <2> QED
    BY <2>1, <2>2
<1>6. \A k \in DOMAIN holes : Clicks(holes[k].base, holes[k].len) \subseteq Pool
  BY <1>1, <1>2 DEF Shares
<1>7. \A p \in Procs : Segment(p) \subseteq Pool
  BY <1>1, <1>3 DEF Shares
<1> QED
  BY <1>5, <1>6, <1>7 DEF NothingLostOrShared

(* Each hole has its slot.                                                 *)
LEMMA SlotsRight == IInv => SlotsConserved
<1> SUFFICES ASSUME IInv PROVE SlotsConserved
  OBVIOUS
<1>1. /\ MemoryRight(Table, proc, Clicked(KnownChunks, swap_base, swap_len)) /\ ListRight(Table)
      /\ Table.slots = free_slots /\ Table.holes = holes
  BY Shared
<1>2. Table.slots \in Nat
  BY <1>1, RoomLeft
<1> QED
  BY <1>1, <1>2 DEF ListRight, Slots, SlotsConserved

(* What the flags say is in ProcRight.                                     *)
LEMMA PlacesRight == IInv => RunsInMemory
BY DEF IInv, ProcsRight, ProcRight, RunsInMemory

(* Between calls swap_in has walked the whole queue.                       *)
LEMMA WaitersRight == IInv => QueueRight
<1> SUFFICES ASSUME IInv PROVE QueueRight
  OBVIOUS
<1>1. QueueGood(in_queue, proc, Unseen) /\ in_queue \in Seq(Procs)
  BY DEF IInv, QueueGood
<1>2. DOMAIN in_queue = 1..Len(in_queue)
  BY <1>1, LenProperties
<1>3. ASSUME NEW p \in Procs, proc[p].swapin PROVE proc[p].onswap /\ p \in Range(in_queue)
  <2>1. proc[p].onswap
    BY <1>3 DEF IInv, ProcsRight, ProcRight
  <2> QED
    BY <2>1, <1>1, <1>2, <1>3 DEF QueueGood, Range
<1>4. ASSUME job = Idle, NEW p \in Range(in_queue) PROVE proc[p].swapin
  <2>1. ~Walks
    BY <1>4 DEF Idle, Walks
  <2>2. \A i \in 1..Len(in_queue) : proc[in_queue[i]].swapin
    BY <2>1, AllWant
  <2> QED
    BY <2>2, <1>2, <1>4 DEF Range
<1> QED
  BY <1>1, <1>2, <1>3, <1>4 DEF QueueGood, QueueRight

-----------------------------------------------------------------------------
(* What processes rely on: the allocator's steps as those of Memory.       *)

Has == [p \in Procs |-> Segment(p)]

Sleepers == {p \in Procs : proc[p].waiting \/ proc[p].onswap}

(* Memory counts clicks like everybody.                                    *)
LEMMA Counts == \A S : Rely!Cardinality(S) = Cardinality(S)
BY DEF Rely!Cardinality, Cardinality

(* A segment is one piece of its size.                                     *)
LEMMA Piece ==
  ASSUME NEW b \in Nat, NEW n \in Nat, n > 0
  PROVE  /\ Clicks(b, n) # {} /\ Cardinality(Clicks(b, n)) = n
         /\ Rely!OnePiece(Clicks(b, n))
<1>1. b \in Clicks(b, n) /\ Cardinality(Clicks(b, n)) = n
  <2>1. b \in Int /\ b + n - 1 \in Int /\ ~(b > b + n - 1) /\ (b + n - 1) - b + 1 = n
    OBVIOUS
  <2>2. Cardinality(b .. (b + n - 1)) = (b + n - 1) - b + 1
    BY <2>1, FS_Interval
  <2> QED
    BY <2>1, <2>2 DEF Clicks
<1>2. Clicks(b, n) = b .. (b + n - 1)
  BY DEF Clicks
<1>3. Rely!OnePiece(Clicks(b, n))
  <2>1. Clicks(b, n) = b .. (b + Rely!Cardinality(Clicks(b, n)) - 1)
    BY <1>1, <1>2, Counts
  <2> QED
    BY <1>1, <2>1 DEF Rely!OnePiece
<1> QED
  BY <1>1, <1>3

(* Who has a slot has memory.                                              *)
LEMMA OwnsSome ==
  ASSUME IInv, NEW p \in Procs, proc[p].inuse
  PROVE  Has[p] # {} /\ proc[p].size \in Sizes
<1>1. proc[p].base \in Seg(proc, p)
  BY ProcBounds
<1>2. proc[p].size \in Sizes
  BY DEF IInv, ProcsRight, ProcRight
<1> QED
  BY <1>1, <1>2 DEF Has, Segment, Seg

(* Where p moves nobody has anything, not even p itself.                   *)
LEMMA TakesGets ==
  ASSUME IInv, IInv', NEW p \in Procs, NEW size \in Sizes, Takes(p, size)
  PROVE  /\ Rely!Gets(p) /\ Cardinality(Has'[p]) = size
         /\ \A q \in Procs : q # p => proc'[q] = proc[q]
<1>1. /\ proc'[p].size = size /\ Seg(proc, p)' \subseteq Free(holes)
      /\ \A q \in Procs : q # p => proc'[q] = proc[q]
  BY DEF Takes
<1>2. proc'[p].base \in Nat /\ size \in Nat /\ size > 0
  <2>1. proc' \in ProcTypes
    BY DEF IInv, ProcsRight
  <2>2. size \in Nat /\ size > 0
    BY AllocatorAssumption
  <2> QED
    BY <2>1, <2>2, ProcSizes
<1>3. Segment(p)' = Clicks(proc'[p].base, size) /\ Segment(p)' = Seg(proc, p)'
  BY <1>1 DEF Segment, Seg
<1>4. Cardinality(Segment(p)') = size /\ Rely!OnePiece(Segment(p)')
  <2>1. PICK b \in Nat : b = proc'[p].base
    BY <1>2
  <2>2. Cardinality(Clicks(b, size)) = size /\ Rely!OnePiece(Clicks(b, size))
    BY <1>2, Piece
  <2> QED
    BY <2>1, <2>2, <1>3
<1>5. \A q \in Procs \ {p} : Segment(q)' = Segment(q)
  BY <1>1 DEF Segment
<1>6. \A q \in Procs : Segment(q) \cap Segment(p)' = {}
  <2>1. \A q \in Procs : Seg(proc, q) \cap Free(holes) = {}
    BY DEF IInv, Shares
  <2> QED
    BY <2>1, <1>1, <1>3 DEF Segment, Seg
<1> QED
  BY <1>1, <1>4, <1>5, <1>6 DEF Rely!Gets, Has

(* Nothing of a process that matters for Memory changes.                   *)
LEMMA Stays ==
  ASSUME \A q \in Procs : /\ proc'[q].base = proc[q].base /\ proc'[q].size = proc[q].size
                          /\ (proc'[q].waiting \/ proc'[q].onswap <=> proc[q].waiting \/ proc[q].onswap)
  PROVE  Has' = Has /\ Sleepers' = Sleepers
<1>1. Has' = Has
  BY DEF Has, Segment
<1> QED
  BY <1>1 DEF Sleepers

(* To be queued is no move.                                                *)
LEMMA QueuedStays ==
  ASSUME NEW p \in Procs, proc \in ProcTypes, proc' = [proc EXCEPT ![p].swapin = TRUE]
  PROVE  [Rely!Next]_<<Has, Sleepers>>
<1>1. \A q \in Procs : /\ proc'[q].base = proc[q].base /\ proc'[q].size = proc[q].size
                       /\ proc'[q].waiting = proc[q].waiting /\ proc'[q].onswap = proc[q].onswap
  BY DEF ProcTypes, Proc
<1> QED
  BY <1>1, Stays

(* swap_out moves a process that sleeps.                                   *)
LEMMA SwapOutMoves ==
  ASSUME IInv, swap_out, IInv'
  PROVE  \E p \in Procs : Rely!Move(p)
<1>1. PICK p \in Procs : p = NextOut
  BY SwapOutsStep
<1>2. /\ p \in Candidates /\ Takes(p, proc[p].size)
      /\ proc'[p].waiting = proc[p].waiting /\ proc'[p].onswap
  BY <1>1, SwapOutsStep
<1>3. proc[p].waiting /\ proc[p].inuse
  BY <1>2, ProcBounds DEF Candidates
<1>4. proc[p].size \in Sizes /\ proc[p].base \in Nat
  BY <1>3, OwnsSome, ProcBounds
<1>5. /\ Rely!Gets(p) /\ Cardinality(Has'[p]) = proc[p].size
      /\ \A q \in Procs : q # p => proc'[q] = proc[q]
  BY <1>2, <1>4, TakesGets
<1>6. Cardinality(Has[p]) = proc[p].size
  <2>1. proc[p].size \in Nat /\ proc[p].size > 0
    <3>1. \A n \in Sizes : n \in Nat /\ n > 0
      BY AllocatorAssumption
    <3> QED
      BY <3>1, <1>4
  <2> QED
    BY <2>1, <1>4, Piece DEF Has, Segment
<1>7. p \in Sleepers /\ Sleepers' = Sleepers
  BY <1>2, <1>3, <1>5 DEF Sleepers
<1>8. Rely!Cardinality(Has'[p]) = Rely!Cardinality(Has[p])
  BY <1>5, <1>6, Counts
<1>9. Rely!Move(p)
  BY <1>5, <1>7, <1>8 DEF Rely!Move, Has, Sleepers
<1> QED
  BY <1>9

(* So does swap_in; in memory the process may be awake.                    *)
LEMMA BringInMoves ==
  ASSUME IInv, BringIn, IInv'
  PROVE  \E p \in Procs : Rely!Move(p)
<1>1. PICK p \in Procs : p = Incoming
  BY BringInStep
<1>2. /\ Takes(p, proc[p].size) /\ proc[p].onswap
      /\ proc'[p].waiting = proc[p].waiting /\ ~proc'[p].onswap
  BY <1>1, BringInStep
<1>3. proc[p].inuse
  BY <1>2, ProcBounds
<1>4. proc[p].size \in Sizes /\ proc[p].base \in Nat
  BY <1>3, OwnsSome, ProcBounds
<1>5. /\ Rely!Gets(p) /\ Cardinality(Has'[p]) = proc[p].size
      /\ \A q \in Procs : q # p => proc'[q] = proc[q]
  BY <1>2, <1>4, TakesGets
<1>6. Cardinality(Has[p]) = proc[p].size
  <2>1. proc[p].size \in Nat /\ proc[p].size > 0
    <3>1. \A n \in Sizes : n \in Nat /\ n > 0
      BY AllocatorAssumption
    <3> QED
      BY <3>1, <1>4
  <2> QED
    BY <2>1, <1>4, Piece DEF Has, Segment
<1>7. p \in Sleepers /\ Sleepers' \in {Sleepers, Sleepers \ {p}}
  <2>1. p \in Sleepers
    BY <1>2 DEF Sleepers
  <2>2. Sleepers' = IF proc[p].waiting THEN Sleepers ELSE Sleepers \ {p}
    BY <1>2, <1>5 DEF Sleepers
  <2> QED
    BY <2>1, <2>2
<1>8. Rely!Cardinality(Has'[p]) = Rely!Cardinality(Has[p])
  BY <1>5, <1>6, Counts
<1>9. Rely!Move(p)
  BY <1>5, <1>7, <1>8 DEF Rely!Move, Has, Sleepers
<1> QED
  BY <1>9

(* alloc_mem gives memory to a process that does not sleep.                *)
LEMMA AllocateGives ==
  ASSUME IInv, Allocate, IInv'
  PROVE  \E p \in Procs : Rely!Give(p)
<1>1. PICK p \in Procs, size \in Sizes : p = job.for /\ size = job.size
  BY AllocateStep
<1>2. /\ Takes(p, size) /\ ~proc[p].waiting /\ ~proc[p].onswap
      /\ ~proc'[p].waiting /\ ~proc'[p].onswap
  BY <1>1, AllocateStep
<1>3. Rely!Gets(p) /\ \A q \in Procs : q # p => proc'[q] = proc[q]
  BY <1>2, TakesGets
<1>4. p \notin Sleepers /\ Sleepers' = Sleepers
  BY <1>2, <1>3 DEF Sleepers
<1> QED
  BY <1>3, <1>4 DEF Rely!Give, Sleepers

(* Who ends has no memory and does not sleep.                              *)
LEMMA EndReleases ==
  ASSUME IInv, NEW p \in Procs, proc[p].inuse, Ends(p)
  PROVE  Rely!Release(p)
<1>1. proc[p].inuse /\ proc' = [proc EXCEPT ![p] = NoProc] /\ proc \in ProcTypes
  BY Shared DEF Ends
<1>2. /\ \A q \in Procs : q # p => proc'[q] = proc[q]
      /\ proc'[p] = NoProc
  BY <1>1 DEF ProcTypes
<1>3. Has[p] # {}
  BY <1>1, OwnsSome
<1>4. Segment(p)' = {}
  BY <1>2 DEF Segment, NoProc, Clicks
<1>5. Has' = [Has EXCEPT ![p] = {}]
  BY <1>2, <1>4 DEF Has, Segment
<1>6. Sleepers' = Sleepers \ {p}
  BY <1>2 DEF Sleepers, NoProc
<1> QED
  BY <1>3, <1>5, <1>6 DEF Rely!Release, Has, Sleepers

(* Who waits sleeps.                                                       *)
LEMMA WaitSleeps ==
  ASSUME IInv, NEW p \in Procs, Wait(p)
  PROVE  Rely!Sleep(p)
<1>1. proc[p].inuse /\ proc' = [proc EXCEPT ![p].waiting = TRUE] /\ proc \in ProcTypes
  BY Shared DEF Wait, Awake
<1>2. /\ \A q \in Procs : proc'[q].base = proc[q].base /\ proc'[q].size = proc[q].size
      /\ \A q \in Procs : q # p => proc'[q] = proc[q]
      /\ proc'[p].waiting
  BY <1>1 DEF ProcTypes, Proc
<1>3. Has' = Has /\ Has[p] # {}
  BY <1>1, <1>2, OwnsSome DEF Has, Segment
<1>4. Sleepers' = Sleepers \cup {p}
  BY <1>2 DEF Sleepers
<1> QED
  BY <1>3, <1>4 DEF Rely!Sleep, Has, Sleepers

(* Who is woken on the swap area sleeps on until it is in memory.          *)
LEMMA AnswerWakes ==
  ASSUME IInv, NEW p \in Procs, Answer(p)
  PROVE  Rely!WakeUp(p) \/ (Has' = Has /\ Sleepers' = Sleepers)
<1>1. /\ proc[p].waiting /\ proc \in ProcTypes
      /\ proc' = [proc EXCEPT ![p].waiting = FALSE, ![p].reply = TRUE, ![p].swapin = proc[p].onswap]
  BY Shared DEF Answer
<1>2. /\ \A q \in Procs : proc'[q].base = proc[q].base /\ proc'[q].size = proc[q].size
      /\ \A q \in Procs : q # p => proc'[q] = proc[q]
      /\ ~proc'[p].waiting /\ proc'[p].onswap = proc[p].onswap
  BY <1>1 DEF ProcTypes, Proc
<1>3. Has' = Has
  BY <1>2 DEF Has, Segment
<1>4. Sleepers' = IF proc[p].onswap THEN Sleepers ELSE Sleepers \ {p}
  BY <1>1, <1>2 DEF Sleepers
<1> QED
  BY <1>3, <1>4 DEF Rely!WakeUp, Has, Sleepers

(* Nobody has memory, nobody sleeps.                                       *)
LEMMA RelyInit == Init => Rely!Init
<1> SUFFICES ASSUME Init PROVE Rely!Init
  OBVIOUS
<1>1. proc = [p \in Procs |-> NoProc]
  BY DEF Init
<1>2. \A p \in Procs : Segment(p) = {} /\ ~proc[p].waiting /\ ~proc[p].onswap
  BY <1>1 DEF Segment, NoProc, Clicks
<1> QED
  BY <1>2 DEF Rely!Init

(* Every step is one of Memory, or changes nothing there.                  *)
LEMMA RelyStep ==
  ASSUME ModesMix = FALSE
  PROVE  IInv /\ [Next]_vars => [Rely!Next]_<<Has, Sleepers>>
<1> SUFFICES ASSUME IInv, [Next]_vars PROVE [Rely!Next]_<<Has, Sleepers>>
  OBVIOUS
<1>1. IInv'
  BY AllocatorStep
<1>2. ASSUME Has' = Has, Sleepers' = Sleepers PROVE [Rely!Next]_<<Has, Sleepers>>
  BY <1>2
<1>3. ASSUME proc' = proc PROVE [Rely!Next]_<<Has, Sleepers>>
  BY <1>2, <1>3, Stays
<1>4. CASE swap_out
  BY <1>1, <1>4, SwapOutMoves DEF Rely!Next
<1>5. CASE BringIn
  BY <1>1, <1>5, BringInMoves DEF Rely!Next
<1>6. CASE Allocate
  BY <1>1, <1>6, AllocateGives DEF Rely!Next
<1>7. CASE SendReplies
  <2>1. proc' = [p \in Procs |-> [proc[p] EXCEPT !.reply = @ /\ proc[p].onswap]] /\ proc \in ProcTypes
    BY <1>7, Shared DEF SendReplies
  <2>2. \A q \in Procs : /\ proc'[q].base = proc[q].base /\ proc'[q].size = proc[q].size
                         /\ proc'[q].waiting = proc[q].waiting /\ proc'[q].onswap = proc[q].onswap
    BY <2>1 DEF ProcTypes, Proc
  <2> QED
    BY <2>2, <1>2, Stays
<1>8. CASE QueueNext
  <2>1. proc' = proc \/ proc' = [proc EXCEPT ![job.at].swapin = TRUE]
    BY <1>8 DEF QueueNext
  <2>2. proc \in ProcTypes /\ job.at \in Procs
    BY <1>8, Shared DEF QueueNext
  <2> QED
    BY <2>1, <2>2, <1>3, QueuedStays
<1>9. CASE \/ mem_init \/ Refuse \/ LeaveOut \/ Clean \/ Checked \/ AllInMemory
           \/ RemoveSwapHole \/ CloseSwap
  BY <1>3, <1>9 DEF mem_init, Refuse, LeaveOut, Clean, Checked, AllInMemory, RemoveSwapHole, CloseSwap
<1>10. CASE Calls
  <2>1. CASE \/ swap_off
             \/ \E mode \in BOOLEAN : do_worst_fit(mode)
             \/ \E size \in SwapSizes : swap_on(size)
             \/ \E p \in Procs, size \in Sizes : Fork(p, size) \/ Exec(p, size)
    BY <1>3, <2>1 DEF swap_off, do_worst_fit, swap_on, Fork, Exec
  <2>2. ASSUME NEW p \in Procs, Exit(p) \/ Wait(p) \/ WakeUp(p)
        PROVE  [Rely!Next]_<<Has, Sleepers>>
    <3>1. Rely!Release(p) \/ Rely!Sleep(p) \/ Rely!WakeUp(p) \/ (Has' = Has /\ Sleepers' = Sleepers)
      BY <2>2, EndReleases, WaitSleeps, AnswerWakes DEF Exit, WakeUp
    <3> QED
      BY <3>1, <1>2 DEF Rely!Next
  <2>3. ASSUME NEW p \in Procs, Signal(p) PROVE [Rely!Next]_<<Has, Sleepers>>
    <3>1. proc' = [proc EXCEPT ![p].swapin = TRUE] /\ proc \in ProcTypes
      BY <2>3, Shared DEF Signal
    <3> QED
      BY <3>1, QueuedStays
  <2> QED
    BY <1>10, <2>1, <2>2, <2>3 DEF Calls
<1>11. CASE Lost \/ UNCHANGED vars
  BY <1>3, <1>11 DEF Lost, vars
<1>12. CASE Kill
  <2>1. PICK p \in Procs : p = job.for
    BY <1>12, KillStep
  <2>2. Rely!Release(p)
    BY <1>12, <2>1, EndReleases DEF Kill
  <2> QED
    BY <2>2 DEF Rely!Next
<1>13. ASSUME NEW p \in Procs, Interrupt(p) PROVE [Rely!Next]_<<Has, Sleepers>>
  <2>1. Rely!WakeUp(p) \/ (Has' = Has /\ Sleepers' = Sleepers)
    BY <1>13, AnswerWakes DEF Interrupt
  <2> QED
    BY <2>1, <1>2 DEF Rely!Next
<1> QED
  BY <1>4, <1>5, <1>6, <1>7, <1>8, <1>9, <1>10, <1>11, <1>12, <1>13 DEF Next, Works

-----------------------------------------------------------------------------
(* Worst fit.                                                              *)

(* One turn of the loop: what best_h is after k holes, if it was b before. *)
Turn(list, clicks, b, k) ==
  IF list[k].len >= clicks /\ list[k].len > (IF b = 0 THEN 0 ELSE list[b].len) THEN k ELSE b

(* f says what best_h is after each of the first n holes.                  *)
Loops(list, clicks, f, n) ==
  f = [k \in 0..n |-> IF k = 0 THEN 0 ELSE Turn(list, clicks, f[k - 1], k)]

(* The loop can be carried on to any hole.                                 *)
LEMMA LoopRuns ==
  ASSUME NEW list, NEW clicks, NEW n \in Nat
  PROVE  \E f : Loops(list, clicks, f, n)
<1> DEFINE T == {m \in Nat : ~\E f : Loops(list, clicks, f, m)}
<1>1. SUFFICES ASSUME T # {} PROVE FALSE
  OBVIOUS
<1>2. PICK m \in T : \A i \in T : m <= i
  BY <1>1, LeastNat
<1>3. CASE m = 0
  <2> DEFINE f == [k \in 0..0 |-> 0]
  <2>1. f = [k \in 0..0 |-> IF k = 0 THEN 0 ELSE Turn(list, clicks, f[k - 1], k)]
    OBVIOUS
  <2> QED
    BY <1>3, <2>1 DEF Loops
<1>4. CASE m # 0
  <2>1. m \in Nat /\ m - 1 \in Nat /\ m - 1 \notin T
    BY <1>2, <1>4
  <2>2. PICK g : Loops(list, clicks, g, m - 1)
    BY <2>1
  <2>3. ASSUME NEW k \in 0..(m - 1)
        PROVE  g[k] = IF k = 0 THEN 0 ELSE Turn(list, clicks, g[k - 1], k)
    BY <2>2 DEF Loops
  <2> DEFINE f == [k \in 0..m |-> IF k = m THEN Turn(list, clicks, g[m - 1], m) ELSE g[k]]
  <2>4. ASSUME NEW k \in 0..m
        PROVE  f[k] = IF k = 0 THEN 0 ELSE Turn(list, clicks, f[k - 1], k)
    <3>1. CASE k = m
      <4>1. k # 0 /\ k - 1 \in 0..m /\ k - 1 # m
        BY <1>4, <2>1, <3>1
      <4>2. f[k - 1] = g[k - 1]
        BY <4>1
      <4> QED
        BY <3>1, <4>1, <4>2
    <3>2. CASE k # m
      <4>1. k \in 0..(m - 1) /\ f[k] = g[k]
        BY <2>1, <3>2
      <4>2. ASSUME k # 0 PROVE f[k - 1] = g[k - 1]
        <5>1. k - 1 \in 0..m /\ k - 1 # m
          BY <2>1, <3>2, <4>2
        <5> QED
          BY <5>1
      <4> QED
        BY <2>3, <4>1, <4>2
    <3> QED
      BY <3>1, <3>2
  <2>5. f = [k \in 0..m |-> f[k]]
    OBVIOUS
  <2> HIDE DEF f
  <2>6. f = [k \in 0..m |-> IF k = 0 THEN 0 ELSE Turn(list, clicks, f[k - 1], k)]
    BY <2>4, <2>5
  <2> QED
    BY <1>2, <2>6 DEF Loops
<1> QED
  BY <1>3, <1>4

LEMMA LoopOfAlloc ==
  ASSUME NEW list, NEW clicks, Len(list) \in Nat
  PROVE  \E f : Loops(list, clicks, f, Len(list)) /\ WorstFitLoop(list, clicks) = f[Len(list)]
<1>1. PICK f : Loops(list, clicks, f, Len(list))
  BY LoopRuns
<1> DEFINE best == CHOOSE g : Loops(list, clicks, g, Len(list))
<1>2. Loops(list, clicks, best, Len(list))
  BY <1>1
<1>3. WorstFitLoop(list, clicks) = best[Len(list)]
  BY Zenon DEF WorstFitLoop, Loops, Turn
<1> QED
  BY <1>2, <1>3

(* b is the first of the largest among the first n holes, if one fits.     *)
BestOf(list, clicks, n, b) ==
  \/ b = 0 /\ \A j \in 1..n : list[j].len < clicks
  \/ /\ b \in 1..n /\ list[b].len >= clicks
     /\ \A j \in 1..n : list[j].len <= list[b].len
     /\ \A j \in 1..n : j < b => list[j].len < list[b].len

LEMMA TurnKeeps ==
  ASSUME NEW list, NEW clicks \in Nat \ {0}, NEW k \in Nat \ {0}, NEW b,
         \A j \in 1..k : list[j].len \in Nat,
         BestOf(list, clicks, k - 1, b)
  PROVE  BestOf(list, clicks, k, Turn(list, clicks, b, k))
<1> DEFINE l(j) == list[j].len
<1>1. \A j \in 1..k : j \in 1..(k - 1) \/ j = k
  OBVIOUS
<1>2. k \in 1..k /\ \A j \in 1..(k - 1) : j \in 1..k /\ j < k
  OBVIOUS
<1>3. CASE b = 0 /\ \A j \in 1..(k - 1) : l(j) < clicks
  <2>1. CASE l(k) >= clicks
    <3>1. Turn(list, clicks, b, k) = k
      BY <1>2, <1>3, <2>1 DEF Turn
    <3>2. \A j \in 1..k : l(j) <= l(k) /\ (j < k => l(j) < l(k))
      BY <1>1, <1>2, <1>3, <2>1
    <3> QED
      BY <1>2, <2>1, <3>1, <3>2 DEF BestOf
  <2>2. CASE ~(l(k) >= clicks)
    <3>1. Turn(list, clicks, b, k) = 0
      BY <1>3, <2>2 DEF Turn
    <3>2. \A j \in 1..k : l(j) < clicks
      BY <1>1, <1>2, <1>3, <2>2
    <3> QED
      BY <3>1, <3>2 DEF BestOf
  <2> QED
    BY <2>1, <2>2
<1>4. CASE /\ b \in 1..(k - 1) /\ l(b) >= clicks
           /\ \A j \in 1..(k - 1) : l(j) <= l(b)
           /\ \A j \in 1..(k - 1) : j < b => l(j) < l(b)
  <2>1. b # 0 /\ b \in 1..k /\ b < k /\ l(b) \in Nat /\ l(k) \in Nat
    BY <1>2, <1>4
  <2>2. CASE l(k) > l(b)
    <3>1. Turn(list, clicks, b, k) = k
      BY <1>4, <2>1, <2>2 DEF Turn
    <3>2. \A j \in 1..k : l(j) <= l(k) /\ (j < k => l(j) < l(k))
      BY <1>1, <1>2, <1>4, <2>1, <2>2
    <3>3. l(k) >= clicks
      BY <1>4, <2>1, <2>2
    <3> QED
      BY <1>2, <3>1, <3>2, <3>3 DEF BestOf
  <2>3. CASE ~(l(k) > l(b))
    <3>1. Turn(list, clicks, b, k) = b
      BY <2>1, <2>3 DEF Turn
    <3>2. \A j \in 1..k : l(j) <= l(b) /\ (j < b => l(j) < l(b))
      BY <1>1, <1>4, <2>1, <2>3
    <3> QED
      BY <1>4, <2>1, <3>1, <3>2 DEF BestOf
  <2> QED
    BY <2>2, <2>3
<1> QED
  BY <1>3, <1>4 DEF BestOf

LEMMA LoopFinds ==
  ASSUME NEW list, NEW clicks \in Nat \ {0}, Len(list) \in Nat,
         \A j \in 1..Len(list) : list[j].len \in Nat
  PROVE  BestOf(list, clicks, Len(list), WorstFitLoop(list, clicks))
<1> DEFINE n == Len(list)
<1>1. PICK f : Loops(list, clicks, f, n) /\ WorstFitLoop(list, clicks) = f[n]
  BY LoopOfAlloc
<1>2. \A k \in 0..n : f[k] = IF k = 0 THEN 0 ELSE Turn(list, clicks, f[k - 1], k)
  BY <1>1 DEF Loops
<1>3. n \in Nat /\ \A j \in 1..n : list[j].len \in Nat
  OBVIOUS
<1> HIDE DEF n
<1> DEFINE T == {k \in 0..n : ~BestOf(list, clicks, k, f[k])}
<1>4. T = {}
  <2> SUFFICES ASSUME T # {} PROVE FALSE
    OBVIOUS
  <2>1. T \in SUBSET Nat
    BY <1>3
  <2> HIDE DEF T
  <2>2. PICK k \in T : \A i \in T : k <= i
    BY <2>1, LeastNat
  <2>3. k \in 0..n /\ ~BestOf(list, clicks, k, f[k])
    BY <2>2 DEF T
  <2>4. CASE k = 0
    BY <1>2, <2>3, <2>4 DEF BestOf
  <2>5. CASE k # 0
    <3>1. k \in Nat \ {0} /\ k - 1 \in 0..n /\ k - 1 < k /\ \A j \in 1..k : j \in 1..n
      BY <1>3, <2>3, <2>5
    <3>2. k - 1 \notin T
      BY <2>1, <2>2, <3>1
    <3>3. BestOf(list, clicks, k - 1, f[k - 1])
      BY <3>1, <3>2 DEF T
    <3>4. f[k] = Turn(list, clicks, f[k - 1], k)
      BY <1>2, <2>3, <2>5
    <3> QED
      BY <1>3, <2>3, <3>1, <3>3, <3>4, TurnKeeps
  <2> QED
    BY <2>4, <2>5
<1>5. n \in 0..n
  BY <1>3
<1>6. BestOf(list, clicks, n, f[n])
  BY <1>4, <1>5
<1> QED
  BY <1>1, <1>6 DEF n

(* What the property says of it.                                           *)
LEMMA LargestIs ==
  ASSUME NEW clicks \in Nat \ {0}, Len(holes) \in Nat, DOMAIN holes = 1..Len(holes),
         \A j \in 1..Len(holes) : holes[j].len \in Nat
  PROVE  LET fit == {k \in DOMAIN holes : holes[k].len >= clicks}
         IN  WorstFitLoop(holes, clicks) = IF fit = {} THEN 0 ELSE Least(Largest(fit))
<1> DEFINE n == Len(holes)
           fit == {k \in 1..n : holes[k].len >= clicks}
           b == WorstFitLoop(holes, clicks)
<1>1. BestOf(holes, clicks, n, b)
  BY LoopFinds
<1> HIDE DEF b
<1>2. CASE b = 0 /\ \A j \in 1..n : holes[j].len < clicks
  <2>1. fit = {}
    BY <1>2
  <2> QED
    BY <1>2, <2>1 DEF b
<1>3. CASE /\ b \in 1..n /\ holes[b].len >= clicks
           /\ \A j \in 1..n : holes[j].len <= holes[b].len
           /\ \A j \in 1..n : j < b => holes[j].len < holes[b].len
  <2>1. b \in fit
    BY <1>3
  <2>2. b \in Largest(fit)
    BY <1>3, <2>1 DEF Largest
  <2>3. ASSUME NEW k \in Largest(fit) PROVE b <= k
    <3>1. k \in 1..n /\ holes[b].len <= holes[k].len
      BY <2>1 DEF Largest
    <3>2. ~(holes[k].len < holes[b].len)
      BY <1>3, <3>1
    <3>3. ~(k < b)
      BY <1>3, <3>1, <3>2
    <3> QED
      BY <1>3, <3>1, <3>3
  <2>4. Largest(fit) \in SUBSET Int
    BY DEF Largest
  <2> HIDE DEF fit
  <2>5. Least(Largest(fit)) \in Largest(fit) /\ Least(Largest(fit)) <= b
    BY <2>2, <2>3 DEF Least
  <2>6. Least(Largest(fit)) = b
    BY <2>2, <2>3, <2>4, <2>5
  <2> QED
    BY <2>1, <2>6 DEF b, fit
<1> QED
  BY <1>1, <1>2, <1>3 DEF BestOf

LEMMA WorstFitIs == IInv => WorstFitRight
<1> SUFFICES ASSUME IInv, NEW clicks \in Sizes
             PROVE  LET fit == {k \in DOMAIN holes : holes[k].len >= clicks}
                    IN  WorstFitLoop(holes, clicks) = IF fit = {} THEN 0 ELSE Least(Largest(fit))
  BY DEF WorstFitRight
<1>1. holes \in Seq(Hole)
  BY Shared
<1>2. Len(holes) \in Nat /\ DOMAIN holes = 1..Len(holes)
  BY <1>1, LenProperties
<1>3. ASSUME NEW j \in 1..Len(holes) PROVE holes[j].len \in Nat
  BY <1>3, HoleBounds
<1>4. clicks \in Nat \ {0}
  BY AllocatorAssumption
<1> QED
  BY <1>2, <1>3, <1>4, LargestIs

-----------------------------------------------------------------------------
(* The theorems.                                                           *)

(* The variables of alloc.c keep their ranges; no address and no length    *)
(* passes the largest phys_clicks.                                         *)
THEOREM AllocatorTypes ==
  ASSUME ModesMix = FALSE
  PROVE  Spec => []TypeOK
BY AllocatorInvariant, TypesRight, PTL

(* alloc_mem, free_mem and merge keep the list of holes sorted and merged, *)
(* with any chunks, sizes and number of processes.                         *)
THEOREM AlwaysMerged ==
  ASSUME ModesMix = FALSE
  PROVE  Spec => []HolesMerged
BY AllocatorInvariant, HolesRight, PTL

(* At every moment, between the steps of a call that swaps too, each click *)
(* of memory and of the swap area has one owner: a hole or a process.      *)
THEOREM NoClickLost ==
  ASSUME ModesMix = FALSE
  PROVE  Spec => []NothingLostOrShared
BY AllocatorInvariant, OwnersRight, PTL

(* The table of holes never runs out of slots, if it has one for each      *)
(* process and each chunk, and two more: free_mem does not panic.          *)
THEOREM NoPanic ==
  ASSUME ModesMix = FALSE
  PROVE  Spec => []SlotsConserved
BY AllocatorInvariant, SlotsRight, PTL

(* Who may run is in memory; who is on the swap area sleeps, or is queued. *)
THEOREM OnlySleepersOut ==
  ASSUME ModesMix = FALSE
  PROVE  Spec => []RunsInMemory
BY AllocatorInvariant, PlacesRight, PTL

(* in_queue holds whoever wants to come back once, and nobody else when MM *)
(* waits for a call.                                                       *)
THEOREM QueueOfWaiters ==
  ASSUME ModesMix = FALSE
  PROVE  Spec => []QueueRight
BY AllocatorInvariant, WaitersRight, PTL

(* The loop of worst fit, which keeps the longest hole it has met, finds    *)
(* the first of the largest holes whenever one is big enough.              *)
THEOREM FirstOfLargest ==
  ASSUME ModesMix = FALSE
  PROVE  Spec => []WorstFitRight
BY AllocatorInvariant, WorstFitIs, PTL

(* The allocator implements what processes rely on: fork, exec and         *)
(* swapping give a process memory nobody has, in one piece, and move it    *)
(* only while it sleeps.                                                   *)
THEOREM MemoryImplemented ==
  ASSUME ModesMix = FALSE
  PROVE  Spec => ImplementsMemory
<1>1. IInv /\ [Next]_vars => [Rely!Next]_<<Has, Sleepers>>
  BY RelyStep
<1> QED
  BY <1>1, RelyInit, AllocatorInvariant, PTL DEF Spec, ImplementsMemory, Rely!Spec, Has, Sleepers
===============================================================================
