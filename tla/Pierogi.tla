------------------------------- MODULE Pierogi -------------------------------
(***************************************************************************)
(* What semafors/ and monitors/ promise of their kitchen (report.md:       *)
(* "every ingredient is used once", "products are taken from the buffers   *)
(* FIFO", "buffers are not overfilled, nor are ingredients taken from      *)
(* nowhere").  Each ingredient has a producer and a bounded buffer; each   *)
(* consumer takes its own filling, then the dough that all share, and      *)
(* makes a pierog of them.                                                 *)
(***************************************************************************)
EXTENDS Integers, Sequences

CONSTANTS Dough, Fillings,  \* the consumers are named by their filling
          N,                \* the size of a buffer
          Ids               \* the producers number their items modulo Ids

Ingredients == {Dough} \cup Fillings

Id == 0..Ids - 1

VARIABLES item,    \* the next item of each producer
          buffer,  \* the items in each buffer, the oldest first
          meal     \* what each consumer has taken for its next pierog

kitchen == <<item, buffer, meal>>

Init ==
  /\ item = [i \in Ingredients |-> 0]
  /\ buffer = [i \in Ingredients |-> << >>]
  /\ meal = [f \in Fillings |-> << >>]

Put(i) ==
  /\ Len(buffer[i]) < N
  /\ buffer' = [buffer EXCEPT ![i] = Append(@, item[i])]
  /\ item' = [item EXCEPT ![i] = (@ + 1) % Ids]
  /\ UNCHANGED meal

Take(f, i) ==
  /\ buffer[i] # << >>
  /\ meal' = [meal EXCEPT ![f] = Append(@, Head(buffer[i]))]
  /\ buffer' = [buffer EXCEPT ![i] = Tail(@)]
  /\ UNCHANGED item

TakeFilling(f) == Len(meal[f]) = 0 /\ Take(f, f)
TakeDough(f)   == Len(meal[f]) = 1 /\ Take(f, Dough)

make_pierogi(f) ==
  /\ Len(meal[f]) = 2
  /\ meal' = [meal EXCEPT ![f] = << >>]
  /\ UNCHANGED <<item, buffer>>

Next ==
  \/ \E i \in Ingredients : Put(i)
  \/ \E f \in Fillings : TakeFilling(f) \/ TakeDough(f) \/ make_pierogi(f)

Spec == Init /\ [][Next]_kitchen

(***************************************************************************)
(* Producers with room, and consumers with a filling to take or a pierog   *)
(* to make, go on; of those that wait for dough, some one does.            *)
(***************************************************************************)
Fairness ==
  /\ \A i \in Ingredients : WF_kitchen(Put(i))
  /\ \A f \in Fillings : WF_kitchen(TakeFilling(f) \/ make_pierogi(f))
  /\ WF_kitchen(\E f \in Fillings : TakeDough(f))

FairSpec == Spec /\ Fairness
=============================================================================
