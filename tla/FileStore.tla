----------------------------- MODULE FileStore -----------------------------
(***************************************************************************)
(* What the virtual disk promises: a catalogue of whole files.  Nothing is *)
(* known of blocks, and every operation takes effect in one step or, if it *)
(* is refused or stopped on the way, not at all.  The promise is made as   *)
(* long as no two commands clash: afterwards anything may be in it.        *)
(***************************************************************************)
CONSTANTS
    Slots,          \* the entries of the catalogue
    Names,          \* the names a user gives
    Stored(_),      \* the name the catalogue keeps for a given one
    Files           \* what a file may contain

VARIABLES
    state,          \* "none", "unreadable", "ready", or "anything"
    catalogue       \* the entries, while the state is "ready"

Free == [used |-> FALSE]
Entry(n, f) == [used |-> TRUE, name |-> n, file |-> f]
Empty == [i \in Slots |-> Free]

Init == state = "none" /\ catalogue = Empty

Exists(i, n) == catalogue[i].used /\ catalogue[i].name = n

\* Create, in two steps: a disk that is being made is empty and cannot be read.
StartCreate == state' = "unreadable" /\ catalogue' = Empty

FinishCreate ==
    /\ state = "unreadable" /\ state' = "ready"
    /\ catalogue' = Empty

Remove == state' = "none" /\ catalogue' = Empty

\* A new file comes into a free entry; no other file changes.
CopyIn(n, f) ==
    /\ state = "ready" /\ UNCHANGED state
    /\ \A i \in Slots : ~Exists(i, n)
    /\ \E i \in Slots :
          /\ ~catalogue[i].used
          /\ catalogue' = [catalogue EXCEPT ![i] = Entry(Stored(n), f)]

Delete(n) ==
    /\ state = "ready" /\ UNCHANGED state
    /\ \E i \in Slots :
          /\ Exists(i, n)
          /\ catalogue' = [catalogue EXCEPT ![i] = Free]

\* Two commands clash.
Misuse == state' = "anything" /\ catalogue' = Empty

Next ==
    \/ StartCreate \/ FinishCreate \/ Remove \/ Misuse
    \/ \E n \in Names : Delete(n) \/ \E f \in Files : CopyIn(n, f)

Spec == Init /\ [][Next]_<<state, catalogue>>
=============================================================================
