--------------------------- MODULE MCVirtualDisk ---------------------------
(* A small disk: a long name with its cut form, files of no block, of part of one and of two whole ones. *)
EXTENDS VirtualDisk, TLC

CONSTANTS u1, u2, short, long, cut, empty, tiny, large

MCUsers == {u1, u2}
MCNames == {short, long, cut}
MCStored(n) == IF n = long THEN cut ELSE n
MCContents == {empty, tiny, large}
MCSizeOf(c) == CASE c = empty -> 0 [] c = tiny -> 1 [] c = large -> 4

\* Once two commands have clashed no action and no property but the types reads the
\* data or what is copied out, so states that differ in these only are the same.
View ==
    IF overlapped
    THEN <<disk, super, [u \in Users |->
              IF command[u].step \in {"read", "copied"} THEN [step |-> "out"] ELSE command[u]]>>
    ELSE <<disk, super, command, block>>

Symmetry == Permutations(MCUsers)
=============================================================================
