------------------------------- MODULE Messages -------------------------------
(***************************************************************************)
(* Message passing, interrupt messages and kernel signals (kernel/proc.c   *)
(* and the signal part of kernel/system.c), as operators on the kernel     *)
(* state k.  Besides the fields of ReadyQueues, k has, for each process,   *)
(*   p_flags        why it may not run (a set of flags)                    *)
(*   p_getfrom      from whom it receives                                  *)
(*   p_sendto       to whom it sends                                       *)
(*   p_callerq      who waits to send to it, in order of arrival           *)
(*   p_int_blocked  an interrupt arrived while the task was busy           *)
(*   m_source       the sender of the message in the task's buffer         *)
(*   p_pending      signals MM has not been told of                        *)
(*   p_pendcount    signals pending or being handled by MM                 *)
(* and sig_procs, the number of processes flagged PENDING, and alive, the  *)
(* user slots in use.  Of a message only the sender is kept.               *)
(***************************************************************************)
EXTENDS ReadyQueues

CONSTANTS MM,            \* the memory manager, one of the servers
          HARDWARE,      \* the source of interrupt and signal messages
          ANY,           \* receive from whoever sends
          NIL            \* no message

ASSUME MessagesAssumption ==
  /\ MM \in Servers
  /\ {HARDWARE, ANY, NIL} \cap Proc = {}
  /\ HARDWARE # ANY /\ HARDWARE # NIL /\ ANY # NIL /\ HARDWARE # IDLE

Flags == {"NO_MAP", "SENDING", "RECEIVING", "PENDING", "SIG_PENDING", "P_STOP"}

isemptyp(k, p) == p \in Users \ k.alive

Has(k, p, f)  == f \in k.p_flags[p]
Waiting(k, p) == Has(k, p, "RECEIVING") /\ ~Has(k, p, "SENDING")

(***************************************************************************)
(* Setting and clearing flags: a process leaves its queue with its first   *)
(* flag and comes back with its last.                                      *)
(***************************************************************************)
Block(k, p, fs) ==
  LET u == IF k.p_flags[p] = {} THEN unready(k, p) ELSE k
  IN [u EXCEPT !.p_flags[p] = @ \cup fs]

Unblock_early(k, p, f) ==          \* faulty: ready although another flag is left
  ready([k EXCEPT !.p_flags[p] = @ \ {f}], p)

Unblock(k, p, f) ==
  LET u == [k EXCEPT !.p_flags[p] = @ \ {f}]
  IN IF u.p_flags[p] = {} THEN ready(u, p) ELSE u

(* CopyMess: who the message in a task's buffer is from.                   *)
CopyMess(k, src, dst) ==
  IF dst \in Tasks THEN [k EXCEPT !.m_source[dst] = src] ELSE k

(***************************************************************************)
(* Senders(k, p)[n] is the process reached from p in n steps along         *)
(* p_sendto while the process there is SENDING, where the walk stops.      *)
(***************************************************************************)
Senders(k, p) ==
  LET walk[n \in 0..Cardinality(Proc)] ==
        IF n = 0 THEN p
        ELSE IF Has(k, walk[n - 1], "SENDING") THEN k.p_sendto[walk[n - 1]]
        ELSE walk[n - 1]
  IN walk

(* mini_send refuses with ELOCKED a send that would close such a walk.     *)
Locked(k, c, d) ==
  \E n \in 1..Cardinality(Proc) :
     Has(k, Senders(k, d)[n - 1], "SENDING") /\ Senders(k, d)[n] = c

WaitsFor_not_any(k, d, c) ==       \* faulty: ANY is not recognised
  Waiting(k, d) /\ k.p_getfrom[d] = c

WaitsFor(k, d, c) == Waiting(k, d) /\ k.p_getfrom[d] \in {ANY, c}

mini_send(k, c, d) ==
  IF WaitsFor(k, d, c)
  THEN Unblock(CopyMess(k, c, d), d, "RECEIVING")
  ELSE [Block(k, c, {"SENDING"}) EXCEPT !.p_sendto[c]  = d,
                                        !.p_callerq[d] = Append(@, c)]

(***************************************************************************)
(* MM is waiting for new input: tell it about one process with signals.    *)
(***************************************************************************)
inform(k) ==
  LET u == CHOOSE p \in Servers \cup Users : Has(k, p, "PENDING")
      told == mini_send([k EXCEPT !.sig_procs = @ - 1], HARDWARE, MM)
  IN pick_proc([told EXCEPT !.p_pending[u] = {}, !.p_flags[u] = @ \ {"PENDING"}])

mini_rec(k, c, src) ==
  LET q == k.p_callerq[c]
      Acceptable == {i \in DOMAIN q : src \in {ANY, q[i]}}
      i == CHOOSE j \in Acceptable : \A h \in Acceptable : j <= h
      Blocked == Block([k EXCEPT !.p_getfrom[c] = src], c, {"RECEIVING"})
  IN IF ~Has(k, c, "SENDING") /\ Acceptable # {}
     THEN Unblock([CopyMess(k, q[i], c) EXCEPT !.p_callerq[c] = RemoveAt(q, i)],
                  q[i], "SENDING")
     ELSE IF ~Has(k, c, "SENDING") /\ c \in Tasks /\ k.p_int_blocked[c] /\ src \in {ANY, HARDWARE}
     THEN [CopyMess(k, HARDWARE, c) EXCEPT !.p_int_blocked[c] = FALSE]
     ELSE IF k.sig_procs > 0 /\ c = MM /\ src = ANY THEN inform(Blocked)
     ELSE Blocked

(***************************************************************************)
(* sys_call: SEND, and BOTH (send, then wait for the answer).  RECEIVE is  *)
(* mini_rec alone.  A send to an empty slot or in a circle is refused.     *)
(***************************************************************************)
Refused_empty(k, c, d) == isemptyp(k, d)   \* faulty: no deadlock check

Refused(k, c, d) == isemptyp(k, d) \/ Locked(k, c, d)

Send(k, c, d)    == IF Refused(k, c, d) THEN k ELSE mini_send(k, c, d)

SendRec_without_receive(k, c, d) == Send(k, c, d)   \* faulty: BOTH only sends

SendRec(k, c, d) ==
  IF Refused(k, c, d) THEN k ELSE mini_rec(mini_send(k, c, d), c, d)

(***************************************************************************)
(* A hardware interrupt for task t, delivered while no other kernel code   *)
(* runs.                                                                   *)
(***************************************************************************)
interrupt(k, t) ==
  IF Waiting(k, t) /\ k.p_getfrom[t] \in {ANY, HARDWARE}
  THEN ReadyInline([k EXCEPT !.m_source[t] = HARDWARE,
                             !.p_flags[t] = @ \ {"RECEIVING"},
                             !.p_int_blocked[t] = FALSE], t)
  ELSE [k EXCEPT !.p_int_blocked[t] = TRUE]

(***************************************************************************)
(* A task signals process u.                                               *)
(***************************************************************************)
cause_sig(k, u, sig) ==
  LET counted == [k EXCEPT !.p_pending[u] = @ \cup {sig}, !.p_pendcount[u] = @ + 1]
      flagged == [Block(counted, u, {"PENDING", "SIG_PENDING"}) EXCEPT !.sig_procs = @ + 1]
  IN IF sig \in k.p_pending[u] THEN k
     ELSE IF Has(k, u, "PENDING") THEN counted
     ELSE IF Has(flagged, MM, "RECEIVING") /\ flagged.p_getfrom[MM] = ANY THEN inform(flagged)
     ELSE flagged
=============================================================================
