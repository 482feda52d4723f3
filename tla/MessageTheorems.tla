---------------------------- MODULE MessageTheorems ----------------------------
(***************************************************************************)
(* Why no process of Kernel sleeps on a message, an interrupt or a signal  *)
(* that is there, why a task can always reply, why the counts of signals   *)
(* are right, why no processes send to each other in a circle, and who may *)
(* lose its age.  The lemmas go through the shapes of the steps of         *)
(* KernelProofs and KernelTheorems, and then through the actions.          *)
(***************************************************************************)
EXTENDS KernelTheorems

(* The process table is finite.                                            *)
LEMMA UsersFinite == IsFiniteSet(Users)
BY ProcAssumption, FS_Subset DEF Proc

Sending(s, p) == "SENDING" \in s.p_flags[p]

(* Who is SENDING made a call and is to receive the answer; tasks never    *)
(* are.                                                                    *)
Callings(s) ==
  /\ \A p \in Proc : Sending(s, p) => "RECEIVING" \in s.p_flags[p] /\ s.p_getfrom[p] = s.p_sendto[p]
  /\ \A t \in Tasks : ~Sending(s, t)

(* Nobody who waits would take the message of a process that sends to it,  *)
(* or an interrupt.                                                        *)
Heard(s) ==
  /\ \A p, q \in Proc : Waiting(s, p) /\ Sending(s, q) /\ s.p_sendto[q] = p
                          => s.p_getfrom[p] \notin {ANY, q}
  /\ \A t \in Tasks : Waiting(s, t) /\ s.p_getfrom[t] = ANY => ~s.p_int_blocked[t]

Signaled(s) == {u \in Users : "PENDING" \in s.p_flags[u]}

(* The flags and counts of signals agree.                                  *)
Counted(s) ==
  /\ s.sig_procs = Cardinality(Signaled(s))
  /\ \A u \in Users : /\ "PENDING" \in s.p_flags[u] <=> s.p_pending[u] # {}
                      /\ "SIG_PENDING" \in s.p_flags[u] <=> s.p_pendcount[u] > 0
                      /\ s.p_pendcount[u] >= Cardinality(s.p_pending[u])

(* MM does not wait for work while it has not been told of a signal.       *)
Told(s) == Waiting(s, MM) /\ s.p_getfrom[MM] = ANY => Signaled(s) = {}

Mail(s) == Callings(s) /\ Heard(s)

Msg(s) == Mail(s) /\ Counted(s) /\ Told(s)

(* The process a task serves waits for its answer.                         *)
Serving(s, at) ==
  \A t \in Tasks : at[t] = "reply" \/ (at[t] = "work" /\ s.m_source[t] \in Proc)
                     => Waiting(s, s.m_source[t]) /\ s.p_getfrom[s.m_source[t]] = t

-----------------------------------------------------------------------------
(* What does not change.                                                   *)

SameMail(s, t) ==
  /\ \A p \in Proc : Sending(t, p) <=> Sending(s, p)
  /\ \A p \in Proc : "RECEIVING" \in t.p_flags[p] <=> "RECEIVING" \in s.p_flags[p]
  /\ t.p_getfrom = s.p_getfrom /\ t.p_sendto = s.p_sendto

(* Who waits for whom, and for whom tasks work, stays.                     *)
LEMMA MailKept ==
  ASSUME NEW s, NEW t, Mail(s), SameMail(s, t), t.p_int_blocked = s.p_int_blocked
  PROVE  Mail(t)
<1>1. \A p \in Proc : Waiting(t, p) <=> Waiting(s, p)
  BY DEF SameMail, Waiting, Has, Sending
<1>2. Callings(t)
  BY DEF Mail, Callings, SameMail, Proc
<1>3. Heard(t)
  BY <1>1 DEF Mail, Heard, SameMail, Proc
<1> QED
  BY <1>2, <1>3 DEF Mail

LEMMA CountedKept ==
  ASSUME NEW s, NEW t, Counted(s), SameSignals(s, t),
         \A u \in Users : \A f \in {"PENDING", "SIG_PENDING"} :
            f \in t.p_flags[u] <=> f \in s.p_flags[u]
  PROVE  Counted(t) /\ Signaled(t) = Signaled(s)
<1>1. Signaled(t) = Signaled(s)
  BY DEF Signaled
<1> QED
  BY <1>1 DEF Counted, SameSignals

LEMMA ServingKept ==
  ASSUME NEW s, NEW t, NEW at, Serving(s, at), SameMail(s, t), t.m_source = s.m_source,
         Partners(s), TaskLoop(s, at)
  PROVE  Serving(t, at)
<1>1. \A x \in Tasks : at[x] = "reply" => s.m_source[x] \in Proc
  BY DEF TaskLoop, Proc
<1>2. \A p \in Proc : Waiting(t, p) <=> Waiting(s, p)
  BY DEF SameMail, Waiting, Has, Sending
<1> QED
  BY <1>1, <1>2 DEF Serving, SameMail

(* A step of the scheduler.                                                *)
LEMMA SchedulingMsg ==
  ASSUME NEW s, NEW t, NEW at, KInv(s), Msg(s), Serving(s, at), TaskLoop(s, at),
         t.p_flags = s.p_flags, t.p_getfrom = s.p_getfrom, t.p_sendto = s.p_sendto,
         t.p_int_blocked = s.p_int_blocked, t.m_source = s.m_source, SameSignals(s, t)
  PROVE  Msg(t) /\ Serving(t, at)
<1>1. SameMail(s, t)
  BY DEF SameMail, Sending
<1>2. Mail(t) /\ Counted(t) /\ Signaled(t) = Signaled(s)
  BY <1>1, MailKept, CountedKept DEF Msg
<1>3. Told(t)
  BY <1>2 DEF Msg, Told, Waiting, Has
<1>4. Serving(t, at)
  BY <1>1, ServingKept DEF KInv
<1> QED
  BY <1>2, <1>3, <1>4 DEF Msg

-----------------------------------------------------------------------------
(* Calls and answers.                                                      *)

(* BOTH: the running c sends to d and waits for the answer.                *)
LEMMA CallMsg ==
  ASSUME NEW s, NEW t, NEW at, KInv(s), KInv(t), Msg(s), Serving(s, at), TaskLoop(s, at),
         NEW c \in Users \cup Servers, s.p_flags[c] = {}, NEW d \in Proc,
         CallsAndWaits(s, t, c, d)
  PROVE  Msg(t) /\ Serving(t, at)
<1>1. PICK m : /\ IF WaitsFor(s, d, c) THEN Gets(s, m, c, d) ELSE Sends(s, m, c, d)
               /\ WaitsOn(m, t, c, d)
  BY DEF CallsAndWaits
<1>2. c \in Proc /\ c \notin Tasks /\ d # ANY /\ MM \in Proc
  BY ProcAssumption, MessagesAssumption DEF Proc
<1>3. Partners(s) /\ FlagsAgree(s)
  BY DEF KInv
<1>4. /\ \A x \in Proc : t.p_getfrom[x] = IF x = c THEN d ELSE s.p_getfrom[x]
      /\ t.p_int_blocked = s.p_int_blocked /\ SameSignals(s, t)
  BY <1>1 DEF Gets, Sends, WaitsOn, SameSignals
<1>5. CASE WaitsFor(s, d, c)
  <2>1. Gets(s, m, c, d) /\ WaitsOn(m, t, c, d)
    BY <1>1, <1>5
  <2>2. c # d /\ "RECEIVING" \in s.p_flags[d] /\ ~Sending(s, d) /\ s.p_getfrom[d] \in {ANY, c}
    BY <1>5 DEF WaitsFor, Waiting, Has, Sending
  <2>3. /\ \A x \in Proc : t.p_flags[x] = IF x = c THEN {"RECEIVING"}
                                          ELSE IF x = d THEN s.p_flags[d] \ {"RECEIVING"}
                                          ELSE s.p_flags[x]
        /\ t.p_sendto = s.p_sendto
        /\ \A x \in Tasks : t.m_source[x] = IF x = d THEN c ELSE s.m_source[x]
    BY <2>1, <2>2, <1>2 DEF Gets, WaitsOn, FlagsBut, SourceBut
  <2>4. /\ \A x \in Proc : Sending(t, x) <=> Sending(s, x)
        /\ \A x \in Proc : Waiting(t, x) <=> x = c \/ (x # d /\ Waiting(s, x))
    BY <2>2, <2>3 DEF Sending, Waiting, Has
  <2>5. Callings(t)
    BY <2>2, <2>3, <2>4, <1>2, <1>4 DEF Msg, Mail, Callings, Sending, Proc
  <2>6. Heard(t)
    <3>1. \A p, q \in Proc : Waiting(t, p) /\ Sending(t, q) /\ t.p_sendto[q] = p
                               => t.p_getfrom[p] \notin {ANY, q}
      BY <2>2, <2>3, <2>4, <1>2, <1>4 DEF Msg, Mail, Heard
    <3>2. \A x \in Tasks : Waiting(t, x) /\ t.p_getfrom[x] = ANY => ~t.p_int_blocked[x]
      BY <2>4, <1>2, <1>4 DEF Msg, Mail, Heard, Proc
    <3> QED
      BY <3>1, <3>2 DEF Heard
  <2>7. Counted(t) /\ Signaled(t) = Signaled(s)
    <3>1. \A u \in Users : \A f \in {"PENDING", "SIG_PENDING"} :
             f \in t.p_flags[u] <=> f \in s.p_flags[u]
      BY <2>3 DEF Proc
    <3> QED
      BY <3>1, <1>4, CountedKept DEF Msg
  <2>8. Told(t)
    BY <2>4, <2>7, <1>2, <1>4 DEF Msg, Told
  <2>9. Serving(t, at)
    <3> SUFFICES ASSUME NEW x \in Tasks,
                        at[x] = "reply" \/ (at[x] = "work" /\ t.m_source[x] \in Proc)
                 PROVE  Waiting(t, t.m_source[x]) /\ t.p_getfrom[t.m_source[x]] = x
      BY DEF Serving
    <3>1. CASE x = d
      <4>1. t.m_source[x] = c
        BY <3>1, <2>3
      <4> QED
        BY <4>1, <3>1, <2>4, <1>2, <1>4
    <3>2. CASE x # d
      <4>1. /\ t.m_source[x] = s.m_source[x] /\ x # c
            /\ at[x] = "reply" => s.m_source[x] \in Proc
        BY <3>2, <2>3, <1>2 DEF TaskLoop, Proc
      <4>2. /\ Waiting(s, s.m_source[x]) /\ s.p_getfrom[s.m_source[x]] = x
            /\ s.m_source[x] \in Proc
        BY <4>1 DEF Serving
      <4>3. s.m_source[x] # d /\ s.m_source[x] # c
        <5>1. ANY \notin Tasks
          BY MessagesAssumption DEF Proc
        <5>2. s.p_flags[s.m_source[x]] # {}
          BY <4>2 DEF Waiting, Has
        <5> QED
          BY <5>1, <5>2, <4>1, <4>2, <2>2
      <4> QED
        BY <4>1, <4>2, <4>3, <2>4, <1>4
    <3> QED
      BY <3>1, <3>2
  <2> QED
    BY <2>5, <2>6, <2>7, <2>8, <2>9 DEF Msg, Mail
<1>6. CASE ~WaitsFor(s, d, c)
  <2>1. Sends(s, m, c, d) /\ WaitsOn(m, t, c, d)
    BY <1>1, <1>6
  <2>2. Waiting(s, d) => s.p_getfrom[d] \notin {ANY, c}
    BY <1>6 DEF WaitsFor
  <2>3. /\ \A x \in Proc : t.p_flags[x] = IF x = c THEN {"SENDING", "RECEIVING"} ELSE s.p_flags[x]
        /\ \A x \in Proc : t.p_sendto[x] = IF x = c THEN d ELSE s.p_sendto[x]
        /\ t.m_source = s.m_source
    BY <2>1, <1>2 DEF Sends, WaitsOn, FlagsBut
  <2>4. /\ \A x \in Proc : Sending(t, x) <=> x = c \/ Sending(s, x)
        /\ \A x \in Proc : Waiting(t, x) <=> x # c /\ Waiting(s, x)
    BY <2>3 DEF Sending, Waiting, Has
  <2>5. Callings(t)
    BY <2>3, <2>4, <1>2, <1>4 DEF Msg, Mail, Callings, Sending, Proc
  <2>6. Heard(t)
    <3>1. \A p, q \in Proc : Waiting(t, p) /\ Sending(t, q) /\ t.p_sendto[q] = p
                               => t.p_getfrom[p] \notin {ANY, q}
      BY <2>2, <2>3, <2>4, <1>2, <1>4 DEF Msg, Mail, Heard
    <3>2. \A x \in Tasks : Waiting(t, x) /\ t.p_getfrom[x] = ANY => ~t.p_int_blocked[x]
      BY <2>4, <1>2, <1>4 DEF Msg, Mail, Heard, Proc
    <3> QED
      BY <3>1, <3>2 DEF Heard
  <2>7. Counted(t) /\ Signaled(t) = Signaled(s)
    <3>1. \A u \in Users : \A f \in {"PENDING", "SIG_PENDING"} :
             f \in t.p_flags[u] <=> f \in s.p_flags[u]
      <4>1. \A f \in {"PENDING", "SIG_PENDING"} : f \notin {"SENDING", "RECEIVING"}
        OBVIOUS
      <4> QED
        BY <4>1, <2>3 DEF Proc
    <3> QED
      BY <3>1, <1>4, CountedKept DEF Msg
  <2>8. Told(t)
    BY <2>4, <2>7, <1>2, <1>4 DEF Msg, Told
  <2>9. Serving(t, at)
    <3> SUFFICES ASSUME NEW x \in Tasks,
                        at[x] = "reply" \/ (at[x] = "work" /\ s.m_source[x] \in Proc)
                 PROVE  Waiting(t, s.m_source[x]) /\ t.p_getfrom[s.m_source[x]] = x
      BY <2>3 DEF Serving
    <3>1. /\ Waiting(s, s.m_source[x]) /\ s.p_getfrom[s.m_source[x]] = x
          /\ s.m_source[x] \in Proc
      BY DEF Serving, TaskLoop, Proc
    <3>2. s.m_source[x] # c
      BY <3>1 DEF Waiting, Has
    <3> QED
      BY <3>1, <3>2, <2>4, <1>4
  <2> QED
    BY <2>5, <2>6, <2>7, <2>8, <2>9 DEF Msg, Mail
<1> QED
  BY <1>5, <1>6

(* The running c answers d, which waits for it.                            *)
LEMMA AnswerMsg ==
  ASSUME NEW s, NEW t, NEW at, NEW at2, KInv(s), Msg(s), Serving(s, at), TaskLoop(s, at),
         NEW c \in Proc, s.p_flags[c] = {}, NEW d \in Servers \cup Users,
         WaitsFor(s, d, c), Gets(s, t, c, d),
         \A x \in Tasks : at2[x] = IF x = c THEN "receive" ELSE at[x]
  PROVE  Msg(t) /\ Serving(t, at2)
<1>1. d \in Proc /\ d \notin Tasks
  BY ProcAssumption DEF Proc
<1>2. c # d /\ "RECEIVING" \in s.p_flags[d] /\ ~Sending(s, d) /\ s.p_getfrom[d] \in {ANY, c}
  BY DEF WaitsFor, Waiting, Has, Sending
<1>3. /\ \A x \in Proc : t.p_flags[x] = IF x = d THEN s.p_flags[d] \ {"RECEIVING"} ELSE s.p_flags[x]
      /\ \A x \in Tasks : t.m_source[x] = s.m_source[x]
      /\ t.p_getfrom = s.p_getfrom /\ t.p_sendto = s.p_sendto
      /\ t.p_int_blocked = s.p_int_blocked /\ SameSignals(s, t)
  BY <1>1 DEF Gets, FlagsBut, SourceBut
<1>4. /\ \A x \in Proc : Sending(t, x) <=> Sending(s, x)
      /\ \A x \in Proc : Waiting(t, x) <=> x # d /\ Waiting(s, x)
  BY <1>2, <1>3 DEF Sending, Waiting, Has
<1>5. Callings(t)
  BY <1>2, <1>3, <1>4 DEF Msg, Mail, Callings, Sending, Proc
<1>6. Heard(t)
  BY <1>3, <1>4 DEF Msg, Mail, Heard, Proc
<1>7. Counted(t) /\ Signaled(t) = Signaled(s)
  <2>1. \A u \in Users : \A f \in {"PENDING", "SIG_PENDING"} :
           f \in t.p_flags[u] <=> f \in s.p_flags[u]
    BY <1>3 DEF Proc
  <2> QED
    BY <2>1, <1>3, CountedKept DEF Msg
<1>8. Told(t)
  <2>1. MM \in Proc
    BY MessagesAssumption DEF Proc
  <2> QED
    BY <2>1, <1>3, <1>4, <1>7 DEF Msg, Told
<1>9. Serving(t, at2)
  <2> SUFFICES ASSUME NEW x \in Tasks,
                      at2[x] = "reply" \/ (at2[x] = "work" /\ s.m_source[x] \in Proc)
               PROVE  Waiting(t, s.m_source[x]) /\ s.p_getfrom[s.m_source[x]] = x
    BY <1>3 DEF Serving
  <2>1. x # c /\ at2[x] = at[x]
    OBVIOUS
  <2>2. /\ Waiting(s, s.m_source[x]) /\ s.p_getfrom[s.m_source[x]] = x
        /\ s.m_source[x] \in Proc
    BY <2>1 DEF Serving, TaskLoop, Proc
  <2>3. s.m_source[x] # d
    <3>1. ANY \notin Tasks
      BY MessagesAssumption DEF Proc
    <3> QED
      BY <3>1, <2>1, <2>2, <1>2
  <2> QED
    BY <2>2, <2>3, <1>4
<1> QED
  BY <1>5, <1>6, <1>7, <1>8, <1>9 DEF Msg, Mail

(* MM is told of one of the processes with signals: one less.              *)
LEMMA TellsCounted ==
  ASSUME NEW s, NEW t, KInv(s), Counted(s), Signaled(s) # {}, Informs(s, t)
  PROVE  Counted(t)
<1>1. FlagsAgree(s) /\ MM \notin Users
  BY ProcAssumption, MessagesAssumption DEF KInv
<1>2. Pending(s) = Signaled(s)
  BY <1>1 DEF Pending, Signaled, FlagsAgree, Has
<1>3. PICK u \in Signaled(s) : Tells(s, t, u)
  BY <1>2 DEF Informs
<1>4. /\ \A x \in Users : t.p_flags[x] = s.p_flags[x] \ (IF x = u THEN {"PENDING"} ELSE {})
      /\ \A x \in Users : t.p_pending[x] = IF x = u THEN {} ELSE s.p_pending[x]
      /\ t.p_pendcount = s.p_pendcount /\ t.sig_procs = s.sig_procs - 1
  BY <1>1, <1>3 DEF Tells, Proc
<1>5. Signaled(t) = Signaled(s) \ {u}
  BY <1>4 DEF Signaled
<1>6. t.sig_procs = Cardinality(Signaled(t))
  <2>1. IsFiniteSet(Signaled(s)) /\ Cardinality(Signaled(s)) \in Nat
    BY UsersFinite, FS_Subset, FS_CardinalityType DEF Signaled
  <2>2. Cardinality(Signaled(s) \ {u}) = Cardinality(Signaled(s)) - 1
    BY <2>1, FS_RemoveElement
  <2> QED
    BY <2>1, <2>2, <1>4, <1>5 DEF Counted
<1>7. ASSUME NEW x \in Users
      PROVE  /\ "PENDING" \in t.p_flags[x] <=> t.p_pending[x] # {}
             /\ "SIG_PENDING" \in t.p_flags[x] <=> t.p_pendcount[x] > 0
             /\ t.p_pendcount[x] >= Cardinality(t.p_pending[x])
  <2>1. CASE x = u
    <3>1. Cardinality({}) = 0
      BY FS_EmptySet
    <3>2. "SIG_PENDING" \in s.p_flags[x]
      BY <2>1, <1>1 DEF FlagsAgree, Signaled
    <3>3. s.p_pendcount[x] \in Nat
      BY DEF KInv, Scheduled, KernelState
    <3>4. s.p_pendcount[x] > 0
      BY <3>2 DEF Counted
    <3>5. t.p_pending[x] = {} /\ "PENDING" \notin t.p_flags[x] /\ "SIG_PENDING" \in t.p_flags[x]
      BY <3>2, <2>1, <1>4
    <3> QED
      BY <3>1, <3>3, <3>4, <3>5, <1>4
  <2>2. CASE x # u
    BY <2>2, <1>4 DEF Counted
  <2> QED
    BY <2>1, <2>2
<1> QED
  BY <1>6, <1>7 DEF Counted

(* c, which is not SENDING, asks for a message.                            *)
LEMMA ReceiveMsg ==
  ASSUME NEW s, NEW t, NEW at, NEW at2, KInv(s), Msg(s), Serving(s, at), TaskLoop(s, at),
         NEW c \in Tasks \cup Servers, s.p_flags[c] = {}, Receives(s, t, c, ANY),
         \A x \in Tasks : at2[x] = IF x = c THEN "work" ELSE at[x],
         c \in Tasks => s.m_source[c] = NIL
  PROVE  Msg(t) /\ Serving(t, at2)
<1>1. /\ c \in Proc /\ ~Sending(s, c) /\ ANY \notin Proc /\ MM \in Proc /\ c \notin Users
      /\ HARDWARE \notin Proc /\ NIL \notin Proc
  BY ProcAssumption, MessagesAssumption DEF Proc, Sending
<1>2. ASSUME NEW x \in Tasks, x # c, at2[x] = "reply" \/ (at2[x] = "work" /\ s.m_source[x] \in Proc)
      PROVE  /\ Waiting(s, s.m_source[x]) /\ s.p_getfrom[s.m_source[x]] = x
             /\ s.m_source[x] \in Proc
  BY <1>2 DEF Serving, TaskLoop, Proc
<1>3. ASSUME NEW p \in Proc, Takes(s, t, c, p) PROVE Msg(t) /\ Serving(t, at2)
  <2>1. /\ Sending(s, p) /\ s.p_sendto[p] = c /\ p \notin Tasks
        /\ "RECEIVING" \in s.p_flags[p] /\ s.p_getfrom[p] = c
    BY <1>3 DEF Takes, CallersOf, Sending, Msg, Mail, Callings
  <2>2. /\ \A x \in Proc : t.p_flags[x] = IF x = p THEN s.p_flags[p] \ {"SENDING"} ELSE s.p_flags[x]
        /\ \A x \in Tasks : t.m_source[x] = IF x = c THEN p ELSE s.m_source[x]
        /\ t.p_getfrom = s.p_getfrom /\ t.p_sendto = s.p_sendto
        /\ t.p_int_blocked = s.p_int_blocked /\ SameSignals(s, t)
    BY <1>3 DEF Takes, FlagsBut, SourceBut
  <2>3. /\ \A x \in Proc : Sending(t, x) <=> x # p /\ Sending(s, x)
        /\ \A x \in Proc : Waiting(t, x) <=> x = p \/ Waiting(s, x)
    BY <2>1, <2>2 DEF Sending, Waiting, Has
  <2>4. Callings(t)
    BY <2>2, <2>3 DEF Msg, Mail, Callings, Sending, Proc
  <2>5. Heard(t)
    <3>1. \A x, q \in Proc : Waiting(t, x) /\ Sending(t, q) /\ t.p_sendto[q] = x
                               => t.p_getfrom[x] \notin {ANY, q}
      BY <2>1, <2>2, <2>3, <1>1 DEF Msg, Mail, Heard
    <3>2. \A x \in Tasks : Waiting(t, x) /\ t.p_getfrom[x] = ANY => ~t.p_int_blocked[x]
      BY <2>1, <2>2, <2>3 DEF Msg, Mail, Heard, Proc
    <3> QED
      BY <3>1, <3>2 DEF Heard
  <2>6. Counted(t) /\ Signaled(t) = Signaled(s)
    <3>1. \A u \in Users : \A f \in {"PENDING", "SIG_PENDING"} :
             f \in t.p_flags[u] <=> f \in s.p_flags[u]
      BY <2>2 DEF Proc
    <3> QED
      BY <3>1, <2>2, CountedKept DEF Msg
  <2>7. Told(t)
    BY <2>1, <2>2, <2>3, <2>6, <1>1 DEF Msg, Told
  <2>8. Serving(t, at2)
    <3> SUFFICES ASSUME NEW x \in Tasks,
                        at2[x] = "reply" \/ (at2[x] = "work" /\ t.m_source[x] \in Proc)
                 PROVE  Waiting(t, t.m_source[x]) /\ t.p_getfrom[t.m_source[x]] = x
      BY DEF Serving
    <3>1. CASE x = c
      BY <3>1, <2>1, <2>2, <2>3
    <3>2. CASE x # c
      BY <3>2, <2>2, <2>3, <1>2
    <3> QED
      BY <3>1, <3>2
  <2> QED
    BY <2>4, <2>5, <2>6, <2>7, <2>8 DEF Msg, Mail
<1>4. CASE c \in Tasks /\ TakesInterrupt(s, t, c)
  <2>1. /\ t.p_flags = s.p_flags
        /\ \A x \in Tasks : t.m_source[x] = IF x = c THEN HARDWARE ELSE s.m_source[x]
        /\ t.p_getfrom = s.p_getfrom /\ t.p_sendto = s.p_sendto /\ SameSignals(s, t)
        /\ \A x \in Tasks : t.p_int_blocked[x] => s.p_int_blocked[x]
    BY <1>4 DEF TakesInterrupt, SourceBut
  <2>2. \A x : (Sending(t, x) <=> Sending(s, x)) /\ (Waiting(t, x) <=> Waiting(s, x))
    BY <2>1 DEF Sending, Waiting, Has
  <2>3. Callings(t) /\ Heard(t)
    BY <2>1, <2>2 DEF Msg, Mail, Callings, Heard
  <2>4. Counted(t) /\ Signaled(t) = Signaled(s)
    BY <2>1, CountedKept DEF Msg
  <2>5. Told(t)
    BY <2>1, <2>2, <2>4 DEF Msg, Told
  <2>6. Serving(t, at2)
    <3> SUFFICES ASSUME NEW x \in Tasks,
                        at2[x] = "reply" \/ (at2[x] = "work" /\ t.m_source[x] \in Proc)
                 PROVE  Waiting(t, t.m_source[x]) /\ t.p_getfrom[t.m_source[x]] = x
      BY DEF Serving
    <3>1. x # c
      BY <2>1, <1>1
    <3> QED
      BY <3>1, <2>1, <2>2, <1>2
  <2> QED
    BY <2>3, <2>4, <2>5, <2>6 DEF Msg, Mail
<1>5. ASSUME NEW b, WaitsOn(s, b, c, ANY)
      PROVE  /\ \A x \in Proc : b.p_flags[x] = IF x = c THEN {"RECEIVING"} ELSE s.p_flags[x]
             /\ \A x \in Proc : b.p_getfrom[x] = IF x = c THEN ANY ELSE s.p_getfrom[x]
             /\ b.p_sendto = s.p_sendto /\ b.p_int_blocked = s.p_int_blocked
             /\ b.m_source = s.m_source
             /\ Counted(b) /\ Signaled(b) = Signaled(s)
  <2>1. /\ \A x \in Proc : b.p_flags[x] = IF x = c THEN {"RECEIVING"} ELSE s.p_flags[x]
        /\ \A x \in Proc : b.p_getfrom[x] = IF x = c THEN ANY ELSE s.p_getfrom[x]
        /\ b.p_sendto = s.p_sendto /\ b.p_int_blocked = s.p_int_blocked
        /\ b.m_source = s.m_source /\ SameSignals(s, b)
    BY <1>5 DEF WaitsOn, FlagsBut
  <2>2. \A u \in Users : \A f \in {"PENDING", "SIG_PENDING"} :
           f \in b.p_flags[u] <=> f \in s.p_flags[u]
    BY <2>1, <1>1 DEF Proc
  <2> QED
    BY <2>1, <2>2, CountedKept DEF Msg
<1>6. CASE /\ \A p \in CallersOf(s, c) : ANY \notin {ANY, p}
           /\ c \in Tasks => ~s.p_int_blocked[c]
           /\ c = MM => ~(s.sig_procs > 0)
           /\ WaitsOn(s, t, c, ANY)
  <2>1. /\ \A x \in Proc : t.p_flags[x] = IF x = c THEN {"RECEIVING"} ELSE s.p_flags[x]
        /\ \A x \in Proc : t.p_getfrom[x] = IF x = c THEN ANY ELSE s.p_getfrom[x]
        /\ t.p_sendto = s.p_sendto /\ t.p_int_blocked = s.p_int_blocked
        /\ t.m_source = s.m_source
        /\ Counted(t) /\ Signaled(t) = Signaled(s)
    BY <1>5, <1>6
  <2>2. /\ \A x \in Proc : Sending(t, x) <=> Sending(s, x)
        /\ \A x \in Proc : Waiting(t, x) <=> x = c \/ Waiting(s, x)
    BY <2>1, <1>1 DEF Sending, Waiting, Has
  <2>3. Callings(t)
    BY <2>1, <2>2, <1>1 DEF Msg, Mail, Callings, Sending, Proc
  <2>4. Heard(t)
    <3>1. \A q \in Proc : ~(Sending(s, q) /\ s.p_sendto[q] = c)
      BY <1>6 DEF CallersOf, Sending
    <3>2. \A x, q \in Proc : Waiting(t, x) /\ Sending(t, q) /\ t.p_sendto[q] = x
                               => t.p_getfrom[x] \notin {ANY, q}
      BY <3>1, <2>1, <2>2 DEF Msg, Mail, Heard
    <3>3. \A x \in Tasks : Waiting(t, x) /\ t.p_getfrom[x] = ANY => ~t.p_int_blocked[x]
      BY <1>6, <2>1, <2>2 DEF Msg, Mail, Heard, Proc
    <3> QED
      BY <3>2, <3>3 DEF Heard
  <2>5. Told(t)
    <3>1. c = MM => Signaled(s) = {}
      <4>1. IsFiniteSet(Signaled(s)) /\ Cardinality(Signaled(s)) \in Nat
        BY UsersFinite, FS_Subset, FS_CardinalityType DEF Signaled
      <4>2. Cardinality(Signaled(s)) = 0 => Signaled(s) = {}
        BY <4>1, FS_EmptySet
      <4> QED
        BY <4>1, <4>2, <1>6 DEF Msg, Counted
    <3> QED
      BY <3>1, <2>1, <2>2, <1>1 DEF Msg, Told
  <2>6. Serving(t, at2)
    <3> SUFFICES ASSUME NEW x \in Tasks,
                        at2[x] = "reply" \/ (at2[x] = "work" /\ s.m_source[x] \in Proc)
                 PROVE  Waiting(t, s.m_source[x]) /\ t.p_getfrom[s.m_source[x]] = x
      BY <2>1 DEF Serving
    <3>1. x # c
      BY <1>1
    <3>2. s.m_source[x] # c
      BY <3>1, <1>2 DEF Waiting, Has
    <3> QED
      BY <3>1, <3>2, <2>1, <2>2, <1>2
  <2> QED
    BY <2>1, <2>3, <2>4, <2>5, <2>6 DEF Msg, Mail
<1>7. ASSUME NEW b, KInv(b), s.sig_procs > 0, c = MM, WaitsOn(s, b, c, ANY), Informs(b, t)
      PROVE  Msg(t) /\ Serving(t, at2)
  <2>1. /\ \A x \in Proc : b.p_flags[x] = IF x = c THEN {"RECEIVING"} ELSE s.p_flags[x]
        /\ \A x \in Proc : b.p_getfrom[x] = IF x = c THEN ANY ELSE s.p_getfrom[x]
        /\ b.p_sendto = s.p_sendto /\ b.p_int_blocked = s.p_int_blocked
        /\ b.m_source = s.m_source
        /\ Counted(b) /\ Signaled(b) = Signaled(s)
    BY <1>5, <1>7
  <2>2. Counted(t)
    <3>1. Signaled(s) # {}
      <4> SUFFICES ASSUME Signaled(s) = {} PROVE FALSE
        OBVIOUS
      <4>1. s.sig_procs = Cardinality({}) /\ Cardinality({}) = 0
        BY FS_EmptySet DEF Msg, Counted
      <4> QED
        BY <4>1, <1>7
    <3> QED
      BY <3>1, <2>1, <1>7, TellsCounted
  <2>3. PICK u : Tells(b, t, u)
    BY <1>7 DEF Informs
  <2>4. /\ \A x \in Proc : \A f \in {"SENDING", "RECEIVING"} : f \in t.p_flags[x] <=> f \in s.p_flags[x]
        /\ \A x \in Proc : t.p_getfrom[x] = IF x = c THEN ANY ELSE s.p_getfrom[x]
        /\ t.p_sendto = s.p_sendto /\ t.p_int_blocked = s.p_int_blocked
        /\ \A x \in Tasks : t.m_source[x] = s.m_source[x]
    <3>1. /\ \A x \in Proc : t.p_flags[x]
                = (IF x = MM THEN b.p_flags[x] \ {"RECEIVING"} ELSE b.p_flags[x])
                    \ (IF x = u THEN {"PENDING"} ELSE {})
          /\ t.p_getfrom = b.p_getfrom /\ t.p_sendto = b.p_sendto
          /\ t.p_int_blocked = b.p_int_blocked /\ \A x \in Tasks : t.m_source[x] = b.m_source[x]
      BY <2>3 DEF Tells
    <3>2. \A x \in Proc : \A f \in {"SENDING", "RECEIVING"} : f \in t.p_flags[x] <=> f \in s.p_flags[x]
      BY <3>1, <2>1, <1>7
    <3> QED
      BY <3>1, <3>2, <2>1
  <2>5. /\ \A x \in Proc : Sending(t, x) <=> Sending(s, x)
        /\ \A x \in Proc : Waiting(t, x) <=> Waiting(s, x)
        /\ ~Waiting(s, c)
    BY <2>4 DEF Sending, Waiting, Has
  <2>6. Callings(t)
    BY <2>4, <2>5, <1>1 DEF Msg, Mail, Callings, Proc
  <2>7. Heard(t)
    BY <2>4, <2>5 DEF Msg, Mail, Heard, Proc
  <2>8. Told(t)
    BY <2>5, <1>1, <1>7 DEF Told
  <2>9. Serving(t, at2)
    <3> SUFFICES ASSUME NEW x \in Tasks,
                        at2[x] = "reply" \/ (at2[x] = "work" /\ s.m_source[x] \in Proc)
                 PROVE  Waiting(t, s.m_source[x]) /\ t.p_getfrom[s.m_source[x]] = x
      BY <2>4 DEF Serving
    <3>1. x # c
      BY <1>1
    <3>2. s.m_source[x] # c
      BY <3>1, <2>5, <1>2
    <3> QED
      BY <3>1, <3>2, <2>4, <2>5, <1>2
  <2> QED
    BY <2>2, <2>6, <2>7, <2>8, <2>9 DEF Msg, Mail
<1> QED
  <2>1. \/ \E p \in Proc : Takes(s, t, c, p)
        \/ c \in Tasks /\ TakesInterrupt(s, t, c)
        \/ /\ \A p \in CallersOf(s, c) : ANY \notin {ANY, p}
           /\ c \in Tasks => ~s.p_int_blocked[c]
           /\ c = MM => ~(s.sig_procs > 0)
           /\ WaitsOn(s, t, c, ANY)
        \/ \E b : KInv(b) /\ s.sig_procs > 0 /\ c = MM /\ WaitsOn(s, b, c, ANY) /\ Informs(b, t)
    BY <1>1 DEF Receives, Sending
  <2> QED
    BY <2>1, <1>3, <1>4, <1>6, <1>7

-----------------------------------------------------------------------------
(* Interrupts, signals, and the calls of SYSTASK.                          *)

(* The clock task gets a message from the hardware, or will.               *)
LEMMA InterruptMsg ==
  ASSUME NEW s, NEW t, NEW at, KInv(s), Msg(s), Serving(s, at), TaskLoop(s, at),
         Interrupts(s, t, CLOCK)
  PROVE  Msg(t) /\ Serving(t, at)
<1>1. /\ CLOCK \in Tasks /\ CLOCK \in Proc /\ CLOCK \notin Servers /\ CLOCK \notin Users
      /\ HARDWARE \notin Proc /\ HARDWARE # ANY /\ MM \in Proc /\ MM # CLOCK /\ NIL \notin Proc
  BY KernelAssumption, ProcAssumption, MessagesAssumption DEF Proc
<1>2. /\ s.p_flags[CLOCK] \subseteq {"SENDING", "RECEIVING"} /\ ~Sending(s, CLOCK)
      /\ \A x \in Tasks : s.m_source[x] \in Servers \cup {HARDWARE, NIL}
  BY <1>1 DEF KInv, FlagsAgree, Partners, Msg, Mail, Callings
<1>3. t.p_getfrom = s.p_getfrom /\ t.p_sendto = s.p_sendto /\ SameSignals(s, t)
  BY DEF Interrupts
<1>4. ASSUME NEW x \in Tasks, at[x] = "reply" \/ (at[x] = "work" /\ s.m_source[x] \in Proc)
      PROVE  /\ Waiting(s, s.m_source[x]) /\ s.p_getfrom[s.m_source[x]] = x
             /\ s.m_source[x] \in Proc /\ s.m_source[x] # CLOCK
  BY <1>1, <1>2, <1>4 DEF Serving, TaskLoop, Proc
<1>5. CASE Waiting(s, CLOCK) /\ s.p_getfrom[CLOCK] \in {ANY, HARDWARE}
  <2>1. /\ \A x \in Proc : t.p_flags[x] = IF x = CLOCK THEN {} ELSE s.p_flags[x]
        /\ \A x \in Tasks : t.m_source[x] = IF x = CLOCK THEN HARDWARE ELSE s.m_source[x]
        /\ \A x \in Tasks : t.p_int_blocked[x] => s.p_int_blocked[x]
    BY <1>5 DEF Interrupts, FlagsBut, SourceBut
  <2>2. /\ \A x \in Proc : Sending(t, x) <=> Sending(s, x)
        /\ \A x \in Proc : Waiting(t, x) <=> x # CLOCK /\ Waiting(s, x)
    BY <2>1, <1>2 DEF Sending, Waiting, Has
  <2>3. Callings(t)
    BY <2>1, <2>2, <1>2, <1>3 DEF Msg, Mail, Callings, Sending, Proc
  <2>4. Heard(t)
    BY <2>1, <2>2, <1>3 DEF Msg, Mail, Heard, Proc
  <2>5. Counted(t) /\ Signaled(t) = Signaled(s)
    <3>1. \A u \in Users : \A f \in {"PENDING", "SIG_PENDING"} :
             f \in t.p_flags[u] <=> f \in s.p_flags[u]
      BY <2>1, <1>1 DEF Proc
    <3> QED
      BY <3>1, <1>3, CountedKept DEF Msg
  <2>6. Told(t)
    BY <2>2, <2>5, <1>1, <1>3 DEF Msg, Told
  <2>7. Serving(t, at)
    <3> SUFFICES ASSUME NEW x \in Tasks,
                        at[x] = "reply" \/ (at[x] = "work" /\ t.m_source[x] \in Proc)
                 PROVE  Waiting(t, t.m_source[x]) /\ t.p_getfrom[t.m_source[x]] = x
      BY DEF Serving
    <3>1. x # CLOCK
      BY <1>1, <1>5, <2>1 DEF TaskLoop, Waiting, Has
    <3> QED
      BY <3>1, <2>1, <2>2, <1>3, <1>4
  <2> QED
    BY <2>3, <2>4, <2>5, <2>6, <2>7 DEF Msg, Mail
<1>6. CASE ~(Waiting(s, CLOCK) /\ s.p_getfrom[CLOCK] \in {ANY, HARDWARE})
  <2>1. /\ t.p_flags = s.p_flags /\ t.m_source = s.m_source
        /\ \A x \in Tasks : t.p_int_blocked[x] = IF x = CLOCK THEN TRUE ELSE s.p_int_blocked[x]
    BY <1>6 DEF Interrupts
  <2>2. \A x : (Sending(t, x) <=> Sending(s, x)) /\ (Waiting(t, x) <=> Waiting(s, x))
    BY <2>1 DEF Sending, Waiting, Has
  <2>3. Callings(t) /\ Heard(t)
    BY <2>1, <2>2, <1>3, <1>6 DEF Msg, Mail, Callings, Heard
  <2>4. Counted(t) /\ Signaled(t) = Signaled(s)
    BY <2>1, <1>3, CountedKept DEF Msg
  <2>5. Told(t)
    BY <2>2, <2>4, <1>3 DEF Msg, Told
  <2>6. Serving(t, at)
    BY <2>1, <2>2, <1>3 DEF Serving
  <2> QED
    BY <2>3, <2>4, <2>5, <2>6 DEF Msg, Mail
<1> QED
  BY <1>5, <1>6

(* MM, which waits for work, is told of signals instead.                   *)
LEMMA InformMsg ==
  ASSUME NEW s, NEW t, NEW at, KInv(s), Mail(s), Counted(s), Signaled(s) # {},
         Serving(s, at), TaskLoop(s, at),
         "RECEIVING" \in s.p_flags[MM], s.p_getfrom[MM] = ANY, Informs(s, t)
  PROVE  Msg(t) /\ Serving(t, at)
<1>1. MM \in Proc /\ MM \notin Tasks /\ ANY \notin Proc
  BY ProcAssumption, MessagesAssumption DEF Proc
<1>2. PICK u : Tells(s, t, u)
  BY DEF Informs
<1>3. /\ \A x \in Proc : Sending(t, x) <=> Sending(s, x)
      /\ \A x \in Proc : Waiting(t, x) <=> x # MM /\ Waiting(s, x)
      /\ \A x \in Proc : "RECEIVING" \in t.p_flags[x] <=> x # MM /\ "RECEIVING" \in s.p_flags[x]
      /\ t.p_getfrom = s.p_getfrom /\ t.p_sendto = s.p_sendto
      /\ t.p_int_blocked = s.p_int_blocked /\ \A x \in Tasks : t.m_source[x] = s.m_source[x]
  <2>1. /\ \A x \in Proc : t.p_flags[x]
              = (IF x = MM THEN s.p_flags[x] \ {"RECEIVING"} ELSE s.p_flags[x])
                  \ (IF x = u THEN {"PENDING"} ELSE {})
        /\ t.p_getfrom = s.p_getfrom /\ t.p_sendto = s.p_sendto
        /\ t.p_int_blocked = s.p_int_blocked /\ \A x \in Tasks : t.m_source[x] = s.m_source[x]
    BY <1>2 DEF Tells
  <2>2. \A x \in Proc : /\ "SENDING" \in t.p_flags[x] <=> "SENDING" \in s.p_flags[x]
                        /\ "RECEIVING" \in t.p_flags[x] <=> x # MM /\ "RECEIVING" \in s.p_flags[x]
    BY <2>1
  <2> QED
    BY <2>1, <2>2 DEF Sending, Waiting, Has
<1>4. ~Sending(s, MM)
  BY <1>1 DEF KInv, FlagsAgree, Sending
<1>5. Callings(t)
  BY <1>1, <1>3, <1>4 DEF Mail, Callings, Proc
<1>6. Heard(t)
  BY <1>1, <1>3 DEF Mail, Heard, Proc
<1>7. Counted(t)
  BY TellsCounted
<1>8. Told(t)
  BY <1>1, <1>3 DEF Told
<1>9. Serving(t, at)
  <2> SUFFICES ASSUME NEW x \in Tasks,
                      at[x] = "reply" \/ (at[x] = "work" /\ s.m_source[x] \in Proc)
               PROVE  Waiting(t, s.m_source[x]) /\ t.p_getfrom[s.m_source[x]] = x
    BY <1>3 DEF Serving
  <2>1. /\ Waiting(s, s.m_source[x]) /\ s.p_getfrom[s.m_source[x]] = x
        /\ s.m_source[x] \in Proc
    BY DEF Serving, TaskLoop, Proc
  <2>2. s.m_source[x] # MM
    BY <2>1, <1>1 DEF Proc
  <2> QED
    BY <2>1, <2>2, <1>3
<1> QED
  BY <1>5, <1>6, <1>7, <1>8, <1>9 DEF Msg, Mail

(* A task signals u.                                                       *)
LEMMA SignalMsg ==
  ASSUME NEW s, NEW t, NEW at, KInv(s), Msg(s), Serving(s, at), TaskLoop(s, at),
         NEW u \in Users, NEW sig \in Signals, Signalled(s, t, u, sig)
  PROVE  Msg(t) /\ Serving(t, at)
<1>1. /\ u \in Proc /\ MM \in Proc /\ MM # u /\ FlagsAgree(s) /\ Partners(s)
      /\ s \in KernelState /\ u \notin Tasks
  BY ProcAssumption, MessagesAssumption DEF Proc, KInv, Scheduled
<1>2. /\ s.p_pending \in [Users -> SUBSET Signals] /\ s.p_pendcount \in [Users -> Nat]
      /\ \A x \in Users : /\ IsFiniteSet(s.p_pending[x])
                          /\ Cardinality(s.p_pending[x]) \in Nat
  <2>1. s.p_pending \in [Users -> SUBSET Signals] /\ s.p_pendcount \in [Users -> Nat]
    BY <1>1 DEF KernelState
  <2>2. \A x \in Users : s.p_pending[x] \in SUBSET Signals
    BY <2>1
  <2> QED
    BY <2>1, <2>2, KernelAssumption, FS_Subset, FS_CardinalityType
<1>3. CASE t = s
  BY <1>3
<1>4. ASSUME NEW b, sig \notin s.p_pending[u], Counts(s, b, u, sig)
      PROVE  /\ \A x \in Users : b.p_pending[x]
                  = IF x = u THEN s.p_pending[x] \cup {sig} ELSE s.p_pending[x]
             /\ \A x \in Users : b.p_pendcount[x]
                  = IF x = u THEN s.p_pendcount[x] + 1 ELSE s.p_pendcount[x]
             /\ b.p_getfrom = s.p_getfrom /\ b.p_sendto = s.p_sendto
             /\ b.p_int_blocked = s.p_int_blocked /\ b.m_source = s.m_source
             /\ b.p_pendcount[u] > 0 /\ b.p_pending[u] # {}
             /\ b.p_pendcount[u] >= Cardinality(b.p_pending[u])
  <2>1. Cardinality(s.p_pending[u] \cup {sig}) = Cardinality(s.p_pending[u]) + 1
    BY <1>2, <1>4, FS_AddElement
  <2>2. s.p_pendcount[u] >= Cardinality(s.p_pending[u])
    BY DEF Msg, Counted
  <2>3. b.p_pending[u] = s.p_pending[u] \cup {sig} /\ b.p_pendcount[u] = s.p_pendcount[u] + 1
    BY <1>4 DEF Counts
  <2>4. /\ b.p_pendcount[u] > 0 /\ b.p_pending[u] # {}
        /\ b.p_pendcount[u] >= Cardinality(b.p_pending[u])
    BY <2>1, <2>2, <2>3, <1>2
  <2> QED
    BY <2>4, <1>4 DEF Counts
<1>5. CASE /\ sig \notin s.p_pending[u] /\ Has(s, u, "PENDING")
           /\ Counts(s, t, u, sig) /\ t.p_flags = s.p_flags /\ t.sig_procs = s.sig_procs
  <2>1. SameMail(s, t) /\ t.m_source = s.m_source /\ t.p_int_blocked = s.p_int_blocked
    BY <1>4, <1>5 DEF SameMail, Sending
  <2>2. Mail(t) /\ Serving(t, at)
    BY <2>1, <1>1, MailKept, ServingKept DEF Msg
  <2>3. Signaled(t) = Signaled(s)
    BY <1>5 DEF Signaled
  <2>4. Told(t)
    BY <2>1, <2>3, <1>1, <1>5 DEF Msg, Told, SameMail, Waiting, Has
  <2>5. ASSUME NEW x \in Users
        PROVE  /\ "PENDING" \in t.p_flags[x] <=> t.p_pending[x] # {}
               /\ "SIG_PENDING" \in t.p_flags[x] <=> t.p_pendcount[x] > 0
               /\ t.p_pendcount[x] >= Cardinality(t.p_pending[x])
    <3>1. CASE x = u
      BY <3>1, <1>1, <1>4, <1>5 DEF FlagsAgree, Has
    <3>2. CASE x # u
      <4>1. /\ t.p_pending[x] = s.p_pending[x] /\ t.p_pendcount[x] = s.p_pendcount[x]
            /\ t.p_flags[x] = s.p_flags[x]
        BY <3>2, <1>5 DEF Counts
      <4> QED
        BY <4>1 DEF Msg, Counted
    <3> QED
      BY <3>1, <3>2
  <2>6. Counted(t)
    BY <2>3, <2>5, <1>5 DEF Msg, Counted
  <2> QED
    BY <2>2, <2>4, <2>6 DEF Msg
<1>6. ASSUME NEW b, ~Has(s, u, "PENDING"), KInv(b), Counts(s, b, u, sig),
             b.sig_procs = s.sig_procs + 1,
             FlagsBut(s, b, u, s.p_flags[u] \cup {"PENDING", "SIG_PENDING"}),
             IF Has(b, MM, "RECEIVING") /\ b.p_getfrom[MM] = ANY THEN Informs(b, t) ELSE t = b
      PROVE  Msg(t) /\ Serving(t, at)
  <2>1. \A x \in Proc : b.p_flags[x]
           = IF x = u THEN s.p_flags[x] \cup {"PENDING", "SIG_PENDING"} ELSE s.p_flags[x]
    BY <1>6 DEF FlagsBut
  <2>2. sig \notin s.p_pending[u]
    BY <1>6 DEF Msg, Counted, Has
  <2>3. SameMail(s, b) /\ b.m_source = s.m_source /\ b.p_int_blocked = s.p_int_blocked
    <3>1. \A x \in Proc : \A f \in {"SENDING", "RECEIVING"} : f \in b.p_flags[x] <=> f \in s.p_flags[x]
      BY <2>1
    <3> QED
      BY <3>1, <2>2, <1>4, <1>6 DEF SameMail, Sending
  <2>4. Mail(b) /\ Serving(b, at)
    BY <2>3, <1>1, MailKept, ServingKept DEF Msg
  <2>5. Signaled(b) = Signaled(s) \cup {u} /\ u \notin Signaled(s)
    BY <2>1, <1>1, <1>6 DEF Signaled, Has, Proc
  <2>6. b.sig_procs = Cardinality(Signaled(b))
    <3>1. IsFiniteSet(Signaled(s))
      BY UsersFinite, FS_Subset DEF Signaled
    <3>2. Cardinality(Signaled(s) \cup {u}) = Cardinality(Signaled(s)) + 1
      BY <3>1, <2>5, FS_AddElement
    <3> QED
      BY <3>2, <2>5, <1>6 DEF Msg, Counted
  <2>7. ASSUME NEW x \in Users
        PROVE  /\ "PENDING" \in b.p_flags[x] <=> b.p_pending[x] # {}
               /\ "SIG_PENDING" \in b.p_flags[x] <=> b.p_pendcount[x] > 0
               /\ b.p_pendcount[x] >= Cardinality(b.p_pending[x])
    <3>1. CASE x = u
      BY <3>1, <2>1, <2>2, <1>1, <1>4, <1>6
    <3>2. CASE x # u
      <4>1. b.p_flags[x] = s.p_flags[x]
        BY <3>2, <2>1 DEF Proc
      <4>2. b.p_pending[x] = s.p_pending[x] /\ b.p_pendcount[x] = s.p_pendcount[x]
        BY <3>2, <1>6 DEF Counts
      <4> QED
        BY <4>1, <4>2 DEF Msg, Counted
    <3> QED
      BY <3>1, <3>2
  <2>8. Counted(b)
    BY <2>6, <2>7 DEF Counted
  <2>9. CASE Has(b, MM, "RECEIVING") /\ b.p_getfrom[MM] = ANY
    <3>1. TaskLoop(b, at)
      BY <2>3 DEF TaskLoop, SameMail, Proc
    <3>2. Signaled(b) # {}
      BY <2>5
    <3> QED
      BY <3>1, <3>2, <2>4, <2>8, <2>9, <1>6, InformMsg DEF Has
  <2>10. CASE ~(Has(b, MM, "RECEIVING") /\ b.p_getfrom[MM] = ANY)
    BY <2>4, <2>8, <2>10, <1>6 DEF Msg, Told, Waiting
  <2> QED
    BY <2>9, <2>10
<1> QED
  BY <1>3, <1>5, <1>6 DEF Signalled

(* NO_MAP and P_STOP have nothing to do with messages and signals.         *)
LEMMA ReflagMsg ==
  ASSUME NEW s, NEW t, NEW at, KInv(s), Msg(s), Serving(s, at), TaskLoop(s, at),
         NEW u \in Users, NEW fs, Reflags(s, t, u, fs),
         \A f \in Flags \ {"NO_MAP", "P_STOP"} : f \in fs <=> f \in s.p_flags[u]
  PROVE  Msg(t) /\ Serving(t, at)
<1>1. u \in Proc /\ MM \in Proc
  BY MessagesAssumption DEF Proc
<1>2. /\ \A x \in Proc : t.p_flags[x] = IF x = u THEN fs ELSE s.p_flags[x]
      /\ t.p_getfrom = s.p_getfrom /\ t.p_sendto = s.p_sendto
      /\ t.p_int_blocked = s.p_int_blocked /\ t.m_source = s.m_source /\ SameSignals(s, t)
  BY DEF Reflags, FlagsBut, SameButFlags, SameRest, SameSignals
<1>3. \A x \in Proc : \A f \in {"SENDING", "RECEIVING", "PENDING", "SIG_PENDING"} :
         f \in t.p_flags[x] <=> f \in s.p_flags[x]
  BY <1>2 DEF Flags
<1>4. SameMail(s, t)
  BY <1>2, <1>3 DEF SameMail, Sending
<1>5. Mail(t) /\ Serving(t, at)
  BY <1>2, <1>4, MailKept, ServingKept DEF Msg, KInv
<1>6. Counted(t) /\ Signaled(t) = Signaled(s)
  <2>1. \A x \in Users : \A f \in {"PENDING", "SIG_PENDING"} : f \in t.p_flags[x] <=> f \in s.p_flags[x]
    BY <1>3 DEF Proc
  <2> QED
    BY <2>1, <1>2, CountedKept DEF Msg
<1>7. Told(t)
  BY <1>1, <1>4, <1>6 DEF Msg, Told, SameMail, Waiting, Has, Sending
<1> QED
  BY <1>5, <1>6, <1>7 DEF Msg

(* A user that waits goes on without an answer.                            *)
LEMMA ReleaseMsg ==
  ASSUME NEW s, NEW t, NEW at, KInv(s), Msg(s), Serving(s, at), TaskLoop(s, at),
         NEW u \in Users, ~Sending(s, u), Reflags(s, t, u, s.p_flags[u] \ {"RECEIVING"})
  PROVE  Msg(t) /\ Serving(t, at)
<1>1. u \in Proc /\ MM \in Proc /\ u # MM /\ u \notin Tasks /\ u \notin Servers
  BY ProcAssumption, MessagesAssumption DEF Proc
<1>2. /\ \A x \in Proc : t.p_flags[x] = IF x = u THEN s.p_flags[u] \ {"RECEIVING"} ELSE s.p_flags[x]
      /\ t.p_getfrom = s.p_getfrom /\ t.p_sendto = s.p_sendto
      /\ t.p_int_blocked = s.p_int_blocked /\ t.m_source = s.m_source /\ SameSignals(s, t)
  BY DEF Reflags, FlagsBut, SameButFlags, SameRest, SameSignals
<1>3. /\ \A x \in Proc : Sending(t, x) <=> Sending(s, x)
      /\ \A x \in Proc : Waiting(t, x) <=> x # u /\ Waiting(s, x)
  BY <1>2 DEF Sending, Waiting, Has
<1>4. Callings(t)
  BY <1>2, <1>3 DEF Msg, Mail, Callings, Sending, Proc
<1>5. Heard(t)
  BY <1>2, <1>3 DEF Msg, Mail, Heard, Proc
<1>6. Counted(t) /\ Signaled(t) = Signaled(s)
  <2>1. \A x \in Users : \A f \in {"PENDING", "SIG_PENDING"} : f \in t.p_flags[x] <=> f \in s.p_flags[x]
    BY <1>2 DEF Proc
  <2> QED
    BY <2>1, <1>2, CountedKept DEF Msg
<1>7. Told(t)
  BY <1>1, <1>2, <1>3, <1>6 DEF Msg, Told
<1>8. Serving(t, at)
  <2>1. \A x \in Tasks : s.m_source[x] \in Servers \cup {HARDWARE, NIL}
    BY DEF KInv, Partners
  <2> SUFFICES ASSUME NEW x \in Tasks,
                      at[x] = "reply" \/ (at[x] = "work" /\ s.m_source[x] \in Proc)
               PROVE  Waiting(t, s.m_source[x]) /\ t.p_getfrom[s.m_source[x]] = x
    BY <1>2 DEF Serving
  <2>2. /\ Waiting(s, s.m_source[x]) /\ s.p_getfrom[s.m_source[x]] = x
        /\ s.m_source[x] \in Servers
    BY <2>1, MessagesAssumption DEF Serving, TaskLoop, Proc
  <2> QED
    BY <2>2, <1>1, <1>2, <1>3 DEF Proc
<1> QED
  BY <1>4, <1>5, <1>6, <1>7, <1>8 DEF Msg, Mail

(* MM has finished with a signal it had been told of.                      *)
LEMMA EndsMsg ==
  ASSUME NEW s, NEW t, NEW at, KInv(s), Msg(s), Serving(s, at), TaskLoop(s, at),
         NEW u \in Users, s.p_pendcount[u] > Cardinality(s.p_pending[u]), Ends(s, t, u)
  PROVE  Msg(t) /\ Serving(t, at)
<1>1. u \in Proc /\ MM \in Proc /\ s \in KernelState /\ Partners(s)
  BY MessagesAssumption DEF Proc, KInv, Scheduled
<1>2. /\ \A x \in Proc : \A f \in {"SENDING", "RECEIVING", "PENDING"} :
            f \in t.p_flags[x] <=> f \in s.p_flags[x]
      /\ t.p_getfrom = s.p_getfrom /\ t.p_sendto = s.p_sendto
      /\ t.p_int_blocked = s.p_int_blocked /\ t.m_source = s.m_source
      /\ t.p_pending = s.p_pending /\ t.sig_procs = s.sig_procs
  BY DEF Ends, FlagsBut
<1>3. SameMail(s, t)
  BY <1>2 DEF SameMail, Sending
<1>4. Mail(t) /\ Serving(t, at)
  BY <1>1, <1>2, <1>3, MailKept, ServingKept DEF Msg
<1>5. Signaled(t) = Signaled(s)
  BY <1>2 DEF Signaled, Proc
<1>6. Told(t)
  BY <1>1, <1>3, <1>5 DEF Msg, Told, SameMail, Waiting, Has, Sending
<1>7. ASSUME NEW x \in Users
      PROVE  /\ "PENDING" \in t.p_flags[x] <=> t.p_pending[x] # {}
             /\ "SIG_PENDING" \in t.p_flags[x] <=> t.p_pendcount[x] > 0
             /\ t.p_pendcount[x] >= Cardinality(t.p_pending[x])
  <2>1. "PENDING" \in t.p_flags[x] <=> t.p_pending[x] # {}
    BY <1>2 DEF Msg, Counted, Proc
  <2>2. CASE x = u
    <3>1. /\ t.p_flags[u] = IF s.p_pendcount[u] = 1 THEN s.p_flags[u] \ {"SIG_PENDING"}
                                                    ELSE s.p_flags[u]
          /\ t.p_pendcount[u] = s.p_pendcount[u] - 1 /\ t.p_pending[u] = s.p_pending[u]
      BY <1>1, <1>2 DEF Ends, FlagsBut
    <3>2. s.p_pendcount[u] \in Nat /\ Cardinality(s.p_pending[u]) \in Nat
      <4>1. s.p_pendcount[u] \in Nat /\ s.p_pending[u] \in SUBSET Signals
        BY <1>1 DEF KernelState
      <4> QED
        BY <4>1, KernelAssumption, FS_Subset, FS_CardinalityType
    <3>3. "SIG_PENDING" \in s.p_flags[u] <=> s.p_pendcount[u] > 0
      BY DEF Msg, Counted
    <3>4. /\ "SIG_PENDING" \in t.p_flags[u] <=> t.p_pendcount[u] > 0
          /\ t.p_pendcount[u] >= Cardinality(t.p_pending[u])
      BY <3>1, <3>2, <3>3
    <3> QED
      BY <3>4, <2>1, <2>2
  <2>3. CASE x # u
    <3>1. t.p_flags[x] = s.p_flags[x] /\ t.p_pendcount[x] = s.p_pendcount[x]
      BY <2>3 DEF Ends, FlagsBut, Proc
    <3> QED
      BY <3>1, <1>2 DEF Msg, Counted
  <2> QED
    BY <2>2, <2>3
<1>8. Counted(t)
  BY <1>2, <1>5, <1>7 DEF Msg, Counted
<1> QED
  BY <1>4, <1>6, <1>8 DEF Msg

(* A child waits, with its parent, for the answer of MM.                   *)
LEMMA ForksMsg ==
  ASSUME NEW s, NEW t, NEW at, KInv(s), Msg(s), Serving(s, at), TaskLoop(s, at),
         NEW u \in Users, ~Sending(s, u), NEW c \in Users \ s.alive, Forks(s, t, u, c)
  PROVE  Msg(t) /\ Serving(t, at)
<1>1. /\ u \in Proc /\ c \in Proc /\ MM \in Proc /\ c # MM /\ c \notin Tasks /\ c \notin Servers
      /\ s.p_flags[c] = {} /\ Partners(s) /\ ANY # MM
      /\ \A x \in Tasks : s.m_source[x] \in Servers \cup {HARDWARE, NIL}
  BY ProcAssumption, MessagesAssumption DEF Proc, KInv, FlagsAgree, Partners
<1>2. /\ \A x \in Proc \ {c} : /\ t.p_flags[x] = s.p_flags[x] /\ t.p_getfrom[x] = s.p_getfrom[x]
                               /\ t.p_sendto[x] = s.p_sendto[x]
      /\ ~Sending(t, c) /\ ~Sending(s, c) /\ t.p_getfrom[c] = MM
      /\ "PENDING" \notin t.p_flags[c] /\ "SIG_PENDING" \notin t.p_flags[c]
      /\ t.p_int_blocked = s.p_int_blocked /\ t.m_source = s.m_source
  BY <1>1 DEF Forks, FlagsBut, Sending
<1>3. /\ \A x \in Proc : Sending(t, x) <=> Sending(s, x)
      /\ \A x \in Proc \ {c} : Waiting(t, x) <=> Waiting(s, x)
  BY <1>2 DEF Sending, Waiting, Has
<1>4. Callings(t)
  BY <1>1, <1>2, <1>3 DEF Msg, Mail, Callings, Sending, Proc
<1>5. Heard(t)
  <2>1. ASSUME NEW p \in Proc, NEW q \in Proc, Waiting(t, p), Sending(t, q), t.p_sendto[q] = p
        PROVE  t.p_getfrom[p] \notin {ANY, q}
    <3>1. q # c /\ Sending(s, q) /\ s.p_sendto[q] = p
      BY <2>1, <1>2, <1>3
    <3>2. p # c
      BY <3>1, <1>1 DEF Partners, Sending
    <3> QED
      BY <2>1, <3>1, <3>2, <1>2, <1>3 DEF Msg, Mail, Heard
  <2>2. \A x \in Tasks : Waiting(t, x) /\ t.p_getfrom[x] = ANY => ~t.p_int_blocked[x]
    BY <1>1, <1>2, <1>3 DEF Msg, Mail, Heard, Proc
  <2> QED
    BY <2>1, <2>2 DEF Heard
<1>6. Signaled(t) = Signaled(s)
  BY <1>1, <1>2 DEF Signaled, Proc
<1>7. Counted(t)
  <2>1. ASSUME NEW x \in Users
        PROVE  /\ "PENDING" \in t.p_flags[x] <=> t.p_pending[x] # {}
               /\ "SIG_PENDING" \in t.p_flags[x] <=> t.p_pendcount[x] > 0
               /\ t.p_pendcount[x] >= Cardinality(t.p_pending[x])
    <3>1. CASE x = c
      <4>1. t.p_pending[x] = {} /\ t.p_pendcount[x] = 0 /\ Cardinality({}) = 0
        BY <3>1, FS_EmptySet DEF Forks
      <4> QED
        BY <4>1, <3>1, <1>2
    <3>2. CASE x # c
      <4>1. /\ t.p_flags[x] = s.p_flags[x] /\ t.p_pending[x] = s.p_pending[x]
            /\ t.p_pendcount[x] = s.p_pendcount[x]
        BY <3>2, <1>2 DEF Forks, Proc
      <4> QED
        BY <4>1 DEF Msg, Counted
    <3> QED
      BY <3>1, <3>2
  <2>2. t.sig_procs = s.sig_procs
    BY DEF Forks
  <2> QED
    BY <2>1, <2>2, <1>6 DEF Msg, Counted
<1>8. Told(t)
  BY <1>1, <1>2, <1>3, <1>6 DEF Msg, Told
<1>9. Serving(t, at)
  <2> SUFFICES ASSUME NEW x \in Tasks,
                      at[x] = "reply" \/ (at[x] = "work" /\ s.m_source[x] \in Proc)
               PROVE  Waiting(t, s.m_source[x]) /\ t.p_getfrom[s.m_source[x]] = x
    BY <1>2 DEF Serving
  <2>1. /\ Waiting(s, s.m_source[x]) /\ s.p_getfrom[s.m_source[x]] = x
        /\ s.m_source[x] \in Servers
    BY <1>1, MessagesAssumption DEF Serving, TaskLoop, Proc
  <2> QED
    BY <2>1, <1>1, <1>2, <1>3 DEF Proc
<1> QED
  BY <1>4, <1>5, <1>7, <1>8, <1>9 DEF Msg, Mail

(* A user is gone, and with it its signals.                                *)
LEMMA ExitsMsg ==
  ASSUME NEW s, NEW t, NEW at, KInv(s), Msg(s), Serving(s, at), TaskLoop(s, at),
         NEW u \in Users, Exits(s, t, u)
  PROVE  Msg(t) /\ Serving(t, at)
<1>1. /\ u \in Proc /\ MM \in Proc /\ u # MM /\ u \notin Tasks /\ u \notin Servers
      /\ \A x \in Tasks : s.m_source[x] \in Servers \cup {HARDWARE, NIL}
  BY ProcAssumption, MessagesAssumption DEF Proc, KInv, Partners
<1>2. /\ \A x \in Proc : t.p_flags[x] = IF x = u THEN {} ELSE s.p_flags[x]
      /\ t.p_getfrom = s.p_getfrom /\ t.p_sendto = s.p_sendto
      /\ t.p_int_blocked = s.p_int_blocked /\ t.m_source = s.m_source
  BY DEF Exits, FlagsBut
<1>3. /\ \A x \in Proc : Sending(t, x) <=> x # u /\ Sending(s, x)
      /\ \A x \in Proc : Waiting(t, x) <=> x # u /\ Waiting(s, x)
  BY <1>2 DEF Sending, Waiting, Has
<1>4. Callings(t)
  BY <1>2, <1>3 DEF Msg, Mail, Callings, Sending, Proc
<1>5. Heard(t)
  BY <1>2, <1>3 DEF Msg, Mail, Heard, Proc
<1>6. Signaled(t) = Signaled(s) \ {u}
  BY <1>2 DEF Signaled, Proc
<1>7. Counted(t)
  <2>1. ASSUME NEW x \in Users
        PROVE  /\ "PENDING" \in t.p_flags[x] <=> t.p_pending[x] # {}
               /\ "SIG_PENDING" \in t.p_flags[x] <=> t.p_pendcount[x] > 0
               /\ t.p_pendcount[x] >= Cardinality(t.p_pending[x])
    <3>1. CASE x = u
      <4>1. t.p_pending[x] = {} /\ t.p_pendcount[x] = 0 /\ Cardinality({}) = 0
        BY <3>1, FS_EmptySet DEF Exits
      <4> QED
        BY <4>1, <3>1, <1>1, <1>2
    <3>2. CASE x # u
      <4>1. /\ t.p_flags[x] = s.p_flags[x] /\ t.p_pending[x] = s.p_pending[x]
            /\ t.p_pendcount[x] = s.p_pendcount[x]
        BY <3>2, <1>2 DEF Exits, Proc
      <4> QED
        BY <4>1 DEF Msg, Counted
    <3> QED
      BY <3>1, <3>2
  <2>2. t.sig_procs = Cardinality(Signaled(t))
    <3>1. IsFiniteSet(Signaled(s)) /\ Cardinality(Signaled(s)) \in Nat
      BY UsersFinite, FS_Subset, FS_CardinalityType DEF Signaled
    <3>2. CASE "PENDING" \in s.p_flags[u]
      <4>1. u \in Signaled(s)
        BY <3>2 DEF Signaled
      <4>2. Cardinality(Signaled(s) \ {u}) = Cardinality(Signaled(s)) - 1
        BY <4>1, <3>1, FS_RemoveElement
      <4> QED
        BY <4>2, <3>2, <1>6 DEF Msg, Counted, Exits, Has
    <3>3. CASE "PENDING" \notin s.p_flags[u]
      <4>1. Signaled(t) = Signaled(s)
        BY <3>3, <1>6 DEF Signaled
      <4> QED
        BY <4>1, <3>3 DEF Msg, Counted, Exits, Has
    <3> QED
      BY <3>2, <3>3
  <2> QED
    BY <2>1, <2>2 DEF Counted
<1>8. Told(t)
  BY <1>1, <1>2, <1>3, <1>6 DEF Msg, Told
<1>9. Serving(t, at)
  <2> SUFFICES ASSUME NEW x \in Tasks,
                      at[x] = "reply" \/ (at[x] = "work" /\ s.m_source[x] \in Proc)
               PROVE  Waiting(t, s.m_source[x]) /\ t.p_getfrom[s.m_source[x]] = x
    BY <1>2 DEF Serving
  <2>1. /\ Waiting(s, s.m_source[x]) /\ s.p_getfrom[s.m_source[x]] = x
        /\ s.m_source[x] \in Servers
    BY <1>1, MessagesAssumption DEF Serving, TaskLoop, Proc
  <2> QED
    BY <2>1, <1>1, <1>2, <1>3 DEF Proc
<1> QED
  BY <1>4, <1>5, <1>7, <1>8, <1>9 DEF Msg, Mail

-----------------------------------------------------------------------------
(* The actions.                                                            *)

MsgInv == Msg(k) /\ Serving(k, pc)

(* The kernel state does not matter for who waits; a task may be done.     *)
LEMMA DoneServing ==
  ASSUME NEW s, NEW at, NEW at2, Serving(s, at),
         \A x \in Tasks : at2[x] = at[x] \/ at2[x] = "receive"
                           \/ (at2[x] = "reply" /\ at[x] = "work" /\ s.m_source[x] \in Proc)
  PROVE  Serving(s, at2)
BY DEF Serving

(* SYSTASK has done what it was asked for, and replies.                    *)
LEMMA SystemMsg ==
  ASSUME Inv, Inv', At(SYSTASK, "work"), pc' = [pc EXCEPT ![SYSTASK] = "reply"],
         Msg(k'), Serving(k', pc)
  PROVE  MsgInv'
<1>1. /\ pc \in [Tasks -> {"receive", "work", "reply"}] /\ SYSTASK \in Tasks
      /\ TaskLoop(k', pc')
  BY KernelAssumption DEF Inv
<1>2. pc'[SYSTASK] = "reply" /\ \A x \in Tasks \ {SYSTASK} : pc'[x] = pc[x]
  BY <1>1
<1>3. k'.m_source[SYSTASK] \in Proc
  BY <1>1, <1>2 DEF TaskLoop, Proc
<1>4. Serving(k', pc')
  BY <1>1, <1>2, <1>3, DoneServing DEF At
<1> QED
  BY <1>4 DEF MsgInv

(* Users call, and so do servers.                                          *)
LEMMA CallsMsg ==
  ASSUME Inv, MsgInv, Inv', UNCHANGED pc,
         (\E u \in Users : UserCall(u)) \/ (\E s \in Servers : ServerCall(s))
  PROVE  MsgInv'
<1>1. PICK c \in Users \cup Servers, d \in Tasks \cup Servers :
         k.proc_ptr = c /\ k' = SendRec(k, c, d) /\ (d \in Tasks => c \in Servers)
  <2>1. CASE \E u \in Users : UserCall(u)
    BY <2>1, ProcAssumption DEF UserCall, Running
  <2>2. CASE \E s \in Servers : ServerCall(s)
    BY <2>2, KernelAssumption DEF ServerCall, Running
  <2> QED
    BY <2>1, <2>2
<1>2. KInv(k) /\ TaskLoop(k, pc) /\ k.p_flags[c] = {} /\ d \in Proc
  BY <1>1, RunningRunnable DEF Inv, Proc
<1>3. KInv(k') /\ (k' = k \/ CallsAndWaits(k, k', c, d))
  BY <1>1, <1>2, SendRecKInv
<1>4. CASE k' = k
  BY <1>4 DEF MsgInv
<1>5. CASE CallsAndWaits(k, k', c, d)
  BY <1>2, <1>3, <1>5, CallMsg DEF MsgInv
<1> QED
  BY <1>3, <1>4, <1>5

LEMMA ServerReceiveMsg ==
  ASSUME Inv, MsgInv, NEW c \in Servers, ServerReceive(c)
  PROVE  MsgInv'
<1>1. c \in Proc /\ c \notin Tasks /\ c \notin Users
  BY ProcAssumption DEF Proc
<1>2. KInv(k) /\ TaskLoop(k, pc) /\ k.proc_ptr = c /\ k' = mini_rec(k, c, ANY) /\ pc' = pc
  BY DEF Inv, ServerReceive, Running
<1>3. k.p_flags[c] = {} /\ ~isemptyp(k, c)
  BY <1>1, <1>2, RunningRunnable
<1>4. Receives(k, k', c, ANY)
  BY <1>1, <1>2, <1>3, MiniRec DEF KernelRuns
<1>5. Msg(k') /\ Serving(k', pc)
  BY <1>1, <1>2, <1>3, <1>4, ReceiveMsg DEF MsgInv
<1> QED
  BY <1>2, <1>5 DEF MsgInv

LEMMA ServerReplyMsg ==
  ASSUME Inv, MsgInv, NEW c \in Servers, ServerReply(c)
  PROVE  MsgInv'
<1>1. c \in Proc /\ c \notin Tasks
  BY ProcAssumption DEF Proc
<1>2. KInv(k) /\ TaskLoop(k, pc) /\ k.proc_ptr = c /\ pc' = pc /\ k.p_flags[c] = {}
  BY <1>1, RunningRunnable DEF Inv, ServerReply, Running
<1>3. PICK d \in Users \cup Servers : WaitsFor(k, d, c) /\ k' = Send(k, c, d)
  BY DEF ServerReply, WaitsFor
<1>4. k' = k \/ Gets(k, k', c, d)
  BY <1>2, <1>3, SendKInv DEF Answers
<1>5. CASE k' = k
  BY <1>2, <1>5 DEF MsgInv
<1>6. CASE Gets(k, k', c, d)
  <2>1. Msg(k') /\ Serving(k', pc)
    BY <1>1, <1>2, <1>3, <1>6, AnswerMsg DEF MsgInv
  <2> QED
    BY <2>1, <1>2 DEF MsgInv
<1> QED
  BY <1>4, <1>5, <1>6

LEMMA TaskReceiveMsg ==
  ASSUME Inv, MsgInv, NEW c \in Tasks, TaskReceive(c)
  PROVE  MsgInv'
<1>1. PICK v : KInv(v) /\ Empties(k, v, c) /\ Receives(v, k', c, ANY)
  BY TaskReceiveInv
<1>2. /\ pc \in [Tasks -> {"receive", "work", "reply"}] /\ pc' = [pc EXCEPT ![c] = "work"]
      /\ pc[c] = "receive" /\ KInv(k) /\ TaskLoop(k, pc) /\ c \in Proc /\ k.proc_ptr = c
  BY DEF Inv, TaskReceive, At, Running, Proc
<1>3. k.p_flags[c] = {}
  BY <1>2, RunningRunnable
<1>4. /\ v.p_flags = k.p_flags /\ v.p_getfrom = k.p_getfrom /\ v.p_sendto = k.p_sendto
      /\ v.p_int_blocked = k.p_int_blocked /\ SameSignals(k, v)
      /\ \A x \in Tasks : v.m_source[x] = IF x = c THEN NIL ELSE k.m_source[x]
  BY <1>1 DEF Empties, SourceBut
<1>5. Msg(v)
  <2>1. SameMail(k, v)
    BY <1>4 DEF SameMail, Sending
  <2>2. Mail(v) /\ Counted(v) /\ Signaled(v) = Signaled(k)
    BY <2>1, <1>4, MailKept, CountedKept DEF MsgInv, Msg
  <2>3. Told(v)
    BY <2>2, <1>4 DEF MsgInv, Msg, Told, Waiting, Has
  <2> QED
    BY <2>2, <2>3 DEF Msg
<1>6. Serving(v, pc)
  <2> SUFFICES ASSUME NEW x \in Tasks,
                      pc[x] = "reply" \/ (pc[x] = "work" /\ v.m_source[x] \in Proc)
               PROVE  Waiting(v, v.m_source[x]) /\ v.p_getfrom[v.m_source[x]] = x
    BY DEF Serving
  <2>1. x # c /\ v.m_source[x] = k.m_source[x]
    BY <1>2, <1>4
  <2> QED
    BY <2>1, <1>4 DEF MsgInv, Serving, Waiting, Has
<1>7. TaskLoop(v, pc)
  BY <1>2, <1>4 DEF TaskLoop
<1>8. \A x \in Tasks : pc'[x] = IF x = c THEN "work" ELSE pc[x]
  BY <1>2
<1>9. v.p_flags[c] = {} /\ v.m_source[c] = NIL
  BY <1>3, <1>4
<1>10. Msg(k') /\ Serving(k', pc')
  BY <1>1, <1>5, <1>6, <1>7, <1>8, <1>9, ReceiveMsg
<1> QED
  BY <1>10 DEF MsgInv

LEMMA TaskReplyMsg ==
  ASSUME Inv, MsgInv, NEW c \in Tasks, TaskReply(c)
  PROVE  MsgInv'
<1> DEFINE d == k.m_source[c]
<1>1. /\ pc \in [Tasks -> {"receive", "work", "reply"}] /\ pc' = [pc EXCEPT ![c] = "receive"]
      /\ pc[c] = "reply" /\ KInv(k) /\ TaskLoop(k, pc) /\ c \in Proc /\ k.proc_ptr = c
      /\ d \in Servers /\ k' = Send(k, c, d)
  BY DEF Inv, TaskReply, At, Running, Proc, TaskLoop
<1>2. k.p_flags[c] = {}
  BY <1>1, RunningRunnable
<1>3. WaitsFor(k, d, c)
  BY <1>1 DEF MsgInv, Serving, WaitsFor
<1>4. \A x \in Tasks : pc'[x] = IF x = c THEN "receive" ELSE pc[x]
  BY <1>1
<1> HIDE DEF d
<1>5. k' = k \/ Gets(k, k', c, d)
  BY <1>1, <1>3, SendKInv DEF Answers
<1>6. CASE k' = k
  BY <1>4, <1>6, DoneServing DEF MsgInv
<1>7. CASE Gets(k, k', c, d)
  <2>1. KInv(k) /\ Msg(k) /\ Serving(k, pc) /\ TaskLoop(k, pc) /\ c \in Proc /\ d \in Servers \cup Users
    BY <1>1 DEF MsgInv
  <2>2. Msg(k') /\ Serving(k', pc')
    BY <2>1, <1>2, <1>3, <1>4, <1>7, AnswerMsg
  <2> QED
    BY <2>2 DEF MsgInv
<1> QED
  BY <1>5, <1>6, <1>7

(* The CLOCK task.                                                         *)
LEMMA ClockMsg ==
  ASSUME Inv, MsgInv, Inv', (\E u \in Users : ClockAlarm(u)) \/ DoClocktick \/ ClockRequest
  PROVE  MsgInv'
<1>1. /\ pc \in [Tasks -> {"receive", "work", "reply"}] /\ CLOCK \in Tasks
      /\ KInv(k) /\ TaskLoop(k, pc) /\ Msg(k) /\ Serving(k, pc)
  BY KernelAssumption DEF Inv, MsgInv
<1>2. ASSUME NEW u \in Users, ClockAlarm(u) PROVE MsgInv'
  <2>1. /\ u \in k.alive /\ "SIGALRM" \in Signals /\ k' = cause_sig(k, u, "SIGALRM") /\ pc' = pc
    BY <1>2 DEF Inv, ClockAlarm
  <2>2. Signalled(k, k', u, "SIGALRM")
    BY <2>1, <1>1, CauseSigKInv
  <2>3. Msg(k') /\ Serving(k', pc)
    BY <2>1, <2>2, <1>1, SignalMsg
  <2> QED
    BY <2>1, <2>3 DEF MsgInv
<1>3. CASE DoClocktick
  <2>1. SameMessages(k, k')
    <3>1. k' = sched(k) \/ k' = k
      BY <1>3 DEF DoClocktick
    <3>2. SameMessages(k, sched(k)) /\ SameMessages(k, k)
      BY <1>1, SchedKInv DEF SameMessages
    <3> QED
      BY <3>1, <3>2
  <2>2. Msg(k') /\ Serving(k', pc)
    BY <2>1, <1>1, SchedulingMsg DEF SameMessages, SameSignals
  <2>3. \A x \in Tasks : pc'[x] = IF x = CLOCK THEN "receive" ELSE pc[x]
    BY <1>1, <1>3 DEF DoClocktick
  <2>4. Serving(k', pc')
    BY <2>2, <2>3, DoneServing
  <2> QED
    BY <2>2, <2>4 DEF MsgInv
<1>4. CASE ClockRequest
  <2>1. k' = k /\ TaskLoop(k', pc') /\ pc[CLOCK] = "work"
    BY <1>4 DEF ClockRequest, At, Inv
  <2>2. \A x \in Tasks : pc'[x] = IF x = CLOCK THEN "reply" ELSE pc[x]
    BY <1>1, <1>4 DEF ClockRequest
  <2>3. k.m_source[CLOCK] \in Proc
    BY <2>1, <2>2, <1>1 DEF TaskLoop, Proc
  <2>4. Serving(k, pc')
    BY <2>1, <2>2, <2>3, <1>1, DoneServing
  <2> QED
    BY <2>1, <2>4, <1>1 DEF MsgInv
<1> QED
  BY <1>2, <1>3, <1>4

(* The clock interrupt.                                                    *)
LEMMA ClockTickMsg ==
  ASSUME Inv, MsgInv, ClockTick
  PROVE  MsgInv'
<1> DEFINE s == handle_clock_tick(k)
<1>1. KInv(k) /\ TaskLoop(k, pc) /\ Msg(k) /\ Serving(k, pc)
  BY DEF Inv, MsgInv
<1>2. KInv(s) /\ Kept(k, s) /\ SameMessages(k, s)
  BY <1>1, TickKInv
<1>3. (k' = interrupt(s, CLOCK) \/ k' = s) /\ pc' = pc
  BY DEF ClockTick
<1> HIDE DEF s
<1>4. Msg(s) /\ Serving(s, pc)
  BY <1>1, <1>2, SchedulingMsg DEF SameMessages, SameSignals
<1>5. TaskLoop(s, pc)
  BY <1>1, <1>2, KeptLoop
<1>6. CASE k' = interrupt(s, CLOCK)
  <2>1. Interrupts(s, k', CLOCK)
    BY <1>2, <1>6, InterruptKInv
  <2>2. Msg(k') /\ Serving(k', pc)
    BY <2>1, <1>2, <1>4, <1>5, InterruptMsg
  <2> QED
    BY <2>2, <1>3 DEF MsgInv
<1>7. CASE k' = s
  BY <1>3, <1>4, <1>7 DEF MsgInv
<1> QED
  BY <1>3, <1>6, <1>7

(* The calls of SYSTASK.                                                   *)
LEMMA DoSetgroupMsg ==
  ASSUME Inv, MsgInv, Inv',
         NEW u \in Users, NEW g \in Groups, NEW e \in Estimates, DoSetgroup(u, g, e)
  PROVE  MsgInv'
<1>1. /\ KInv(k) /\ TaskLoop(k, pc) /\ Msg(k) /\ Serving(k, pc) /\ k \in KernelState
      /\ At(SYSTASK, "work") /\ pc' = [pc EXCEPT ![SYSTASK] = "reply"]
  BY DEF Inv, MsgInv, KInv, Scheduled, DoSetgroup, SystemCall
<1>2. /\ k'.p_flags = k.p_flags /\ k'.p_getfrom = k.p_getfrom /\ k'.p_sendto = k.p_sendto
      /\ k'.p_int_blocked = k.p_int_blocked /\ k'.m_source = k.m_source
      /\ SameSignals(k, k')
  BY <1>1 DEF DoSetgroup, KernelState, SameSignals
<1>3. Msg(k') /\ Serving(k', pc)
  BY <1>1, <1>2, SchedulingMsg
<1> QED
  BY <1>1, <1>3, SystemMsg

LEMMA SignalCallsMsg ==
  ASSUME Inv, MsgInv, Inv', NEW u \in Users,
         (\E sig \in Signals : DoKill(u, sig)) \/ DoEndsig(u)
  PROVE  MsgInv'
<1>1. /\ KInv(k) /\ TaskLoop(k, pc) /\ Msg(k) /\ Serving(k, pc)
      /\ At(SYSTASK, "work") /\ pc' = [pc EXCEPT ![SYSTASK] = "reply"]
  BY DEF Inv, MsgInv, DoKill, DoEndsig, SystemCall
<1>2. Msg(k') /\ Serving(k', pc)
  <2>1. ASSUME NEW sig \in Signals, DoKill(u, sig) PROVE Msg(k') /\ Serving(k', pc)
    <3>1. Signalled(k, k', u, sig)
      BY <2>1, <1>1, CauseSigKInv DEF DoKill
    <3> QED
      BY <3>1, <1>1, SignalMsg
  <2>2. CASE DoEndsig(u)
    <3>1. KernelRuns(k) /\ k.p_pendcount[u] > Cardinality(k.p_pending[u])
      BY <2>2, <1>1, SystemRuns DEF DoEndsig, BeingHandled
    <3>2. Ends(k, k', u)
      BY <3>1, <2>2, <1>1, EndsigKInv DEF DoEndsig
    <3> QED
      BY <3>1, <3>2, <1>1, EndsMsg
  <2> QED
    BY <2>1, <2>2
<1> QED
  BY <1>1, <1>2, SystemMsg

LEMMA DoForkMsg ==
  ASSUME Inv, MsgInv, Inv', NEW u \in Users, NEW child \in Users, DoFork(u, child)
  PROVE  MsgInv'
<1>1. /\ KInv(k) /\ TaskLoop(k, pc) /\ Msg(k) /\ Serving(k, pc)
      /\ At(SYSTASK, "work") /\ pc' = [pc EXCEPT ![SYSTASK] = "reply"]
  BY DEF Inv, MsgInv, DoFork, SystemCall
<1>2. Waiting(k, u) /\ k.p_getfrom[u] = MM /\ child \in Users \ k.alive
  BY DEF DoFork, CalledMM
<1>3. k' = Forked(k, u, child)
  BY DEF DoFork, Forked
<1>4. Forks(k, k', u, child)
  BY <1>1, <1>2, <1>3, ForkKInv
<1>5. Msg(k') /\ Serving(k', pc)
  BY <1>1, <1>2, <1>4, ForksMsg DEF Waiting, Has, Sending
<1> QED
  BY <1>1, <1>5, SystemMsg

LEMMA DoXitMsg ==
  ASSUME Inv, MsgInv, Inv', NEW u \in Users, DoXit(u)
  PROVE  MsgInv'
<1>1. /\ KInv(k) /\ TaskLoop(k, pc) /\ Msg(k) /\ Serving(k, pc)
      /\ At(SYSTASK, "work") /\ pc' = [pc EXCEPT ![SYSTASK] = "reply"]
  BY DEF Inv, MsgInv, DoXit, SystemCall
<1>2. Exits(k, k', u)
  BY <1>1, XitKInv DEF DoXit
<1>3. Msg(k') /\ Serving(k', pc)
  BY <1>1, <1>2, ExitsMsg
<1> QED
  BY <1>1, <1>3, SystemMsg

LEMMA DoExecMsg ==
  ASSUME Inv, MsgInv, Inv', NEW u \in Users, DoExec(u)
  PROVE  MsgInv'
<1>1. /\ KInv(k) /\ TaskLoop(k, pc) /\ Msg(k) /\ Serving(k, pc)
      /\ At(SYSTASK, "work") /\ pc' = [pc EXCEPT ![SYSTASK] = "reply"]
  BY DEF Inv, MsgInv, DoExec, SystemCall
<1>2. PICK t : /\ t = k \/ (KInv(t) /\ Kept(k, t) /\ \E sig \in Signals : Signalled(k, t, u, sig))
               /\ KInv(t) /\ "SENDING" \notin t.p_flags[u]
               /\ Reflags(t, k', u, t.p_flags[u] \ {"RECEIVING"})
  BY DoExecInv
<1>3. Msg(t) /\ Serving(t, pc) /\ TaskLoop(t, pc)
  BY <1>1, <1>2, SignalMsg, KeptLoop
<1>4. Msg(k') /\ Serving(k', pc)
  BY <1>2, <1>3, ReleaseMsg DEF Sending
<1> QED
  BY <1>1, <1>4, SystemMsg

LEMMA FlagCallsMsg ==
  ASSUME Inv, MsgInv, Inv', NEW u \in Users, DoNewmap(u) \/ DoTrace(u)
  PROVE  MsgInv'
<1>1. /\ KInv(k) /\ TaskLoop(k, pc) /\ Msg(k) /\ Serving(k, pc)
      /\ At(SYSTASK, "work") /\ pc' = [pc EXCEPT ![SYSTASK] = "reply"]
      /\ u \in k.alive
  BY DEF Inv, MsgInv, DoNewmap, DoTrace, SystemCall
<1>2. k.proc_ptr \notin Users /\ KernelRuns(k)
  BY <1>1, SystemRuns
<1>3. \E fs : /\ Reflags(k, k', u, fs)
              /\ \A f \in Flags \ {"NO_MAP", "P_STOP"} : f \in fs <=> f \in k.p_flags[u]
  <2>1. CASE DoNewmap(u)
    <3>1. Reflags(k, k', u, k.p_flags[u] \ {"NO_MAP"})
      BY <2>1, <1>1, <1>2, NewmapKInv DEF DoNewmap
    <3> QED
      BY <3>1
  <2>2. CASE DoTrace(u) /\ "P_STOP" \in k.p_flags[u]
    <3>1. Reflags(k, k', u, k.p_flags[u] \ {"P_STOP"})
      BY <2>2, <1>1, <1>2, UnblockKInv DEF DoTrace, Has
    <3> QED
      BY <3>1
  <2>3. CASE DoTrace(u) /\ "P_STOP" \notin k.p_flags[u]
    <3>1. Reflags(k, k', u, k.p_flags[u] \cup {"P_STOP"})
      BY <2>3, <1>1, StopKInv DEF DoTrace, Has
    <3> QED
      BY <3>1
  <2> QED
    BY <2>1, <2>2, <2>3
<1>4. Msg(k') /\ Serving(k', pc)
  BY <1>1, <1>3, ReflagMsg
<1> QED
  BY <1>1, <1>4, SystemMsg

LEMMA OtherSystemCallMsg ==
  ASSUME Inv, MsgInv, Inv', OtherSystemCall
  PROVE  MsgInv'
<1>1. /\ Msg(k') /\ Serving(k', pc)
      /\ At(SYSTASK, "work") /\ pc' = [pc EXCEPT ![SYSTASK] = "reply"]
  BY DEF MsgInv, OtherSystemCall
<1> QED
  BY <1>1, SystemMsg

-----------------------------------------------------------------------------
(* The invariant.                                                          *)

LEMMA InitMsg == Init => MsgInv
<1> SUFFICES ASSUME Init PROVE MsgInv
  OBVIOUS
<1>1. /\ MM \in Servers /\ MM \in Proc /\ NIL \notin Proc /\ IsFiniteSet(Users)
      /\ MM \notin Users /\ Cardinality({}) = 0
  BY UsersFinite, ProcAssumption, MessagesAssumption, FS_EmptySet DEF Proc
<1>2. /\ k.p_flags = [p \in Proc |-> IF p = MM THEN {} ELSE {"RECEIVING"}]
      /\ k.p_int_blocked = [t \in Tasks |-> FALSE]
      /\ k.m_source = [t \in Tasks |-> NIL]
      /\ k.p_pending = [u \in Users |-> {}]
      /\ k.p_pendcount = [u \in Users |-> 0]
      /\ k.sig_procs = 0
      /\ pc = [t \in Tasks |-> "work"]
  BY DEF Init
<1>3. \A p \in Proc : ~Sending(k, p)
  BY <1>2 DEF Sending
<1>4. Signaled(k) = {}
  BY <1>2 DEF Signaled, Proc
<1>5. Mail(k)
  BY <1>2, <1>3 DEF Mail, Callings, Heard, Proc
<1>6. Counted(k)
  BY <1>1, <1>2, <1>4 DEF Counted, Proc
<1>7. Told(k)
  BY <1>4 DEF Told
<1>8. Serving(k, pc)
  BY <1>1, <1>2 DEF Serving
<1> QED
  BY <1>5, <1>6, <1>7, <1>8 DEF MsgInv, Msg

LEMMA NextMsg ==
  ASSUME Inv, MsgInv, Inv', [Next]_vars
  PROVE  MsgInv'
<1>1. CASE UNCHANGED vars
  BY <1>1 DEF vars, MsgInv
<1>2. ASSUME NEW u \in Users, UserCall(u) PROVE MsgInv'
  BY <1>2, CallsMsg DEF UserCall
<1>3. ASSUME NEW s \in Servers, ServerReceive(s) \/ ServerCall(s) \/ ServerReply(s)
      PROVE  MsgInv'
  <2>1. CASE ServerCall(s)
    BY <2>1, CallsMsg DEF ServerCall
  <2> QED
    BY <1>3, <2>1, ServerReceiveMsg, ServerReplyMsg
<1>4. ASSUME NEW t \in {CLOCK, SYSTASK}, TaskReceive(t) \/ TaskReply(t) PROVE MsgInv'
  BY <1>4, TaskReceiveMsg, TaskReplyMsg, KernelAssumption
<1>5. ASSUME NEW u \in Users, ClockAlarm(u) PROVE MsgInv'
  BY <1>5, ClockMsg
<1>6. CASE DoClocktick \/ ClockRequest
  BY <1>6, ClockMsg
<1>7. ASSUME NEW u \in Users, NEW g \in Groups, NEW e \in Estimates, DoSetgroup(u, g, e)
      PROVE  MsgInv'
  BY <1>7, DoSetgroupMsg
<1>8. ASSUME NEW u \in Users, NEW sig \in Signals, DoKill(u, sig) PROVE MsgInv'
  BY <1>8, SignalCallsMsg
<1>9. ASSUME NEW u \in Users,
             DoEndsig(u) \/ DoNewmap(u) \/ DoExec(u) \/ DoXit(u) \/ DoTrace(u)
      PROVE  MsgInv'
  BY <1>9, SignalCallsMsg, FlagCallsMsg, DoExecMsg, DoXitMsg
<1>10. ASSUME NEW u \in Users, NEW child \in Users, DoFork(u, child) PROVE MsgInv'
  BY <1>10, DoForkMsg
<1>11. CASE OtherSystemCall
  BY <1>11, OtherSystemCallMsg
<1>12. CASE ClockTick
  BY <1>12, ClockTickMsg
<1> QED
  BY <1>1, <1>2, <1>3, <1>4, <1>5, <1>6, <1>7, <1>8, <1>9, <1>10, <1>11, <1>12
     DEF Next, OtherThanUserCall

(* Messages, interrupts and signals in the terms of Kernel.                *)
LEMMA MsgImplies == Inv /\ MsgInv => NoLostWakeup /\ RepliesNeverBlock /\ SignalsCounted
<1> SUFFICES ASSUME Inv, MsgInv PROVE NoLostWakeup /\ RepliesNeverBlock /\ SignalsCounted
  OBVIOUS
<1>1. /\ Callers(k) /\ Callings(k) /\ Heard(k) /\ Counted(k) /\ Told(k) /\ Serving(k, pc)
  BY DEF Inv, KInv, MsgInv, Msg, Mail
<1>2. NoLostWakeup
  <2>1. ASSUME NEW p \in Proc, Waiting(k, p), NEW i \in DOMAIN k.p_callerq[p]
        PROVE  k.p_getfrom[p] \notin {ANY, k.p_callerq[p][i]}
    <3>1. k.p_callerq[p][i] \in CallersOf(k, p)
      BY <1>1, HoldsAt DEF Callers
    <3> QED
      BY <3>1, <2>1, <1>1 DEF CallersOf, Heard, Sending
  <2>2. Waiting(k, MM) /\ k.p_getfrom[MM] = ANY => \A u \in Users : ~Has(k, u, "PENDING")
    BY <1>1 DEF Told, Signaled, Has
  <2> QED
    BY <2>1, <2>2, <1>1 DEF NoLostWakeup, Heard
<1>3. RepliesNeverBlock
  BY <1>1 DEF RepliesNeverBlock, Callings, Sending, Has, Serving
<1>4. SignalsCounted
  <2>1. {u \in Users : Has(k, u, "PENDING")} = Signaled(k)
    BY DEF Signaled, Has
  <2> QED
    BY <2>1, <1>1 DEF SignalsCounted, Counted, Has
<1> QED
  BY <1>2, <1>3, <1>4

LEMMA MsgInvariant ==
  ASSUME "pid" \notin Targets
  PROVE  Spec => [](Inv /\ MsgInv)
<1>1. Inv /\ MsgInv /\ [Next]_vars => (Inv /\ MsgInv)'
  BY NextInv, NextMsg
<1>2. Init => Inv /\ MsgInv
  BY InitInv, InitMsg
<1> QED
  BY <1>1, <1>2, PTL DEF Spec

(* Nobody sleeps on a message that is there: mini_send and mini_rec match  *)
(* senders with receivers in whatever order they come, interrupt() and     *)
(* p_int_blocked lose no interrupt, and MM learns of every signal that     *)
(* cause_sig raises while it waits, or when it next asks for work.         *)
THEOREM NobodyOverheard ==
  ASSUME "pid" \notin Targets
  PROVE  Spec => []NoLostWakeup
<1>1. Inv /\ MsgInv => NoLostWakeup
  BY MsgImplies
<1> QED
  BY <1>1, MsgInvariant, PTL

(* The reply of a task always finds its server waiting for it: a task      *)
(* never blocks on send, whatever interrupts, signals and exits come       *)
(* between the request and the reply.                                      *)
THEOREM TasksAnswer ==
  ASSUME "pid" \notin Targets
  PROVE  Spec => []RepliesNeverBlock
<1>1. Inv /\ MsgInv => RepliesNeverBlock
  BY MsgImplies
<1> QED
  BY <1>1, MsgInvariant, PTL

(* sig_procs, p_pendcount and the flags PENDING and SIG_PENDING agree over *)
(* every order of signals, of MM being told and having finished, of forks  *)
(* and exits.                                                              *)
THEOREM SignalCounts ==
  ASSUME "pid" \notin Targets
  PROVE  Spec => []SignalsCounted
<1>1. Inv /\ MsgInv => SignalsCounted
  BY MsgImplies
<1> QED
  BY <1>1, MsgInvariant, PTL

-----------------------------------------------------------------------------
(* No circles.  A set of processes that each send to one of the set holds  *)
(* a circle, and there is none.                                            *)

(* Every set of processes has one that sends to none of them.              *)
Acyclic(s) ==
  \A C \in SUBSET Proc : C # {} => \E p \in C : ~(Sending(s, p) /\ s.p_sendto[p] \in C)

(* Nobody new sends, or sends to another.                                  *)
FewerSend(s, t) ==
  \A p \in Proc : Sending(t, p) => Sending(s, p) /\ t.p_sendto[p] = s.p_sendto[p]

LEMMA AcyclicKept ==
  ASSUME NEW s, NEW t, Acyclic(s), FewerSend(s, t)
  PROVE  Acyclic(t)
BY DEF Acyclic, FewerSend

Steps == 0..Cardinality(Proc)

(* The walk of Locked.                                                     *)
Walks(w, s, p) ==
  /\ DOMAIN w = Steps /\ w[0] = p
  /\ \A n \in Steps \ {0} : w[n] = IF Sending(s, w[n - 1]) THEN s.p_sendto[w[n - 1]] ELSE w[n - 1]

LEMMA StepsAre ==
  /\ Cardinality(Proc) \in Nat /\ IsFiniteSet(Proc)
  /\ Steps \subseteq Nat /\ 0 \in Steps
  /\ \A n \in Steps : n # 0 => n - 1 \in Steps
<1>1. Cardinality(Proc) \in Nat /\ IsFiniteSet(Proc)
  BY ProcAssumption, FS_CardinalityType
<1> QED
  BY <1>1 DEF Steps

LEMMA SendersWalk ==
  ASSUME NEW s, NEW p \in Proc
  PROVE  Walks(Senders(s, p), s, p)
<1> DEFINE Onward(x) == IF Has(s, x, "SENDING") THEN s.p_sendto[x] ELSE x
           Upto(f, m) == /\ f = [n \in 0..m |-> f[n]] /\ f[0] = p
                         /\ \A n \in 1..m : f[n] = Onward(f[n - 1])
           Bad == {m \in Nat : ~ \E f : Upto(f, m)}
<1>1. Bad = {}
  <2> SUFFICES ASSUME Bad # {} PROVE FALSE
    OBVIOUS
  <2>1. PICK m \in Bad : \A y \in Bad : m <= y
    <3>1. Bad \in SUBSET Nat
      OBVIOUS
    <3> HIDE DEF Bad
    <3> QED
      BY <3>1, LeastNat
  <2>2. m # 0
    <3>1. Upto([n \in 0..0 |-> p], 0)
      OBVIOUS
    <3> QED
      BY <3>1, <2>1
  <2>3. m \in Nat /\ m - 1 \in Nat /\ m - 1 \notin Bad
    BY <2>1, <2>2
  <2>4. PICK f : Upto(f, m - 1)
    BY <2>3
  <2> DEFINE g == [n \in 0..m |-> IF n = m THEN Onward(f[m - 1]) ELSE f[n]]
  <2> HIDE DEF Onward
  <2>5. /\ g = [n \in 0..m |-> g[n]] /\ g[0] = p
        /\ \A n \in 1..m : g[n] = Onward(g[n - 1])
    <3>1. g[0] = p
      BY <2>2, <2>3, <2>4
    <3>2. ASSUME NEW n \in 1..m PROVE g[n] = Onward(g[n - 1])
      <4>1. g[n - 1] = f[n - 1]
        BY <2>3
      <4>2. CASE n = m
        BY <4>1, <4>2, <2>3
      <4>3. CASE n # m
        <5>1. n \in 1..m - 1 /\ n \in 0..m
          BY <4>3, <2>3
        <5> QED
          BY <4>1, <4>3, <5>1, <2>4
      <4> QED
        BY <4>2, <4>3
    <3> QED
      BY <3>1, <3>2
  <2> QED
    BY <2>1, <2>5
<1>2. PICK f : Upto(f, Cardinality(Proc))
  BY <1>1, StepsAre
<1>3. f = [n \in 0..Cardinality(Proc) |->
             IF n = 0 THEN p
             ELSE IF Has(s, f[n - 1], "SENDING") THEN s.p_sendto[f[n - 1]]
             ELSE f[n - 1]]
  <2>1. \A n \in 0..Cardinality(Proc) : n # 0 => n \in 1..Cardinality(Proc)
    BY StepsAre
  <2>2. \A n \in 0..Cardinality(Proc) : f[n] = IF n = 0 THEN p ELSE Onward(f[n - 1])
    BY <2>1, <1>2
  <2> QED
    BY <2>2, <1>2
<1>4. Senders(s, p) = [n \in 0..Cardinality(Proc) |->
             IF n = 0 THEN p
             ELSE IF Has(s, Senders(s, p)[n - 1], "SENDING") THEN s.p_sendto[Senders(s, p)[n - 1]]
             ELSE Senders(s, p)[n - 1]]
  BY <1>3 DEF Senders
<1> QED
  BY <1>4, StepsAre DEF Walks, Steps, Has, Sending

(* Who is on the walk, if whoever is sends to one of a set.                *)
LEMMA WalkStays ==
  ASSUME NEW s, NEW p, NEW w, Walks(w, s, p), NEW C, p \in C,
         NEW N \in Steps,
         \A n \in 0..N : w[n] \in C => Sending(s, w[n]) /\ (n < N => s.p_sendto[w[n]] \in C)
  PROVE  \A n \in 0..N : w[n] \in C
<1> DEFINE Bad == {n \in 0..N : w[n] \notin C}
<1> SUFFICES ASSUME Bad # {} PROVE FALSE
  OBVIOUS
<1>1. N \in Nat /\ 0..N \subseteq Steps
  BY StepsAre DEF Steps
<1>2. PICK n \in Bad : \A y \in Bad : n <= y
  <2>1. Bad \in SUBSET Nat
    BY <1>1
  <2> HIDE DEF Bad
  <2> QED
    BY <2>1, LeastNat
<1>3. n # 0 /\ n \in 0..N
  BY <1>2 DEF Walks
<1>4. n - 1 \in 0..N /\ n - 1 \notin Bad /\ n - 1 < N
  BY <1>1, <1>2, <1>3
<1>5. Sending(s, w[n - 1]) /\ s.p_sendto[w[n - 1]] \in C
  BY <1>4
<1>6. w[n] = s.p_sendto[w[n - 1]]
  BY <1>1, <1>3, <1>5 DEF Walks
<1> QED
  BY <1>2, <1>5, <1>6

(* A walk that comes back to where it was, by senders, is a circle.        *)
LEMMA ComesBack ==
  ASSUME NEW s, NEW p, NEW w, Walks(w, s, p), NEW i \in Steps, NEW j \in Steps, i < j,
         w[i] = w[j], \A n \in i..j - 1 : w[n] \in Proc /\ Sending(s, w[n])
  PROVE  ~Acyclic(s)
<1> DEFINE C == {w[n] : n \in i..j - 1}
<1>1. i \in Nat /\ j \in Nat /\ i..j - 1 \subseteq Steps
  BY StepsAre DEF Steps
<1>2. C \in SUBSET Proc /\ C # {}
  <2>1. i \in i..j - 1
    BY <1>1
  <2> QED
    BY <2>1
<1>3. ASSUME NEW n \in i..j - 1 PROVE Sending(s, w[n]) /\ s.p_sendto[w[n]] \in C
  <2>1. n + 1 \in Steps \ {0} /\ (n + 1) - 1 = n
    BY <1>1 DEF Steps
  <2>2. w[n + 1] = s.p_sendto[w[n]]
    BY <2>1, <1>3 DEF Walks
  <2>3. CASE n + 1 = j
    <3>1. i \in i..j - 1
      BY <1>1
    <3> QED
      BY <3>1, <2>2, <2>3
  <2>4. CASE n + 1 # j
    <3>1. n + 1 \in i..j - 1
      BY <1>1, <2>4
    <3> QED
      BY <3>1, <2>2
  <2> QED
    BY <2>3, <2>4
<1> QED
  BY <1>2, <1>3 DEF Acyclic

(* c, which is not SENDING, may send to d if mini_send does not refuse it: *)
(* a circle through c would be longer than the walk of Locked.             *)
LEMMA SendKeepsAcyclic ==
  ASSUME NEW s, NEW t, Acyclic(s), NEW c \in Proc, NEW d \in Proc, c # d,
         ~Sending(s, c), ~Locked(s, c, d),
         \A p \in Proc : Sending(t, p) => p = c \/ (Sending(s, p) /\ t.p_sendto[p] = s.p_sendto[p]),
         t.p_sendto[c] = d
  PROVE  Acyclic(t)
<1> SUFFICES ASSUME NEW C \in SUBSET Proc, C # {},
                    \A p \in C : Sending(t, p) /\ t.p_sendto[p] \in C
             PROVE  FALSE
  BY DEF Acyclic
<1> DEFINE w == Senders(s, d)
           N == Cardinality(Proc)
           D == C \ {c}
<1>1. Walks(w, s, d) /\ N \in Nat /\ N \in Steps /\ Steps = 0..N /\ IsFiniteSet(Proc)
  BY SendersWalk, StepsAre DEF Steps
<1>2. c \in C
  <2> SUFFICES ASSUME c \notin C PROVE FALSE
    OBVIOUS
  <2>1. \A p \in C : Sending(s, p) /\ s.p_sendto[p] \in C
    OBVIOUS
  <2> QED
    BY <2>1 DEF Acyclic
<1>3. d \in D
  BY <1>2
<1>4. \A p \in D : Sending(s, p) /\ s.p_sendto[p] \in C
  OBVIOUS
<1>5. \A n \in 1..N : Sending(s, w[n - 1]) => w[n] # c
  BY DEF Locked, Sending, Has
<1> HIDE DEF w, N, D
<1>6. ASSUME NEW n \in 0..N, w[n] \in D
      PROVE  Sending(s, w[n]) /\ (n < N => s.p_sendto[w[n]] \in D)
  <2>1. Sending(s, w[n]) /\ s.p_sendto[w[n]] \in C
    BY <1>4, <1>6
  <2>2. ASSUME n < N PROVE s.p_sendto[w[n]] # c
    <3>1. n + 1 \in 1..N /\ (n + 1) - 1 = n /\ n + 1 \in Steps \ {0}
      BY <1>1, <2>2
    <3>2. w[n + 1] = s.p_sendto[w[n]] /\ w[n + 1] # c
      BY <3>1, <2>1, <1>1, <1>5 DEF Walks
    <3> QED
      BY <3>2
  <2> QED
    BY <2>1, <2>2 DEF D
<1>7. \A n \in 0..N : w[n] \in D
  BY <1>1, <1>3, <1>6, WalkStays
<1>8. PICK i \in 0..N, j \in 0..N : i < j /\ w[i] = w[j]
  <2> DEFINE f == [n \in 0..N |-> w[n]]
  <2>1. f \in [0..N -> Proc]
    BY <1>7 DEF D
  <2>2. IsFiniteSet(0..N) /\ Cardinality(0..N) = N + 1
    BY <1>1, FS_Interval
  <2>3. Cardinality(Proc) < Cardinality(0..N)
    BY <2>2, <1>1 DEF N
  <2> HIDE DEF f
  <2>4. PICK x \in 0..N, y \in 0..N : x # y /\ f[x] = f[y]
    BY <2>1, <2>2, <2>3, <1>1, FS_PigeonHole
  <2>5. w[x] = w[y]
    BY <2>4 DEF f
  <2>6. x \in Int /\ y \in Int
    BY <1>1
  <2> QED
    BY <2>4, <2>5, <2>6
<1>9. \A n \in i..j - 1 : w[n] \in Proc /\ Sending(s, w[n])
  <2>1. \A n \in i..j - 1 : n \in 0..N
    BY <1>1, <1>8
  <2> QED
    BY <2>1, <1>6, <1>7 DEF D
<1> QED
  BY <1>1, <1>8, <1>9, ComesBack

(* Then nobody is on the walk that starts from him.                        *)
LEMMA AcyclicImplies ==
  ASSUME NEW s, Acyclic(s), NEW p \in Proc, Locked(s, p, p),
         \A q \in Proc : Sending(s, q) => s.p_sendto[q] \in Proc
  PROVE  FALSE
<1> DEFINE w == Senders(s, p)
           N == Cardinality(Proc)
<1>1. Walks(w, s, p) /\ N \in Nat /\ N \in Steps /\ Steps = 0..N
  BY SendersWalk, StepsAre DEF Steps
<1>2. PICK m \in 1..N : Sending(s, w[m - 1]) /\ w[m] = p
  BY DEF Locked, Sending, Has
<1> HIDE DEF w, N
<1>3. ASSUME NEW n \in 0..m - 1 PROVE Sending(s, w[n])
  <2> SUFFICES ASSUME ~Sending(s, w[n]) PROVE FALSE
    OBVIOUS
  <2> DEFINE Bad == {y \in n..m - 1 : w[y] # w[n]}
  <2>1. m - 1 \in Bad
    BY <1>1, <1>2
  <2>2. PICK y \in Bad : \A z \in Bad : y <= z
    <3>1. Bad \in SUBSET Nat /\ Bad # {}
      BY <1>1, <1>2, <2>1
    <3> HIDE DEF Bad
    <3> QED
      BY <3>1, LeastNat
  <2>3. y # n /\ y \in n..m - 1 /\ y - 1 \in n..m - 1
    BY <1>1, <1>2, <2>2
  <2>4. w[y - 1] = w[n]
    BY <2>2, <2>3, <1>1, <1>2
  <2>5. y \in Steps \ {0}
    BY <2>3, <1>1, <1>2
  <2>6. w[y] = w[y - 1]
    BY <2>4, <2>5, <1>1 DEF Walks
  <2> QED
    BY <2>2, <2>4, <2>6
<1>4. \A n \in 0..m - 1 : w[n] \in Proc
  <2>1. m - 1 \in Steps
    BY <1>1, <1>2
  <2>2. \A n \in 0..m - 1 : w[n] \in Proc =>
           Sending(s, w[n]) /\ (n < m - 1 => s.p_sendto[w[n]] \in Proc)
    BY <1>3
  <2> QED
    BY <2>1, <2>2, <1>1, WalkStays
<1>5. 0 \in Steps /\ m \in Steps /\ 0 < m /\ w[0] = w[m]
  BY <1>1, <1>2 DEF Walks
<1> QED
  BY <1>1, <1>3, <1>4, <1>5, ComesBack

(* The shapes of the steps that nobody begins to send in.                  *)
LEMMA ReceiveFewer ==
  ASSUME NEW s, NEW t, NEW c \in Proc, NEW src, MM \in Proc, Receives(s, t, c, src)
  PROVE  FewerSend(s, t)
<1>1. ASSUME NEW p \in Proc, Takes(s, t, c, p) PROVE FewerSend(s, t)
  BY <1>1 DEF Takes, FlagsBut, FewerSend, Sending
<1>2. CASE TakesInterrupt(s, t, c)
  BY <1>2 DEF TakesInterrupt, FewerSend, Sending
<1>3. ASSUME NEW b, WaitsOn(s, b, c, src) PROVE FewerSend(s, b)
  BY <1>3 DEF WaitsOn, FlagsBut, FewerSend, Sending
<1>4. ASSUME NEW b, Informs(b, t) PROVE FewerSend(b, t)
  <2>1. PICK u : Tells(b, t, u)
    BY <1>4 DEF Informs
  <2> QED
    BY <2>1 DEF Tells, FewerSend, Sending
<1>5. ASSUME NEW b, WaitsOn(s, b, c, src), Informs(b, t) PROVE FewerSend(s, t)
  BY <1>3, <1>4, <1>5 DEF FewerSend
<1> QED
  BY <1>1, <1>2, <1>3, <1>5 DEF Receives

LEMMA SignalFewer ==
  ASSUME NEW s, NEW t, NEW u, NEW sig, MM \in Proc, Signalled(s, t, u, sig)
  PROVE  FewerSend(s, t)
<1>1. CASE t = s
  BY <1>1 DEF FewerSend
<1>2. CASE Counts(s, t, u, sig) /\ t.p_flags = s.p_flags
  BY <1>2 DEF Counts, FewerSend, Sending
<1>3. ASSUME NEW b, Counts(s, b, u, sig),
             FlagsBut(s, b, u, s.p_flags[u] \cup {"PENDING", "SIG_PENDING"}),
             Informs(b, t) \/ t = b
      PROVE  FewerSend(s, t)
  <2>1. FewerSend(s, b)
    BY <1>3 DEF Counts, FlagsBut, FewerSend, Sending
  <2>2. ASSUME NEW v, Tells(b, t, v) PROVE FewerSend(b, t)
    BY <2>2 DEF Tells, FewerSend, Sending
  <2>3. FewerSend(b, t)
    BY <2>2, <1>3 DEF Informs, FewerSend
  <2> QED
    BY <2>1, <2>3 DEF FewerSend
<1> QED
  BY <1>1, <1>2, <1>3 DEF Signalled

LEMMA ReflagsFewer ==
  ASSUME NEW s, NEW t, NEW u \in Proc, NEW fs, Reflags(s, t, u, fs),
         "SENDING" \in fs => "SENDING" \in s.p_flags[u]
  PROVE  FewerSend(s, t)
BY DEF Reflags, SameButFlags, SameRest, FlagsBut, FewerSend, Sending

(* Only BOTH makes a process SENDING: whoever gets a reply waits for it.   *)
LEMMA ServersFewer ==
  ASSUME Inv, MsgInv, NEW c \in Servers, ServerReceive(c) \/ ServerReply(c)
  PROVE  FewerSend(k, k')
<1>1. c \in Proc /\ c \notin Tasks /\ c \notin Users /\ MM \in Proc
  BY ProcAssumption, MessagesAssumption DEF Proc
<1>2. KInv(k) /\ k.proc_ptr = c /\ k.p_flags[c] = {} /\ ~isemptyp(k, c)
  BY <1>1, RunningRunnable DEF Inv, ServerReceive, ServerReply, Running
<1>3. CASE ServerReceive(c)
  <2>1. Receives(k, k', c, ANY)
    BY <1>1, <1>2, <1>3, MiniRec DEF ServerReceive, KernelRuns
  <2> QED
    BY <2>1, <1>1, ReceiveFewer
<1>4. CASE ServerReply(c)
  <2>1. PICK d \in Users \cup Servers : WaitsFor(k, d, c) /\ k' = Send(k, c, d)
    BY <1>4 DEF ServerReply, WaitsFor
  <2>2. k' = k \/ Gets(k, k', c, d)
    BY <1>2, <2>1, SendKInv DEF Answers
  <2> QED
    BY <2>2 DEF Gets, FlagsBut, FewerSend, Sending
<1> QED
  BY <1>3, <1>4

LEMMA TasksFewer ==
  ASSUME Inv, MsgInv, NEW c \in Tasks, TaskReceive(c) \/ TaskReply(c)
  PROVE  FewerSend(k, k')
<1>1. c \in Proc /\ MM \in Proc
  BY MessagesAssumption DEF Proc
<1>2. CASE TaskReceive(c)
  <2>1. PICK v : Empties(k, v, c) /\ Receives(v, k', c, ANY)
    BY <1>2, TaskReceiveInv
  <2>2. FewerSend(v, k')
    BY <2>1, <1>1, ReceiveFewer
  <2> QED
    BY <2>1, <2>2 DEF Empties, FewerSend, Sending
<1>3. CASE TaskReply(c)
  <2>1. PICK d \in Servers : d = k.m_source[c]
    BY <1>3 DEF Inv, TaskReply, At, TaskLoop
  <2>2. KInv(k) /\ k.proc_ptr = c /\ k' = Send(k, c, d) /\ WaitsFor(k, d, c)
    BY <2>1, <1>3 DEF Inv, MsgInv, Serving, WaitsFor, TaskReply, At, Running
  <2>3. k' = k \/ Gets(k, k', c, d)
    BY <2>2, SendKInv DEF Answers
  <2> QED
    BY <2>3 DEF Gets, FlagsBut, FewerSend, Sending
<1> QED
  BY <1>2, <1>3

LEMMA ClockFewer ==
  ASSUME Inv, MsgInv,
         (\E u \in Users : ClockAlarm(u)) \/ DoClocktick \/ ClockRequest \/ ClockTick
  PROVE  FewerSend(k, k')
<1>1. KInv(k) /\ MM \in Proc
  BY MessagesAssumption DEF Inv, Proc
<1>2. ASSUME NEW u \in Users, ClockAlarm(u) PROVE FewerSend(k, k')
  <2>1. u \in k.alive /\ "SIGALRM" \in Signals /\ k' = cause_sig(k, u, "SIGALRM")
    BY <1>2 DEF Inv, ClockAlarm
  <2>2. Signalled(k, k', u, "SIGALRM")
    BY <2>1, <1>1, CauseSigKInv
  <2> QED
    BY <2>2, <1>1, SignalFewer
<1>3. CASE DoClocktick \/ ClockRequest
  <2>1. k' = sched(k) \/ k' = k
    BY <1>3 DEF DoClocktick, ClockRequest
  <2>2. SameMessages(k, sched(k)) /\ SameMessages(k, k)
    BY <1>1, SchedKInv DEF SameMessages
  <2>3. SameMessages(k, k')
    BY <2>1, <2>2
  <2> QED
    BY <2>3 DEF SameMessages, FewerSend, Sending
<1>4. CASE ClockTick
  <2>1. PICK s : s = handle_clock_tick(k)
    OBVIOUS
  <2>2. KInv(s) /\ SameMessages(k, s)
    BY <1>1, <2>1, TickKInv
  <2>3. k' = interrupt(s, CLOCK) \/ k' = s
    BY <1>4, <2>1 DEF ClockTick
  <2>4. FewerSend(k, s)
    BY <2>2 DEF SameMessages, FewerSend, Sending
  <2>5. ASSUME k' = interrupt(s, CLOCK) PROVE FewerSend(s, k')
    <3>1. Interrupts(s, k', CLOCK)
      BY <2>2, <2>5, InterruptKInv
    <3> QED
      BY <3>1 DEF Interrupts, FlagsBut, FewerSend, Sending
  <2> QED
    BY <2>3, <2>4, <2>5 DEF FewerSend
<1> QED
  BY <1>2, <1>3, <1>4

LEMMA SystemFewer ==
  ASSUME Inv, MsgInv, NEW u \in Users,
         \/ \E g \in Groups, e \in Estimates : DoSetgroup(u, g, e)
         \/ \E sig \in Signals : DoKill(u, sig)
         \/ DoEndsig(u) \/ DoNewmap(u) \/ DoExec(u) \/ DoXit(u) \/ DoTrace(u)
         \/ \E child \in Users : DoFork(u, child)
         \/ OtherSystemCall
  PROVE  FewerSend(k, k')
<1>1. KInv(k) /\ k \in KernelState /\ MM \in Proc /\ u \in Proc
  BY MessagesAssumption DEF Inv, KInv, Scheduled, Proc
<1>2. CASE OtherSystemCall
  BY <1>2 DEF OtherSystemCall, FewerSend
<1>3. ASSUME NEW g \in Groups, NEW e \in Estimates, DoSetgroup(u, g, e) PROVE FewerSend(k, k')
  <2>1. k'.p_flags = k.p_flags /\ k'.p_sendto = k.p_sendto
    BY <1>1, <1>3 DEF DoSetgroup, KernelState
  <2> QED
    BY <2>1 DEF FewerSend, Sending
<1>4. ASSUME NEW sig \in Signals, DoKill(u, sig) PROVE FewerSend(k, k')
  <2>1. Signalled(k, k', u, sig)
    BY <1>1, <1>4, CauseSigKInv DEF DoKill
  <2> QED
    BY <2>1, <1>1, SignalFewer
<1>5. CASE DoEndsig(u)
  <2>1. KernelRuns(k) /\ k.p_pendcount[u] > Cardinality(k.p_pending[u])
    BY <1>5, SystemRuns DEF DoEndsig, BeingHandled, SystemCall
  <2>2. Ends(k, k', u)
    BY <2>1, <1>1, <1>5, EndsigKInv DEF DoEndsig
  <2> QED
    BY <2>2 DEF Ends, FlagsBut, FewerSend, Sending
<1>6. CASE DoXit(u)
  <2>1. Exits(k, k', u)
    BY <1>1, <1>6, XitKInv DEF DoXit
  <2> QED
    BY <2>1 DEF Exits, FlagsBut, FewerSend, Sending
<1>7. CASE DoExec(u)
  <2>1. PICK t : /\ t = k \/ \E sig \in Signals : Signalled(k, t, u, sig)
                 /\ Reflags(t, k', u, t.p_flags[u] \ {"RECEIVING"})
    BY <1>7, DoExecInv
  <2>2. FewerSend(k, t)
    BY <2>1, <1>1, SignalFewer DEF FewerSend
  <2>3. FewerSend(t, k')
    BY <2>1, <1>1, ReflagsFewer
  <2> QED
    BY <2>2, <2>3 DEF FewerSend
<1>8. CASE DoNewmap(u) \/ DoTrace(u)
  <2>1. u \in k.alive /\ k.proc_ptr \notin Users /\ KernelRuns(k)
    BY <1>8, SystemRuns DEF DoNewmap, DoTrace, SystemCall
  <2>2. CASE DoNewmap(u)
    <3>1. Reflags(k, k', u, k.p_flags[u] \ {"NO_MAP"})
      BY <2>1, <2>2, <1>1, NewmapKInv DEF DoNewmap
    <3> QED
      BY <3>1, <1>1, ReflagsFewer
  <2>3. CASE DoTrace(u) /\ "P_STOP" \in k.p_flags[u]
    <3>1. Reflags(k, k', u, k.p_flags[u] \ {"P_STOP"})
      BY <2>1, <2>3, <1>1, UnblockKInv DEF DoTrace, Has
    <3> QED
      BY <3>1, <1>1, ReflagsFewer
  <2>4. CASE DoTrace(u) /\ "P_STOP" \notin k.p_flags[u]
    <3>1. Reflags(k, k', u, k.p_flags[u] \cup {"P_STOP"})
      BY <2>1, <2>4, <1>1, StopKInv DEF DoTrace, Has
    <3> QED
      BY <3>1, <1>1, ReflagsFewer
  <2> QED
    BY <1>8, <2>2, <2>3, <2>4
<1>9. ASSUME NEW child \in Users, DoFork(u, child) PROVE FewerSend(k, k')
  <2>1. Waiting(k, u) /\ k.p_getfrom[u] = MM /\ child \in Users \ k.alive
    BY <1>9 DEF DoFork, CalledMM
  <2>2. k' = Forked(k, u, child)
    BY <1>9 DEF DoFork, Forked
  <2>3. Forks(k, k', u, child)
    BY <1>1, <2>1, <2>2, ForkKInv
  <2>4. "SENDING" \notin k.p_flags[u]
    BY <2>1 DEF Waiting, Has
  <2> QED
    BY <2>3, <2>4 DEF Forks, FlagsBut, FewerSend, Sending
<1> QED
  BY <1>2, <1>3, <1>4, <1>5, <1>6, <1>7, <1>8, <1>9

(* BOTH, the only way to become SENDING, is refused if it is to close a    *)
(* circle.                                                                 *)
LEMMA CallsAcyclic ==
  ASSUME Inv, Acyclic(k), (\E u \in Users : UserCall(u)) \/ (\E s \in Servers : ServerCall(s))
  PROVE  Acyclic(k')
<1>1. PICK c \in Users \cup Servers, d \in Tasks \cup Servers :
         /\ c # d /\ k.proc_ptr = c /\ k' = SendRec(k, c, d)
         /\ d \in Tasks => c \in Servers
  <2>1. CASE \E u \in Users : UserCall(u)
    BY <2>1, ProcAssumption DEF UserCall, Running
  <2>2. CASE \E s \in Servers : ServerCall(s)
    BY <2>2, KernelAssumption, ProcAssumption DEF ServerCall, Running
  <2> QED
    BY <2>1, <2>2
<1>2. KInv(k) /\ k.p_flags[c] = {} /\ c \in Proc /\ d \in Proc
  BY <1>1, RunningRunnable DEF Inv, Proc
<1>3. CASE k' = k
  BY <1>3
<1>4. CASE k' # k
  <2>1. ~Locked(k, c, d)
    BY <1>1, <1>4 DEF SendRec, Refused
  <2>2. PICK m : /\ IF WaitsFor(k, d, c) THEN Gets(k, m, c, d) ELSE Sends(k, m, c, d)
                 /\ WaitsOn(m, k', c, d)
    BY <1>1, <1>2, <1>4, SendRecKInv DEF CallsAndWaits
  <2>3. FewerSend(m, k')
    BY <2>2 DEF WaitsOn, FlagsBut, FewerSend, Sending
  <2>4. CASE WaitsFor(k, d, c)
    <3>1. FewerSend(k, m)
      BY <2>2, <2>4 DEF Gets, FlagsBut, FewerSend, Sending
    <3> QED
      BY <3>1, <2>3, AcyclicKept
  <2>5. CASE ~WaitsFor(k, d, c)
    <3>1. /\ \A p \in Proc : Sending(m, p) => p = c \/ (Sending(k, p) /\ m.p_sendto[p] = k.p_sendto[p])
          /\ m.p_sendto[c] = d
      BY <2>2, <2>5, <1>2 DEF Sends, FlagsBut, Sending
    <3>2. ~Sending(k, c)
      BY <1>2 DEF Sending
    <3>3. Acyclic(m)
      BY <3>1, <3>2, <2>1, <1>1, <1>2, SendKeepsAcyclic
    <3> QED
      BY <3>3, <2>3, AcyclicKept
  <2> QED
    BY <2>4, <2>5
<1> QED
  BY <1>3, <1>4

LEMMA NextAcyclic ==
  ASSUME Inv, MsgInv, Acyclic(k), [Next]_vars
  PROVE  Acyclic(k')
<1>1. CASE UNCHANGED vars
  BY <1>1 DEF vars
<1>2. CASE (\E u \in Users : UserCall(u)) \/ (\E s \in Servers : ServerCall(s))
  BY <1>2, CallsAcyclic
<1>3. CASE \E s \in Servers : ServerReceive(s) \/ ServerReply(s)
  BY <1>3, ServersFewer, AcyclicKept
<1>4. CASE \E t \in {CLOCK, SYSTASK} : TaskReceive(t) \/ TaskReply(t)
  BY <1>4, TasksFewer, AcyclicKept, KernelAssumption
<1>5. CASE (\E u \in Users : ClockAlarm(u)) \/ DoClocktick \/ ClockRequest \/ ClockTick
  BY <1>5, ClockFewer, AcyclicKept
<1>6. CASE OtherSystemCall
  BY <1>6, AcyclicKept DEF OtherSystemCall, FewerSend
<1>7. ASSUME NEW u \in Users,
             \/ \E g \in Groups, e \in Estimates : DoSetgroup(u, g, e)
             \/ \E sig \in Signals : DoKill(u, sig)
             \/ DoEndsig(u) \/ DoNewmap(u) \/ DoExec(u) \/ DoXit(u) \/ DoTrace(u)
             \/ \E child \in Users : DoFork(u, child)
      PROVE  Acyclic(k')
  BY <1>7, SystemFewer, AcyclicKept
<1> QED
  BY <1>1, <1>2, <1>3, <1>4, <1>5, <1>6, <1>7 DEF Next, OtherThanUserCall

(* Processes never send to each other in a circle, whatever calls, replies *)
(* and exits come in between: the walk along p_sendto in mini_send looks   *)
(* far enough to refuse with ELOCKED every send that would close one, and  *)
(* no other step makes a process SENDING.                                  *)
THEOREM NoCircle ==
  ASSUME "pid" \notin Targets
  PROVE  Spec => []NoSendCycle
<1>1. Init => Acyclic(k)
  <2> SUFFICES ASSUME Init PROVE Acyclic(k)
    OBVIOUS
  <2>1. \A p \in Proc : ~Sending(k, p)
    BY DEF Init, Sending
  <2> QED
    BY <2>1 DEF Acyclic
<1>2. Inv /\ MsgInv /\ Acyclic(k) /\ [Next]_vars => Acyclic(k)'
  BY NextAcyclic
<1>3. Inv /\ Acyclic(k) => NoSendCycle
  <2>1. Inv => \A q \in Proc : Sending(k, q) => k.p_sendto[q] \in Proc
    BY DEF Inv, KInv, Scheduled, KernelState
  <2> QED
    BY <2>1, AcyclicImplies DEF NoSendCycle
<1> QED
  BY <1>1, <1>2, <1>3, MsgInvariant, PTL DEF Spec
-----------------------------------------------------------------------------
(* Age.  What the routines do to wait_ticks: pick_proc takes it from the   *)
(* process of group 2 that it runs, and from nobody if somebody of a       *)
(* better class or of group 1 is ready; nothing else but SETGROUP and FORK *)
(* makes anybody younger.                                                  *)

Ages(s) ==
  /\ {"queue", "proc_ptr", "sched_group", "wait_ticks", "p_flags"} \subseteq DOMAIN s
  /\ s.wait_ticks \in [Users -> Int]
  /\ DOMAIN s.queue = QNames /\ DOMAIN s.p_flags = Proc

(* Nobody has become younger.                                              *)
Older(s, t) == Ages(t) /\ \A u \in Users : t.wait_ticks[u] >= s.wait_ticks[u]

(* Only who runs has become younger.                                       *)
Renewed(s, t) ==
  /\ Ages(t)
  /\ \A u \in Users : t.wait_ticks[u] < s.wait_ticks[u] => t.proc_ptr = u

LEMMA OlderIs ==
  ASSUME NEW s, NEW t, Ages(s), Ages(t), t.wait_ticks = s.wait_ticks
  PROVE  Older(s, t)
BY DEF Older, Ages

LEMMA OlderOlder ==
  ASSUME NEW s, NEW t, NEW v, Ages(s), Older(s, t), Older(t, v)
  PROVE  Older(s, v)
BY DEF Older, Ages

LEMMA OlderAged ==
  ASSUME NEW s, NEW t, NEW v, Ages(s), Older(s, t), Renewed(t, v)
  PROVE  Renewed(s, v)
BY DEF Older, Renewed, Ages

LEMMA AgedOlder ==
  ASSUME NEW s, NEW t, NEW v, Ages(s), Renewed(s, t), Older(t, v), v.proc_ptr = t.proc_ptr
  PROVE  Renewed(s, v)
BY DEF Older, Renewed, Ages

LEMMA OlderIsAged ==
  ASSUME NEW s, NEW t, Ages(s), Older(s, t)
  PROVE  Renewed(s, t)
BY DEF Older, Renewed, Ages

(* Somebody is ready whom pick_proc prefers to group 2.                    *)
Better(s) == \E n \in {"TASK_Q", "SERVER_Q", "g1"} : s.queue[n] # << >>

LEMMA PickAged ==
  ASSUME NEW s, Ages(s)
  PROVE  LET t == pick_proc(s)
         IN /\ Renewed(s, t) /\ t.p_flags = s.p_flags /\ t.queue = s.queue
            /\ Better(s) => Older(s, t)
<1> DEFINE t == pick_proc(s)
           o == Oldest(s)
           v == [RunBill(s, o) EXCEPT !.wait_ticks[o] = 0]
<1>1. ASSUME NEW p
      PROVE  /\ Older(s, Run(s, p)) /\ Run(s, p).p_flags = s.p_flags
             /\ Run(s, p).queue = s.queue
  BY DEF Run, Ages, Older
<1>2. ASSUME NEW p
      PROVE  /\ Older(s, RunBill(s, p)) /\ RunBill(s, p).p_flags = s.p_flags
             /\ RunBill(s, p).queue = s.queue
             /\ RunBill(s, p).wait_ticks = s.wait_ticks /\ RunBill(s, p).proc_ptr = p
  BY DEF RunBill, Ages, Older
<1> HIDE DEF o
<1>3. Renewed(s, v) /\ v.p_flags = s.p_flags /\ v.queue = s.queue
  <2> DEFINE b == RunBill(s, o)
  <2>1. /\ Ages(b) /\ b.p_flags = s.p_flags /\ b.queue = s.queue
        /\ b.wait_ticks = s.wait_ticks /\ b.proc_ptr = o
    BY <1>2 DEF Older
  <2> HIDE DEF b
  <2> DEFINE wt == [s.wait_ticks EXCEPT ![o] = 0]
  <2>2. v = [b EXCEPT !.wait_ticks = wt]
    BY <2>1 DEF b
  <2>3. s.wait_ticks \in [Users -> Int]
    BY DEF Ages
  <2>4. wt \in [Users -> Int] /\ \A u \in Users : o = u \/ wt[u] = s.wait_ticks[u]
    <3>1. ASSUME NEW f \in [Users -> Int], NEW x
          PROVE  /\ [f EXCEPT ![x] = 0] \in [Users -> Int]
                 /\ \A u \in Users : x = u \/ [f EXCEPT ![x] = 0][u] = f[u]
      <4>1. [f EXCEPT ![x] = 0] = [u \in Users |-> IF u = x THEN 0 ELSE f[u]]
        OBVIOUS
      <4>2. \A u \in Users : (IF u = x THEN 0 ELSE f[u]) \in Int
        OBVIOUS
      <4> QED
        BY <4>1, <4>2
    <3> QED
      BY <2>3, <3>1
  <2>5. \A u \in Users : wt[u] < s.wait_ticks[u] => o = u
    BY <2>3, <2>4
  <2> HIDE DEF v, wt
  <2>6. /\ Ages(v) /\ v.p_flags = b.p_flags /\ v.queue = b.queue
        /\ v.wait_ticks = wt /\ v.proc_ptr = b.proc_ptr
    BY <2>1, <2>2, <2>4 DEF Ages
  <2> QED
    BY <2>1, <2>5, <2>6 DEF Renewed
<1>4. Better(s) => \E p : t = Run(s, p) \/ t = RunBill(s, p)
  BY DEF Better, pick_proc
<1>5. \/ \E p : t = Run(s, p) \/ t = RunBill(s, p)
      \/ t = v
  BY DEF pick_proc, o
<1> QED
  BY <1>1, <1>2, <1>3, <1>4, <1>5, OlderIsAged

(* A queue changes.                                                        *)
LEMMA QueueAges ==
  ASSUME NEW s, Ages(s), NEW n, NEW r
  PROVE  LET t == [s EXCEPT !.queue[n] = r]
         IN /\ Older(s, t) /\ t.p_flags = s.p_flags /\ t.proc_ptr = s.proc_ptr
            /\ \A m \in QNames : t.queue[m] = IF m = n THEN r ELSE s.queue[m]
BY DEF Ages, Older

LEMMA ReadyAges ==
  ASSUME NEW s, Ages(s), NEW p
  PROVE  /\ Older(s, ready(s, p))
         /\ p \notin Tasks => ready(s, p).queue["TASK_Q"] = s.queue["TASK_Q"]
<1> DEFINE n == QueueOf(s, p)
           r == InsertAt(s.queue[n], ReadyIndex(s, p), p)
           u == [s EXCEPT !.queue[n] = r]
           x == IF n = "TASK_Q" /\ s.queue[n] = << >> THEN p ELSE s.proc_ptr
<1>1. p \notin Tasks => n # "TASK_Q"
  BY DEF QueueOf
<1>2. ready(s, p) = [u EXCEPT !.proc_ptr = x]
  BY DEF ready
<1> HIDE DEF n, r, x
<1>3. /\ Older(s, u)
      /\ p \notin Tasks => u.queue["TASK_Q"] = s.queue["TASK_Q"]
  BY <1>1, QueueAges DEF QNames
<1> HIDE DEF u
<1>4. /\ Older(u, [u EXCEPT !.proc_ptr = x])
      /\ [u EXCEPT !.proc_ptr = x].queue = u.queue
  BY <1>3 DEF Older, Ages
<1> QED
  BY <1>2, <1>3, <1>4, OlderOlder

LEMMA UnreadyAged ==
  ASSUME NEW s, Ages(s), NEW p
  PROVE  LET t == unready(s, p)
         IN /\ Renewed(s, t) /\ t.p_flags = s.p_flags
            /\ p \notin Tasks => t.queue["TASK_Q"] = s.queue["TASK_Q"]
            /\ p \notin Tasks /\ s.queue["TASK_Q"] # << >> => Older(s, t)
<1> DEFINE n == QueueOf(s, p)
           u == unlink(s, p)
<1>1. p \notin Tasks => n # "TASK_Q"
  BY DEF QueueOf
<1>2. /\ Older(s, u) /\ u.p_flags = s.p_flags
      /\ p \notin Tasks => u.queue["TASK_Q"] = s.queue["TASK_Q"]
  <2> HIDE DEF n
  <2>1. u = [s EXCEPT !.queue[n] = RemoveFirst(s.queue[n], p)]
    BY DEF unlink, n, Ages
  <2> QED
    BY <1>1, <2>1, QueueAges DEF QNames
<1> HIDE DEF n, u
<1>3. unready(s, p) \in {u, pick_proc(u)}
  BY DEF unready, u
<1>4. Renewed(s, u)
  BY <1>2, OlderIsAged
<1>5. /\ Renewed(u, pick_proc(u)) /\ pick_proc(u).p_flags = u.p_flags /\ pick_proc(u).queue = u.queue
      /\ Better(u) => Older(u, pick_proc(u))
  BY <1>2, PickAged DEF Older
<1>6. Renewed(s, pick_proc(u))
  BY <1>2, <1>5, OlderAged
<1>7. ASSUME p \notin Tasks, s.queue["TASK_Q"] # << >>
      PROVE  Older(s, pick_proc(u))
  BY <1>2, <1>5, <1>7, OlderOlder DEF Better
<1> QED
  BY <1>2, <1>3, <1>4, <1>5, <1>6, <1>7

(* The running process has had its quantum while a task is ready or a      *)
(* process of group 1 runs.                                                *)
LEMMA SchedAges ==
  ASSUME NEW s, Ages(s), s.queue \in [QNames -> Seq(Proc)], RunsGroup1(s) \/ s.queue["TASK_Q"] # << >>
  PROVE  Older(s, sched(s))
<1> DEFINE g1 == s.queue["g1"]
           uq == s.queue["USER_Q"]
           r1 == Append(Tail(g1), s.proc_ptr)
           r2 == Append(Tail(uq), Head(uq))
           u1 == [s EXCEPT !.queue["g1"] = r1]
           v1 == [s EXCEPT !.queue["g1"] = r1, !.rr_counter[s.proc_ptr] = 0]
           u2 == [s EXCEPT !.queue["USER_Q"] = r2]
<1>1. g1 \in Seq(Proc) /\ uq \in Seq(Proc)
  BY DEF QNames
<1>2. CASE RunsGroup1(s) /\ Len(g1) > 1
  <2>1. s.proc_ptr \in Proc /\ g1 # << >>
    BY <1>2 DEF RunsGroup1, Proc
  <2>2. r1 # << >>
    BY <2>1, <1>1, HeadTailProperties, AppendProperties
  <2>3. sched(s) = pick_proc(v1)
    BY <1>2 DEF sched
  <2> HIDE DEF r1
  <2>4. Older(s, u1) /\ u1.queue["g1"] = r1
    BY DEF Older, Ages, QNames
  <2>5. v1.queue = u1.queue /\ v1.wait_ticks = u1.wait_ticks /\ Ages(v1)
    BY DEF Ages
  <2> HIDE DEF u1, v1
  <2>6. Older(s, v1) /\ Better(v1)
    BY <2>2, <2>4, <2>5 DEF Older, Better
  <2>7. Older(v1, pick_proc(v1))
    BY <2>5, <2>6, PickAged
  <2> QED
    BY <2>3, <2>6, <2>7, OlderOlder
<1>3. CASE ~RunsGroup1(s) /\ uq # << >>
  <2>1. sched(s) = pick_proc(u2)
    BY <1>3 DEF sched
  <2> HIDE DEF r2
  <2>2. Older(s, u2) /\ u2.queue["TASK_Q"] = s.queue["TASK_Q"]
    BY DEF Older, Ages, QNames
  <2> HIDE DEF u2
  <2>3. Better(u2)
    BY <1>3, <2>2 DEF Better
  <2>4. Older(u2, pick_proc(u2))
    BY <2>2, <2>3, PickAged DEF Older
  <2> QED
    BY <2>1, <2>2, <2>4, OlderOlder
<1>4. CASE ~(RunsGroup1(s) /\ Len(g1) > 1) /\ ~(~RunsGroup1(s) /\ uq # << >>)
  BY <1>4, OlderIs DEF sched
<1> QED
  BY <1>2, <1>3, <1>4

LEMMA BlockAged ==
  ASSUME NEW s, Ages(s), NEW p, NEW fs
  PROVE  LET t == Block(s, p, fs)
         IN /\ Renewed(s, t)
            /\ p \in Proc => t.p_flags[p] = s.p_flags[p] \cup fs
            /\ s.p_flags[p] # {} => Older(s, t) /\ t.proc_ptr = s.proc_ptr
            /\ p \notin Tasks => t.queue["TASK_Q"] = s.queue["TASK_Q"]
            /\ p \notin Tasks /\ s.queue["TASK_Q"] # << >> => Older(s, t)
<1> DEFINE u == IF s.p_flags[p] = {} THEN unready(s, p) ELSE s
           t == Block(s, p, fs)
<1>1. /\ Renewed(s, u) /\ u.p_flags = s.p_flags
      /\ s.p_flags[p] # {} => Older(s, u) /\ u.proc_ptr = s.proc_ptr
      /\ p \notin Tasks => u.queue["TASK_Q"] = s.queue["TASK_Q"]
      /\ p \notin Tasks /\ s.queue["TASK_Q"] # << >> => Older(s, u)
  BY UnreadyAged, OlderIs, OlderIsAged
<1>2. t = [u EXCEPT !.p_flags[p] = @ \cup fs]
  BY DEF Block
<1> HIDE DEF u
<1>3. /\ Ages(t) /\ t.wait_ticks = u.wait_ticks /\ t.proc_ptr = u.proc_ptr /\ t.queue = u.queue
      /\ p \in Proc => t.p_flags[p] = u.p_flags[p] \cup fs
  BY <1>1, <1>2 DEF Renewed, Ages
<1> HIDE DEF t
<1>4. Older(u, t)
  BY <1>1, <1>3, OlderIs DEF Renewed
<1> QED
  BY <1>1, <1>3, <1>4, AgedOlder, OlderOlder DEF t

LEMMA UnblockAges ==
  ASSUME NEW s, Ages(s), NEW p, NEW f
  PROVE  /\ Older(s, Unblock(s, p, f))
         /\ p \notin Tasks => Unblock(s, p, f).queue["TASK_Q"] = s.queue["TASK_Q"]
<1> DEFINE u == [s EXCEPT !.p_flags[p] = @ \ {f}]
<1>1. Older(s, u) /\ u.queue = s.queue
  BY DEF Older, Ages
<1>2. Unblock(s, p, f) \in {u, ready(u, p)}
  BY DEF Unblock
<1> HIDE DEF u
<1>3. /\ Older(u, ready(u, p))
      /\ p \notin Tasks => ready(u, p).queue["TASK_Q"] = u.queue["TASK_Q"]
  BY <1>1, ReadyAges DEF Older
<1> QED
  BY <1>1, <1>2, <1>3, OlderOlder

LEMMA CopyAges ==
  ASSUME NEW s, Ages(s), NEW src, NEW dst
  PROVE  Older(s, CopyMess(s, src, dst)) /\ CopyMess(s, src, dst).queue = s.queue
<1>1. CASE dst \in Tasks
  BY <1>1 DEF CopyMess, Older, Ages
<1>2. CASE dst \notin Tasks
  BY <1>2, OlderIs DEF CopyMess
<1> QED
  BY <1>1, <1>2

(* The receiver was waiting and nobody is younger, or the sender is        *)
(* SENDING now.                                                            *)
LEMMA MiniSendAged ==
  ASSUME NEW s, Ages(s), NEW c, NEW d
  PROVE  LET t == mini_send(s, c, d)
         IN /\ Renewed(s, t)
            /\ Older(s, t) \/ (c \in Proc => "SENDING" \in t.p_flags[c])
            /\ c \notin Tasks /\ d \notin Tasks =>
                  t.queue["TASK_Q"] = s.queue["TASK_Q"]
            /\ c \notin Tasks /\ d \notin Tasks /\ s.queue["TASK_Q"] # << >> => Older(s, t)
<1> DEFINE t == mini_send(s, c, d)
           m == CopyMess(s, c, d)
           b == Block(s, c, {"SENDING"})
<1>1. CASE WaitsFor(s, d, c)
  <2>1. t = Unblock(m, d, "RECEIVING")
    BY <1>1 DEF mini_send
  <2>2. Older(s, m) /\ m.queue = s.queue
    BY CopyAges
  <2> HIDE DEF m
  <2>3. /\ Older(m, Unblock(m, d, "RECEIVING"))
        /\ d \notin Tasks => Unblock(m, d, "RECEIVING").queue["TASK_Q"] = m.queue["TASK_Q"]
    BY <2>2, UnblockAges DEF Older
  <2>4. Older(s, t)
    BY <2>1, <2>2, <2>3, OlderOlder
  <2> QED
    BY <2>1, <2>2, <2>3, <2>4, OlderIsAged
<1>2. CASE ~WaitsFor(s, d, c)
  <2>1. /\ Renewed(s, b)
        /\ c \in Proc => "SENDING" \in b.p_flags[c]
        /\ c \notin Tasks => b.queue["TASK_Q"] = s.queue["TASK_Q"]
        /\ c \notin Tasks /\ s.queue["TASK_Q"] # << >> => Older(s, b)
    BY BlockAged
  <2>2. t = [b EXCEPT !.p_sendto[c] = d, !.p_callerq[d] = Append(@, c)]
    BY <1>2 DEF mini_send
  <2> HIDE DEF b
  <2>3. /\ Ages(t) /\ t.wait_ticks = b.wait_ticks /\ t.proc_ptr = b.proc_ptr
        /\ t.p_flags = b.p_flags /\ t.queue = b.queue
    BY <2>1, <2>2 DEF Renewed, Ages
  <2> HIDE DEF t
  <2>4. Older(b, t)
    BY <2>1, <2>3, OlderIs DEF Renewed
  <2>5. Renewed(s, t)
    BY <2>1, <2>3, <2>4, AgedOlder
  <2> QED
    BY <2>1, <2>3, <2>4, <2>5, OlderOlder DEF t
<1> QED
  BY <1>1, <1>2

(* The kernel tells MM of a signal while a task is ready.                  *)
LEMMA InformAges ==
  ASSUME NEW s, Ages(s), s.queue["TASK_Q"] # << >>
  PROVE  Older(s, inform(s))
<1> DEFINE u == CHOOSE p \in Servers \cup Users : Has(s, p, "PENDING")
           v == [s EXCEPT !.sig_procs = @ - 1]
           told == mini_send(v, HARDWARE, MM)
           w == [told EXCEPT !.p_pending[u] = {}, !.p_flags[u] = @ \ {"PENDING"}]
<1>1. Older(s, v) /\ v.queue = s.queue
  BY DEF Older, Ages
<1>2. inform(s) = pick_proc(w)
  BY DEF inform
<1>3. HARDWARE \notin Tasks /\ MM \notin Tasks
  BY MessagesAssumption, ProcAssumption DEF Proc
<1> HIDE DEF u, v
<1>4. Older(v, told) /\ told.queue["TASK_Q"] = v.queue["TASK_Q"]
  BY <1>1, <1>3, MiniSendAged DEF Older
<1> HIDE DEF told
<1>5. Older(told, w) /\ w.queue = told.queue
  BY <1>4 DEF Older, Ages
<1> HIDE DEF w
<1>6. Older(w, pick_proc(w))
  BY <1>1, <1>4, <1>5, PickAged DEF Older, Better
<1>7. Older(s, told) /\ Older(told, pick_proc(w))
  BY <1>1, <1>4, <1>5, <1>6, OlderOlder DEF Older
<1> QED
  BY <1>2, <1>7, OlderOlder

LEMMA SignalAges ==
  ASSUME NEW s, Ages(s), s.queue["TASK_Q"] # << >>, NEW u \in Users, NEW sig
  PROVE  Older(s, cause_sig(s, u, sig))
<1> DEFINE counted == [s EXCEPT !.p_pending[u] = @ \cup {sig}, !.p_pendcount[u] = @ + 1]
           b == Block(counted, u, {"PENDING", "SIG_PENDING"})
           flagged == [b EXCEPT !.sig_procs = @ + 1]
<1>1. cause_sig(s, u, sig) \in {s, counted, inform(flagged), flagged}
  BY DEF cause_sig
<1>2. Older(s, counted) /\ counted.queue = s.queue
  BY DEF Older, Ages
<1>3. u \notin Tasks
  BY ProcAssumption
<1> HIDE DEF counted
<1>4. Older(counted, b) /\ b.queue["TASK_Q"] = counted.queue["TASK_Q"]
  BY <1>2, <1>3, BlockAged DEF Older
<1> HIDE DEF b
<1>5. Older(b, flagged) /\ flagged.queue = b.queue
  BY <1>4 DEF Older, Ages
<1> HIDE DEF flagged
<1>6. Older(flagged, inform(flagged))
  BY <1>2, <1>4, <1>5, InformAges DEF Older
<1>7. Older(s, b)
  BY <1>2, <1>4, OlderOlder
<1>8. Older(s, flagged)
  BY <1>5, <1>7, OlderOlder
<1>9. Older(s, inform(flagged))
  BY <1>6, <1>8, OlderOlder
<1> QED
  BY <1>1, <1>2, <1>8, <1>9, OlderIs

(* Unless MM is told of a signal.                                          *)
LEMMA MiniRecAged ==
  ASSUME NEW s, Ages(s), NEW c \in Proc, NEW src,
         ~(s.sig_procs > 0 /\ c = MM /\ src = ANY)
  PROVE  LET t == mini_rec(s, c, src)
         IN /\ Renewed(s, t)
            /\ "SENDING" \in s.p_flags[c] => Older(s, t) /\ t.proc_ptr = s.proc_ptr
<1> DEFINE q == s.p_callerq[c]
           Acceptable == {i \in DOMAIN q : src \in {ANY, q[i]}}
           n == CHOOSE j \in Acceptable : \A h \in Acceptable : j <= h
           b == [s EXCEPT !.p_getfrom[c] = src]
           Blocked == Block(b, c, {"RECEIVING"})
           t == mini_rec(s, c, src)
<1>1. CASE ~Has(s, c, "SENDING") /\ Acceptable # {}
  <2> DEFINE m == CopyMess(s, q[n], c)
             w == [m EXCEPT !.p_callerq[c] = RemoveAt(q, n)]
  <2>1. t = Unblock(w, q[n], "SENDING")
    BY <1>1 DEF mini_rec
  <2>2. Older(s, m)
    BY CopyAges
  <2> HIDE DEF m, n
  <2>3. Older(m, w)
    BY <2>2 DEF Older, Ages
  <2> HIDE DEF w
  <2>4. Older(w, Unblock(w, q[n], "SENDING"))
    BY <2>3, UnblockAges DEF Older
  <2>5. Older(s, w)
    BY <2>2, <2>3, OlderOlder
  <2>6. Older(s, t)
    BY <2>1, <2>4, <2>5, OlderOlder
  <2> QED
    BY <1>1, <2>6, OlderIsAged DEF Has
<1>2. CASE /\ ~(~Has(s, c, "SENDING") /\ Acceptable # {})
           /\ ~Has(s, c, "SENDING") /\ c \in Tasks /\ s.p_int_blocked[c] /\ src \in {ANY, HARDWARE}
  <2> DEFINE m == CopyMess(s, HARDWARE, c)
  <2>1. t = [m EXCEPT !.p_int_blocked[c] = FALSE]
    BY <1>2 DEF mini_rec
  <2>2. Older(s, m)
    BY CopyAges
  <2> HIDE DEF m
  <2>3. Older(m, t)
    BY <2>1, <2>2 DEF Older, Ages
  <2>4. Older(s, t)
    BY <2>2, <2>3, OlderOlder
  <2> QED
    BY <1>2, <2>4, OlderIsAged DEF Has
<1>3. CASE /\ ~(~Has(s, c, "SENDING") /\ Acceptable # {})
           /\ ~(~Has(s, c, "SENDING") /\ c \in Tasks /\ s.p_int_blocked[c] /\ src \in {ANY, HARDWARE})
  <2>1. t = Blocked
    BY <1>3 DEF mini_rec
  <2>2. Older(s, b) /\ b.p_flags = s.p_flags /\ b.proc_ptr = s.proc_ptr
    BY DEF Older, Ages
  <2> HIDE DEF b
  <2>3. /\ Renewed(b, Blocked)
        /\ b.p_flags[c] # {} => Older(b, Blocked) /\ Blocked.proc_ptr = b.proc_ptr
    BY <2>2, BlockAged DEF Older
  <2> HIDE DEF Blocked
  <2>4. Renewed(s, Blocked)
    BY <2>2, <2>3, OlderAged
  <2>5. ASSUME "SENDING" \in s.p_flags[c]
        PROVE  Older(s, Blocked) /\ Blocked.proc_ptr = s.proc_ptr
    <3>1. b.p_flags[c] # {}
      BY <2>2, <2>5
    <3> QED
      BY <2>2, <2>3, <3>1, OlderOlder
  <2> QED
    BY <2>1, <2>4, <2>5
<1> QED
  BY <1>1, <1>2, <1>3

LEMMA SendAged ==
  ASSUME NEW s, Ages(s), NEW c, NEW d
  PROVE  Renewed(s, Send(s, c, d))
BY MiniSendAged, OlderIs, OlderIsAged DEF Send

(* The send or the receive blocks the caller, not both.                    *)
LEMMA SendRecAged ==
  ASSUME NEW s, Ages(s), NEW c \in Proc, NEW d \in Proc
  PROVE  Renewed(s, SendRec(s, c, d))
<1> DEFINE m == mini_send(s, c, d)
           t == mini_rec(m, c, d)
<1>1. Renewed(s, m) /\ (Older(s, m) \/ "SENDING" \in m.p_flags[c])
  BY MiniSendAged
<1>2. d # ANY
  BY MessagesAssumption
<1> HIDE DEF m
<1>3. /\ Renewed(m, t)
      /\ "SENDING" \in m.p_flags[c] => Older(m, t) /\ t.proc_ptr = m.proc_ptr
  BY <1>1, <1>2, MiniRecAged DEF Renewed
<1> HIDE DEF t
<1>4. Renewed(s, t)
  BY <1>1, <1>3, OlderAged, AgedOlder
<1>5. SendRec(s, c, d) \in {s, t}
  BY DEF SendRec, t, m
<1> QED
  BY <1>4, <1>5, OlderIs, OlderIsAged

LEMMA InterruptAges ==
  ASSUME NEW s, Ages(s), NEW t
  PROVE  Older(s, interrupt(s, t))
<1> DEFINE u == [s EXCEPT !.m_source[t] = HARDWARE, !.p_flags[t] = @ \ {"RECEIVING"},
                          !.p_int_blocked[t] = FALSE]
           v == [s EXCEPT !.p_int_blocked[t] = TRUE]
           q == u.queue["TASK_Q"]
           x == IF q = << >> THEN t ELSE u.proc_ptr
           w == [u EXCEPT !.queue["TASK_Q"] = Append(q, t)]
<1>1. interrupt(s, t) \in {ReadyInline(u, t), v}
  BY DEF interrupt
<1>2. Older(s, u) /\ Older(s, v)
  BY DEF Older, Ages
<1>3. ReadyInline(u, t) = [w EXCEPT !.proc_ptr = x]
  BY DEF ReadyInline
<1> HIDE DEF u, v, q, x
<1>4. Older(u, w)
  BY <1>2, QueueAges DEF Older
<1> HIDE DEF w
<1>5. Older(w, [w EXCEPT !.proc_ptr = x])
  BY <1>4 DEF Older, Ages
<1>6. Older(s, [w EXCEPT !.proc_ptr = x])
  BY <1>2, <1>4, <1>5, OlderOlder
<1> QED
  BY <1>1, <1>2, <1>3, <1>6

(* The clock handler makes nobody younger: a quantum ends for group 1      *)
(* only, and aging stops at MAX_WAIT_TICKS, which nobody has passed.       *)
LEMMA QuantumAges ==
  ASSUME NEW s \in KernelState, Ages(s)
  PROVE  Older(s, count_quantum(s))
<1> DEFINE p == s.proc_ptr
           n == s.rr_counter[p] + 1
           u == [s EXCEPT !.rr_counter[p] = 0]
           v == [s EXCEPT !.rr_counter[p] = n]
           q == count_quantum(s)
<1>1. /\ Ages(u) /\ u.wait_ticks = s.wait_ticks /\ u.queue = s.queue
      /\ RunsGroup1(u) <=> RunsGroup1(s)
  BY DEF Ages, RunsGroup1
<1>2. Ages(v) /\ v.wait_ticks = s.wait_ticks
  BY DEF Ages
<1>3. q = s \/ q = v \/ (q = sched(u) /\ RunsGroup1(s))
  BY DEF count_quantum
<1> HIDE DEF u, v, q
<1>4. ASSUME RunsGroup1(s) PROVE Older(s, sched(u))
  <2>1. u.queue \in [QNames -> Seq(Proc)]
    BY <1>1 DEF KernelState
  <2>2. Older(u, sched(u))
    BY <1>1, <1>4, <2>1, SchedAges
  <2> QED
    BY <1>1, <2>2 DEF Older
<1> QED
  BY <1>2, <1>3, <1>4, OlderIs DEF q

LEMMA TickAges ==
  ASSUME NEW s, KInv(s), Ages(s)
  PROVE  Older(s, handle_clock_tick(s))
<1> DEFINE q == count_quantum(s)
           w == update_aging_for_group2(q)
<1>1. Older(s, q)
  BY QuantumAges DEF KInv, Scheduled
<1>2. q.wait_ticks \in [Users -> 0..MAX_WAIT_TICKS]
  BY QuantumKInv DEF KInv, Scheduled, KernelState
<1>3. handle_clock_tick(s) \in {q, w}
  BY DEF handle_clock_tick
<1> HIDE DEF q
<1>4. Older(q, w)
  <2> DEFINE Ready(u)   == u \in ToSet(q.queue["g2"]) /\ u # q.proc_ptr
             Blocked(u) == q.sched_group[u] = 2 /\ (Has(q, u, "SENDING") \/ Has(q, u, "RECEIVING"))
             Sum(u)     == q.wait_ticks[u] + (IF Ready(u) THEN 1 ELSE 0)
                                           + (IF Blocked(u) THEN 1 ELSE 0)
             wt == [u \in Users |-> IF Sum(u) > MAX_WAIT_TICKS THEN MAX_WAIT_TICKS ELSE Sum(u)]
  <2>1. w = [q EXCEPT !.wait_ticks = wt]
    BY DEF update_aging_for_group2
  <2>2. \A u \in Users : wt[u] \in Int /\ wt[u] >= q.wait_ticks[u]
    <3> SUFFICES ASSUME NEW u \in Users PROVE wt[u] \in Int /\ wt[u] >= q.wait_ticks[u]
      OBVIOUS
    <3>1. q.wait_ticks[u] \in 0..MAX_WAIT_TICKS /\ MAX_WAIT_TICKS \in Nat
      BY <1>2, KernelAssumption
    <3> HIDE DEF Ready, Blocked
    <3> QED
      BY <3>1
  <2>3. wt \in [Users -> Int]
    BY <2>2
  <2> HIDE DEF wt, w
  <2> QED
    BY <1>1, <2>1, <2>2, <2>3 DEF Older, Ages
<1> QED
  BY <1>1, <1>3, <1>4, OlderOlder

-----------------------------------------------------------------------------
(* The actions.                                                            *)

LEMMA AgesOf ==
  ASSUME Inv
  PROVE  Ages(k) /\ KInv(k) /\ k.queue \in [QNames -> Seq(Proc)]
BY DEF Inv, KInv, Scheduled, KernelState, Ages

(* While CLOCK works it is on TASK_Q.                                      *)
LEMMA ClockReady ==
  ASSUME Inv, k.proc_ptr = CLOCK
  PROVE  k.queue["TASK_Q"] # << >>
<1>1. CLOCK \in Runnable(k) /\ QueueOf(k, CLOCK) = "TASK_Q"
  BY KernelAssumption, ProcAssumption DEF Inv, KInv, Scheduled, HeadRuns, QueueOf, Proc
<1>2. Holds(k.queue["TASK_Q"], Members(k, Runnable(k), "TASK_Q"))
  BY DEF Inv, KInv, Scheduled, Placed, QNames
<1> QED
  BY <1>1, <1>2, HoldsEmpty DEF Members

(* MM asks for work and is told of a signal.                               *)
MMTold == ServerReceive(MM) /\ k.sig_procs > 0

LEMMA CallsAge ==
  ASSUME Inv, ~MMTold, NEW c \in Users \cup Servers,
         \/ c \in Users /\ UserCall(c)
         \/ c \in Servers /\ (ServerReceive(c) \/ ServerCall(c) \/ ServerReply(c))
  PROVE  Renewed(k, k')
<1>1. c \in Proc
  BY DEF Proc
<1>2. \/ \E d \in Proc : k' = SendRec(k, c, d)
      \/ ServerReceive(c) /\ k' = mini_rec(k, c, ANY)
      \/ \E d \in Proc : k' = Send(k, c, d)
  BY KernelAssumption DEF UserCall, ServerReceive, ServerCall, ServerReply, Proc
<1> QED
  BY <1>1, <1>2, AgesOf, SendRecAged, MiniRecAged, SendAged DEF MMTold

LEMMA TasksAge ==
  ASSUME Inv, NEW c \in {CLOCK, SYSTASK}, TaskReceive(c) \/ TaskReply(c)
  PROVE  Renewed(k, k')
<1>1. c \in Tasks /\ c \in Proc /\ c # MM
  BY KernelAssumption, MessagesAssumption, ProcAssumption DEF Proc
<1>2. CASE TaskReceive(c)
  <2> DEFINE v == [k EXCEPT !.m_source[c] = NIL]
  <2>1. Older(k, v)
    BY AgesOf DEF Older, Ages
  <2>2. k' = mini_rec(v, c, ANY)
    BY <1>2 DEF TaskReceive
  <2> HIDE DEF v
  <2>3. Renewed(v, k')
    BY <1>1, <2>1, <2>2, MiniRecAged DEF Older
  <2> QED
    BY <2>1, <2>3, AgesOf, OlderAged
<1>3. CASE TaskReply(c)
  BY <1>3, AgesOf, SendAged DEF TaskReply
<1> QED
  BY <1>2, <1>3

LEMMA ClockAge ==
  ASSUME Inv, \/ \E u \in Users : ClockAlarm(u)
              \/ DoClocktick \/ ClockRequest \/ ClockTick
  PROVE  Older(k, k')
<1>1. Ages(k) /\ KInv(k) /\ k.queue \in [QNames -> Seq(Proc)]
  BY AgesOf
<1>2. CASE \E u \in Users : ClockAlarm(u)
  BY <1>1, <1>2, ClockReady, SignalAges DEF ClockAlarm, At, Running
<1>3. CASE DoClocktick
  <2>1. k' = k \/ k' = sched(k)
    BY <1>3 DEF DoClocktick
  <2>2. k.queue["TASK_Q"] # << >>
    BY <1>3, ClockReady DEF DoClocktick, At, Running
  <2> QED
    BY <1>1, <2>1, <2>2, SchedAges, OlderIs
<1>4. CASE ClockRequest
  BY <1>1, <1>4, OlderIs DEF ClockRequest
<1>5. CASE ClockTick
  <2> DEFINE s == handle_clock_tick(k)
  <2>1. k' \in {interrupt(s, CLOCK), s}
    BY <1>5 DEF ClockTick
  <2>2. Older(k, s)
    BY <1>1, TickAges
  <2> HIDE DEF s
  <2>3. Older(s, interrupt(s, CLOCK))
    BY <2>2, InterruptAges DEF Older
  <2> QED
    BY <1>1, <2>1, <2>2, <2>3, OlderOlder
<1> QED
  BY <1>2, <1>3, <1>4, <1>5

LEMMA NextAge ==
  ASSUME Inv, [Next]_vars, ~MMTold, ~(Running(SYSTASK) /\ pc[SYSTASK] = "work")
  PROVE  Renewed(k, k')
<1>1. CASE UNCHANGED vars
  BY <1>1, AgesOf, OlderIs, OlderIsAged DEF vars
<1>2. CASE \E u \in Users : UserCall(u)
  BY <1>2, CallsAge
<1>3. CASE \E s \in Servers : ServerReceive(s) \/ ServerCall(s) \/ ServerReply(s)
  BY <1>3, CallsAge
<1>4. CASE \E t \in {CLOCK, SYSTASK} : TaskReceive(t) \/ TaskReply(t)
  BY <1>4, TasksAge
<1>5. CASE (\E u \in Users : ClockAlarm(u)) \/ DoClocktick \/ ClockRequest \/ ClockTick
  BY <1>5, ClockAge, AgesOf, OlderIsAged
<1>6. ASSUME NEW u \in Users,
             \/ \E g \in Groups, e \in Estimates : DoSetgroup(u, g, e)
             \/ \E sig \in Signals : DoKill(u, sig)
             \/ DoEndsig(u) \/ DoNewmap(u) \/ DoExec(u) \/ DoXit(u) \/ DoTrace(u)
             \/ \E child \in Users : DoFork(u, child)
      PROVE  Renewed(k, k')
  <2>1. CASE \E g \in Groups, e \in Estimates : DoSetgroup(u, g, e)
    BY <2>1 DEF DoSetgroup, SystemCall, At
  <2>2. ASSUME NEW sig \in Signals, DoKill(u, sig) PROVE Renewed(k, k')
    BY <2>2 DEF DoKill, SystemCall, At
  <2>4. ASSUME NEW child \in Users, DoFork(u, child) PROVE Renewed(k, k')
    BY <2>4 DEF DoFork, SystemCall, At
  <2>3. CASE DoEndsig(u) \/ DoNewmap(u) \/ DoExec(u) \/ DoXit(u) \/ DoTrace(u)
    BY <2>3 DEF DoEndsig, DoNewmap, DoExec, DoXit, DoTrace, SystemCall, At
  <2> QED
    BY <1>6, <2>1, <2>2, <2>3, <2>4
<1>7. CASE OtherSystemCall
  BY <1>7 DEF OtherSystemCall, At
<1> QED
  BY <1>1, <1>2, <1>3, <1>4, <1>5, <1>6, <1>7 DEF Next, OtherThanUserCall

(* Who of group 2 becomes younger is run by this very step, or is given a  *)
(* group or a new slot by SYSTASK, unless MM asks for work while a signal  *)
(* is pending: the pick_proc of inform() then takes the age of the oldest  *)
(* of group 2, though MM may go on to run (the first disagreement).        *)
THEOREM AgesLost ==
  ASSUME "pid" \notin Targets
  PROVE  Spec => [][\A u \in Users : k'.wait_ticks[u] < k.wait_ticks[u]
                      => \/ k'.proc_ptr = u
                         \/ Running(SYSTASK) /\ pc[SYSTASK] = "work"
                         \/ ServerReceive(MM) /\ k.sig_procs > 0]_vars
<1> DEFINE Lost == \A u \in Users : k'.wait_ticks[u] < k.wait_ticks[u]
                     => \/ k'.proc_ptr = u
                        \/ Running(SYSTASK) /\ pc[SYSTASK] = "work"
                        \/ ServerReceive(MM) /\ k.sig_procs > 0
<1>1. Inv /\ [Next]_vars => [Lost]_vars
  BY NextAge DEF Renewed, MMTold
<1> QED
  BY <1>1, Invariant, PTL DEF Spec

(* Without signals only being run and SETGROUP (or a new slot) take a      *)
(* process its age: wait_ticks survives everything else that may happen to *)
(* a process of group 2 that waits, ready or blocked in a message.         *)
THEOREM AgesKept ==
  ASSUME "pid" \notin Targets, Signals = {}
  PROVE  Spec => AgeKept
<1> DEFINE OnlyRun == \A u \in Users : k'.wait_ticks[u] < k.wait_ticks[u]
                      => \/ k'.proc_ptr = u
                         \/ Running(SYSTASK) /\ pc[SYSTASK] = "work"
<1>1. Inv /\ MsgInv => ~(k.sig_procs > 0)
  <2> SUFFICES ASSUME Inv, MsgInv PROVE k.sig_procs = 0
    OBVIOUS
  <2>1. \A u \in Users : k.p_pending[u] = {}
    BY DEF Inv, KInv, Scheduled, KernelState
  <2>2. Signaled(k) = {}
    BY <2>1 DEF MsgInv, Msg, Counted, Signaled
  <2> QED
    BY <2>2, FS_EmptySet DEF MsgInv, Msg, Counted
<1>2. Inv /\ MsgInv /\ [Next]_vars => [OnlyRun]_vars
  BY <1>1, NextAge DEF Renewed, MMTold
<1> QED
  BY <1>2, MsgInvariant, PTL DEF Spec, AgeKept
===============================================================================
