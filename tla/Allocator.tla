----------------------------- MODULE Allocator -----------------------------
(***************************************************************************)
(* mem_management, mm/alloc.c: the holes of memory, first fit and worst    *)
(* fit, and swapping.  MM serves one call at a time; a call that allocates *)
(* may swap other processes out until a hole is big enough, and after each *)
(* call MM walks the queue of the processes that want to come back.  Each  *)
(* turn of these loops is a step here, and job says where MM is.           *)
(*                                                                         *)
(* A process stands for anything that owns one segment: what never waits   *)
(* is never swapped, like the text of a program or a process that is       *)
(* traced.  Who calls (fork, exec, exit, wait, signals, replies, the main  *)
(* loop of MM), and check_pending(), which swap_in() calls, is not in the  *)
(* repository and is modelled from what alloc.c expects of it.             *)
(***************************************************************************)
EXTENDS Integers, FiniteSets, SequencesExt

CONSTANTS
    NrProcs,        \* user slots of mproc[], LOW_USER up to NR_PROCS - 1
    NrHoles,        \* NR_HOLES
    Chunks,         \* what SYS_MEM reports, one chunk of memory after another
    Sizes,          \* what is asked for, in clicks
    SwapSizes,      \* sizes of swap files, in clicks
    MaxClick,       \* the largest phys_clicks
    ModesMix        \* may worst fit and swapping be on at the same time?

\* Chunks are apart from each other, and the table of holes has room for the gaps
\* around every segment, one segment more for exec(), and the hole just freed.
ASSUME AllocatorAssumption ==
    /\ NrProcs \in Nat \ {0} /\ MaxClick \in Nat \ {0} /\ ModesMix \in BOOLEAN
    /\ Chunks \in Seq([base : Nat, len : Nat \ {0}])
    /\ \A i \in DOMAIN Chunks : Chunks[i].base + Chunks[i].len < MaxClick
    /\ \A i, j \in DOMAIN Chunks :
          i # j => \/ Chunks[i].base + Chunks[i].len <= Chunks[j].base
                   \/ Chunks[j].base + Chunks[j].len <= Chunks[i].base
    /\ Sizes \subseteq Nat \ {0} /\ SwapSizes \subseteq Nat
    /\ NrHoles \in Nat /\ NrHoles >= NrProcs + Len(Chunks) + 2

VARIABLES
    holes,          \* the list from hole_head on
    free_slots,     \* how many slots of the table are in no list
    proc,           \* of mproc[]: flags, and base and size of the segment
    in_queue,       \* processes wanting to swap in
    outswap,        \* where swap_out() went on last
    wf_mode,
    swapping,       \* swap_fd # -1
    swap_base,
    swap_len,       \* history: the size of the swap area
    job             \* what MM is doing

table == <<holes, free_slots>>
queue == <<in_queue, outswap>>
area == <<swapping, swap_base, swap_len>>
vars == <<table, proc, queue, wf_mode, area, job>>

Procs == 1..NrProcs

NoProc == [inuse |-> FALSE, waiting |-> FALSE, reply |-> FALSE, onswap |-> FALSE,
           swapin |-> FALSE, base |-> 0, size |-> 0]

Idle == [step |-> "idle"]
ServeQueue == [step |-> "swap_in", at |-> 1, then |-> "idle"]

----------------------------------------------------------------------------
\* The list of holes: operators from a table (holes and number of free slots) to one.

Table == [holes |-> holes, slots |-> free_slots]

SetTable(t) == holes' = t.holes /\ free_slots' = t.slots

\* faulty: the slot is not given back
del_slot_keeps(t, prev, k) ==
    [holes |-> IF k = 1 THEN Tail(t.holes)
               ELSE SubSeq(t.holes, 1, prev) \o SubSeq(t.holes, k + 1, Len(t.holes)),
     slots |-> t.slots]

\* Hole k leaves the list; prev is the index of the one before it.
del_slot(t, prev, k) ==
    [holes |-> IF k = 1 THEN Tail(t.holes)
               ELSE SubSeq(t.holes, 1, prev) \o SubSeq(t.holes, k + 1, Len(t.holes)),
     slots |-> t.slots + 1]

Adjacent(h, g) == h.base + h.len = g.base

\* Hole k absorbs its successor.
Absorb(t, k) ==
    del_slot([t EXCEPT !.holes[k].len = @ + t.holes[k + 1].len], k, k + 1)

CanAbsorb(t, k) == k < Len(t.holes) /\ Adjacent(t.holes[k], t.holes[k + 1])

\* faulty: only one neighbour is looked at
merge_once(t, k) == IF CanAbsorb(t, k) THEN Absorb(t, k) ELSE t

merge(t, k) ==
    LET first == IF CanAbsorb(t, k) THEN Absorb(t, k) ELSE t
        next == IF CanAbsorb(t, k) THEN k ELSE k + 1
    IN  IF CanAbsorb(first, next) THEN Absorb(first, next) ELSE first

\* The list has the block in its place by address.  Without a free slot MM panics,
\* even if the block would merge: the number of free slots becomes -1.
free_mem(t, base, clicks) ==
    LET before == Cardinality({k \in DOMAIN t.holes : t.holes[k].base < base})
        listed == [holes |-> InsertAt(t.holes, before + 1, [base |-> base, len |-> clicks]),
                   slots |-> t.slots - 1]
    IN  IF clicks = 0 THEN t
        ELSE IF t.slots = 0 THEN [t EXCEPT !.slots = -1]
        ELSE merge(listed, IF before = 0 THEN 1 ELSE before)

\* Clicks are taken from the start of hole k.
Bite(t, prev, k, clicks) ==
    LET bitten == [t EXCEPT !.holes[k] = [base |-> @.base + clicks, len |-> @.len - clicks]]
    IN  IF bitten.holes[k].len = 0 THEN del_slot(bitten, prev, k) ELSE bitten

Least(S) == CHOOSE x \in S : \A y \in S : x <= y

\* faulty: one click short
Fitting_short(clicks) ==
    {k \in DOMAIN holes :
        /\ holes[k].len >= clicks - 1
        /\ wf_mode \/ holes[k].base < swap_base}

\* faulty: the swap area is not kept apart
Fitting_swap(clicks) == {k \in DOMAIN holes : holes[k].len >= clicks}

\* The holes alloc_mem() considers, those of the swap area being at the end.
Fitting(clicks) ==
    {k \in DOMAIN holes :
        /\ holes[k].len >= clicks
        /\ wf_mode \/ holes[k].base < swap_base}

Largest(ks) == {k \in ks : \A j \in ks : holes[j].len <= holes[k].len}

\* The hole alloc_mem() takes.
Chosen(clicks) == Least(IF wf_mode THEN Largest(Fitting(clicks)) ELSE Fitting(clicks))

\* faulty: the last hole is taken for the one before the chosen
alloc_mem_last(clicks) == Bite(Table, Len(holes), Chosen(clicks), clicks)

\* The table after alloc_mem() has found a hole.
alloc_mem(clicks) == Bite(Table, Chosen(clicks) - 1, Chosen(clicks), clicks)

----------------------------------------------------------------------------
\* Start of MM.

Init ==
    /\ holes = <<>> /\ free_slots = NrHoles
    /\ proc = [p \in Procs |-> NoProc]
    /\ in_queue = <<>> /\ outswap = 1
    /\ wf_mode = FALSE /\ swapping = FALSE
    /\ swap_base = 0 /\ swap_len = 0
    /\ job = [step |-> "init", at |-> 1]

\* mem_init() takes over one chunk, or is done with them.
mem_init ==
    /\ job.step = "init"
    /\ IF job.at > Len(Chunks)
       THEN /\ swap_base' = swap_base + 1
            /\ job' = Idle
            /\ UNCHANGED table
       ELSE LET c == Chunks[job.at]
            IN  /\ SetTable(free_mem(Table, c.base, c.len))
                /\ swap_base' = IF swap_base < c.base + c.len THEN c.base + c.len ELSE swap_base
                /\ job' = [job EXCEPT !.at = @ + 1]
    /\ UNCHANGED <<proc, queue, wf_mode, swapping, swap_len>>

----------------------------------------------------------------------------
\* alloc_mem() and swap_out(), for fork() and exec() and for swap_in().

\* The process on the queue that swap_in() looks at.
Incoming == in_queue[job.at]

SwapsIn == job.step = "swap_in" /\ job.at <= Len(in_queue)

Allocates == job.step = "alloc" \/ (SwapsIn /\ proc[Incoming].swapin)

\* How much the call of alloc_mem() asks for.
Wanted == IF job.step = "alloc" THEN job.size ELSE proc[Incoming].size

SwapHoles(size) ==
    {k \in DOMAIN holes : holes[k].base >= swap_base /\ holes[k].len >= size}

\* faulty: a process that may run is swapped out
Candidates_awake ==
    {p \in Procs : /\ proc[p].inuse /\ ~proc[p].reply /\ ~proc[p].onswap
                   /\ SwapHoles(proc[p].size) # {}}

\* faulty: a process may be swapped out again
Candidates_again ==
    {p \in Procs : proc[p].waiting /\ ~proc[p].reply /\ SwapHoles(proc[p].size) # {}}

\* Waiting in a call of MM, and neither to be answered nor swapped out already.  One
\* that is traced is no candidate either: here it does not wait.
Candidates ==
    {p \in Procs : /\ proc[p].waiting /\ ~proc[p].reply /\ ~proc[p].onswap
                   /\ SwapHoles(proc[p].size) # {}}

\* The d-th process after outswap, the last being outswap itself.
After(d) == ((outswap - 1 + d) % NrProcs) + 1

NextOut == After(Least({d \in Procs : After(d) \in Candidates}))

CanSwapOut == ~wf_mode /\ Candidates # {}

\* The hole is not there, and somebody else makes room.
swap_out ==
    LET p == NextOut
        k == Least(SwapHoles(proc[p].size))
        bitten == Bite(Table, k - 1, k, proc[p].size)
    IN  /\ Allocates /\ Fitting(Wanted) = {} /\ CanSwapOut
        /\ SetTable(free_mem(bitten, proc[p].base, proc[p].size))
        /\ proc' = [proc EXCEPT ![p].base = holes[k].base, ![p].onswap = TRUE]
        /\ outswap' = p
        /\ UNCHANGED <<in_queue, wf_mode, area, job>>

\* fork() or exec() gets its memory; exec() gives back the old.
Allocate ==
    LET p == job.for
    IN  /\ job.step = "alloc" /\ Fitting(job.size) # {}
        /\ SetTable(free_mem(alloc_mem(job.size), proc[p].base, proc[p].size))
        /\ proc' = [proc EXCEPT ![p].inuse = TRUE,
                                ![p].base = holes[Chosen(job.size)].base, ![p].size = job.size]
        /\ job' = ServeQueue
        /\ UNCHANGED <<queue, wf_mode, area>>

\* NO_MEM.
Refuse ==
    /\ job.step = "alloc" /\ Fitting(job.size) = {} /\ ~CanSwapOut
    /\ job' = ServeQueue
    /\ UNCHANGED <<table, proc, queue, wf_mode, area>>

\* One turn of swap_in(): the process is brought in and what it has missed looked at,
\* or it is left on the queue because there is no memory, or cleaned from it because
\* it got killed.
BringIn ==
    LET p == Incoming
    IN  /\ SwapsIn /\ proc[p].swapin /\ Fitting(Wanted) # {}
        /\ SetTable(free_mem(alloc_mem(Wanted), proc[p].base, proc[p].size))
        /\ proc' = [proc EXCEPT ![p].base = holes[Chosen(Wanted)].base,
                                ![p].onswap = FALSE, ![p].swapin = FALSE]
        /\ in_queue' = RemoveAt(in_queue, job.at)
        /\ job' = [step |-> "check_pending", at |-> job.at, then |-> job.then, for |-> p]
        /\ UNCHANGED <<outswap, wf_mode, area>>

LeaveOut ==
    /\ SwapsIn /\ proc[Incoming].swapin /\ Fitting(Wanted) = {} /\ ~CanSwapOut
    /\ job' = [job EXCEPT !.at = @ + 1]
    /\ UNCHANGED <<table, proc, queue, wf_mode, area>>

Clean ==
    /\ SwapsIn /\ ~proc[Incoming].swapin
    /\ in_queue' = RemoveAt(in_queue, job.at)
    /\ UNCHANGED <<table, proc, outswap, wf_mode, area, job>>

\* A process and its memory are gone.
Ends(p) ==
    /\ SetTable(free_mem(Table, proc[p].base, proc[p].size))
    /\ proc' = [proc EXCEPT ![p] = NoProc]

\* faulty: queued twice
swap_inqueue_again(p) == Append(in_queue, p)

swap_inqueue(p) == IF proc[p].swapin THEN in_queue ELSE Append(in_queue, p)

\* The call p waits in is to be answered, which a process on the swap area cannot be yet.
Answer(p) ==
    /\ proc[p].waiting
    /\ proc' = [proc EXCEPT ![p].waiting = FALSE, ![p].reply = TRUE, ![p].swapin = proc[p].onswap]
    /\ in_queue' = IF proc[p].onswap THEN swap_inqueue(p) ELSE in_queue

\* check_pending(): a signal that came while the process was on the swap area kills it
\* (and whoever waits for it is answered) or interrupts its call, if there is one.
Kill ==
    /\ job.step = "check_pending" /\ proc[job.for].inuse
    /\ Ends(job.for)
    /\ UNCHANGED <<queue, wf_mode, area, job>>

Interrupt(p) ==
    /\ job.step = "check_pending"
    /\ p = job.for \/ ~proc[job.for].inuse
    /\ Answer(p)
    /\ UNCHANGED <<table, outswap, wf_mode, area, job>>

\* Back to the queue.
Checked ==
    /\ job.step = "check_pending"
    /\ job' = [step |-> "swap_in", at |-> job.at, then |-> job.then]
    /\ UNCHANGED <<table, proc, queue, wf_mode, area>>

\* The end of the queue: swap_off() goes on, or the pending replies are sent to the
\* processes in memory and MM takes the next call.
SendReplies ==
    /\ job.step = "swap_in" /\ job.at > Len(in_queue) /\ job.then = "idle"
    /\ proc' = [p \in Procs |-> [proc[p] EXCEPT !.reply = @ /\ proc[p].onswap]]
    /\ job' = Idle
    /\ UNCHANGED <<table, queue, wf_mode, area>>

----------------------------------------------------------------------------
\* The calls.

Awake(p) == proc[p].inuse /\ ~proc[p].waiting /\ ~proc[p].reply

Fork(p, size) ==
    /\ job = Idle /\ ~proc[p].inuse
    /\ job' = [step |-> "alloc", for |-> p, size |-> size]
    /\ UNCHANGED <<table, proc, queue, wf_mode, area>>

Exec(p, size) ==
    /\ job = Idle /\ Awake(p) /\ ~proc[p].onswap
    /\ job' = [step |-> "alloc", for |-> p, size |-> size]
    /\ UNCHANGED <<table, proc, queue, wf_mode, area>>

\* exit(), or killed, even on the swap area or on the queue.
Exit(p) ==
    /\ job = Idle /\ proc[p].inuse
    /\ Ends(p)
    /\ job' = ServeQueue
    /\ UNCHANGED <<queue, wf_mode, area>>

\* wait(), pause(), sigsuspend().
Wait(p) ==
    /\ job = Idle /\ Awake(p) /\ ~proc[p].onswap
    /\ proc' = [proc EXCEPT ![p].waiting = TRUE]
    /\ job' = ServeQueue
    /\ UNCHANGED <<table, queue, wf_mode, area>>

\* A child exits or a signal interrupts the call.
WakeUp(p) ==
    /\ job = Idle
    /\ Answer(p)
    /\ job' = ServeQueue
    /\ UNCHANGED <<table, outswap, wf_mode, area>>

\* A signal comes for a process on the swap area: it has to be in memory first.
Signal(p) ==
    /\ job = Idle /\ proc[p].onswap
    /\ in_queue' = swap_inqueue(p)
    /\ proc' = [proc EXCEPT ![p].swapin = TRUE]
    /\ job' = ServeQueue
    /\ UNCHANGED <<table, outswap, wf_mode, area>>

\* The code allows worst fit while it swaps; callers do not if ModesMix is FALSE.
do_worst_fit(mode) ==
    /\ job = Idle /\ (mode /\ swapping => ModesMix)
    /\ wf_mode' = mode
    /\ job' = ServeQueue
    /\ UNCHANGED <<table, proc, queue, area>>

swap_maxsize == MaxClick - swap_base

swap_on(size) ==
    LET clicks == IF size > swap_maxsize THEN swap_maxsize ELSE size
    IN  /\ job = Idle /\ ~swapping /\ (wf_mode => ModesMix)
        /\ SetTable(free_mem(Table, swap_base, clicks))
        /\ swapping' = TRUE /\ swap_len' = clicks
        /\ job' = ServeQueue
        /\ UNCHANGED <<proc, queue, wf_mode, swap_base>>

OnSwap == {p \in Procs : proc[p].onswap}

swap_off ==
    /\ job = Idle /\ swapping
    /\ job' = [step |-> "queue_all", at |-> 1]
    /\ UNCHANGED <<table, proc, queue, wf_mode, area>>

\* One turn of its loop over the table: whoever is on the swap area is queued.
QueueNext ==
    LET p == job.at
    IN  /\ job.step = "queue_all" /\ p \in Procs
        /\ IF p \in OnSwap
           THEN in_queue' = swap_inqueue(p) /\ proc' = [proc EXCEPT ![p].swapin = TRUE]
           ELSE UNCHANGED <<in_queue, proc>>
        /\ job' = IF p = NrProcs THEN [ServeQueue EXCEPT !.then = "swap_off"]
                  ELSE [job EXCEPT !.at = @ + 1]
        /\ UNCHANGED <<table, outswap, wf_mode, area>>

\* swap_in() is done: ENOMEM if somebody is left on the swap area.
AllInMemory ==
    /\ job.step = "swap_in" /\ job.at > Len(in_queue) /\ job.then = "swap_off"
    /\ job' = IF OnSwap # {} THEN ServeQueue ELSE [step |-> "swap_off", at |-> 1]
    /\ UNCHANGED <<table, proc, queue, wf_mode, area>>

\* One turn of the loop that removes the swap hole.  After a removal it goes on
\* behind the head of the list; if the list is empty, it reads what a null pointer
\* points at: a null pointer again, and the loop ends, or anything else.
RemoveSwapHole ==
    /\ job.step = "swap_off" /\ job.at <= Len(holes)
    /\ IF holes[job.at].base >= swap_base
       THEN /\ SetTable(del_slot(Table, job.at - 1, job.at))
            /\ swap_len' = 0
            /\ job' \in {[job EXCEPT !.at = 2]} \cup
                        IF Len(holes) = 1 THEN {[step |-> "lost"]} ELSE {}
       ELSE /\ job' = [job EXCEPT !.at = @ + 1]
            /\ UNCHANGED <<table, swap_len>>
    /\ UNCHANGED <<proc, queue, wf_mode, swapping, swap_base>>

CloseSwap ==
    /\ job.step = "swap_off" /\ job.at > Len(holes)
    /\ swapping' = FALSE
    /\ job' = ServeQueue
    /\ UNCHANGED <<table, proc, queue, wf_mode, swap_base, swap_len>>

\* MM has read a null pointer: nothing can be said of it.
Lost == job.step = "lost" /\ UNCHANGED vars

\* MM is at work for a call.
Works ==
    \/ mem_init \/ swap_out \/ Allocate \/ Refuse \/ BringIn \/ LeaveOut \/ Clean
    \/ Kill \/ Checked \/ (\E p \in Procs : Interrupt(p))
    \/ SendReplies \/ QueueNext \/ AllInMemory \/ RemoveSwapHole \/ CloseSwap

Calls ==
    \/ swap_off
    \/ \E mode \in BOOLEAN : do_worst_fit(mode)
    \/ \E size \in SwapSizes : swap_on(size)
    \/ \E p \in Procs :
          \/ Exit(p) \/ Wait(p) \/ WakeUp(p) \/ Signal(p)
          \/ \E size \in Sizes : Fork(p, size) \/ Exec(p, size)

Next == Works \/ Calls \/ Lost

\* MM goes on with what it has begun.  This is weak fairness of Works, which changes
\* something and is enabled unless MM is idle or lost, as the deadlock check shows;
\* written out, because ENABLED takes TLC long here.
Fairness == []<>(job.step \in {"idle", "lost"}) \/ []<><<Works>>_vars

Spec == Init /\ [][Next]_vars /\ Fairness

----------------------------------------------------------------------------
\* faulty: the last of the largest
WorstFitLoop_last(list, clicks) ==
    LET max_len(h) == IF h = 0 THEN 0 ELSE list[h].len
        best[k \in 0..Len(list)] ==
            IF k = 0 THEN 0
            ELSE IF list[k].len >= clicks /\ list[k].len >= max_len(best[k - 1]) THEN k
            ELSE best[k - 1]
    IN  best[Len(list)]

\* The loop of alloc_mem() that looks for the best hole: best_h is best[k] after k
\* holes, 0 standing for NIL_HOLE.
WorstFitLoop(list, clicks) ==
    LET max_len(h) == IF h = 0 THEN 0 ELSE list[h].len
        best[k \in 0..Len(list)] ==
            IF k = 0 THEN 0
            ELSE IF list[k].len >= clicks /\ list[k].len > max_len(best[k - 1]) THEN k
            ELSE best[k - 1]
    IN  best[Len(list)]

----------------------------------------------------------------------------
\* Properties.

\* The types of the variables.
TypeOK ==
    /\ holes \in Seq([base : 0..MaxClick, len : 0..MaxClick])
    /\ free_slots \in 0..NrHoles
    /\ proc \in [Procs -> [inuse : BOOLEAN, waiting : BOOLEAN, reply : BOOLEAN, onswap : BOOLEAN,
                           swapin : BOOLEAN, base : 0..MaxClick, size : Sizes \cup {0}]]
    /\ in_queue \in Seq(Procs) /\ outswap \in Procs
    /\ wf_mode \in BOOLEAN /\ swapping \in BOOLEAN
    /\ swap_base \in 0..MaxClick /\ swap_len \in 0..MaxClick
    /\ \/ job \in {Idle, [step |-> "lost"]}
       \/ job \in [step : {"init", "queue_all", "swap_off"}, at : Nat \ {0}]
       \/ job \in [step : {"alloc"}, for : Procs, size : Sizes]
       \/ job \in [step : {"swap_in"}, at : Nat \ {0}, then : {"idle", "swap_off"}]
       \/ job \in [step : {"check_pending"}, at : Nat \ {0}, then : {"idle", "swap_off"},
                   for : Procs]

Clicks(base, len) == base .. (base + len - 1)

Segment(p) == Clicks(proc[p].base, proc[p].size)

\* The clicks MM has been given: the chunks it knows of and the swap area.
Pool ==
    LET known == IF job.step = "init" THEN job.at - 1 ELSE Len(Chunks)
    IN  (UNION {Clicks(Chunks[i].base, Chunks[i].len) : i \in 1..known})
        \cup Clicks(swap_base, swap_len)

\* Through every sequence of calls the list is sorted and merged: between two holes
\* there is a click that is not free, and no hole is empty.
HolesMerged ==
    /\ \A k \in DOMAIN holes : holes[k].len > 0
    /\ \A k \in 1..(Len(holes) - 1) : holes[k].base + holes[k].len < holes[k + 1].base

\* No click is free and in use, or used twice, or lost, even between the steps of
\* a call that swaps: each has exactly one owner, a hole or a process.
NothingLostOrShared ==
    LET Owners(c) ==
            Cardinality({k \in DOMAIN holes : c \in Clicks(holes[k].base, holes[k].len)})
            + Cardinality({p \in Procs : c \in Segment(p)})
    IN  /\ \A c \in Pool : Owners(c) = 1
        /\ \A k \in DOMAIN holes : Clicks(holes[k].base, holes[k].len) \subseteq Pool
        /\ \A p \in Procs : Segment(p) \subseteq Pool

\* Every slot is in one of the two lists, and the free list never runs out: the
\* panic of free_mem() is not reached, with a table for NrProcs segments.
SlotsConserved == free_slots + Len(holes) = NrHoles /\ free_slots >= 0

\* Only the swapped out are on the swap area and nobody else is: what may run is in memory.
\* A process on swap sleeps, or it is to be woken and on the queue.
RunsInMemory ==
    \A p \in Procs :
        /\ proc[p].inuse => (proc[p].onswap <=> proc[p].base >= swap_base)
        /\ proc[p].onswap => proc[p].waiting \/ (proc[p].reply /\ proc[p].swapin)

\* The queue has each process that wants to come back once, and between calls
\* nobody else: one that got killed there is cleaned before its slot is used again.
QueueRight ==
    /\ \A i, j \in DOMAIN in_queue : in_queue[i] = in_queue[j] => i = j
    /\ \A p \in Procs : proc[p].swapin => proc[p].onswap /\ p \in Range(in_queue)
    /\ job = Idle => \A p \in Range(in_queue) : proc[p].swapin

\* The loop with its running maximum finds the first of the largest holes.
WorstFitRight ==
    \A clicks \in Sizes :
        LET fit == {k \in DOMAIN holes : holes[k].len >= clicks}
        IN  WorstFitLoop(holes, clicks) = IF fit = {} THEN 0 ELSE Least(Largest(fit))

\* Every call ends: processes that make room for each other do not keep MM busy for
\* ever (unless it is lost in swap_off()).
CallsEnd == job # Idle ~> (job = Idle \/ job.step = "lost")

Rely == INSTANCE Memory WITH
            memory <- [p \in Procs |-> Segment(p)],
            asleep <- {p \in Procs : proc[p].waiting \/ proc[p].onswap}

\* The allocator gives processes what they rely on: memory of their own, in one
\* piece, that is moved only while they sleep.
ImplementsMemory == Rely!Spec
=============================================================================
