# Verification of the SOI laboratory programs

The repository holds five small systems: a modified MINIX 2.0.3 kernel whose
scheduler has three new process groups (`minix_exercise2_completed`), a modified
memory allocator of the MINIX memory manager (`mem_management`), a file system in a
file (`exercise6`), and the same producers-and-consumers kitchen twice, with
semaphores (`semafors`) and with monitors (`monitors`).  This directory models
them in TLA+, checks the models with TLC and proves with TLAPS nearly every
safety property the runs check, and that each detailed model implements its
abstract one.

## The parts of the system

| part | state | operations | what is hard |
|---|---|---|---|
| scheduler (`kernel/proc.c`) | six ready queues, `proc_ptr`, `bill_ptr`, per process group, estimate, age, quantum counter | `ready`, `unready`, `pick_proc`, `sched`, `handle_clock_tick` | called from system calls, tasks and the clock interrupt; strict priorities; ages and quanta at their limits |
| message passing (`kernel/proc.c`) | `p_flags`, `p_getfrom`, `p_sendto`, `p_callerq`, `p_int_blocked` | `sys_call`, `mini_send`, `mini_rec`, `interrupt` | lost wakeups, deadlock, replies to the wrong state of a client |
| clock task (`kernel/clock.c`) | alarms, `sched_ticks`, `prev_ptr`, `aging_counter` | `clock_handler`, `do_clocktick`, `do_setalarm` | interrupt and task change the same counters |
| system task (`kernel/system.c`) | the process table, `p_pending`, `p_pendcount`, `sig_procs` | `do_fork`, `do_newmap`, `do_exec`, `do_xit`, `do_kill`, `do_endsig`, `do_trace`, `do_setgroup`, `cause_sig`, `inform` | a process may be killed, stopped or signalled in any state |
| MM and FS | outside the repository but for SETGROUP (`mm/misc.c`) | receive, call, reply; `do_setgroup` with its checks | the protocol the kernel relies on |
| allocator (`mm/alloc.c`) | the sorted list of holes, the free slots, the swap queue and its cursor, the base of the swap area | `mem_init`, `alloc_mem` (first fit, worst fit), `free_mem`, `merge`, `swap_in`, `swap_out`, `swap_on`, `swap_off`, `do_worst_fit` | merging at the boundaries, the table of holes running out, processes moved between two looks at them |
| virtual disk (`fs.c`) | super block with the directory, data blocks, all in one file | create, remove, copy in, copy out, delete, list, map | a crash between two writes; several processes on one disk without a lock |
| semaphores (`semafors`) | four ring buffers, three semaphores each | producers push, consumers pop a filling, then dough | races on the ring indices, deadlock, starvation |
| monitors (`monitors`) | four ring buffers with a mutex and two conditions | `monitor_put`, `monitor_get` | lost and spurious wakeups |

In the kernel everything meets in the process table: a user traps into
`sys_call`, which blocks or unblocks processes and so reaches the scheduler; the
clock interrupt ages and preempts and wakes CLOCK with an interrupt message;
CLOCK and SYSTASK take requests as messages, change the scheduling state of
other processes and answer; `cause_sig` and `inform` pass signals to MM, which
ends them through SYSTASK.  The allocator shares only `mproc[]` and the
main loop with the rest of MM; the virtual disk and the two kitchens are programs
of their own.

What has to be right, part by part: the ready queues hold exactly the runnable
processes and the best of them runs; no message or signal is lost and no task
blocks for ever; each click of memory has one owner and a running process is in
memory; a command on the disk happens whole or not at all and files do not touch
each other; every ingredient is used once, in order, and nobody waits for nothing.

## The models of the kernel

* `ReadyQueues` - the queues of `proc.c` and `pick_proc`, `ready`, `unready`,
  `sched`.  A kernel handler chains several of these routines in one step, so
  each is an operator from a kernel state (a record) to a kernel state.  Queues
  are sequences; the head, tail and link pointers of the code represent them.
* `Messages` - flags, `mini_send`, `mini_rec`, the deadlock walk, `interrupt`,
  `cause_sig`, `inform`, in the same style.  Of a message only the sender is kept.
* `Kernel` - the state machine.  One action per system call, per clock
  interrupt, per piece of work of CLOCK and SYSTASK.  A task's loop has three
  places: receive, work, reply, because the clock may interrupt between them.
  MM, FS and the user programs are external: they may make any call the code of
  the kernel expects of them, at any time they run.  Of MM the repository has
  `do_setgroup`: its checks (`MMAccepts`) guard the action that does what SYSTASK
  then does.  MM's own copy of the group is written and never read.
* `NestedTick` - `Kernel` with a user's system call taken apart where it leaves
  its ready queue, and the clock ticking in between.
* `MCKernel`, `MCNestedTick` - the instances for TLC.

What the code does and the models leave out: watch-dog functions and
synchronous alarms of tasks, the time of day and accounting, memory maps,
registers and copying, SYSSIGNON (a user becoming a server), the checks of
message addresses, and the contents of messages.  Of MM, which calls SYSTASK, two
things are taken on trust.  It resumes only a process that is stopped: SYSTASK itself
would put any process in a queue for T_RESUME (`DoTrace`).  And `do_setgroup` names a
process in `mproc[]`; SYSTASK refuses one whose slot is free, which in the model is one
of the `OtherSystemCall`s.  That `clock_handler` may lose ticks when it meets the task
in the middle of a count is not stated: nothing in the repository promises an exact
count, and no decision of the models depends on one.

### Runs

All bounds are in the `.cfg` files.  Users are named, so two or three of them
show every order of arrival at a queue; queues of three separate head, middle
and tail.  The counters (quantum, age, plain quantum) are cut to one or two
ticks; the models never read them but against their limit.  No state constraint
is used; `VIEW View` drops the values of `p_getfrom` and `p_sendto` of a process
that is not waiting, which no handler reads.

| run | instance | shows |
|---|---|---|
| `kernel_queues` | 3 users, SETGROUP with groups 0-4 (0 and 4 are refused) and estimates 0-2 | a process is queued iff it has no flag; the best process is dispatched; group 3 is sorted; a group 2 process keeps its age until it runs |
| `kernel_messages` | 1 user, MM and FS, all calls | callers queues; no circle of senders; nobody sleeps on a message that is there; tasks never block on a reply |
| `kernel_processes` | 2 users, MM, all calls but SETGROUP | the same queue invariants with fork, exec, exit, tracing and signals; signal counts |
| `kernel_round_robin` | 3 users of group 1, fairness | every ready process of group 1 runs, though no other makes a system call |
| `kernel_age_lost` | 2 users, signals | violated: the age of a group 2 process is reset although it does not run |
| `kernel_setgroup_by_pid` | 2 users, SETGROUP by pid | violated: a process on the queue of the wrong group |
| `nested_tick` | 3 users of group 1 | violated: a tick inside a system call loses a process from its queue |

**Fairness.** `RoundRobin` assumes that the clock goes on ticking (`WF` of
`ClockTick`; the timer is hardware) and that if the kernel again and again runs
a group 1 process, ticks hit such a process again and again (`SF` of a tick on
group 1; a tick period is long compared to a system call, and a process that
always escapes the tick would have to time its calls by it).  Nothing is assumed
of user programs.  The premise that group 1 gets the processor again and again
is part of the property, since tasks and servers have priority.

### Disagreements found

1. *The age is lost without running.*  `pick_proc` zeroes `wait_ticks` when it
   selects.  When MM blocks with signals pending, `unready(MM)` selects a group 2
   process, then `inform()` makes MM run: the process has lost its age.
2. *SETGROUP by pid.*  `do_setgroup` changes the group of a process that is
   linked in a queue.  Afterwards `unready` looks for it in the wrong queue.
   The other runs, and the proofs, take SETGROUP as programs are meant to use
   it, for the caller, which waits for the answer and is on no queue.
3. *The tick inside a system call.*  `interrupt()` holds a nested interrupt
   back; `handle_clock_tick()` runs `lock_sched()` at once and can find
   `g1_queue` without the process that `proc_ptr` still names.  It then drops the
   head of the queue and links in the caller, which is about to block.
4. *Starvation in the kitchen.*  See the models of the kitchen below.
5. *The hole that is too small.*  The script `test.sh` of the virtual disk expects
   a save to fail that succeeds.  See the models of the virtual disk below.

Also noticed, with no run of their own: `report.md` says aging is updated on
every tick, the code does it every `AGING_TICK` (5) ticks.

## The models of the kitchen

* `Pierogi` - what both programs promise: bounded FIFO buffers, every item used
  once, a consumer that takes its own filling and then the shared dough.
* `Semaphores` - `semafors/`: each `down`, each `up` and each half of
  `buffer_push` and `buffer_pop` is a step of its own, so that two threads in one
  ring would be seen.  A consumer is one action system with `wants` telling which
  half of its loop it is in; `InBuffer` reads the number of items off `empty`.
* `Monitors` - `monitors/`: taking the lock and testing the condition is one step
  (a thread that must wait gives the lock back in it), the change of the ring with
  the signal and the unlock a second one, because nobody else can act in the
  monitor between them.  A woken thread takes the lock again and tests again; a
  signal wakes any one waiter; a wait may also return without a signal.
* `MCSemaphores`, `MCMonitors` - two fillings, so that two consumers compete for
  the dough; the third consumer of the programs runs the same code.

`sleep` and the output are left out.  The models run for ever; `main` ends the
threads after ten seconds, and `semafors` even destroys the semaphores under them.
Items are numbered modulo `Ids`: no thread looks at the number of an item.

| run | N | question | result |
|---|---|---|---|
| `semaphores` | 2 | is each ring used by one thread at a time, do the threads at one buffer block each other, and is every step a step of the kitchen? | `Exclusion`, `NoStandstill`, `ImplementsKitchen` hold |
| `starvation` | 1 | does every consumer get its dough? | no: see below |
| `monitors` | 2 | do the waits lose a signal, is every behaviour one of the kitchen, and do the threads go on as the kitchen's do? | `NoSignalLost`, `ImplementsKitchen`, `GoesOn` hold |

With `N` = 2 a ring wraps, can be partly full, and can hold one item for each of
two waiting consumers, which is where a signal can be lost.  `semaphores` is a
safety run (symmetric in the fillings).  `NoStandstill` says of each buffer alone
that its producer or one of the consumers that want something from it can go on;
the order of the two `down`s is what makes it true.

Fairness: every thread runs again if it can (weak fairness), and `Monitors`
assumes that spurious wake-ups end some time.  Nothing is assumed of who gets a
semaphore, a lock or a signal that several wait for, since POSIX promises nothing.
That is why `Pierogi` asks that *some* consumer gets the dough, and why both
reports go too far when they say (`report.md:24`) that no consumer is starved:
`NoStarvation` is refuted by a behaviour in which one consumer gets every piece of
dough, each time before the other has returned from `sem_wait`.

## The models of the virtual disk

* `FileStore` - what the disk promises: a catalogue of whole files.  Creating takes
  two steps (in between the disk cannot be read), every other command one or none.
* `VirtualDisk` - `fs.c`.  A command is a run of the program by a user.  It loads the
  super block, decides everything from that copy, writes one block of data after
  another and the super block last (`-cp`); saves the super block only (`-rm`); or
  reads the blocks of its entry one by one and writes a local file (`-out`).  Each of these is a
  step, the steps of different users interleave, and `Crash` stops a command at any of
  them.  A command that is refused changes nothing and is no step, so the guards of
  `CopyToVirtual` are the conditions under which the code goes on.
* `MCVirtualDisk` - the instance.

The disk is made anew in two steps, the empty file and the rest (`FinishCreate`).  The
super block and the zeros behind it are not taken apart.  What is left out by that is one
more way to clash (below): the zeros may overwrite the data of a command that has loaded
the new super block already.

`StreakEnds` and `FirstFit` are the scan of the map with `current_streak`: after block
`i` the counter is the distance to the last taken block.  A block of a file of size 0
cannot be found by the scan, so empty files are refused.  Names are stored with at most
31 characters and compared in full, so a longer name can be stored twice and is never
found: `Stored` cuts, and `UniqueNames` allows just that.

**A disagreement with the test.** `FirstFitRight` says that a file is saved in the lowest
row of free blocks that is long enough, and that there is none if it is refused.  Step 5
of `test.sh` removes `plik_B`, of 20 blocks, and saves `fileD`, of 25, and says (line 68)
"Expected result: Failure (even though total space is enough, the hole is too small)".
But behind the other files, from block 41 on, 57 blocks in a row are free; the scan goes
on behind the hole (`fs.c:133-147`) and the file is saved in block 41, as the picture
`report_images/test5_6.png` shows.  The code is right and the test's expectation is not;
the run has the case in small, a file of two blocks, a hole of one, and two free blocks
behind it.

**Clashes.** The program has no lock.  `overlapped` remembers that two commands met that
can harm each other (`Clash`: both write, or one removes the entry that another reads,
or makes the disk anew).  What holds all the same (`NoSharedBlocks`, `UniqueNames`,
`FirstFitRight`, `MapShowsFree`) is checked for every overlapping of commands.  What
does not (a file is lost when two commands save in turn, or both write to the same
blocks) is promised only until the first clash; the abstract store then goes to
"anything".  A new disk does not end a clash, as the commands of before may go on in
the same file; `-rmdisk` does, because the file they have open has no name any more,
so it also ends these commands in the model.

Left out: `-ls`, a local file that cannot be read, a torn write of the super block
(`save_sb` is one step; the 1416 bytes leave in two writes of stdio, and only entry 23
crosses from the first block of 1024 to the second) and a crash of the machine, after which blocks may reach the disk in another order.

| run | instance | shows |
|---|---|---|
| `virtual_disk` | 2 users, 4 blocks of 2 bytes, 3 entries, a long name with its cut form, files of 0, 1 and 4 bytes | no block has two files; first fit and the map are right; a file comes out as it went in; `ImplementsStore`: each command takes effect at once or not at all |

Four blocks are the least in which a file of two blocks finds a hole that is too small
and a row behind it that is not, and three entries the least with one before, one behind
and one between; of the files one fills no block, one a part of a block and one two whole
ones.  Two users are enough because a clash is between two commands.  `VIEW View` drops,
after a clash, the data in the blocks and what is copied out, which then no action and
no property but the types looks at.

## The models of the allocator

* `Memory` - what processes rely on: memory of their own, in one piece, moved only
  while they sleep.
* `Allocator` - `mm/alloc.c`.  The list of holes is a sequence; its operators
  (`del_slot`, `merge`, `free_mem`, `alloc_mem`) go from a table to a table, as the
  callers chain them.  MM serves one call at a time, but a call loops, swapping one
  process out after another, walking the queue, removing holes of the swap area: each
  turn is a step and `job` says where MM is.  `swap_off` has two loops: one queues
  every process that is swapped out (`QueueNext` is a turn of it), the other removes
  the holes.  After each process that `swap_in` has brought in it calls
  `check_pending()`, and until that returns (`Checked`) the process may be killed
  (`Kill`), the call it waits in interrupted, or its parent answered (`Interrupt`), which
  can append to the queue that is being walked.
* `MCAllocator` - the instance.

A process stands for the owner of one segment.  Whatever calls the allocator (fork,
exec, exit, wait, signals, the main loop with its pending replies), and
`check_pending()`, is outside the repository and modelled from what `alloc.c` reads:
flags of `mproc[]` and the order in which it expects `swap_inqueue`, `swap_in` and the
replies; a signal queues a process that is swapped out (`Signal`).  A text segment,
which is never swapped by itself, is a process that never waits, and so is one that is
traced: `swap_out` passes over it (`TRACED`), which the model has no flag for.

A panic ("hole table full": `free_mem` finds no free slot) shows as -1 free slots and
is excluded by `SlotsConserved`.  That depends on `NR_HOLES`: the model assumes a table
for one hole beside each segment, one more segment during exec and the hole being freed
(`AllocatorAssumption`; the code has `2 * NR_PROCS`).  The instance has 8 slots, works
with 7, and panics with 6.

| run | instance | shows |
|---|---|---|
| `allocator` | 3 processes, three chunks of memory of 1, 3 and 1 clicks reported out of order, sizes 1 and 3, a swap file of 4 clicks or none | with worst fit and swapping kept apart: holes sorted and merged; each click has one owner, also within a call; slots conserved; who may run is in memory; the queue; worst fit; `ImplementsMemory`; every call ends |

Three processes are one that asks, one that is swapped out for it and one that comes
back; the chunks cannot merge with each other, and one of them is filled exactly by a
segment of either size, so that holes vanish and appear at the front, in the middle and
at the end.

Fairness: MM goes on with a call it has begun, `WF` of `Works`; nothing is assumed of
those who call.  `CallsEnd` then says that processes that make room for each other do
not keep MM busy for ever.

Noticed, and kept in the model:

* *Worst fit with swapping.*  In worst fit mode `alloc_mem` looks at all holes, those
  of the swap area included, and refuses without swapping anybody out, against the
  comments at `alloc.c:333` ("separate of regular memory") and `alloc.c:117` ("Swap
  other processes out if needed").  The run keeps the modes apart: with
  `ModesMix = FALSE`, `do_worst_fit` and `swap_on` have a guard that the code has not,
  and all that the run and the proofs show is under it.  With `TRUE`, `RunsInMemory`
  fails.
* *A null pointer in `swap_off`.*  After the removal of a hole the loop goes on behind
  `hole_head`.  If that was the last hole, it reads through a null pointer.  The model
  takes what is there for null (the loop ends) or anything (`job` is "lost").
* A process left on the queue for want of memory may miss memory that the same walk
  frees later; it gets another chance after the next call.
* The comment at the top of `alloc.c` lists `max_hole`, which does not exist.
  `do_hole_map` only reads the list and is left out; with a buffer for no entry at all
  it still writes the terminator.

## What is proved

Each theorem holds for every value of the constants that satisfies the assumptions named
in the module it extends; a run shows the same property on a small instance.  The
assumptions say that the classes of processes are disjoint, that the sets of users,
processes and fillings are finite, that special values are no processes, that limits are
numbers.  Those that say more, and the hypotheses of theorems, are named below.

### The kernel

`KernelTheorems` and `MessageTheorems`, under `"pid" \notin Targets` (see disagreement 2
above):

| theorem | property |
|---|---|
| `Invariant` | `Inv`, below |
| `Types` | `TypeOK` |
| `RunnableQueued` | `RunnableIffQueued` |
| `BestDispatched` | `Dispatched` |
| `ShortestFirst` | `ShortestJobFirst` |
| `SendersWait` | `CallerQueues` |
| `NobodyOverheard` | `NoLostWakeup` |
| `TasksAnswer` | `RepliesNeverBlock` |
| `SignalCounts` | `SignalsCounted` |
| `NoCircle` | `NoSendCycle` |
| `AgesLost` | who may lose its age, below |
| `AgesKept` | `AgeKept`, if there are no signals |

`RunnableIffQueued`, `Dispatched` and `CallerQueues` are not inductive.  `Inv` adds what
the handlers rely on:

* each ready queue *holds* its members: it is an injective sequence onto the
  runnable processes of that class and group, and `proc_ptr` is among the
  runnable ones, the head of its queue where the code of `unready` only repicks
  for a head (`Scheduled`);
* nobody who is ready is of a better class or group than the one that runs, and a
  user that runs is billed (`BestRuns`).  A user's system call breaks this half-way,
  when the server it wakes is ready and the user still runs: the lemmas about the
  routines of `Messages` say what restores it (a kernel process runs, or the caller
  blocks);
* each callers queue holds exactly the processes SENDING to its owner (`Callers`);
* users send to servers only, and only servers send to tasks (`Partners`);
* flags agree with each other: tasks and servers only ever send and receive, a
  receiver from ANY is not sending, a process with unfinished signals is
  inhibited, a free slot has no flags (`FlagsAgree`);
* a task that is working or replying has a message from a server, or, CLOCK
  only, from the hardware (`TaskLoop`).

The argument has three layers.  `SequenceLemmas`: inserting in, removing from, appending
to and rotating a sequence that holds a set.  `KernelProofs`: each routine of
`ReadyQueues` keeps the queues and the running process right, and each routine of
`Messages` keeps the invariant and never takes away what a task is working on.
`KernelTheorems` then has one lemma per action, and shows that the queue of group 3 stays
sorted: `ready` inserts in front of the first that is not shorter, `unready` takes out
one element, and no estimate changes while its process is in the queue, which is where
`"pid" \notin Targets` matters again.

`MessageTheorems` stands on that invariant.  Nobody sleeps on a message that is there
because a receiver has looked through its callers queue and every later sender finds it
RECEIVING, also when a signal or an exit takes a sender out of the queue in between.  A
task never blocks on its reply because a server that has sent to a task waits for it
(`sendrec`) until the answer, which only that task gives.  The counts of pending signals
are followed through `cause_sig`, `inform`, `do_endsig` and the reuse of a slot.  There is
no circle of senders since `mini_send` walks the chain before it blocks the caller: the
chain is finite, the walk visits all of it, and a new edge closes no circle.

`AgeKept` is violated by the code (disagreement 1), so two theorems say how far it holds.
`AgesLost`, for any signals: a step that takes a process its age runs that process, or is
work of SYSTASK, or MM asks for work while a signal is pending - the one step that is
wrong.  `AgesKept`: without signals that step does not exist, since `sig_procs` counts the
processes with pending signals.  The argument follows `wait_ticks` through the routines:
`pick_proc` takes an age only from the one it runs (`PickAged`), and from nobody while a
task, a server or a process of group 1 is ready, as in the clock task and the clock
handler; and of the two halves of a call only one can pick a process (`SendRecAged`).

### The kitchens

`SemaphoreProofs`, for any finite set of fillings and any `N`: `KitchenTypes` (`TypeOK`
with the ranges of the semaphores), `OneInside` (`Exclusion`), `SomebodyGoesOn`
(`NoStandstill`) and `SemaphoresImplement` (`ImplementsKitchen`).  `SemInv` counts: the
mutex of a buffer plus the threads in its critical section are 1, and full plus empty
plus the threads that hold a slot or an item are `N`.  That is why not everybody at a
buffer is blocked: nobody would be in its critical section, so its mutex would be free,
so the producer would wait for a slot and the consumers for an item, nobody would hold
either, and the counts would sum to 0.  `ItemsInv` says what that is good for: `in` is
`InBuffer` places behind `out` (`RingAt`), an item written stands where `in` points
until `in` moves on, and an item popped where `out` points until `out` does (`MealAt`).
The second half of `buffer_push` is then the kitchen's `Put`, the second half of
`buffer_pop` its `Take`, and mutual exclusion is what keeps the two halves together.

`MonitorProofs`, likewise: `MonitorTypes`, `SignalsReach` (`NoSignalLost`) and
`KitchenImplemented` (`ImplementsKitchen`).  `MonInv` says that a thread about to change a
ring holds its lock and need not wait (`Locked`), how far each consumer is with its
pierog (`Course`), that `in` is `count` places behind `out` (`Rings`), and `NoSignalLost`,
which is inductive with these: the count of those who are back from a wait is what the
signal of each `monitor_put` keeps up.  The ring as a queue (`RingPut`, `RingTake`,
`RingSpare`) is in `SequenceLemmas`.

### The virtual disk

`VirtualDiskProofs`, for any number of users, blocks and entries, any block size and any
names and files (`SizesAssumption` says only that sizes are numbers and that cutting a
cut name changes nothing):

* `DiskTypes`, `BlocksNotShared`, `NamesUnique`, `ScanRight`, `MapRight` - the
  invariants that hold whatever commands overlap;
* `OutIsWhole` - `CopiesOutWhole`;
* `StoreImplemented` - `ImplementsStore`, the refinement of `FileStore`.

The first five follow from `DirectoryInv`: every directory, on the disk or about to be
saved, is sound and keeps names unique.  It is inductive because a directory is only
ever made from a sound one, by freeing an entry or by adding one in blocks that first
fit found free (`FirstFitFree` and its lemmas, about any set of taken blocks).  For
`MapRight` the entries are in the order of their blocks, each at its rank (`ArrangedByNumber`
in `SequenceLemmas`); since no block is shared, the gap between an entry and the next is
what no file occupies (`RowsAreGaps`), and a free block lies in one of them (`InSomeGap`).
The other two need to know what a command holds while the disk changes under it, which is
`FileInv`: until a clash, what a command is about to save is the directory on the disk
with one entry less, or with one more whose blocks it has written so far; the entry a
reader works on is still in the directory; and no two commands clash.

### The allocator

`AllocatorProofs`, for any processes, chunks, sizes and swap file, any number of slots
that `AllocatorAssumption` allows, and `ModesMix = FALSE` (with `TRUE` the property
`RunsInMemory` fails, see above): `AllocatorTypes` (`TypeOK`), `AlwaysMerged`
(`HolesMerged`), `NoClickLost` (`NothingLostOrShared`), `NoPanic` (`SlotsConserved`),
`OnlySleepersOut` (`RunsInMemory`), `QueueOfWaiters` (`QueueRight`),
`FirstOfLargest` (`WorstFitRight`) and `MemoryImplemented` (`ImplementsMemory`).

All follow from one invariant, `IInv`:

* `ListRight` - the holes are sorted and *apart* (a click that is no hole lies between
  two of them), and holes plus free slots are `NrHoles`;
* `Shares` - a click of the memory known so far is in a hole or in exactly one segment;
* `ProcsRight` - what the flags of a process say of each other and of its place;
* `QueueGood` - the swap queue holds nobody twice, everybody who wants to come back, and
  besides only who got killed there; those that `swap_in` has passed over still want to
  (so that what is appended in the middle of a walk is on the queue once);
* `AreaRight`, `StartRight` - the swap area lies behind all memory, and before the first
  call there are only the chunks read so far;
* `JobRight` - in the middle of a call: who gets memory is awake and in memory; who has
  just been brought in is in memory; while the swap area is removed nobody is on it.

None of the properties is inductive alone.  `free_mem` keeps the list merged only if what
it frees overlaps no hole, which is `Shares`; `Shares` is kept because a process is moved
as a whole and only by its flags, which is `ProcsRight`; the flags are right in the
middle of a call by `JobRight`.  That the table never runs out is a counting argument:
behind each hole but the last of a region stands the first click of a segment, or the end
of a chunk or of the swap area, so there are at most as many holes as segments and
regions.  What the loop of worst fit finds is followed turn by turn (`TurnKeeps`): if it
were ever wrong there would be a first turn after which it is (`LoopFinds`).  In the
refinement of `Memory` every turn of a loop is one of its steps or none.

### Checked by TLC only

`RoundRobin`, `CallsEnd` and `GoesOn`: they are liveness properties, under fairness.
`NoStandstill` is the safety half of going on, stated by the guards of the actions instead
of with `ENABLED`, so that it could be proved.

## Not modelled

* Watch-dog functions and synchronous alarms in `clock.c`, the time of day and
  accounting; SYSSIGNON in `system.c`, memory maps, copying, registers.
* In `mm/misc.c` everything but `do_setgroup`: `do_reboot` and `do_svrctl` are those of
  MINIX and work on processes and files that are outside the repository.
* Headers and dispatch tables (constants of the models), the test programs of the
  scheduler and of the disk and the shell scripts (they print, or move files, and keep
  no state of their own).
* The end of `main` in `semafors`, after the ten seconds of the kitchen.

## Plan

Done: `ReadyQueues`, `Messages`, `Kernel`, `NestedTick`; `Pierogi`, `Semaphores`,
`Monitors`; `FileStore`, `VirtualDisk`; `Memory`, `Allocator`; SETGROUP in MM; the
proofs above.

What is left, in this order:

1. Watch-dogs and synchronous alarms of `clock.c`: `cause_alarm` may block CLOCK when
   two synchronous alarms are due at once, and an alarm or a call is then refused with
   ELOCKED; and what a slot keeps of an earlier process.
2. SYSSIGNON.
