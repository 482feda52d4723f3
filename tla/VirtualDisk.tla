---------------------------- MODULE VirtualDisk ----------------------------
(***************************************************************************)
(* exercise6, fs.c: a file system in the file dysk_wirtualny.dsk.  Its     *)
(* super block holds the directory; the rest is data blocks.  Each command *)
(* is a run of the program: it loads the super block, decides everything   *)
(* from that copy and, if it changes anything, writes the blocks of data   *)
(* first and the whole super block last.  Nothing locks the disk, so       *)
(* commands of several users interleave between these steps, and one may   *)
(* be stopped at each of them.                                             *)
(***************************************************************************)
EXTENDS Integers, FiniteSets, SequencesExt

CONSTANTS
    Users,          \* who runs commands, each one at a time
    BlockCount,     \* sb.block_count
    BlockSize,      \* BLOCK_SIZE
    MaxFiles,       \* MAX_FILES
    Names,          \* the names given on the command line
    Stored(_),      \* their first 31 characters
    Contents,       \* what files on the local disk contain
    SizeOf(_)       \* their sizes in bytes

ASSUME SizesAssumption ==
    /\ BlockCount \in Nat
    /\ BlockSize \in Nat \ {0}
    /\ MaxFiles \in Nat
    /\ \A c \in Contents : SizeOf(c) \in Nat
    /\ \A n \in Names : Stored(n) \in Names /\ Stored(Stored(n)) = Stored(n)

VARIABLES
    disk,           \* "none", "truncated" (no super block yet) or "ready"
    super,          \* the directory in the super block on the disk
    block,          \* the data blocks on the disk
    command,        \* what each user's command still has to do, and with what
    overlapped      \* history: two commands met on this disk, one of them writing

vars == <<disk, super, block, command, overlapped>>

Slots == 1..MaxFiles
Blocks == 0..(BlockCount - 1)

Unused == [used |-> FALSE]
Empty == [i \in Slots |-> Unused]
Zero == <<"zero">>
Idle == [step |-> "idle"]

needed_blocks(bytes) == (bytes + BlockSize - 1) \div BlockSize

\* Block k of a file with content c, filled up with zeros by calloc().
Piece(c, k) == <<c, k>>

Entries == [used : {TRUE}, name : Names, start_block : Blocks, size_bytes : Nat \ {0}]

Directories == [Slots -> Entries \cup {Unused}]

----------------------------------------------------------------------------
\* Reading a directory.

UsedSlots(sb) == {i \in Slots : sb[i].used}

BlocksOf(e) == e.start_block .. (e.start_block + needed_blocks(e.size_bytes) - 1)

\* faulty: only the first block of a file is marked
Taken_first(sb) == {sb[i].start_block : i \in UsedSlots(sb)}

\* The map of copy_to_virtual().
Taken(sb) == UNION {BlocksOf(sb[i]) : i \in UsedSlots(sb)}

\* faulty: the search misses the last entry
SlotsNamed_but_last(sb, n) == {i \in UsedSlots(sb) \ {MaxFiles} : sb[i].name = n}

SlotsNamed(sb, n) == {i \in UsedSlots(sb) : sb[i].name = n}

\* The first entry with this name, where every search of the program stops.
SlotNamed(sb, n) == Min(SlotsNamed(sb, n))

\* faulty: free blocks are counted, not runs of them
Streak_no_reset(taken, i) == Cardinality((0..i) \ taken)

\* current_streak after block i: how many blocks up to i are free in a row.
Streak(taken, i) == i - Max({-1} \cup {j \in taken : j <= i})

\* Where the scan of the map may stop: at the end of a streak of n free blocks.
StreakEnds(taken, n) == {i \in Blocks \ taken : Streak(taken, i) = n}

\* faulty: the start is one block too low
FirstFit_off_by_one(taken, n) == Min(StreakEnds(taken, n)) - n

FirstFit(taken, n) == Min(StreakEnds(taken, n)) - n + 1

----------------------------------------------------------------------------
\* The commands.

Init ==
    /\ disk = "none"
    /\ super = Empty
    /\ block = [b \in Blocks |-> Zero]
    /\ command = [u \in Users |-> Idle]
    /\ overlapped = FALSE

Busy(u) == command[u] # Idle

Writes(cmd) == cmd.step \in {"create", "data", "save"}

\* Two commands that may harm each other: both write, or one removes the entry
\* the other is reading.
Clash(cmd, other) ==
    /\ Writes(cmd)
    /\ \/ Writes(other)
       \/ other.step = "read" /\ (cmd.step # "create" => other.entry \notin Range(cmd.sb))

Begin(u, cmd) ==
    /\ command' = [command EXCEPT ![u] = cmd]
    /\ overlapped' = (overlapped \/ \E v \in Users \ {u} :
                         Clash(cmd, command[v]) \/ Clash(command[v], cmd))

\* load_sb() exits if there is no disk or no super block in it.
Loads(u) == ~Busy(u) /\ disk = "ready"

\* -c: fopen("wb") empties the disk, whatever was on it.
StartCreate(u) ==
    /\ ~Busy(u)
    /\ disk' = "truncated"
    /\ super' = Empty
    /\ block' = [b \in Blocks |-> Zero]
    /\ Begin(u, [step |-> "create"])

\* The super block and the zeros behind it come in one step: a command that loads
\* this super block before the zeros are written is left out.  It would clash.
FinishCreate(u) ==
    /\ command[u].step = "create"
    /\ disk' = "ready"
    /\ super' = Empty
    /\ block' = [b \in Blocks |-> Zero]
    /\ command' = [command EXCEPT ![u] = Idle]
    /\ UNCHANGED overlapped

\* -rmdisk.  A command that has the disk open goes on in a file without a name:
\* nothing of it will be seen again.
RemoveDisk(u) ==
    /\ ~Busy(u) /\ disk # "none"
    /\ disk' = "none"
    /\ super' = Empty
    /\ block' = [b \in Blocks |-> Zero]
    /\ command' = [v \in Users |-> Idle]
    /\ overlapped' = FALSE

\* The entry copy_to_virtual() adds to its copy of the directory.
Entered(sb, i, n, c) ==
    [sb EXCEPT ![i] = [used |-> TRUE,
                       name |-> Stored(n),
                       start_block |-> FirstFit(Taken(sb), needed_blocks(SizeOf(c))),
                       size_bytes |-> SizeOf(c)]]

\* faulty: the super block is written before the data
CopyToVirtual_super_first(u, n, c) ==
    /\ Loads(u)
    /\ SlotsNamed(super, n) = {}
    /\ UsedSlots(super) # Slots
    /\ StreakEnds(Taken(super), needed_blocks(SizeOf(c))) # {}
    /\ LET i == Min(Slots \ UsedSlots(super))
       IN  /\ Begin(u, [step |-> "data", sb |-> Entered(super, i, n, c),
                        slot |-> i, file |-> c, k |-> 0])
           /\ super' = Entered(super, i, n, c)
    /\ UNCHANGED <<disk, block>>

\* -cp, up to the first write.  It is refused, and nothing changes, if the name
\* exists, the directory is full or there is no streak of as many free blocks.
CopyToVirtual(u, n, c) ==
    /\ Loads(u)
    /\ SlotsNamed(super, n) = {}
    /\ UsedSlots(super) # Slots
    /\ StreakEnds(Taken(super), needed_blocks(SizeOf(c))) # {}
    /\ LET i == Min(Slots \ UsedSlots(super))
       IN  Begin(u, [step |-> "data", sb |-> Entered(super, i, n, c),
                     slot |-> i, file |-> c, k |-> 0])
    /\ UNCHANGED <<disk, super, block>>

\* faulty: written at the start of the disk
WriteBlock_no_offset(u) ==
    LET cmd == command[u]
        e == cmd.sb[cmd.slot]
    IN  /\ cmd.step = "data"
        /\ block' = [block EXCEPT ![cmd.k] = Piece(cmd.file, cmd.k)]
        /\ command' = [command EXCEPT ![u] =
              IF cmd.k + 1 < needed_blocks(e.size_bytes) THEN [cmd EXCEPT !.k = @ + 1]
              ELSE [step |-> "save", sb |-> cmd.sb]]
        /\ UNCHANGED <<disk, super, overlapped>>

\* One more block of data reaches the disk; save_sb() follows the last one.
WriteBlock(u) ==
    LET cmd == command[u]
        e == cmd.sb[cmd.slot]
    IN  /\ cmd.step = "data"
        /\ block' = [block EXCEPT ![e.start_block + cmd.k] = Piece(cmd.file, cmd.k)]
        /\ command' = [command EXCEPT ![u] =
              IF cmd.k + 1 < needed_blocks(e.size_bytes) THEN [cmd EXCEPT !.k = @ + 1]
              ELSE [step |-> "save", sb |-> cmd.sb]]
        /\ UNCHANGED <<disk, super, overlapped>>

\* The super block is longer than stdio's buffer and leaves in two writes; that one of
\* them alone reaches the disk (a torn directory) is left out.
save_sb(u) ==
    /\ command[u].step = "save"
    /\ disk' = "ready"
    /\ super' = command[u].sb
    /\ command' = [command EXCEPT ![u] = Idle]
    /\ UNCHANGED <<block, overlapped>>

\* -rm, up to the writing of the super block.
DeleteFile(u, n) ==
    /\ Loads(u)
    /\ SlotsNamed(super, n) # {}
    /\ Begin(u, [step |-> "save", sb |-> [super EXCEPT ![SlotNamed(super, n)] = Unused]])
    /\ UNCHANGED <<disk, super, block>>

\* -out: find the entry, then read its blocks, then write them to the local disk.
CopyFromVirtual(u, n) ==
    /\ Loads(u)
    /\ SlotsNamed(super, n) # {}
    /\ LET e == super[SlotNamed(super, n)]
       IN  Begin(u, [step |-> "read", entry |-> e, k |-> 0,
                     buffer |-> [k \in 0..(needed_blocks(e.size_bytes) - 1) |-> Zero]])
    /\ UNCHANGED <<disk, super, block>>

\* One more block of the file gets into the buffer, with stdio's reads in any portions.
ReadBlock(u) ==
    LET cmd == command[u]
        got == [cmd.buffer EXCEPT ![cmd.k] = block[cmd.entry.start_block + cmd.k]]
    IN  /\ cmd.step = "read"
        /\ command' = [command EXCEPT ![u] =
              IF cmd.k + 1 < needed_blocks(cmd.entry.size_bytes)
              THEN [cmd EXCEPT !.k = @ + 1, !.buffer = got]
              ELSE [step |-> "copied", entry |-> cmd.entry, buffer |-> got]]
        /\ UNCHANGED <<disk, super, block, overlapped>>

WriteLocal(u) ==
    /\ command[u].step = "copied"
    /\ command' = [command EXCEPT ![u] = Idle]
    /\ UNCHANGED <<disk, super, block, overlapped>>

\* A command is stopped; what it has written so far stays.
Crash(u) ==
    /\ Busy(u)
    /\ command' = [command EXCEPT ![u] = Idle]
    /\ UNCHANGED <<disk, super, block, overlapped>>

Run(u) ==
    \/ StartCreate(u) \/ FinishCreate(u) \/ RemoveDisk(u)
    \/ WriteBlock(u) \/ save_sb(u) \/ ReadBlock(u) \/ WriteLocal(u) \/ Crash(u)
    \/ \E n \in Names :
          \/ DeleteFile(u, n) \/ CopyFromVirtual(u, n)
          \/ \E c \in Contents : CopyToVirtual(u, n, c)

Next == \E u \in Users : Run(u)

Spec == Init /\ [][Next]_vars

----------------------------------------------------------------------------
\* -map: show_map() goes through the entries in the order of their blocks.

compare_entries(e, f) == e.start_block - f.start_block

\* faulty: not sorted
Sorted_as_listed(sb) == SetToSeq({sb[i] : i \in UsedSlots(sb)})

\* The entries in use, after qsort().
Sorted(sb) ==
    CHOOSE q \in SetToSeqs({sb[i] : i \in UsedSlots(sb)}) :
        \A i, j \in DOMAIN q : i < j => compare_entries(q[i], q[j]) <= 0

\* current_block after i rows of files.
CurrentBlock(sorted, i) ==
    IF i = 0 THEN 0
    ELSE sorted[i].start_block + needed_blocks(sorted[i].size_bytes)

\* The rows FREE: a gap before a file, and what is left behind the last one.
FreeRows(sorted) ==
    {[address |-> CurrentBlock(sorted, i - 1),
      size |-> sorted[i].start_block - CurrentBlock(sorted, i - 1)] :
        i \in {j \in DOMAIN sorted : sorted[j].start_block > CurrentBlock(sorted, j - 1)}}
    \cup
    LET last == CurrentBlock(sorted, Len(sorted))
    IN  IF last < BlockCount THEN {[address |-> last, size |-> BlockCount - last]} ELSE {}

----------------------------------------------------------------------------
\* Properties.

\* The types of the variables.
TypeOK ==
    /\ disk \in {"none", "truncated", "ready"}
    /\ super \in Directories
    /\ block \in [Blocks -> {Zero} \cup {Piece(c, k) : c \in Contents, k \in Blocks}]
    /\ overlapped \in BOOLEAN
    /\ DOMAIN command = Users
    /\ \A u \in Users :
          \/ command[u] \in {Idle, [step |-> "create"]}
          \/ /\ command[u] \in [step : {"data"}, sb : Directories, slot : Slots,
                                file : Contents, k : Blocks]
             /\ command[u].sb[command[u].slot].used
             /\ command[u].k < needed_blocks(command[u].sb[command[u].slot].size_bytes)
          \/ command[u] \in [step : {"save"}, sb : Directories]
          \/ command[u].step \in {"read", "copied"}

\* Entries lie on the disk and no two of them share a block.
SoundDirectory(sb) ==
    \A i \in UsedSlots(sb) :
        /\ BlocksOf(sb[i]) \subseteq Blocks
        /\ \A j \in UsedSlots(sb) \ {i} : BlocksOf(sb[i]) \cap BlocksOf(sb[j]) = {}

\* However commands interleave and stop, neither the directory on the disk nor one
\* about to be saved gives a block to two files or reaches past the disk: each
\* directory is saved whole and comes from one that was loaded whole.
NoSharedBlocks ==
    /\ SoundDirectory(super)
    /\ \A u \in Users : command[u].step \in {"data", "save"} => SoundDirectory(command[u].sb)

\* copy_to_virtual() refuses a name that exists, so two entries have the same name
\* only if it is the cut form of a longer one, whatever commands overlap.
UniqueNames ==
    \A i, j \in UsedSlots(super) :
        super[i].name = super[j].name =>
            i = j \/ \E n \in Names : n # super[i].name /\ Stored(n) = super[i].name

\* The scan with its streak counter finds the lowest run of n free blocks, and
\* finds one whenever there is one, behind a hole that is too small as well: test.sh
\* expects copy_to_virtual() to refuse a file there, and is wrong.
FirstFitRight ==
    \A n \in 1..BlockCount :
        LET runs == {s \in Blocks : s .. (s + n - 1) \subseteq Blocks \ Taken(super)}
            ends == StreakEnds(Taken(super), n)
        IN  IF runs = {} THEN ends = {} ELSE ends # {} /\ FirstFit(Taken(super), n) = Min(runs)

\* The rows FREE of the map are the free blocks, each in one row.
MapShowsFree ==
    LET rows == FreeRows(Sorted(super))
        covers(r) == r.address .. (r.address + r.size - 1)
    IN  /\ UNION {covers(r) : r \in rows} = Blocks \ Taken(super)
        /\ \A r, q \in rows : r # q => covers(r) \cap covers(q) = {}

\* A file with content c as the disk keeps it.
Image(c) ==
    [size |-> SizeOf(c), data |-> [k \in 0..(needed_blocks(SizeOf(c)) - 1) |-> Piece(c, k)]]

\* A file that is copied out is one that was copied in, whole, even while another
\* command copies a file in or deletes a different one.
CopiesOutWhole ==
    \A u \in Users :
        command[u].step = "copied" /\ ~overlapped =>
            \E c \in Contents :
                Image(c) = [size |-> command[u].entry.size_bytes, data |-> command[u].buffer]

\* The files of the directory with what their blocks contain.
Catalogue ==
    IF overlapped THEN Empty
    ELSE [i \in Slots |->
            IF ~super[i].used THEN Unused
            ELSE [used |-> TRUE, name |-> super[i].name,
                  file |-> [size |-> super[i].size_bytes,
                            data |-> [k \in 0..(needed_blocks(super[i].size_bytes) - 1) |->
                                         block[super[i].start_block + k]]]]]

Store == INSTANCE FileStore WITH
            state <- IF overlapped THEN "anything"
                     ELSE IF disk = "truncated" THEN "unreadable" ELSE disk,
            catalogue <- Catalogue,
            Files <- {Image(c) : c \in Contents}

\* As long as no two commands clash, the disk is a store of whole files: a command
\* takes effect at once, when it saves the super block, or, if it is stopped
\* before, not at all; and no file changes but the one it names.
ImplementsStore == Store!Spec
=============================================================================
