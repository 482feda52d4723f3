------------------------- MODULE VirtualDiskProofs -------------------------
(***************************************************************************)
(* The virtual disk for any number of users, blocks, entries and files.    *)
(***************************************************************************)
EXTENDS VirtualDisk, SequenceLemmas

----------------------------------------------------------------------------
(* Numbers.                                                                *)

LEMMA NeededBlocks ==
  ASSUME NEW b \in Nat
  PROVE  /\ needed_blocks(b) \in Nat
         /\ needed_blocks(b) >= 1 <=> b >= 1
BY SizesAssumption, SMTT(30) DEF needed_blocks

LEMMA MinOfNats ==
  ASSUME NEW S \in SUBSET Nat, S # {}
  PROVE  Min(S) \in S /\ \A x \in S : Min(S) <= x
<1>1. PICK x \in S : \A y \in S : x <= y
  BY LeastNat
<1> QED
  BY <1>1 DEF Min

LEMMA MinIs ==
  ASSUME NEW S \in SUBSET Nat, NEW x \in S, \A y \in S : x <= y
  PROVE  Min(S) = x
<1>1. Min(S) \in S /\ Min(S) <= x
  BY MinOfNats
<1>2. x <= Min(S) /\ Min(S) \in Nat /\ x \in Nat
  BY <1>1
<1> QED
  BY <1>1, <1>2

LEMMA MaxOfInts ==
  ASSUME NEW S \in SUBSET Int, S # {}, NEW i \in Int, \A x \in S : x <= i
  PROVE  Max(S) \in S /\ \A x \in S : x <= Max(S)
<1> DEFINE T == {i - x : x \in S}
<1>1. T \in SUBSET Nat /\ T # {}
  OBVIOUS
<1> HIDE DEF T
<1>2. PICK m \in T : \A y \in T : m <= y
  BY <1>1, LeastNat
<1>3. PICK x \in S : m = i - x
  BY <1>2 DEF T
<1>4. ASSUME NEW y \in S PROVE x >= y
  <2>1. i - y \in T
    BY DEF T
  <2> QED
    BY <1>2, <1>3, <2>1
<1>5. Max(S) \in S /\ \A y \in S : Max(S) >= y
  BY <1>4 DEF Max
<1> QED
  BY <1>5

----------------------------------------------------------------------------
(* The map of free blocks.                                                 *)

(* The block before the streak that ends in i.                             *)
LEMMA StreakIs ==
  ASSUME NEW taken \in SUBSET Nat, NEW i \in Nat
  PROVE  \E m \in Int : /\ Streak(taken, i) = i - m
                        /\ m = -1 \/ (m \in taken /\ m <= i)
                        /\ m >= -1 /\ m <= i
                        /\ \A j \in taken : j <= i => j <= m
<1> DEFINE S == {-1} \cup {j \in taken : j <= i}
<1>1. S \in SUBSET Int /\ S # {} /\ \A x \in S : x <= i
  <2>1. \A x \in S : x = -1 \/ (x \in Nat /\ x <= i)
    OBVIOUS
  <2>2. \A x \in S : x \in Int /\ x <= i
    BY <2>1
  <2> QED
    BY <2>2
<1>2. Max(S) \in S /\ \A x \in S : x <= Max(S)
  BY <1>1, MaxOfInts
<1>3. Streak(taken, i) = i - Max(S)
  BY DEF Streak
<1> HIDE DEF S
<1>4. Max(S) \in Int /\ Max(S) >= -1 /\ Max(S) <= i
  BY <1>1, <1>2 DEF S
<1>5. Max(S) = -1 \/ (Max(S) \in taken /\ Max(S) <= i)
  BY <1>2 DEF S
<1>6. \A j \in taken : j <= i => j <= Max(S)
  BY <1>2 DEF S
<1> QED
  BY <1>3, <1>4, <1>5, <1>6

(* Whose streak it is: the first block of the streak of length n, and that *)
(* the streak is free.                                                     *)
LEMMA StreakFree ==
  ASSUME NEW taken \in SUBSET Nat, NEW n \in Nat, NEW e \in StreakEnds(taken, n)
  PROVE  /\ n >= 1 /\ e \in Blocks
         /\ (e - n + 1) \in Blocks
         /\ ((e - n + 1) .. e) \subseteq Blocks \ taken
<1>1. e \in Blocks /\ e \in Nat /\ e \notin taken /\ Streak(taken, e) = n
  BY SizesAssumption DEF StreakEnds, Blocks
<1>2. PICK m \in Int : /\ Streak(taken, e) = e - m
                       /\ m = -1 \/ (m \in taken /\ m <= e)
                       /\ m >= -1 /\ m <= e
                       /\ \A j \in taken : j <= e => j <= m
  BY <1>1, StreakIs
<1>3. n = e - m /\ n >= 1
  BY <1>1, <1>2
<1>4. ((m + 1) .. e) \subseteq Blocks \ taken
  BY <1>1, <1>2, SizesAssumption DEF Blocks
<1>5. e - n + 1 = m + 1
  BY <1>1, <1>3
<1> QED
  BY <1>1, <1>2, <1>3, <1>4, <1>5

LEMMA FirstFitFree ==
  ASSUME NEW taken \in SUBSET Nat, NEW n \in Nat, StreakEnds(taken, n) # {}
  PROVE  /\ n >= 1
         /\ FirstFit(taken, n) \in Blocks
         /\ (FirstFit(taken, n) .. (FirstFit(taken, n) + n - 1)) \subseteq Blocks \ taken
<1> DEFINE e == Min(StreakEnds(taken, n))
<1>1. StreakEnds(taken, n) \in SUBSET Nat
  BY SizesAssumption DEF StreakEnds, Blocks
<1>2. e \in StreakEnds(taken, n) /\ e \in Nat
  BY <1>1, MinOfNats
<1>3. FirstFit(taken, n) = e - n + 1
  BY DEF FirstFit
<1> HIDE DEF e
<1>4. FirstFit(taken, n) + n - 1 = e
  BY <1>2, <1>3
<1> QED
  BY <1>2, <1>3, <1>4, StreakFree

(* A run of n free blocks has the end of a streak of n in front of its own *)
(* end or there.                                                           *)
LEMMA RunEnds ==
  ASSUME NEW taken \in SUBSET Nat, NEW n \in Nat, n >= 1, NEW s \in Blocks,
         (s .. (s + n - 1)) \subseteq Blocks \ taken
  PROVE  \E e \in StreakEnds(taken, n) : e - n + 1 <= s
<1> DEFINE l == s + n - 1
<1>1. s \in Nat /\ l \in Nat /\ l \in Blocks /\ l >= s
  BY SizesAssumption DEF Blocks
<1>2. PICK m \in Int : /\ m = -1 \/ (m \in taken /\ m <= l)
                       /\ m >= -1 /\ m <= l
                       /\ \A j \in taken : j <= l => j <= m
  BY <1>1, StreakIs
<1>3. m < s
  BY <1>1, <1>2
<1> DEFINE e == m + n
<1>4. e \in Nat /\ e <= l /\ e > m /\ e \in Blocks
  BY <1>1, <1>2, <1>3, SizesAssumption DEF Blocks
<1>5. e \notin taken
  BY <1>2, <1>4
<1>6. PICK p \in Int : /\ Streak(taken, e) = e - p
                       /\ p = -1 \/ (p \in taken /\ p <= e)
                       /\ p >= -1 /\ p <= e
                       /\ \A j \in taken : j <= e => j <= p
  BY <1>4, StreakIs
<1>7. p = m
  <2>1. p <= m
    BY <1>1, <1>2, <1>4, <1>6
  <2>2. m <= p
    BY <1>2, <1>4, <1>6
  <2> QED
    BY <2>1, <2>2
<1>8. e \in StreakEnds(taken, n)
  BY <1>4, <1>5, <1>6, <1>7 DEF StreakEnds
<1> QED
  BY <1>3, <1>8, <1>1

LEMMA FirstFitLowest ==
  ASSUME NEW taken \in SUBSET Nat, NEW n \in Nat, n >= 1
  PROVE  LET runs == {s \in Blocks : (s .. (s + n - 1)) \subseteq Blocks \ taken}
             ends == StreakEnds(taken, n)
         IN  IF runs = {} THEN ends = {} ELSE ends # {} /\ FirstFit(taken, n) = Min(runs)
<1> DEFINE runs == {s \in Blocks : (s .. (s + n - 1)) \subseteq Blocks \ taken}
           ends == StreakEnds(taken, n)
<1>1. ends # {} => FirstFit(taken, n) \in runs
  BY FirstFitFree
<1>2. ASSUME NEW s \in runs PROVE ends # {} /\ FirstFit(taken, n) <= s
  <2>1. PICK e \in ends : e - n + 1 <= s
    BY RunEnds
  <2>2. ends \in SUBSET Nat /\ s \in Nat
    BY SizesAssumption DEF StreakEnds, Blocks
  <2>3. Min(ends) \in Nat /\ Min(ends) <= e
    BY <2>1, <2>2, MinOfNats
  <2> QED
    BY <2>1, <2>2, <2>3 DEF FirstFit
<1>3. runs \in SUBSET Nat
  BY SizesAssumption DEF Blocks
<1> HIDE DEF runs, ends
<1>4. runs # {} => FirstFit(taken, n) = Min(runs)
  BY <1>1, <1>2, <1>3, MinIs
<1>5. IF runs = {} THEN ends = {} ELSE ends # {} /\ FirstFit(taken, n) = Min(runs)
  BY <1>1, <1>2, <1>4
<1> QED
  BY <1>5 DEF runs, ends

----------------------------------------------------------------------------
(* Directories.                                                            *)

(* What is known of one command.                                           *)
CommandOK(c) ==
    \/ c \in {Idle, [step |-> "create"]}
    \/ /\ c \in [step : {"data"}, sb : Directories, slot : Slots, file : Contents, k : Blocks]
       /\ c.sb[c.slot].used
       /\ c.k < needed_blocks(c.sb[c.slot].size_bytes)
    \/ c \in [step : {"save"}, sb : Directories]
    \/ /\ c = [step |-> "read", entry |-> c.entry, k |-> c.k, buffer |-> c.buffer]
       /\ c.entry \in Entries /\ c.k \in Nat /\ c.k < needed_blocks(c.entry.size_bytes)
    \/ c.step = "copied"

(* No two entries have the same name, but for a name that was cut.         *)
NamesKept(sb) ==
    \A i, j \in UsedSlots(sb) :
        sb[i].name = sb[j].name =>
            i = j \/ \E n \in Names : n # sb[i].name /\ Stored(n) = sb[i].name

DirectoryOK(sb) == sb \in Directories /\ SoundDirectory(sb) /\ NamesKept(sb)

(* The invariant of the directories.                                       *)
DirectoryInv ==
    /\ disk \in {"none", "truncated", "ready"}
    /\ DirectoryOK(super)
    /\ block \in [Blocks -> {Zero} \cup {Piece(c, k) : c \in Contents, k \in Blocks}]
    /\ overlapped \in BOOLEAN
    /\ DOMAIN command = Users
    /\ \A u \in Users :
          /\ CommandOK(command[u])
          /\ command[u].step \in {"data", "save"} => DirectoryOK(command[u].sb)

LEMMA EntryTypes ==
  ASSUME NEW sb \in Directories
  PROVE  /\ UsedSlots(sb) \subseteq Slots
         /\ \A i \in UsedSlots(sb) :
               /\ sb[i] \in Entries
               /\ sb[i].used = TRUE /\ sb[i].name \in Names
               /\ sb[i].start_block \in Blocks /\ sb[i].start_block \in Nat
               /\ sb[i].size_bytes \in Nat /\ sb[i].size_bytes >= 1
               /\ needed_blocks(sb[i].size_bytes) \in Nat
               /\ needed_blocks(sb[i].size_bytes) >= 1
         /\ \A i \in Slots : ~sb[i].used => sb[i] = Unused
<1>1. UsedSlots(sb) \subseteq Slots
  BY DEF UsedSlots
<1>2. ASSUME NEW i \in Slots PROVE sb[i] \in Entries \/ sb[i] = Unused
  BY DEF Directories
<1>3. ASSUME NEW e \in Entries
      PROVE  /\ e.used = TRUE /\ e.name \in Names
             /\ e.start_block \in Blocks /\ e.start_block \in Nat
             /\ e.size_bytes \in Nat /\ e.size_bytes >= 1
  <2>1. e.used = TRUE /\ e.name \in Names /\ e.start_block \in Blocks /\ e.size_bytes \in Nat \ {0}
    BY DEF Entries
  <2>2. Blocks \subseteq Nat
    BY SizesAssumption DEF Blocks
  <2>3. \A b \in Nat \ {0} : b \in Nat /\ b >= 1
    OBVIOUS
  <2> QED
    BY <2>1, <2>2, <2>3, Zenon
<1>4. Unused.used = FALSE
  BY DEF Unused
<1>5. ASSUME NEW i \in UsedSlots(sb) PROVE sb[i] \in Entries
  BY <1>2, <1>4 DEF UsedSlots
<1>6. ASSUME NEW i \in Slots, ~sb[i].used PROVE sb[i] = Unused
  BY <1>2, <1>3, <1>6
<1>7. ASSUME NEW i \in UsedSlots(sb)
      PROVE  /\ needed_blocks(sb[i].size_bytes) \in Nat
             /\ needed_blocks(sb[i].size_bytes) >= 1
  <2>1. sb[i].size_bytes \in Nat /\ sb[i].size_bytes >= 1
    BY <1>3, <1>5
  <2> QED
    BY <2>1, NeededBlocks
<1> QED
  BY <1>1, <1>3, <1>5, <1>6, <1>7

LEMMA TakenIs ==
  ASSUME NEW sb \in Directories
  PROVE  /\ Taken(sb) \in SUBSET Nat
         /\ \A i \in UsedSlots(sb) : BlocksOf(sb[i]) \subseteq Taken(sb)
<1>1. ASSUME NEW i \in UsedSlots(sb) PROVE BlocksOf(sb[i]) \subseteq Nat
  <2>1. sb[i].start_block \in Nat /\ needed_blocks(sb[i].size_bytes) \in Nat
    BY EntryTypes
  <2> QED
    BY <2>1 DEF BlocksOf
<1> QED
  BY <1>1 DEF Taken

LEMMA EmptyOK == DirectoryOK(Empty)
<1>1. Empty \in Directories
  BY DEF Empty, Directories
<1>2. UsedSlots(Empty) = {}
  BY DEF Empty, UsedSlots, Unused
<1> QED
  BY <1>1, <1>2 DEF DirectoryOK, SoundDirectory, NamesKept

(* The entry that is searched for.                                         *)
LEMMA SlotNamedIs ==
  ASSUME NEW sb \in Directories, NEW n, SlotsNamed(sb, n) # {}
  PROVE  /\ SlotNamed(sb, n) \in UsedSlots(sb)
         /\ SlotNamed(sb, n) \in Slots
         /\ sb[SlotNamed(sb, n)].name = n
<1>1. SlotsNamed(sb, n) \in SUBSET Nat
  BY DEF SlotsNamed, UsedSlots, Slots
<1>2. SlotNamed(sb, n) \in SlotsNamed(sb, n)
  BY <1>1, MinOfNats DEF SlotNamed
<1> QED
  BY <1>2 DEF SlotsNamed, UsedSlots

(* An entry is taken out.                                                  *)
LEMMA DeletedOK ==
  ASSUME NEW sb, DirectoryOK(sb), NEW i \in Slots, NEW t, t = [sb EXCEPT ![i] = Unused]
  PROVE  /\ DirectoryOK(t)
         /\ UsedSlots(t) = UsedSlots(sb) \ {i}
         /\ \A j \in Slots \ {i} : t[j] = sb[j]
<1>1. sb \in Directories
  BY DEF DirectoryOK
<1>2. t \in Directories /\ t[i] = Unused /\ \A j \in Slots \ {i} : t[j] = sb[j]
  BY <1>1 DEF Directories
<1>3. UsedSlots(t) = UsedSlots(sb) \ {i}
  BY <1>2 DEF UsedSlots, Unused
<1>4. \A j \in UsedSlots(t) : t[j] = sb[j] /\ j \in UsedSlots(sb)
  BY <1>2, <1>3 DEF UsedSlots
<1>5. SoundDirectory(t)
  BY <1>3, <1>4 DEF DirectoryOK, SoundDirectory
<1>6. NamesKept(t)
  BY <1>3, <1>4 DEF DirectoryOK, NamesKept
<1> QED
  BY <1>2, <1>3, <1>5, <1>6 DEF DirectoryOK

(* t is sb with a sound new entry i.                                       *)
IsEntered(sb, n, c, i, t) ==
    /\ i \in Slots /\ i \notin UsedSlots(sb)
    /\ DirectoryOK(t)
    /\ UsedSlots(t) = UsedSlots(sb) \cup {i}
    /\ \A j \in Slots \ {i} : t[j] = sb[j]
    /\ t[i] \in Entries
    /\ t[i].name = Stored(n) /\ t[i].size_bytes = SizeOf(c)
    /\ BlocksOf(t[i]) \subseteq Blocks \ Taken(sb)

(* An entry is added.                                                      *)
LEMMA EnteredOK ==
  ASSUME NEW sb, DirectoryOK(sb), NEW n \in Names, NEW c \in Contents,
         SlotsNamed(sb, n) = {}, UsedSlots(sb) # Slots,
         StreakEnds(Taken(sb), needed_blocks(SizeOf(c))) # {},
         NEW i, i = Min(Slots \ UsedSlots(sb)),
         NEW t, t = Entered(sb, i, n, c)
  PROVE  IsEntered(sb, n, c, i, t)
<1> DEFINE need == needed_blocks(SizeOf(c))
           start == FirstFit(Taken(sb), need)
<1>1. sb \in Directories /\ SizeOf(c) \in Nat /\ need \in Nat /\ Stored(n) \in Names
  BY SizesAssumption, NeededBlocks DEF DirectoryOK
<1>2. i \in Slots /\ i \notin UsedSlots(sb)
  <2>1. (Slots \ UsedSlots(sb)) \in SUBSET Nat /\ Slots \ UsedSlots(sb) # {}
    BY DEF Slots, UsedSlots
  <2> QED
    BY <2>1, MinOfNats
<1>3. /\ need >= 1 /\ start \in Blocks
      /\ (start .. (start + need - 1)) \subseteq Blocks \ Taken(sb)
  BY <1>1, TakenIs, FirstFitFree
<1>4. SizeOf(c) \in Nat \ {0}
  BY <1>1, <1>3, NeededBlocks
<1> DEFINE e == [used |-> TRUE, name |-> Stored(n), start_block |-> start, size_bytes |-> SizeOf(c)]
<1>5. e \in Entries
  BY <1>1, <1>3, <1>4 DEF Entries
<1>6. t = [sb EXCEPT ![i] = e]
  BY DEF Entered
<1>7. e.used = TRUE /\ e.name = Stored(n) /\ e.size_bytes = SizeOf(c) /\ e.start_block = start
  OBVIOUS
<1>8. BlocksOf(e) \subseteq Blocks \ Taken(sb)
  BY <1>3 DEF BlocksOf
<1> HIDE DEF e
<1>9. t \in Directories /\ t[i] = e /\ \A j \in Slots \ {i} : t[j] = sb[j]
  BY <1>1, <1>2, <1>5, <1>6 DEF Directories
<1>10. UsedSlots(t) = UsedSlots(sb) \cup {i}
  BY <1>2, <1>7, <1>9 DEF UsedSlots
<1>11. \A j \in UsedSlots(sb) : j # i /\ t[j] = sb[j]
  BY <1>2, <1>9 DEF UsedSlots
<1>12. SoundDirectory(t)
  <2>1. \A j \in UsedSlots(sb) : BlocksOf(sb[j]) \cap BlocksOf(e) = {}
    BY <1>1, <1>8, TakenIs
  <2> SUFFICES ASSUME NEW j \in UsedSlots(t)
               PROVE  /\ BlocksOf(t[j]) \subseteq Blocks
                      /\ \A k \in UsedSlots(t) \ {j} : BlocksOf(t[j]) \cap BlocksOf(t[k]) = {}
    BY DEF SoundDirectory
  <2>2. \A l \in UsedSlots(sb) :
           /\ BlocksOf(sb[l]) \subseteq Blocks
           /\ \A k \in UsedSlots(sb) \ {l} : BlocksOf(sb[l]) \cap BlocksOf(sb[k]) = {}
    BY DEF DirectoryOK, SoundDirectory
  <2>3. CASE j = i
    BY <2>1, <2>3, <1>8, <1>9, <1>10, <1>11
  <2>4. CASE j # i
    <3>1. j \in UsedSlots(sb) /\ t[j] = sb[j]
      BY <2>4, <1>10, <1>11
    <3>2. ASSUME NEW k \in UsedSlots(t) \ {j} PROVE BlocksOf(t[j]) \cap BlocksOf(t[k]) = {}
      <4>1. CASE k = i
        BY <4>1, <3>1, <2>1, <1>9
      <4>2. CASE k # i
        BY <4>2, <3>1, <2>2, <1>10, <1>11
      <4> QED
        BY <4>1, <4>2
    <3> QED
      BY <3>1, <3>2, <2>2
  <2> QED
    BY <2>3, <2>4
<1>13. NamesKept(t)
  <2> SUFFICES ASSUME NEW j \in UsedSlots(t), NEW k \in UsedSlots(t), t[j].name = t[k].name, j # k
               PROVE  \E m \in Names : m # t[j].name /\ Stored(m) = t[j].name
    BY DEF NamesKept
  <2>1. CASE j # i /\ k # i
    BY <2>1, <1>10, <1>11 DEF DirectoryOK, NamesKept
  <2>2. CASE j = i \/ k = i
    <3>1. t[j].name = Stored(n)
      BY <2>2, <1>7, <1>9
    <3>2. PICK l \in UsedSlots(sb) : sb[l].name = Stored(n)
      BY <2>2, <3>1, <1>7, <1>9, <1>10, <1>11
    <3>3. Stored(n) # n
      BY <3>2 DEF SlotsNamed
    <3> QED
      BY <3>1, <3>3
  <2> QED
    BY <2>1, <2>2
<1> QED
  BY <1>2, <1>5, <1>7, <1>8, <1>9, <1>10, <1>12, <1>13 DEF DirectoryOK, IsEntered

----------------------------------------------------------------------------
(* The commands keep the directories sound.                                *)

LEMMA CommandShape ==
  ASSUME NEW c, CommandOK(c)
  PROVE  /\ c.step = "data" =>
               /\ c = [step |-> "data", sb |-> c.sb, slot |-> c.slot, file |-> c.file, k |-> c.k]
               /\ c.sb \in Directories /\ c.slot \in Slots /\ c.file \in Contents
               /\ c.k \in Blocks /\ c.slot \in UsedSlots(c.sb)
               /\ c.k < needed_blocks(c.sb[c.slot].size_bytes)
         /\ c.step = "save" => c.sb \in Directories
         /\ c.step = "read" =>
               /\ c = [step |-> "read", entry |-> c.entry, k |-> c.k, buffer |-> c.buffer]
               /\ c.entry \in Entries /\ c.k \in Nat /\ c.k < needed_blocks(c.entry.size_bytes)
<1>1. Idle.step = "idle" /\ [step |-> "create"].step = "create"
  BY DEF Idle
<1>2. CASE c \in {Idle, [step |-> "create"]}
  BY <1>1, <1>2
<1>3. CASE /\ c \in [step : {"data"}, sb : Directories, slot : Slots, file : Contents, k : Blocks]
           /\ c.sb[c.slot].used
           /\ c.k < needed_blocks(c.sb[c.slot].size_bytes)
  BY <1>3 DEF UsedSlots
<1>4. CASE c \in [step : {"save"}, sb : Directories]
  BY <1>4
<1>5. CASE /\ c = [step |-> "read", entry |-> c.entry, k |-> c.k, buffer |-> c.buffer]
           /\ c.entry \in Entries /\ c.k \in Nat /\ c.k < needed_blocks(c.entry.size_bytes)
  BY <1>5
<1>6. CASE c.step = "copied"
  BY <1>6
<1> QED
  BY <1>2, <1>3, <1>4, <1>5, <1>6 DEF CommandOK

(* What a command that reads keeps when one more block is there.           *)
LEMMA OneMoreRead ==
  ASSUME NEW c, NEW g, c = [step |-> "read", entry |-> c.entry, k |-> c.k, buffer |-> c.buffer]
  PROVE  [c EXCEPT !.k = c.k + 1, !.buffer = g]
            = [step |-> "read", entry |-> c.entry, k |-> c.k + 1, buffer |-> g]
<1> DEFINE n == [c EXCEPT !.k = c.k + 1, !.buffer = g]
<1>1. DOMAIN n = {"step", "entry", "k", "buffer"}
  OBVIOUS
<1>2. n.step = "read" /\ n.entry = c.entry /\ n.k = c.k + 1 /\ n.buffer = g
  OBVIOUS
<1>3. n = [x \in DOMAIN n |-> n[x]]
  OBVIOUS
<1> HIDE DEF n
<1>4. n = [step |-> "read", entry |-> c.entry, k |-> c.k + 1, buffer |-> g]
  BY <1>1, <1>2, <1>3
<1> QED
  BY <1>4 DEF n

LEMMA NewCommand ==
  ASSUME DirectoryInv, NEW u \in Users, NEW c, CommandOK(c),
         c.step \in {"data", "save"} => DirectoryOK(c.sb),
         command' = [command EXCEPT ![u] = c]
  PROVE  /\ DOMAIN command' = Users
         /\ \A v \in Users :
               /\ CommandOK(command'[v])
               /\ command'[v].step \in {"data", "save"} => DirectoryOK(command'[v].sb)
<1>1. DOMAIN command = Users
  BY DEF DirectoryInv
<1>2. DOMAIN command' = Users /\ command'[u] = c /\ \A v \in Users \ {u} : command'[v] = command[v]
  BY <1>1
<1>3. \A v \in Users : v = u \/ v \in Users \ {u}
  OBVIOUS
<1> QED
  BY <1>2, <1>3 DEF DirectoryInv

LEMMA IdleOK == CommandOK(Idle) /\ Idle.step = "idle"
BY DEF CommandOK, Idle

LEMMA BeginOK ==
  ASSUME DirectoryInv, NEW u \in Users, NEW c, Begin(u, c)
  PROVE  command' = [command EXCEPT ![u] = c] /\ overlapped' \in BOOLEAN
<1>1. overlapped \in BOOLEAN
  BY DEF DirectoryInv
<1> QED
  BY <1>1 DEF Begin

LEMMA DirectoryInit == Init => DirectoryInv
<1> SUFFICES ASSUME Init PROVE DirectoryInv
  OBVIOUS
<1>1. DirectoryOK(super)
  BY EmptyOK DEF Init
<1>2. \A u \in Users : command[u] = Idle
  BY DEF Init
<1>3. DOMAIN command = Users
  BY DEF Init
<1>4. \A u \in Users : /\ CommandOK(command[u])
                       /\ command[u].step \in {"data", "save"} => DirectoryOK(command[u].sb)
  BY <1>2, IdleOK
<1>5. block \in [Blocks -> {Zero} \cup {Piece(c, k) : c \in Contents, k \in Blocks}]
  BY DEF Init
<1>6. disk \in {"none", "truncated", "ready"} /\ overlapped \in BOOLEAN
  BY DEF Init
<1> QED
  BY <1>1, <1>3, <1>4, <1>5, <1>6 DEF DirectoryInv

LEMMA DirectoryStep ==
  ASSUME DirectoryInv, [Next]_vars
  PROVE  DirectoryInv'
<1> DEFINE BlockType == [Blocks -> {Zero} \cup {Piece(c, k) : c \in Contents, k \in Blocks}]
           CommandsOK == /\ DOMAIN command = Users
                         /\ \A v \in Users :
                               /\ CommandOK(command[v])
                               /\ command[v].step \in {"data", "save"} => DirectoryOK(command[v].sb)
<1>1. /\ disk \in {"none", "truncated", "ready"} /\ DirectoryOK(super)
      /\ block \in BlockType /\ overlapped \in BOOLEAN /\ CommandsOK
  BY DEF DirectoryInv
<1> SUFFICES /\ disk' \in {"none", "truncated", "ready"} /\ DirectoryOK(super')
             /\ block' \in BlockType /\ overlapped' \in BOOLEAN /\ CommandsOK'
  BY DEF DirectoryInv
<1>2. CASE UNCHANGED vars
  BY <1>1, <1>2 DEF vars
<1>3. ASSUME NEW u \in Users, NEW c, CommandOK(c), command' = [command EXCEPT ![u] = c],
             c.step \in {"data", "save"} => DirectoryOK(c.sb)
      PROVE  CommandsOK'
  BY <1>3, NewCommand
<1>4. [b \in Blocks |-> Zero] \in BlockType
  OBVIOUS
<1>5. ASSUME NEW u \in Users, command' = [command EXCEPT ![u] = Idle]
      PROVE  CommandsOK'
  BY <1>3, <1>5, IdleOK
<1> HIDE DEF CommandsOK, BlockType
<1>6. CASE Next
  <2> PICK u \in Users : Run(u)
    BY <1>6 DEF Next
  <2>1. CASE StartCreate(u)
    <3>1. CommandOK([step |-> "create"]) /\ [step |-> "create"].step = "create"
      BY DEF CommandOK
    <3>2. command' = [command EXCEPT ![u] = [step |-> "create"]] /\ overlapped' \in BOOLEAN
      BY <2>1, BeginOK DEF StartCreate
    <3> QED
      BY <2>1, <1>1, <1>3, <1>4, <3>1, <3>2, EmptyOK DEF StartCreate
  <2>2. CASE FinishCreate(u)
    BY <2>2, <1>1, <1>4, <1>5, EmptyOK DEF FinishCreate
  <2>3. CASE RemoveDisk(u)
    <3>1. CommandsOK'
      BY <2>3, IdleOK DEF RemoveDisk, CommandsOK
    <3> QED
      BY <2>3, <1>1, <1>4, <3>1, EmptyOK DEF RemoveDisk
  <2>4. CASE WriteBlock(u)
    <3> DEFINE cmd == command[u]
               e == cmd.sb[cmd.slot]
               next == IF cmd.k + 1 < needed_blocks(e.size_bytes) THEN [cmd EXCEPT !.k = @ + 1]
                       ELSE [step |-> "save", sb |-> cmd.sb]
    <3>1. /\ cmd.step = "data" /\ block' = [block EXCEPT ![e.start_block + cmd.k] = Piece(cmd.file, cmd.k)]
          /\ command' = [command EXCEPT ![u] = next]
          /\ UNCHANGED <<disk, super, overlapped>>
      BY <2>4 DEF WriteBlock
    <3>2. CommandOK(cmd) /\ DirectoryOK(cmd.sb)
      BY <3>1, <1>1 DEF CommandsOK
    <3> HIDE DEF cmd
    <3>3. /\ cmd = [step |-> "data", sb |-> cmd.sb, slot |-> cmd.slot, file |-> cmd.file, k |-> cmd.k]
          /\ cmd.sb \in Directories /\ cmd.slot \in Slots /\ cmd.file \in Contents
          /\ cmd.k \in Blocks /\ cmd.slot \in UsedSlots(cmd.sb)
          /\ cmd.k < needed_blocks(e.size_bytes)
      BY <3>1, <3>2, CommandShape
    <3>4. BlocksOf(e) \subseteq Blocks
      BY <3>2, <3>3 DEF DirectoryOK, SoundDirectory
    <3>5. e.start_block \in Nat /\ needed_blocks(e.size_bytes) \in Nat
      BY <3>3, EntryTypes
    <3>6. cmd.k \in Nat
      BY <3>3, SizesAssumption DEF Blocks
    <3>7. Piece(cmd.file, cmd.k) \in {Piece(c, k) : c \in Contents, k \in Blocks}
      BY <3>3
    <3>8. block' \in BlockType
      <4> DEFINE Values == {Zero} \cup {Piece(c, k) : c \in Contents, k \in Blocks}
                 piece == Piece(cmd.file, cmd.k)
      <4>1. block \in [Blocks -> Values] /\ piece \in Values
        BY <3>7, <1>1 DEF BlockType
      <4> HIDE DEF Values, piece
      <4>2. [block EXCEPT ![e.start_block + cmd.k] = piece] \in [Blocks -> Values]
        BY <4>1
      <4> QED
        BY <3>1, <4>2 DEF BlockType, Values, piece
    <3>9. CASE cmd.k + 1 < needed_blocks(e.size_bytes)
      <4>1. e.start_block + (cmd.k + 1) \in Blocks
        BY <3>4, <3>5, <3>6, <3>9 DEF BlocksOf
      <4>2. cmd.k + 1 \in Blocks
        BY <4>1, <3>5, <3>6, SizesAssumption DEF Blocks
      <4>3. next = [step |-> "data", sb |-> cmd.sb, slot |-> cmd.slot, file |-> cmd.file, k |-> cmd.k + 1]
        BY <3>3, <3>9
      <4>4. /\ next \in [step : {"data"}, sb : Directories, slot : Slots, file : Contents, k : Blocks]
            /\ next.sb[next.slot].used /\ next.k < needed_blocks(next.sb[next.slot].size_bytes)
            /\ next.sb = cmd.sb
        BY <4>2, <4>3, <3>3, <3>9 DEF UsedSlots
      <4> HIDE DEF next
      <4>5. CommandOK(next)
        BY <4>4 DEF CommandOK
      <4> QED
        BY <4>5, <4>4, <3>1, <3>2, <3>8, <1>1, <1>3
    <3>10. CASE ~(cmd.k + 1 < needed_blocks(e.size_bytes))
      <4>1. next = [step |-> "save", sb |-> cmd.sb] /\ next.sb = cmd.sb
        BY <3>10
      <4> HIDE DEF next
      <4>2. CommandOK(next)
        BY <4>1, <3>3 DEF CommandOK
      <4> QED
        BY <4>1, <4>2, <3>1, <3>2, <3>8, <1>1, <1>3
    <3> QED
      BY <3>9, <3>10
  <2>5. CASE save_sb(u)
    <3>1. DirectoryOK(command[u].sb)
      BY <2>5, <1>1 DEF save_sb, CommandsOK
    <3> QED
      BY <2>5, <3>1, <1>1, <1>5 DEF save_sb
  <2>6. CASE ReadBlock(u)
    <3> DEFINE cmd == command[u]
               got == [cmd.buffer EXCEPT ![cmd.k] = block[cmd.entry.start_block + cmd.k]]
               next == IF cmd.k + 1 < needed_blocks(cmd.entry.size_bytes)
                       THEN [cmd EXCEPT !.k = @ + 1, !.buffer = got]
                       ELSE [step |-> "copied", entry |-> cmd.entry, buffer |-> got]
    <3>1. /\ cmd.step = "read" /\ command' = [command EXCEPT ![u] = next]
          /\ UNCHANGED <<disk, super, block, overlapped>>
      BY <2>6 DEF ReadBlock
    <3>2. /\ cmd = [step |-> "read", entry |-> cmd.entry, k |-> cmd.k, buffer |-> cmd.buffer]
          /\ cmd.entry \in Entries /\ cmd.k \in Nat
      BY <1>1, <3>1, CommandShape DEF CommandsOK
    <3> HIDE DEF cmd, got
    <3>3. CommandOK(next) /\ next.step \in {"read", "copied"}
      <4>1. CASE cmd.k + 1 < needed_blocks(cmd.entry.size_bytes)
        <5>1. next = [step |-> "read", entry |-> cmd.entry, k |-> cmd.k + 1, buffer |-> got]
          BY <3>2, <4>1, OneMoreRead
        <5> HIDE DEF next
        <5> QED
          BY <3>2, <4>1, <5>1 DEF CommandOK
      <4>2. CASE ~(cmd.k + 1 < needed_blocks(cmd.entry.size_bytes))
        <5>1. next.step = "copied"
          BY <4>2
        <5> HIDE DEF next
        <5> QED
          BY <5>1 DEF CommandOK
      <4> QED
        BY <4>1, <4>2
    <3> HIDE DEF next
    <3> QED
      BY <3>1, <3>3, <1>1, <1>3
  <2>7. CASE WriteLocal(u)
    BY <2>7, <1>1, <1>5 DEF WriteLocal
  <2>8. CASE Crash(u)
    BY <2>8, <1>1, <1>5 DEF Crash
  <2>9. ASSUME NEW n \in Names, DeleteFile(u, n)
        PROVE  /\ disk' \in {"none", "truncated", "ready"} /\ DirectoryOK(super')
               /\ block' \in BlockType /\ overlapped' \in BOOLEAN /\ CommandsOK'
    <3> DEFINE t == [super EXCEPT ![SlotNamed(super, n)] = Unused]
               next == [step |-> "save", sb |-> t]
    <3>1. SlotsNamed(super, n) # {} /\ Begin(u, next) /\ UNCHANGED <<disk, super, block>>
      BY <2>9 DEF DeleteFile
    <3>2. SlotNamed(super, n) \in Slots
      BY <3>1, <1>1, SlotNamedIs DEF DirectoryOK
    <3>3. DirectoryOK(t)
      BY <3>2, <1>1, DeletedOK
    <3> HIDE DEF t
    <3>4. next.step = "save" /\ next.sb = t /\ CommandOK(next)
      BY <3>3 DEF CommandOK, DirectoryOK
    <3> HIDE DEF next
    <3>5. command' = [command EXCEPT ![u] = next] /\ overlapped' \in BOOLEAN
      BY <3>1, BeginOK
    <3> QED
      BY <3>1, <3>3, <3>4, <3>5, <1>1, <1>3
  <2>10. ASSUME NEW n \in Names, CopyFromVirtual(u, n)
         PROVE  /\ disk' \in {"none", "truncated", "ready"} /\ DirectoryOK(super')
                /\ block' \in BlockType /\ overlapped' \in BOOLEAN /\ CommandsOK'
    <3> DEFINE e == super[SlotNamed(super, n)]
               next == [step |-> "read", entry |-> e, k |-> 0,
                        buffer |-> [k \in 0..(needed_blocks(e.size_bytes) - 1) |-> Zero]]
    <3>1. SlotsNamed(super, n) # {} /\ Begin(u, next) /\ UNCHANGED <<disk, super, block>>
      BY <2>10 DEF CopyFromVirtual
    <3>2. SlotNamed(super, n) \in UsedSlots(super) /\ super \in Directories
      BY <3>1, <1>1, SlotNamedIs DEF DirectoryOK
    <3>3. e \in Entries /\ needed_blocks(e.size_bytes) \in Nat /\ needed_blocks(e.size_bytes) >= 1
      BY <3>2, EntryTypes
    <3> HIDE DEF e
    <3>4. /\ next.step = "read" /\ next.entry = e /\ next.k = 0
          /\ next = [step |-> "read", entry |-> next.entry, k |-> next.k, buffer |-> next.buffer]
      BY Zenon
    <3> HIDE DEF next
    <3>6. CommandOK(next)
      BY <3>3, <3>4 DEF CommandOK
    <3>5. command' = [command EXCEPT ![u] = next] /\ overlapped' \in BOOLEAN
      BY <3>1, BeginOK
    <3> QED
      BY <3>1, <3>4, <3>5, <3>6, <1>1, <1>3
  <2>11. ASSUME NEW n \in Names, NEW c \in Contents, CopyToVirtual(u, n, c)
         PROVE  /\ disk' \in {"none", "truncated", "ready"} /\ DirectoryOK(super')
                /\ block' \in BlockType /\ overlapped' \in BOOLEAN /\ CommandsOK'
    <3> DEFINE i == Min(Slots \ UsedSlots(super))
               t == Entered(super, i, n, c)
               next == [step |-> "data", sb |-> t, slot |-> i, file |-> c, k |-> 0]
    <3>1. /\ SlotsNamed(super, n) = {} /\ UsedSlots(super) # Slots
          /\ StreakEnds(Taken(super), needed_blocks(SizeOf(c))) # {}
          /\ Begin(u, next) /\ UNCHANGED <<disk, super, block>>
      BY <2>11 DEF CopyToVirtual
    <3>0. i = Min(Slots \ UsedSlots(super)) /\ t = Entered(super, i, n, c)
      OBVIOUS
    <3> HIDE DEF i, t
    <3>2. IsEntered(super, n, c, i, t)
      BY <3>0, <3>1, <1>1, EnteredOK
    <3>3. t \in Directories /\ DirectoryOK(t) /\ i \in Slots /\ i \in UsedSlots(t)
      BY <3>2 DEF IsEntered, DirectoryOK
    <3>4. /\ needed_blocks(t[i].size_bytes) \in Nat /\ needed_blocks(t[i].size_bytes) >= 1
          /\ t[i].start_block \in Blocks
      BY <3>3, EntryTypes
    <3>5. 0 \in Blocks
      BY <3>4, SizesAssumption DEF Blocks
    <3>6. next \in [step : {"data"}, sb : Directories, slot : Slots, file : Contents, k : Blocks]
      BY <3>3, <3>5
    <3>7. next.step = "data" /\ next.sb = t /\ next.sb[next.slot].used
          /\ next.k < needed_blocks(next.sb[next.slot].size_bytes)
      BY <3>3, <3>4 DEF UsedSlots
    <3> HIDE DEF next
    <3>8. CommandOK(next)
      BY <3>6, <3>7 DEF CommandOK
    <3>9. command' = [command EXCEPT ![u] = next] /\ overlapped' \in BOOLEAN
      BY <3>1, BeginOK
    <3> QED
      BY <3>1, <3>3, <3>7, <3>8, <3>9, <1>1, <1>3
  <2> QED
    BY <2>1, <2>2, <2>3, <2>4, <2>5, <2>6, <2>7, <2>8, <2>9, <2>10, <2>11 DEF Run
<1> QED
  BY <1>2, <1>6

----------------------------------------------------------------------------
LEMMA DirectoryAlways == Spec => []DirectoryInv
<1>1. DirectoryInv /\ [Next]_vars => DirectoryInv'
  BY DirectoryStep
<1> QED
  BY <1>1, DirectoryInit, PTL DEF Spec

LEMMA DirectoryTypes == DirectoryInv => TypeOK
<1> SUFFICES ASSUME DirectoryInv PROVE TypeOK
  OBVIOUS
<1>1. super \in Directories
  BY DEF DirectoryInv, DirectoryOK
<1>2. ASSUME NEW u \in Users
      PROVE  \/ command[u] \in {Idle, [step |-> "create"]}
             \/ /\ command[u] \in [step : {"data"}, sb : Directories, slot : Slots,
                                   file : Contents, k : Blocks]
                /\ command[u].sb[command[u].slot].used
                /\ command[u].k < needed_blocks(command[u].sb[command[u].slot].size_bytes)
             \/ command[u] \in [step : {"save"}, sb : Directories]
             \/ command[u].step \in {"read", "copied"}
  BY DEF DirectoryInv, CommandOK
<1> QED
  BY <1>1, <1>2 DEF TypeOK, DirectoryInv

(* However commands overlap and wherever they are stopped, the variables   *)
(* keep their types: directories have sound entries, and a block written   *)
(* is on the disk.                                                         *)
THEOREM DiskTypes == Spec => []TypeOK
BY DirectoryAlways, DirectoryTypes, PTL

(* No block belongs to two files, in the directory on the disk or in one   *)
(* about to be saved, for any commands of any users in any order.          *)
THEOREM BlocksNotShared == Spec => []NoSharedBlocks
<1>1. DirectoryInv => NoSharedBlocks
  BY DEF DirectoryInv, DirectoryOK, NoSharedBlocks
<1> QED
  BY <1>1, DirectoryAlways, PTL

(* Two entries have one name only if it is what is left of a longer one.   *)
THEOREM NamesUnique == Spec => []UniqueNames
<1>1. DirectoryInv => UniqueNames
  BY DEF DirectoryInv, DirectoryOK, NamesKept, UniqueNames
<1> QED
  BY <1>1, DirectoryAlways, PTL

(* The scan of copy_to_virtual() finds the lowest run that is long enough  *)
(* whenever there is one, for any directory that can be on the disk.       *)
THEOREM ScanRight == Spec => []FirstFitRight
<1>1. DirectoryInv => FirstFitRight
  <2> SUFFICES ASSUME DirectoryInv, NEW n \in 1..BlockCount
               PROVE  LET runs == {s \in Blocks : s .. (s + n - 1) \subseteq Blocks \ Taken(super)}
                          ends == StreakEnds(Taken(super), n)
                      IN  IF runs = {} THEN ends = {}
                          ELSE ends # {} /\ FirstFit(Taken(super), n) = Min(runs)
    BY DEF FirstFitRight
  <2>1. Taken(super) \in SUBSET Nat
    BY TakenIs DEF DirectoryInv, DirectoryOK
  <2>2. n \in Nat /\ n >= 1
    BY SizesAssumption
  <2> QED
    BY <2>1, <2>2, FirstFitLowest
<1> QED
  BY <1>1, DirectoryAlways, PTL
----------------------------------------------------------------------------
(***************************************************************************)
(* As long as no two commands clash the virtual disk is a store of whole   *)
(* files.  The invariant says how far each command has come: what it is    *)
(* about to save is the directory on the disk with one entry more, whose   *)
(* blocks have been written, or with one entry less.                       *)
(***************************************************************************)
Size(e) == needed_blocks(e.size_bytes)

(* In the blocks b, those of entry e contain c.                            *)
HoldsFile(b, e, c) ==
    /\ e.size_bytes = SizeOf(c)
    /\ \A k \in 0..(Size(e) - 1) : b[e.start_block + k] = Piece(c, k)

AllWhole(b, sb) == \A i \in UsedSlots(sb) : \E c \in Contents : HoldsFile(b, sb[i], c)

SameBut(old, sb, i) == \A j \in Slots \ {i} : sb[j] = old[j]

(* sb is the directory old with a new entry i.                             *)
IsNew(old, sb, i) ==
    /\ i \in Slots /\ i \notin UsedSlots(old) /\ i \in UsedSlots(sb)
    /\ SameBut(old, sb, i)
    /\ \E n \in Names : SlotsNamed(old, n) = {} /\ sb[i].name = Stored(n)

(* A file is being copied in, and the first k blocks are there.            *)
Writing(old, b, cmd) ==
    LET e == cmd.sb[cmd.slot]
    IN  /\ IsNew(old, cmd.sb, cmd.slot)
        /\ e.size_bytes = SizeOf(cmd.file)
        /\ \A j \in 0..(cmd.k - 1) : b[e.start_block + j] = Piece(cmd.file, j)

Adding(old, b, sb) ==
    \E i \in Slots, c \in Contents : IsNew(old, sb, i) /\ HoldsFile(b, sb[i], c)

Deleting(old, sb) ==
    \E i \in UsedSlots(old) : SameBut(old, sb, i) /\ sb[i] = Unused

(* A file is being copied out, and the first k blocks are in the buffer.   *)
Reading(old, b, cmd) ==
    /\ \E i \in UsedSlots(old) : cmd.entry = old[i]
    /\ \E c \in Contents :
          /\ HoldsFile(b, cmd.entry, c)
          /\ cmd.buffer = [j \in 0..(Size(cmd.entry) - 1) |->
                              IF j < cmd.k THEN Piece(c, j) ELSE Zero]

IsImage(cmd) ==
    \E c \in Contents : Image(c) = [size |-> cmd.entry.size_bytes, data |-> cmd.buffer]

(* How far a command has come, on a disk d with directory old and blocks b. *)
Fits(d, old, b, cmd) ==
    /\ cmd.step = "create" => d = "truncated"
    /\ cmd.step \in {"data", "save", "read"} => d = "ready"
    /\ cmd.step = "data" => Writing(old, b, cmd)
    /\ cmd.step = "save" => Adding(old, b, cmd.sb) \/ Deleting(old, cmd.sb)
    /\ cmd.step = "read" => Reading(old, b, cmd)
    /\ cmd.step = "copied" => IsImage(cmd)

NoClash == \A u, v \in Users : u # v => ~Clash(command[u], command[v])

FileInv ==
    /\ disk # "ready" => super = Empty
    /\ ~overlapped => /\ AllWhole(block, super)
                      /\ NoClash
                      /\ \A u \in Users : Fits(disk, super, block, command[u])

----------------------------------------------------------------------------
LEMMA EmptyUnused == UsedSlots(Empty) = {}
BY DEF Empty, UsedSlots, Unused

LEMMA EmptyWhole ==
  ASSUME NEW b
  PROVE  AllWhole(b, Empty)
BY EmptyUnused DEF AllWhole

LEMMA IdleFits ==
  ASSUME NEW d, NEW old, NEW b
  PROVE  Fits(d, old, b, Idle) /\ ~Writes(Idle)
BY DEF Fits, Idle, Writes

(* A command that clashes with nobody begins.                              *)
LEMMA BeginClear ==
  ASSUME DirectoryInv, FileInv, NEW u \in Users, NEW c, Begin(u, c), ~overlapped'
  PROVE  /\ ~overlapped
         /\ command' = [command EXCEPT ![u] = c]
         /\ command'[u] = c /\ \A v \in Users \ {u} : command'[v] = command[v]
         /\ \A v \in Users \ {u} : ~Clash(c, command[v]) /\ ~Clash(command[v], c)
         /\ NoClash'
<1>1. DOMAIN command = Users /\ overlapped \in BOOLEAN
  BY DEF DirectoryInv
<1>2. /\ command' = [command EXCEPT ![u] = c]
      /\ overlapped' = (overlapped \/ \E v \in Users \ {u} :
                           Clash(c, command[v]) \/ Clash(command[v], c))
  BY DEF Begin
<1>3. /\ ~overlapped
      /\ \A v \in Users \ {u} : ~Clash(c, command[v]) /\ ~Clash(command[v], c)
  BY <1>1, <1>2
<1>4. command'[u] = c /\ \A v \in Users \ {u} : command'[v] = command[v]
  BY <1>1, <1>2
<1>5. \A v, w \in Users : v # w => ~Clash(command'[v], command'[w])
  <2> SUFFICES ASSUME NEW v \in Users, NEW w \in Users, v # w
               PROVE  ~Clash(command'[v], command'[w])
    OBVIOUS
  <2>1. CASE v = u
    BY <2>1, <1>3, <1>4
  <2>2. CASE w = u
    BY <2>2, <1>3, <1>4
  <2>3. CASE v # u /\ w # u
    BY <2>3, <1>3, <1>4 DEF FileInv, NoClash
  <2> QED
    BY <2>1, <2>2, <2>3
<1>6. NoClash'
  BY <1>5 DEF NoClash, Clash, Writes
<1> QED
  BY <1>2, <1>3, <1>4, <1>6

(* A command goes on to a step that clashes with no more than it did.      *)
LEMMA GoesOn ==
  ASSUME DirectoryInv, FileInv, ~overlapped, NEW u \in Users, NEW c,
         command' = [command EXCEPT ![u] = c],
         \A d : (Clash(c, d) => Clash(command[u], d)) /\ (Clash(d, c) => Clash(d, command[u]))
  PROVE  /\ command'[u] = c /\ \A v \in Users \ {u} : command'[v] = command[v]
         /\ NoClash'
<1>1. DOMAIN command = Users
  BY DEF DirectoryInv
<1>2. command'[u] = c /\ \A v \in Users \ {u} : command'[v] = command[v]
  BY <1>1
<1>3. \A v, w \in Users : v # w => ~Clash(command'[v], command'[w])
  <2> SUFFICES ASSUME NEW v \in Users, NEW w \in Users, v # w
               PROVE  ~Clash(command'[v], command'[w])
    OBVIOUS
  <2>1. ~Clash(command[v], command[w])
    BY DEF FileInv, NoClash
  <2>2. CASE v = u
    BY <2>1, <2>2, <1>2
  <2>3. CASE w = u
    BY <2>1, <2>3, <1>2
  <2>4. CASE v # u /\ w # u
    BY <2>1, <2>4, <1>2
  <2> QED
    BY <2>2, <2>3, <2>4
<1>4. NoClash'
  BY <1>3 DEF NoClash, Clash, Writes
<1> QED
  BY <1>2, <1>4

(* Next to a command that writes nobody else does, and what is read stays. *)
LEMMA OneWriter ==
  ASSUME FileInv, ~overlapped, NEW u \in Users, Writes(command[u]), NEW v \in Users \ {u}
  PROVE  /\ command[v].step \notin {"create", "data", "save"}
         /\ command[v].step = "read" =>
               command[u].step # "create" /\ command[v].entry \in Range(command[u].sb)
<1>1. ~Clash(command[u], command[v])
  BY DEF FileInv, NoClash
<1> QED
  BY <1>1 DEF Clash, Writes

(* A step that leaves the disk alone leaves the other commands where they  *)
(* are.                                                                    *)
LEMMA DiskAlone ==
  ASSUME FileInv, ~overlapped, UNCHANGED <<disk, super, block>>,
         NEW u \in Users, \A v \in Users \ {u} : command'[v] = command[v],
         Fits(disk, super, block, command'[u]), NoClash'
  PROVE  FileInv'
<1>1. \A v \in Users : Fits(disk', super', block', command'[v])
  BY DEF FileInv
<1> QED
  BY <1>1 DEF FileInv

(* A directory with one entry more or less is as whole as the one before.  *)
LEMMA AddingWhole ==
  ASSUME NEW old, NEW b, NEW sb, AllWhole(b, old), Adding(old, b, sb) \/ Deleting(old, sb)
  PROVE  AllWhole(b, sb)
<1>1. CASE Adding(old, b, sb)
  <2>1. PICK i \in Slots, c \in Contents : IsNew(old, sb, i) /\ HoldsFile(b, sb[i], c)
    BY <1>1 DEF Adding
  <2>2. \A j \in UsedSlots(sb) : j = i \/ (j \in UsedSlots(old) /\ sb[j] = old[j])
    BY <2>1 DEF IsNew, SameBut, UsedSlots
  <2> QED
    BY <2>1, <2>2 DEF AllWhole
<1>2. CASE Deleting(old, sb)
  <2>1. \A j \in UsedSlots(sb) : j \in UsedSlots(old) /\ sb[j] = old[j]
    BY <1>2 DEF Deleting, SameBut, UsedSlots, Unused
  <2> QED
    BY <2>1 DEF AllWhole
<1> QED
  BY <1>1, <1>2

LEMMA FileInit == Init => FileInv
<1> SUFFICES ASSUME Init PROVE FileInv
  OBVIOUS
<1>1. super = Empty /\ \A u \in Users : command[u] = Idle
  BY DEF Init
<1>2. AllWhole(block, super) /\ \A u \in Users : Fits(disk, super, block, command[u])
  BY <1>1, EmptyWhole, IdleFits
<1>3. NoClash
  BY <1>1, IdleFits DEF NoClash, Clash
<1> QED
  BY <1>1, <1>2, <1>3 DEF FileInv

(* The block that is written belongs to no file of the directory.          *)
LEMMA WrittenApart ==
  ASSUME DirectoryInv, NEW u \in Users, command[u].step = "data",
         Writing(super, block, command[u]), NEW i \in UsedSlots(super)
  PROVE  LET e == command[u].sb[command[u].slot]
         IN  \A k \in 0..(Size(super[i]) - 1) : super[i].start_block + k # e.start_block + command[u].k
<1> DEFINE cmd == command[u]
           sb == cmd.sb
           e == sb[cmd.slot]
<1>1. CommandOK(cmd) /\ DirectoryOK(sb) /\ DirectoryOK(super)
  BY DEF DirectoryInv
<1>2. /\ sb \in Directories /\ super \in Directories /\ cmd.slot \in UsedSlots(sb)
      /\ cmd.k \in Nat /\ cmd.k < Size(e)
  BY <1>1, CommandShape, SizesAssumption DEF DirectoryOK, Blocks, Size
<1>3. e.start_block \in Nat /\ Size(e) \in Nat
  BY <1>2, EntryTypes DEF Size
<1>4. super[i].start_block \in Nat /\ Size(super[i]) \in Nat
  BY <1>2, EntryTypes DEF Size
<1>5. IsNew(super, sb, cmd.slot)
  BY DEF Writing
<1>6. i # cmd.slot /\ sb[i] = super[i] /\ i \in UsedSlots(sb)
  BY <1>5 DEF IsNew, SameBut, UsedSlots
<1>7. BlocksOf(sb[i]) \cap BlocksOf(e) = {}
  BY <1>1, <1>2, <1>6 DEF DirectoryOK, SoundDirectory
<1>8. e.start_block + cmd.k \in BlocksOf(e)
  BY <1>2, <1>3 DEF BlocksOf, Size
<1>9. ASSUME NEW k \in 0..(Size(super[i]) - 1) PROVE super[i].start_block + k \in BlocksOf(super[i])
  BY <1>4, <1>9 DEF BlocksOf, Size
<1> QED
  BY <1>6, <1>7, <1>8, <1>9

(* Writing a block.                                                        *)
LEMMA FileWriteBlock ==
  ASSUME DirectoryInv, FileInv, ~overlapped, NEW u \in Users, WriteBlock(u)
  PROVE  /\ FileInv'
         /\ \A i \in UsedSlots(super) : \A k \in 0..(Size(super[i]) - 1) :
               block'[super[i].start_block + k] = block[super[i].start_block + k]
<1> DEFINE cmd == command[u]
           e == cmd.sb[cmd.slot]
           next == IF cmd.k + 1 < needed_blocks(e.size_bytes) THEN [cmd EXCEPT !.k = @ + 1]
                   ELSE [step |-> "save", sb |-> cmd.sb]
<1>1. /\ cmd.step = "data" /\ block' = [block EXCEPT ![e.start_block + cmd.k] = Piece(cmd.file, cmd.k)]
      /\ command' = [command EXCEPT ![u] = next]
      /\ UNCHANGED <<disk, super, overlapped>>
  BY DEF WriteBlock
<1>2. CommandOK(cmd) /\ DirectoryOK(cmd.sb) /\ DOMAIN command = Users
  BY <1>1 DEF DirectoryInv
<1>3. Writing(super, block, cmd) /\ disk = "ready"
  BY <1>1 DEF FileInv, Fits
<1>4. \A i \in UsedSlots(super) : \A k \in 0..(Size(super[i]) - 1) :
         super[i].start_block + k # e.start_block + cmd.k
  BY <1>1, <1>3, WrittenApart
<1> HIDE DEF cmd
<1>5. /\ cmd = [step |-> "data", sb |-> cmd.sb, slot |-> cmd.slot, file |-> cmd.file, k |-> cmd.k]
      /\ cmd.sb \in Directories /\ cmd.file \in Contents /\ cmd.slot \in UsedSlots(cmd.sb)
      /\ cmd.k \in Blocks /\ cmd.k < Size(e)
  BY <1>1, <1>2, CommandShape DEF Size
<1>6. /\ e.start_block \in Nat /\ Size(e) \in Nat /\ cmd.k \in Nat
      /\ BlocksOf(e) \subseteq Blocks
  <2>1. e.start_block \in Nat /\ Size(e) \in Nat
    BY <1>5, EntryTypes DEF Size
  <2>2. cmd.k \in Nat
    BY <1>5 DEF Blocks
  <2>3. BlocksOf(e) \subseteq Blocks
    BY <1>2, <1>5 DEF DirectoryOK, SoundDirectory
  <2> QED
    BY <2>1, <2>2, <2>3
<1>7. e.start_block + cmd.k \in Blocks
  BY <1>5, <1>6 DEF BlocksOf, Size
<1>8. DOMAIN block = Blocks
  BY DEF DirectoryInv
<1>9. /\ block'[e.start_block + cmd.k] = Piece(cmd.file, cmd.k)
      /\ \A x \in Blocks : x # e.start_block + cmd.k => block'[x] = block[x]
  BY <1>1, <1>7, <1>8
<1>10. \A i \in UsedSlots(super) : \A k \in 0..(Size(super[i]) - 1) :
               block'[super[i].start_block + k] = block[super[i].start_block + k]
  <2> SUFFICES ASSUME NEW i \in UsedSlots(super), NEW k \in 0..(Size(super[i]) - 1)
               PROVE  block'[super[i].start_block + k] = block[super[i].start_block + k]
    OBVIOUS
  <2>1. super[i].start_block + k \in BlocksOf(super[i])
    <3>1. super[i].start_block \in Nat /\ Size(super[i]) \in Nat
      <4>1. super \in Directories
        BY DEF DirectoryInv, DirectoryOK
      <4> QED
        BY <4>1, EntryTypes DEF Size
    <3> QED
      BY <3>1 DEF BlocksOf, Size
  <2>2. BlocksOf(super[i]) \subseteq Blocks
    BY DEF DirectoryInv, DirectoryOK, SoundDirectory
  <2> QED
    BY <2>1, <2>2, <1>4, <1>9
<1>11. AllWhole(block', super)
  BY <1>1, <1>10 DEF FileInv, AllWhole, HoldsFile
<1>12. \A j \in 0..cmd.k : block'[e.start_block + j] = Piece(cmd.file, j)
  <2> SUFFICES ASSUME NEW j \in 0..cmd.k PROVE block'[e.start_block + j] = Piece(cmd.file, j)
    OBVIOUS
  <2>1. CASE j = cmd.k
    BY <2>1, <1>9
  <2>2. CASE j # cmd.k
    <3>1. j \in 0..(cmd.k - 1) /\ j \in Nat
      BY <2>2, <1>6
    <3>2. e.start_block + j \in Blocks
      BY <1>5, <1>6, <3>1 DEF BlocksOf, Size
    <3> QED
      BY <3>1, <3>2, <1>3, <1>6, <1>9 DEF Writing
  <2> QED
    BY <2>1, <2>2
<1>13. IsNew(super, cmd.sb, cmd.slot) /\ e.size_bytes = SizeOf(cmd.file)
  BY <1>3 DEF Writing
<1>14. Fits(disk, super, block', next) /\ next.sb = cmd.sb /\ Writes(next) /\ next.step # "create"
  <2>1. CASE cmd.k + 1 < needed_blocks(e.size_bytes)
    <3>1. next = [step |-> "data", sb |-> cmd.sb, slot |-> cmd.slot, file |-> cmd.file, k |-> cmd.k + 1]
      BY <2>1, <1>5
    <3> HIDE DEF next
    <3>2. /\ next.step = "data" /\ next.sb = cmd.sb /\ next.slot = cmd.slot
          /\ next.file = cmd.file /\ next.k = cmd.k + 1
      BY <3>1
    <3>3. Writing(super, block', next)
      <4>1. 0..(next.k - 1) = 0..cmd.k
        BY <3>2, <1>6
      <4> QED
        BY <3>2, <4>1, <1>12, <1>13 DEF Writing
    <3> QED
      BY <3>2, <3>3, <1>3 DEF Fits, Writes
  <2>2. CASE ~(cmd.k + 1 < needed_blocks(e.size_bytes))
    <3>1. next = [step |-> "save", sb |-> cmd.sb]
      BY <2>2
    <3> HIDE DEF next
    <3>2. next.step = "save" /\ next.sb = cmd.sb
      BY <3>1
    <3>3. 0..(Size(e) - 1) = 0..cmd.k
      BY <2>2, <1>5, <1>6 DEF Size
    <3>4. HoldsFile(block', e, cmd.file)
      BY <3>3, <1>12, <1>13 DEF HoldsFile
    <3>5. Adding(super, block', cmd.sb)
      BY <3>4, <1>5, <1>13 DEF Adding, IsNew
    <3> QED
      BY <3>2, <3>5, <1>3 DEF Fits, Writes
  <2> QED
    BY <2>1, <2>2
<1> HIDE DEF next
<1>15. \A d : (Clash(next, d) => Clash(cmd, d)) /\ (Clash(d, next) => Clash(d, cmd))
  BY <1>1, <1>14 DEF Clash, Writes
<1>16. /\ command'[u] = next /\ \A v \in Users \ {u} : command'[v] = command[v]
       /\ NoClash'
  BY <1>1, <1>15, GoesOn DEF cmd
<1>17. ASSUME NEW v \in Users \ {u} PROVE Fits(disk', super', block', command'[v])
  <2>1. command[v].step \notin {"create", "data", "save"}
    BY <1>1, OneWriter DEF cmd, Writes
  <2>2. Fits(disk, super, block, command[v])
    BY DEF FileInv
  <2>3. Reading(super, block, command[v]) => Reading(super, block', command[v])
    BY <1>10 DEF Reading, HoldsFile
  <2> QED
    BY <2>1, <2>2, <2>3, <1>1, <1>16 DEF Fits
<1>18. \A v \in Users : Fits(disk', super', block', command'[v])
  BY <1>1, <1>14, <1>16, <1>17
<1>19. FileInv'
  BY <1>1, <1>11, <1>16, <1>18 DEF FileInv
<1> QED
  BY <1>10, <1>19

(* Saving the super block.                                                 *)
LEMMA FileSave ==
  ASSUME DirectoryInv, FileInv, ~overlapped, NEW u \in Users, save_sb(u)
  PROVE  FileInv'
<1> DEFINE cmd == command[u]
<1>1. /\ cmd.step = "save" /\ disk' = "ready" /\ super' = cmd.sb
      /\ command' = [command EXCEPT ![u] = Idle]
      /\ UNCHANGED <<block, overlapped>>
  BY DEF save_sb
<1>2. CommandOK(cmd) /\ DirectoryOK(cmd.sb)
  BY <1>1 DEF DirectoryInv
<1>3. Adding(super, block, cmd.sb) \/ Deleting(super, cmd.sb)
  BY <1>1 DEF FileInv, Fits
<1>4. AllWhole(block, cmd.sb)
  BY <1>3, AddingWhole DEF FileInv
<1> HIDE DEF cmd
<1>5. \A d : (Clash(Idle, d) => Clash(cmd, d)) /\ (Clash(d, Idle) => Clash(d, cmd))
  BY <1>1 DEF Clash, Writes, Idle
<1>6. /\ command'[u] = Idle /\ \A v \in Users \ {u} : command'[v] = command[v]
      /\ NoClash'
  BY <1>1, <1>5, GoesOn DEF cmd
<1>7. ASSUME NEW v \in Users \ {u} PROVE Fits(disk', super', block', command'[v])
  <2>1. Writes(cmd)
    BY <1>1 DEF Writes
  <2>2. /\ command[v].step \notin {"create", "data", "save"}
        /\ command[v].step = "read" => command[v].entry \in Range(cmd.sb)
    BY <2>1, OneWriter DEF cmd
  <2>3. Fits(disk, super, block, command[v])
    BY DEF FileInv
  <2>4. command[v].step = "read" => \E i \in UsedSlots(cmd.sb) : command[v].entry = cmd.sb[i]
    <3> SUFFICES ASSUME command[v].step = "read"
                 PROVE  \E i \in UsedSlots(cmd.sb) : command[v].entry = cmd.sb[i]
      OBVIOUS
    <3>1. DOMAIN cmd.sb = Slots
      BY <1>2 DEF DirectoryOK, Directories
    <3>2. PICK i \in Slots : command[v].entry = cmd.sb[i]
      BY <2>2, <3>1 DEF Range
    <3>3. PICK j \in UsedSlots(super) : command[v].entry = super[j]
      BY <2>3 DEF Fits, Reading
    <3>4. cmd.sb[i].used
      BY <3>2, <3>3 DEF UsedSlots
    <3> QED
      BY <3>2, <3>4 DEF UsedSlots
  <2> QED
    BY <2>2, <2>3, <2>4, <1>1, <1>6 DEF Fits, Reading
<1>8. \A v \in Users : Fits(disk', super', block', command'[v])
  BY <1>6, <1>7, IdleFits
<1> QED
  BY <1>1, <1>4, <1>6, <1>8 DEF FileInv

(* A new disk: everybody else is done, or has what it needs.               *)
LEMMA NewDisk ==
  ASSUME FileInv, NEW u \in Users, super' = Empty, NoClash', ~overlapped,
         \A v \in Users \ {u} :
             /\ command'[v] = command[v]
             /\ command[v].step \notin {"create", "data", "save", "read"},
         Fits(disk', super', block', command'[u])
  PROVE  FileInv'
<1>1. ASSUME NEW v \in Users \ {u} PROVE Fits(disk', super', block', command'[v])
  <2>1. Fits(disk, super, block, command[v])
    BY DEF FileInv
  <2> QED
    BY <2>1 DEF Fits
<1>2. \A v \in Users : Fits(disk', super', block', command'[v])
  BY <1>1
<1>3. AllWhole(block', super')
  BY EmptyWhole
<1> QED
  BY <1>2, <1>3 DEF FileInv

LEMMA FileStartCreate ==
  ASSUME DirectoryInv, FileInv, ~overlapped', NEW u \in Users, StartCreate(u)
  PROVE  FileInv'
<1> DEFINE cmd == [step |-> "create"]
<1>1. Begin(u, cmd) /\ disk' = "truncated" /\ super' = Empty
  BY DEF StartCreate
<1>2. cmd.step = "create"
  OBVIOUS
<1> HIDE DEF cmd
<1>3. /\ ~overlapped /\ NoClash' /\ command'[u] = cmd
      /\ \A v \in Users \ {u} : command'[v] = command[v] /\ ~Clash(cmd, command[v])
  BY <1>1, BeginClear
<1>4. \A v \in Users \ {u} : command[v].step \notin {"create", "data", "save", "read"}
  BY <1>2, <1>3 DEF Clash, Writes
<1>5. Fits(disk', super', block', cmd)
  BY <1>1, <1>2 DEF Fits
<1> QED
  BY <1>1, <1>3, <1>4, <1>5, NewDisk

LEMMA FileFinishCreate ==
  ASSUME DirectoryInv, FileInv, ~overlapped, NEW u \in Users, FinishCreate(u)
  PROVE  FileInv'
<1> DEFINE cmd == command[u]
<1>1. /\ cmd.step = "create" /\ super' = Empty /\ command' = [command EXCEPT ![u] = Idle]
  BY DEF FinishCreate
<1>2. Writes(cmd)
  BY <1>1 DEF Writes
<1>3. \A v \in Users \ {u} : command[v].step \notin {"create", "data", "save", "read"}
  BY <1>1, <1>2, OneWriter
<1> HIDE DEF cmd
<1>4. \A d : (Clash(Idle, d) => Clash(cmd, d)) /\ (Clash(d, Idle) => Clash(d, cmd))
  BY <1>1 DEF Clash, Writes, Idle
<1>5. /\ command'[u] = Idle /\ \A v \in Users \ {u} : command'[v] = command[v]
      /\ NoClash'
  BY <1>1, <1>4, GoesOn DEF cmd
<1> QED
  BY <1>1, <1>3, <1>5, IdleFits, NewDisk

LEMMA FileRemove ==
  ASSUME DirectoryInv, FileInv, NEW u \in Users, RemoveDisk(u)
  PROVE  FileInv'
<1>1. super' = Empty /\ \A v \in Users : command'[v] = Idle
  BY DEF RemoveDisk
<1>2. AllWhole(block', super') /\ \A v \in Users : Fits(disk', super', block', command'[v])
  BY <1>1, EmptyWhole, IdleFits
<1>3. \A v, w \in Users : ~Clash(command'[v], command'[w])
  BY <1>1, IdleFits DEF Clash
<1>4. NoClash'
  BY <1>3 DEF NoClash, Clash, Writes
<1> QED
  BY <1>1, <1>2, <1>4 DEF FileInv

(* A command that leaves the disk alone begins.                            *)
LEMMA FileBegin ==
  ASSUME DirectoryInv, FileInv, ~overlapped', UNCHANGED <<disk, super, block>>,
         NEW u \in Users, NEW c, Begin(u, c), Fits(disk, super, block, c)
  PROVE  FileInv'
BY BeginClear, DiskAlone

LEMMA FileCopyTo ==
  ASSUME DirectoryInv, FileInv, ~overlapped', NEW u \in Users,
         NEW n \in Names, NEW c \in Contents, CopyToVirtual(u, n, c)
  PROVE  FileInv'
<1> DEFINE i == Min(Slots \ UsedSlots(super))
           t == Entered(super, i, n, c)
           next == [step |-> "data", sb |-> t, slot |-> i, file |-> c, k |-> 0]
<1>1. /\ SlotsNamed(super, n) = {} /\ UsedSlots(super) # Slots
      /\ StreakEnds(Taken(super), needed_blocks(SizeOf(c))) # {}
      /\ Begin(u, next) /\ UNCHANGED <<disk, super, block>> /\ disk = "ready"
  BY DEF CopyToVirtual, Loads
<1>2. i = Min(Slots \ UsedSlots(super)) /\ t = Entered(super, i, n, c)
  OBVIOUS
<1> HIDE DEF i, t
<1>3. DirectoryOK(super)
  BY DEF DirectoryInv
<1>4. IsEntered(super, n, c, i, t)
  BY <1>1, <1>2, <1>3, EnteredOK
<1>5. /\ next.step = "data" /\ next.sb = t /\ next.slot = i /\ next.file = c /\ next.k = 0
  OBVIOUS
<1> HIDE DEF next
<1>6. IsNew(super, t, i) /\ t[i].size_bytes = SizeOf(c)
  BY <1>1, <1>4 DEF IsEntered, IsNew, SameBut
<1>7. 0..(next.k - 1) = {}
  BY <1>5
<1>8. Writing(super, block, next)
  BY <1>5, <1>6, <1>7 DEF Writing
<1>9. Fits(disk, super, block, next)
  BY <1>1, <1>5, <1>8 DEF Fits
<1> QED
  BY <1>1, <1>9, FileBegin

LEMMA FileDelete ==
  ASSUME DirectoryInv, FileInv, ~overlapped', NEW u \in Users, NEW n \in Names, DeleteFile(u, n)
  PROVE  FileInv'
<1> DEFINE i == SlotNamed(super, n)
           t == [super EXCEPT ![i] = Unused]
           next == [step |-> "save", sb |-> t]
<1>1. /\ SlotsNamed(super, n) # {} /\ Begin(u, next)
      /\ UNCHANGED <<disk, super, block>> /\ disk = "ready"
  BY DEF DeleteFile, Loads
<1>2. super \in Directories
  BY DEF DirectoryInv, DirectoryOK
<1>3. i \in UsedSlots(super) /\ i \in Slots
  BY <1>1, <1>2, SlotNamedIs
<1>4. next.step = "save" /\ next.sb = t
  OBVIOUS
<1> HIDE DEF i
<1>5. t[i] = Unused /\ \A j \in Slots \ {i} : t[j] = super[j]
  BY <1>2, <1>3 DEF Directories
<1> HIDE DEF t, next
<1>6. Deleting(super, t)
  BY <1>3, <1>5 DEF Deleting, SameBut
<1>7. Fits(disk, super, block, next)
  BY <1>1, <1>4, <1>6 DEF Fits
<1> QED
  BY <1>1, <1>7, FileBegin

LEMMA FileCopyFrom ==
  ASSUME DirectoryInv, FileInv, ~overlapped', NEW u \in Users, NEW n \in Names,
         CopyFromVirtual(u, n)
  PROVE  FileInv'
<1> DEFINE e == super[SlotNamed(super, n)]
           next == [step |-> "read", entry |-> e, k |-> 0,
                    buffer |-> [k \in 0..(needed_blocks(e.size_bytes) - 1) |-> Zero]]
<1>1. /\ SlotsNamed(super, n) # {} /\ Begin(u, next)
      /\ UNCHANGED <<disk, super, block>> /\ disk = "ready" /\ ~overlapped
  BY DEF CopyFromVirtual, Loads, Begin, DirectoryInv
<1>2. super \in Directories
  BY DEF DirectoryInv, DirectoryOK
<1>3. SlotNamed(super, n) \in UsedSlots(super)
  BY <1>1, <1>2, SlotNamedIs
<1>4. PICK c \in Contents : HoldsFile(block, e, c)
  BY <1>1, <1>3 DEF FileInv, AllWhole
<1>5. /\ next.step = "read" /\ next.entry = e /\ next.k = 0
      /\ next.buffer = [k \in 0..(Size(e) - 1) |-> Zero]
  BY DEF Size
<1> HIDE DEF next
<1>6. next.buffer = [j \in 0..(Size(e) - 1) |-> IF j < next.k THEN Piece(c, j) ELSE Zero]
  BY <1>5
<1>7. Fits(disk, super, block, next)
  BY <1>1, <1>3, <1>4, <1>5, <1>6 DEF Fits, Reading
<1> QED
  BY <1>1, <1>7, FileBegin

(* What ReadBlock() has in its buffer in the end is a file.                *)
LEMMA FileRead ==
  ASSUME DirectoryInv, FileInv, ~overlapped, NEW u \in Users, ReadBlock(u)
  PROVE  FileInv'
<1> DEFINE cmd == command[u]
           e == cmd.entry
           got == [cmd.buffer EXCEPT ![cmd.k] = block[e.start_block + cmd.k]]
           next == IF cmd.k + 1 < needed_blocks(e.size_bytes)
                   THEN [cmd EXCEPT !.k = @ + 1, !.buffer = got]
                   ELSE [step |-> "copied", entry |-> e, buffer |-> got]
<1>1. /\ cmd.step = "read" /\ command' = [command EXCEPT ![u] = next]
      /\ UNCHANGED <<disk, super, block, overlapped>>
  BY DEF ReadBlock
<1>2. Reading(super, block, cmd) /\ disk = "ready"
  BY <1>1 DEF FileInv, Fits
<1>3. PICK c \in Contents :
         /\ HoldsFile(block, e, c)
         /\ cmd.buffer = [j \in 0..(Size(e) - 1) |-> IF j < cmd.k THEN Piece(c, j) ELSE Zero]
  BY <1>2 DEF Reading
<1>4. /\ cmd = [step |-> "read", entry |-> e, k |-> cmd.k, buffer |-> cmd.buffer]
      /\ e \in Entries /\ cmd.k \in Nat /\ cmd.k < Size(e)
  BY <1>1, CommandShape DEF DirectoryInv, Size
<1>5. Size(e) \in Nat
  BY <1>4, NeededBlocks DEF Size, Entries
<1> HIDE DEF cmd
<1>6. got = [j \in 0..(Size(e) - 1) |-> IF j < cmd.k + 1 THEN Piece(c, j) ELSE Zero]
  <2>1. cmd.k \in 0..(Size(e) - 1)
    BY <1>4, <1>5
  <2>2. block[e.start_block + cmd.k] = Piece(c, cmd.k)
    BY <1>3, <2>1 DEF HoldsFile
  <2>3. DOMAIN got = 0..(Size(e) - 1) /\ got = [j \in 0..(Size(e) - 1) |-> got[j]]
    <3>1. DOMAIN cmd.buffer = 0..(Size(e) - 1)
      BY <1>3
    <3>2. DOMAIN got = DOMAIN cmd.buffer /\ got = [j \in DOMAIN got |-> got[j]]
      OBVIOUS
    <3> HIDE DEF got
    <3> QED
      BY <3>1, <3>2
  <2>4. \A j \in 0..(Size(e) - 1) : got[j] = IF j < cmd.k + 1 THEN Piece(c, j) ELSE Zero
    <3> SUFFICES ASSUME NEW j \in 0..(Size(e) - 1)
                 PROVE  got[j] = IF j < cmd.k + 1 THEN Piece(c, j) ELSE Zero
      OBVIOUS
    <3>1. got[j] = IF j = cmd.k THEN Piece(c, cmd.k) ELSE cmd.buffer[j]
      BY <1>3, <2>1, <2>2
    <3>2. cmd.buffer[j] = IF j < cmd.k THEN Piece(c, j) ELSE Zero
      BY <1>3
    <3> QED
      BY <3>1, <3>2, <1>4, <1>5
  <2> HIDE DEF got
  <2> QED
    BY <2>3, <2>4
<1> HIDE DEF got
<1>7. Fits(disk, super, block, next) /\ next.step \in {"read", "copied"} /\ next.entry = e
  <2>1. CASE cmd.k + 1 < needed_blocks(e.size_bytes)
    <3>1. next = [step |-> "read", entry |-> e, k |-> cmd.k + 1, buffer |-> got]
      BY <1>4, <2>1, OneMoreRead
    <3> HIDE DEF next
    <3>2. next.step = "read" /\ next.entry = e /\ next.k = cmd.k + 1 /\ next.buffer = got
      BY <3>1
    <3>3. Reading(super, block, next)
      BY <3>2, <1>2, <1>3, <1>6 DEF Reading
    <3> QED
      BY <3>2, <3>3, <1>2 DEF Fits
  <2>2. CASE ~(cmd.k + 1 < needed_blocks(e.size_bytes))
    <3>1. next.step = "copied" /\ next.entry = e /\ next.buffer = got
      BY <2>2
    <3> HIDE DEF next
    <3>2. got = [j \in 0..(needed_blocks(SizeOf(c)) - 1) |-> Piece(c, j)]
      <4>1. \A j \in 0..(Size(e) - 1) : j < cmd.k + 1
        BY <2>2, <1>4, <1>5 DEF Size
      <4>2. e.size_bytes = SizeOf(c)
        BY <1>3 DEF HoldsFile
      <4> QED
        BY <4>1, <4>2, <1>6 DEF Size
    <3>3. Image(c) = [size |-> e.size_bytes, data |-> got]
      BY <1>3, <3>2 DEF Image, HoldsFile
    <3> QED
      BY <3>1, <3>3 DEF Fits, IsImage
  <2> QED
    BY <2>1, <2>2
<1> HIDE DEF next
<1>8. \A d : (Clash(next, d) => Clash(cmd, d)) /\ (Clash(d, next) => Clash(d, cmd))
  BY <1>1, <1>7 DEF Clash, Writes
<1>9. /\ command'[u] = next /\ \A v \in Users \ {u} : command'[v] = command[v]
      /\ NoClash'
  BY <1>1, <1>8, GoesOn DEF cmd
<1> QED
  BY <1>1, <1>7, <1>9, DiskAlone

(* A command ends.                                                         *)
LEMMA FileEnd ==
  ASSUME DirectoryInv, FileInv, ~overlapped, NEW u \in Users,
         UNCHANGED <<disk, super, block>>, command' = [command EXCEPT ![u] = Idle]
  PROVE  FileInv'
<1>1. \A d : (Clash(Idle, d) => Clash(command[u], d)) /\ (Clash(d, Idle) => Clash(d, command[u]))
  BY DEF Clash, Writes, Idle
<1>2. /\ command'[u] = Idle /\ \A v \in Users \ {u} : command'[v] = command[v]
      /\ NoClash'
  BY <1>1, GoesOn
<1> QED
  BY <1>2, IdleFits, DiskAlone

(* Two commands that have clashed leave no promise but this.               *)
LEMMA NoDiskNoFiles ==
  ASSUME FileInv, [Next]_vars
  PROVE  disk' # "ready" => super' = Empty
BY DEF FileInv, Next, Run, vars, StartCreate, FinishCreate, RemoveDisk, WriteBlock, save_sb,
       ReadBlock, WriteLocal, Crash, DeleteFile, CopyFromVirtual, CopyToVirtual

LEMMA OverlapStays ==
  ASSUME NEW u \in Users, Run(u), ~RemoveDisk(u), overlapped
  PROVE  overlapped'
BY DEF Run, Begin, StartCreate, FinishCreate, WriteBlock, save_sb,
       ReadBlock, WriteLocal, Crash, DeleteFile, CopyFromVirtual, CopyToVirtual

LEMMA FileStep ==
  ASSUME DirectoryInv, FileInv, [Next]_vars
  PROVE  FileInv'
<1>1. CASE overlapped'
  BY <1>1, NoDiskNoFiles DEF FileInv
<1>2. CASE UNCHANGED vars
  BY <1>2 DEF vars, FileInv, NoClash, Clash, Writes
<1>3. CASE ~overlapped' /\ Next
  <2> PICK u \in Users : Run(u)
    BY <1>3 DEF Next
  <2>1. CASE RemoveDisk(u)
    BY <2>1, FileRemove
  <2>2. CASE ~RemoveDisk(u)
    <3>1. ~overlapped
      BY <1>3, <2>2, OverlapStays
    <3>2. CASE StartCreate(u)
      BY <1>3, <3>2, FileStartCreate
    <3>3. CASE FinishCreate(u)
      BY <3>1, <3>3, FileFinishCreate
    <3>4. CASE WriteBlock(u)
      BY <3>1, <3>4, FileWriteBlock
    <3>5. CASE save_sb(u)
      BY <3>1, <3>5, FileSave
    <3>6. CASE ReadBlock(u)
      BY <3>1, <3>6, FileRead
    <3>7. CASE WriteLocal(u) \/ Crash(u)
      BY <3>1, <3>7, FileEnd DEF WriteLocal, Crash
    <3>8. ASSUME NEW n \in Names, DeleteFile(u, n) PROVE FileInv'
      BY <1>3, <3>8, FileDelete
    <3>9. ASSUME NEW n \in Names, CopyFromVirtual(u, n) PROVE FileInv'
      BY <1>3, <3>9, FileCopyFrom
    <3>10. ASSUME NEW n \in Names, NEW c \in Contents, CopyToVirtual(u, n, c) PROVE FileInv'
      BY <1>3, <3>10, FileCopyTo
    <3> QED
      BY <2>2, <3>2, <3>3, <3>4, <3>5, <3>6, <3>7, <3>8, <3>9, <3>10 DEF Run
  <2> QED
    BY <2>1, <2>2
<1> QED
  BY <1>1, <1>2, <1>3

LEMMA FileAlways == Spec => [](DirectoryInv /\ FileInv)
<1>1. Init => DirectoryInv /\ FileInv
  BY DirectoryInit, FileInit
<1>2. DirectoryInv /\ FileInv /\ [Next]_vars => DirectoryInv' /\ FileInv'
  BY DirectoryStep, FileStep
<1> QED
  BY <1>1, <1>2, PTL DEF Spec

(* What a command has copied out is a file that somebody copied in, whole, *)
(* unless two commands have clashed on this disk.                          *)
THEOREM OutIsWhole == Spec => []CopiesOutWhole
<1>1. FileInv => CopiesOutWhole
  BY DEF FileInv, Fits, IsImage, CopiesOutWhole
<1> QED
  BY <1>1, FileAlways, PTL

----------------------------------------------------------------------------
(* The steps of the store.                                                 *)

FileOf(b, e) ==
    [size |-> e.size_bytes,
     data |-> [k \in 0..(needed_blocks(e.size_bytes) - 1) |-> b[e.start_block + k]]]

(* An entry as the catalogue has it.                                       *)
Shown(b, e) == IF ~e.used THEN Unused ELSE [used |-> TRUE, name |-> e.name, file |-> FileOf(b, e)]

ShownAll(b, sb) == [i \in Slots |-> Shown(b, sb[i])]

StateOf(o, d) == IF o THEN "anything" ELSE IF d = "truncated" THEN "unreadable" ELSE d

(* The catalogue, as a function of the variables it depends on.            *)
CatalogueOf(o, sb, b) == IF o THEN Empty ELSE ShownAll(b, sb)

LEMMA CatalogueIs ==
  /\ Catalogue = CatalogueOf(overlapped, super, block)
  /\ Catalogue' = CatalogueOf(overlapped', super', block')
BY DEF Catalogue, CatalogueOf, ShownAll, Shown, FileOf

LEMMA CatalogueEmpty ==
  /\ Store!Empty = Empty
  /\ \A o \in BOOLEAN : \A b : CatalogueOf(o, Empty, b) = Empty
  /\ \A sb, b : CatalogueOf(TRUE, sb, b) = Empty /\ CatalogueOf(FALSE, sb, b) = ShownAll(b, sb)
<1>1. Store!Empty = Empty
  BY DEF Store!Empty, Store!Free, Empty, Unused
<1>2. \A i \in Slots : Empty[i] = Unused /\ ~Empty[i].used
  BY DEF Empty, Unused
<1>3. ASSUME NEW b PROVE ShownAll(b, Empty) = Empty
  <2>1. \A i \in Slots : Shown(b, Empty[i]) = Unused
    BY <1>2 DEF Shown
  <2> QED
    BY <2>1 DEF ShownAll, Empty
<1> QED
  BY <1>1, <1>3 DEF CatalogueOf

LEMMA HoldsImage ==
  ASSUME NEW b, NEW e, NEW c, HoldsFile(b, e, c)
  PROVE  FileOf(b, e) = Image(c)
<1>1. [k \in 0..(needed_blocks(e.size_bytes) - 1) |-> b[e.start_block + k]]
        = [k \in 0..(needed_blocks(SizeOf(c)) - 1) |-> Piece(c, k)]
  BY DEF HoldsFile, Size
<1> QED
  BY <1>1 DEF HoldsFile, FileOf, Image

LEMMA StoreInit == Init => Store!Init
BY CatalogueIs, CatalogueEmpty DEF Init, Store!Init

(* Nothing of the directory changes.                                       *)
LEMMA StoreStutter ==
  ASSUME UNCHANGED <<disk, super, overlapped>>, ~overlapped,
         \A i \in UsedSlots(super) : \A k \in 0..(Size(super[i]) - 1) :
               block'[super[i].start_block + k] = block[super[i].start_block + k]
  PROVE  StateOf(overlapped', disk') = StateOf(overlapped, disk) /\ Catalogue' = Catalogue
<1>1. ASSUME NEW i \in Slots PROVE Shown(block', super[i]) = Shown(block, super[i])
  <2>1. CASE super[i].used
    <3>1. i \in UsedSlots(super)
      BY <2>1 DEF UsedSlots
    <3>2. FileOf(block', super[i]) = FileOf(block, super[i])
      BY <3>1 DEF FileOf, Size
    <3> QED
      BY <3>2 DEF Shown
  <2>2. CASE ~super[i].used
    BY <2>2 DEF Shown
  <2> QED
    BY <2>1, <2>2
<1>2. ShownAll(block', super) = ShownAll(block, super)
  BY <1>1 DEF ShownAll
<1>3. overlapped' = overlapped /\ super' = super
  OBVIOUS
<1> QED
  BY <1>2, <1>3, CatalogueIs DEF CatalogueOf, StateOf

(* The names of the catalogue are those of the directory.                  *)
LEMMA ExistsIs ==
  ASSUME ~overlapped, NEW n, NEW i \in Slots
  PROVE  Store!Exists(i, n) <=> i \in SlotsNamed(super, n)
<1>1. Catalogue = ShownAll(block, super)
  BY CatalogueIs DEF CatalogueOf
<1>2. Catalogue[i] = Shown(block, super[i])
  BY <1>1 DEF ShownAll
<1>3. CASE super[i].used
  <2>1. Catalogue[i].used = TRUE /\ Catalogue[i].name = super[i].name
    BY <1>2, <1>3 DEF Shown
  <2> QED
    BY <2>1, <1>3 DEF Store!Exists, SlotsNamed, UsedSlots
<1>4. CASE ~super[i].used
  <2>1. ~Catalogue[i].used
    BY <1>2, <1>4 DEF Shown, Unused
  <2> QED
    BY <2>1, <1>4 DEF Store!Exists, SlotsNamed, UsedSlots
<1> QED
  BY <1>3, <1>4

(* Saving the super block is what makes a copied file exist, or a deleted  *)
(* one disappear.                                                          *)
LEMMA StoreSave ==
  ASSUME DirectoryInv, FileInv, ~overlapped, NEW u \in Users, save_sb(u)
  PROVE  Store!Next
<1> DEFINE sb == command[u].sb
           st == StateOf(overlapped, disk)
<1>1. /\ command[u].step = "save" /\ disk' = "ready" /\ super' = sb
      /\ UNCHANGED <<block, overlapped>>
  BY DEF save_sb
<1>2. (Adding(super, block, sb) \/ Deleting(super, sb)) /\ disk = "ready"
  BY <1>1 DEF FileInv, Fits
<1>3. sb \in Directories /\ super \in Directories
  BY <1>1 DEF DirectoryInv, DirectoryOK
<1>4. Catalogue = ShownAll(block, super) /\ Catalogue' = ShownAll(block, sb)
  BY <1>1, CatalogueIs DEF CatalogueOf
<1>5. st = "ready" /\ st' = "ready"
  BY <1>1, <1>2 DEF StateOf
<1> HIDE DEF sb
<1>6. CASE Adding(super, block, sb)
  <2>1. PICK i \in Slots, c \in Contents : IsNew(super, sb, i) /\ HoldsFile(block, sb[i], c)
    BY <1>6 DEF Adding
  <2>2. PICK n \in Names : SlotsNamed(super, n) = {} /\ sb[i].name = Stored(n)
    BY <2>1 DEF IsNew
  <2>3. /\ ~super[i].used /\ i \in UsedSlots(sb) /\ \A j \in Slots \ {i} : sb[j] = super[j]
    BY <2>1 DEF IsNew, UsedSlots, SameBut
  <2>4. sb[i].used = TRUE
    BY <2>3, <1>3, EntryTypes
  <2>5. Shown(block, sb[i]) = Store!Entry(Stored(n), Image(c))
    BY <2>1, <2>2, <2>4, HoldsImage DEF Shown, Store!Entry
  <2>6. Catalogue' = [Catalogue EXCEPT ![i] = Store!Entry(Stored(n), Image(c))]
    BY <1>4, <2>3, <2>5 DEF ShownAll
  <2>7. ~Catalogue[i].used
    BY <1>4, <2>3 DEF ShownAll, Shown, Unused
  <2>8. \A j \in Slots : ~Store!Exists(j, n)
    BY <2>2, ExistsIs
  <2>9. Store!CopyIn(n, Image(c))
    BY <1>1, <1>2, <2>6, <2>7, <2>8 DEF Store!CopyIn
  <2> QED
    BY <2>9 DEF Store!Next
<1>7. CASE Deleting(super, sb)
  <2>1. PICK i \in UsedSlots(super) : SameBut(super, sb, i) /\ sb[i] = Unused
    BY <1>7 DEF Deleting
  <2>2. i \in Slots /\ super[i].name \in Names
    BY <2>1, <1>3, EntryTypes
  <2>3. Shown(block, sb[i]) = Store!Free
    BY <2>1 DEF Shown, Store!Free, Unused
  <2>4. Catalogue' = [Catalogue EXCEPT ![i] = Store!Free]
    BY <1>4, <2>1, <2>2, <2>3 DEF ShownAll, SameBut
  <2>5. Store!Exists(i, super[i].name)
    BY <2>2, ExistsIs DEF SlotsNamed
  <2>6. Store!Delete(super[i].name)
    BY <1>1, <1>2, <2>2, <2>4, <2>5 DEF Store!Delete
  <2> QED
    BY <2>2, <2>6 DEF Store!Next
<1> QED
  BY <1>2, <1>6, <1>7

LEMMA StoreStep ==
  ASSUME DirectoryInv, FileInv, [Next]_vars
  PROVE  [Store!Next]_<<StateOf(overlapped, disk), Catalogue>>
<1> USE CatalogueIs, CatalogueEmpty
<1> DEFINE Step == \/ Store!Next
                   \/ StateOf(overlapped', disk') = StateOf(overlapped, disk) /\ Catalogue' = Catalogue
<1> SUFFICES Step
  BY DEF StateOf
<1>1. CASE overlapped'
  BY <1>1 DEF Store!Next, Store!Misuse, CatalogueOf
<1>2. CASE UNCHANGED vars
  BY <1>2 DEF vars, StateOf
<1>3. CASE ~overlapped' /\ Next
  <2> PICK u \in Users : Run(u)
    BY <1>3 DEF Next
  <2>1. CASE RemoveDisk(u)
    <3>1. disk' = "none" /\ super' = Empty /\ overlapped' = FALSE
      BY <2>1 DEF RemoveDisk
    <3> QED
      BY <3>1 DEF Store!Next, Store!Remove
  <2>2. CASE ~RemoveDisk(u)
    <3>1. ~overlapped
      BY <1>3, <2>2, OverlapStays
    <3>2. CASE StartCreate(u)
      <4>1. disk' = "truncated" /\ super' = Empty
        BY <3>2 DEF StartCreate
      <4> QED
        BY <1>3, <4>1 DEF Store!Next, Store!StartCreate, CatalogueOf
    <3>3. CASE FinishCreate(u)
      <4>1. disk' = "ready" /\ super' = Empty /\ command[u].step = "create"
        BY <3>3 DEF FinishCreate
      <4>2. disk = "truncated"
        BY <3>1, <4>1 DEF FileInv, Fits
      <4> QED
        BY <1>3, <3>1, <4>1, <4>2 DEF Store!Next, Store!FinishCreate, CatalogueOf
    <3>4. CASE WriteBlock(u)
      <4>1. UNCHANGED <<disk, super, overlapped>>
        BY <3>4 DEF WriteBlock
      <4> QED
        BY <3>1, <3>4, <4>1, FileWriteBlock, StoreStutter
    <3>5. CASE save_sb(u)
      BY <3>1, <3>5, StoreSave
    <3>6. ASSUME UNCHANGED <<disk, super, block>> PROVE Step
      <4>1. overlapped' = FALSE /\ overlapped = FALSE
        BY <1>3, <3>1, DirectoryStep DEF DirectoryInv
      <4> QED
        BY <3>6, <4>1 DEF StateOf
    <3>7. CASE ReadBlock(u) \/ WriteLocal(u) \/ Crash(u)
      BY <3>6, <3>7 DEF ReadBlock, WriteLocal, Crash
    <3>8. CASE \E n \in Names : \/ DeleteFile(u, n) \/ CopyFromVirtual(u, n)
                                \/ \E c \in Contents : CopyToVirtual(u, n, c)
      BY <3>6, <3>8 DEF DeleteFile, CopyFromVirtual, CopyToVirtual
    <3> QED
      BY <2>2, <3>2, <3>3, <3>4, <3>5, <3>7, <3>8 DEF Run
  <2> QED
    BY <2>1, <2>2
<1> QED
  BY <1>1, <1>2, <1>3

(* The virtual disk implements the store: a command of it takes effect in  *)
(* one step, when it saves the super block, or not at all.                 *)
THEOREM StoreImplemented == Spec => ImplementsStore
<1>1. DirectoryInv /\ FileInv /\ [Next]_vars => [Store!Next]_<<StateOf(overlapped, disk), Catalogue>>
  BY StoreStep
<1> QED
  BY <1>1, StoreInit, FileAlways, PTL DEF Spec, ImplementsStore, Store!Spec, StateOf
----------------------------------------------------------------------------
(***************************************************************************)
(* The map of the disk.  In a sound directory files are sorted by their    *)
(* first block without ties, each ends before the next begins, and a row   *)
(* FREE is what is between two of them or behind the last.                 *)
(***************************************************************************)
Listed(sb) == {sb[i] : i \in UsedSlots(sb)}

EndOf(e) == e.start_block + Size(e)

LEMMA ListedIs ==
  ASSUME NEW sb, DirectoryOK(sb)
  PROVE  /\ IsFiniteSet(Listed(sb))
         /\ \A e \in Listed(sb) :
               /\ e.start_block \in Nat /\ Size(e) \in Nat /\ Size(e) >= 1
               /\ EndOf(e) \in Nat /\ e.start_block < EndOf(e) /\ EndOf(e) <= BlockCount
               /\ BlocksOf(e) = e.start_block .. (EndOf(e) - 1)
         /\ \A e, f \in Listed(sb) : e # f => BlocksOf(e) \cap BlocksOf(f) = {}
         /\ Taken(sb) = UNION {BlocksOf(e) : e \in Listed(sb)}
<1>1. sb \in Directories /\ SoundDirectory(sb)
  BY DEF DirectoryOK
<1>2. IsFiniteSet(Listed(sb))
  <2>1. IsFiniteSet(Slots)
    <3>1. CASE MaxFiles \in Nat
      BY <3>1, FS_Interval DEF Slots
    <3> QED
      BY <3>1, SizesAssumption
  <2>2. IsFiniteSet(UsedSlots(sb))
    BY <1>1, <2>1, EntryTypes, FS_Subset
  <2> DEFINE f == [i \in UsedSlots(sb) |-> sb[i]]
  <2>3. f \in Surjection(UsedSlots(sb), Listed(sb))
    BY DEF Surjection, Listed
  <2> QED
    BY <2>2, <2>3, FS_Surjection
<1>3. ASSUME NEW e \in Listed(sb)
      PROVE  /\ e.start_block \in Nat /\ Size(e) \in Nat /\ Size(e) >= 1
             /\ EndOf(e) \in Nat /\ e.start_block < EndOf(e) /\ EndOf(e) <= BlockCount
             /\ BlocksOf(e) = e.start_block .. (EndOf(e) - 1)
  <2>1. PICK i \in UsedSlots(sb) : e = sb[i]
    BY DEF Listed
  <2>2. e.start_block \in Nat /\ Size(e) \in Nat /\ Size(e) >= 1
    BY <1>1, <2>1, EntryTypes DEF Size
  <2>3. BlocksOf(e) = e.start_block .. (EndOf(e) - 1)
    BY <2>2 DEF BlocksOf, EndOf, Size
  <2>4. EndOf(e) \in Nat /\ e.start_block < EndOf(e)
    BY <2>2 DEF EndOf
  <2>5. EndOf(e) - 1 \in Blocks
    BY <1>1, <2>1, <2>2, <2>3, <2>4 DEF SoundDirectory
  <2>6. EndOf(e) <= BlockCount
    BY <2>4, <2>5, SizesAssumption DEF Blocks
  <2> QED
    BY <2>2, <2>3, <2>4, <2>6
<1>4. ASSUME NEW e \in Listed(sb), NEW f \in Listed(sb), e # f
      PROVE  BlocksOf(e) \cap BlocksOf(f) = {}
  <2>1. PICK i \in UsedSlots(sb) : e = sb[i]
    BY DEF Listed
  <2>2. PICK j \in UsedSlots(sb) : f = sb[j]
    BY DEF Listed
  <2> QED
    BY <1>1, <1>4, <2>1, <2>2 DEF SoundDirectory
<1>5. Taken(sb) = UNION {BlocksOf(e) : e \in Listed(sb)}
  BY DEF Taken, Listed
<1> QED
  BY <1>2, <1>3, <1>4, <1>5

(* What qsort() makes of a sound directory.                                *)
LEMMA SortedIs ==
  ASSUME NEW sb, DirectoryOK(sb), NEW q, q = Sorted(sb)
  PROVE  /\ Len(q) \in Nat /\ DOMAIN q = 1..Len(q)
         /\ \A i \in 1..Len(q) : q[i] \in Listed(sb)
         /\ \A e \in Listed(sb) : \E i \in 1..Len(q) : q[i] = e
         /\ \A i, j \in 1..Len(q) : i < j => EndOf(q[i]) <= q[j].start_block
<1> DEFINE S == Listed(sb)
           k == [e \in S |-> e.start_block]
<1>1. IsFiniteSet(S)
  BY ListedIs
<1>2. k \in [S -> Nat]
  BY ListedIs
<1>3. ASSUME NEW x \in S, NEW y \in S, k[x] = k[y] PROVE x = y
  <2>1. x.start_block = y.start_block
    BY <1>3
  <2>2. x.start_block \in BlocksOf(x) /\ y.start_block \in BlocksOf(y)
    BY ListedIs
  <2> QED
    BY <2>1, <2>2, ListedIs
<1>4. PICK p \in SetToSeqs(S) : \A i, j \in DOMAIN p : i < j => k[p[i]] < k[p[j]]
  BY <1>1, <1>2, <1>3, ArrangedByNumber
<1>5. \A i, j \in DOMAIN p : i < j => compare_entries(p[i], p[j]) <= 0
  <2> SUFFICES ASSUME NEW i \in DOMAIN p, NEW j \in DOMAIN p, i < j
               PROVE  compare_entries(p[i], p[j]) <= 0
    OBVIOUS
  <2>1. p[i] \in S /\ p[j] \in S
    BY <1>1, ArrangedItems
  <2>2. p[i].start_block < p[j].start_block
    BY <1>4, <2>1
  <2>3. p[i].start_block \in Nat /\ p[j].start_block \in Nat
    BY <2>1, ListedIs
  <2> QED
    BY <2>2, <2>3 DEF compare_entries
<1>6. q \in SetToSeqs(S) /\ \A i, j \in DOMAIN q : i < j => compare_entries(q[i], q[j]) <= 0
  BY <1>5 DEF Sorted, Listed
<1>7. /\ Len(q) \in Nat /\ DOMAIN q = 1..Len(q)
      /\ \A i \in 1..Len(q) : q[i] \in S
      /\ \A i, j \in 1..Len(q) : i # j => q[i] # q[j]
      /\ \A x \in S : \E i \in 1..Len(q) : q[i] = x
  BY <1>1, <1>6, ArrangedItems
<1>8. ASSUME NEW i \in 1..Len(q), NEW j \in 1..Len(q), i < j
      PROVE  EndOf(q[i]) <= q[j].start_block
  <2>1. q[i] \in S /\ q[j] \in S /\ q[i] # q[j]
    BY <1>7, <1>8
  <2> DEFINE e == q[i]
             f == q[j]
  <2>2. /\ e.start_block \in Nat /\ EndOf(e) \in Nat /\ e.start_block < EndOf(e)
        /\ f.start_block \in Nat /\ EndOf(f) \in Nat /\ f.start_block < EndOf(f)
        /\ BlocksOf(e) = e.start_block .. (EndOf(e) - 1)
        /\ BlocksOf(f) = f.start_block .. (EndOf(f) - 1)
        /\ BlocksOf(e) \cap BlocksOf(f) = {}
    BY <2>1, ListedIs
  <2>3. e.start_block <= f.start_block
    BY <1>6, <1>7, <1>8, <2>2 DEF compare_entries
  <2> HIDE DEF e, f
  <2>4. f.start_block \in BlocksOf(f)
    BY <2>2
  <2>5. f.start_block \notin BlocksOf(e)
    BY <2>2, <2>4
  <2>6. f.start_block >= EndOf(e)
    BY <2>2, <2>3, <2>5
  <2> QED
    BY <2>6, <2>2 DEF e, f
<1> QED
  BY <1>7, <1>8

(* A sequence of files on a disk, each behind the one before it.           *)
Spread(q) ==
    /\ Len(q) \in Nat /\ DOMAIN q = 1..Len(q)
    /\ \A i \in 1..Len(q) :
          /\ q[i].start_block \in Nat /\ EndOf(q[i]) \in Nat
          /\ q[i].start_block < EndOf(q[i]) /\ EndOf(q[i]) <= BlockCount
    /\ \A i, j \in 1..Len(q) : i < j => EndOf(q[i]) <= q[j].start_block

LEMMA NextIndex ==
  ASSUME NEW n \in Nat, NEW i \in 0..n, i # n
  PROVE  /\ i + 1 \in 1..n /\ (i + 1) - 1 = i /\ i < i + 1
         /\ \A j \in 1..n : j > i => j = i + 1 \/ i + 1 < j
         /\ \A j \in 0..n : j > i => i + 1 <= j
OBVIOUS

(* The gap behind file i, which is empty when the next file follows there. *)
After(q, i) == IF i = Len(q) THEN BlockCount ELSE q[i + 1].start_block

Gap(q, i) == CurrentBlock(q, i) .. (After(q, i) - 1)

LEMMA GapIs ==
  ASSUME NEW q, Spread(q), NEW i \in 0..Len(q)
  PROVE  /\ CurrentBlock(q, i) \in Nat /\ After(q, i) \in Nat
         /\ CurrentBlock(q, i) <= After(q, i) /\ After(q, i) <= BlockCount
<1>1. Len(q) \in Nat /\ BlockCount \in Nat
  BY SizesAssumption DEF Spread
<1>2. CASE i = 0
  <2>1. CurrentBlock(q, i) = 0
    BY <1>2 DEF CurrentBlock
  <2>2. CASE Len(q) = 0
    BY <1>1, <1>2, <2>1, <2>2 DEF After
  <2>3. CASE Len(q) # 0
    <3>1. 1 \in 1..Len(q) /\ After(q, i) = q[1].start_block
      BY <1>1, <1>2, <2>3 DEF After
    <3>2. q[1].start_block \in Nat /\ q[1].start_block <= BlockCount
      BY <1>1, <3>1 DEF Spread
    <3> QED
      BY <2>1, <3>1, <3>2
  <2> QED
    BY <2>2, <2>3
<1>3. CASE i # 0
  <2>1. i \in 1..Len(q) /\ CurrentBlock(q, i) = EndOf(q[i])
    BY <1>1, <1>3 DEF CurrentBlock, EndOf, Size
  <2>2. EndOf(q[i]) \in Nat /\ EndOf(q[i]) <= BlockCount
    BY <2>1 DEF Spread
  <2>3. CASE i = Len(q)
    BY <1>1, <2>1, <2>2, <2>3 DEF After
  <2>4. CASE i # Len(q)
    <3>1. i + 1 \in 1..Len(q) /\ i < i + 1 /\ After(q, i) = q[i + 1].start_block
      BY <1>1, <2>1, <2>4 DEF After
    <3>2. q[i + 1].start_block \in Nat /\ q[i + 1].start_block <= BlockCount
      BY <1>1, <3>1 DEF Spread
    <3>3. EndOf(q[i]) <= q[i + 1].start_block
      BY <2>1, <3>1 DEF Spread
    <3> QED
      BY <2>1, <2>2, <3>1, <3>2, <3>3
  <2> QED
    BY <2>3, <2>4
<1> QED
  BY <1>2, <1>3

(* The rows FREE are the gaps that are not empty.                          *)
LEMMA RowsAreGaps ==
  ASSUME NEW q, Spread(q)
  PROVE  FreeRows(q) = {[address |-> CurrentBlock(q, i), size |-> After(q, i) - CurrentBlock(q, i)] :
                          i \in {j \in 0..Len(q) : CurrentBlock(q, j) < After(q, j)}}
<1> DEFINE Row(i) == [address |-> CurrentBlock(q, i), size |-> After(q, i) - CurrentBlock(q, i)]
           n == Len(q)
<1>1. n \in Nat /\ DOMAIN q = 1..n /\ BlockCount \in Nat
  BY SizesAssumption DEF Spread
<1>2. ASSUME NEW i \in 1..n
      PROVE  /\ i - 1 \in 0..n /\ i - 1 # n
             /\ After(q, i - 1) = q[i].start_block
  BY <1>1 DEF After
<1>3. ASSUME NEW i \in 1..n
      PROVE  /\ q[i].start_block > CurrentBlock(q, i - 1) <=> CurrentBlock(q, i - 1) < After(q, i - 1)
             /\ [address |-> CurrentBlock(q, i - 1),
                 size |-> q[i].start_block - CurrentBlock(q, i - 1)] = Row(i - 1)
  <2>1. CurrentBlock(q, i - 1) \in Nat /\ After(q, i - 1) \in Nat
    BY <1>2, GapIs
  <2> QED
    BY <1>2, <2>1
<1>4. After(q, n) = BlockCount /\ n \in 0..n
  BY <1>1 DEF After
<1>5. ASSUME NEW r \in FreeRows(q)
      PROVE  \E i \in 0..n : CurrentBlock(q, i) < After(q, i) /\ r = Row(i)
  <2>1. CASE \E i \in DOMAIN q : /\ q[i].start_block > CurrentBlock(q, i - 1)
                                 /\ r = [address |-> CurrentBlock(q, i - 1),
                                         size |-> q[i].start_block - CurrentBlock(q, i - 1)]
    BY <1>1, <1>2, <1>3, <2>1
  <2>2. CASE /\ CurrentBlock(q, n) < BlockCount
             /\ r = [address |-> CurrentBlock(q, n), size |-> BlockCount - CurrentBlock(q, n)]
    BY <1>4, <2>2
  <2> QED
    BY <2>1, <2>2 DEF FreeRows
<1>6. ASSUME NEW i \in 0..n, CurrentBlock(q, i) < After(q, i)
      PROVE  Row(i) \in FreeRows(q)
  <2>1. CASE i = n
    <3>1. CurrentBlock(q, n) < BlockCount
      BY <1>4, <1>6, <2>1
    <3>2. Row(i) = [address |-> CurrentBlock(q, n), size |-> BlockCount - CurrentBlock(q, n)]
      BY <1>4, <2>1
    <3> QED
      BY <3>1, <3>2 DEF FreeRows
  <2>2. CASE i # n
    <3>1. i + 1 \in 1..n /\ (i + 1) - 1 = i
      BY <1>1, <2>2, NextIndex, Zenon
    <3>2. q[i + 1].start_block > CurrentBlock(q, (i + 1) - 1)
      BY <1>3, <1>6, <3>1
    <3>3. Row(i) = [address |-> CurrentBlock(q, (i + 1) - 1),
                    size |-> q[i + 1].start_block - CurrentBlock(q, (i + 1) - 1)]
      BY <1>3, <3>1
    <3> QED
      BY <1>1, <3>1, <3>2, <3>3 DEF FreeRows
  <2> QED
    BY <2>1, <2>2
<1> QED
  BY <1>5, <1>6, Zenon

(* A block of no file is in a gap.                                         *)
LEMMA InSomeGap ==
  ASSUME NEW q, Spread(q), NEW b \in Blocks,
         \A i \in 1..Len(q) : b \notin q[i].start_block .. (EndOf(q[i]) - 1)
  PROVE  \E i \in 0..Len(q) : b \in Gap(q, i)
<1> DEFINE n == Len(q)
           T == {i \in 0..n : b < After(q, i)}
<1>1. n \in Nat /\ BlockCount \in Nat /\ b \in Nat /\ b < BlockCount
  BY SizesAssumption DEF Spread, Blocks
<1>2. n \in T
  <2>1. After(q, n) = BlockCount
    BY DEF After
  <2>2. n \in 0..n
    BY <1>1
  <2> QED
    BY <1>1, <2>1, <2>2
<1>3. PICK m \in T : \A i \in T : m <= i
  <2>1. T \in SUBSET Nat
    BY <1>1
  <2> HIDE DEF T
  <2> QED
    BY <1>2, <2>1, LeastNat
<1>4. CurrentBlock(q, m) <= b
  <2>1. CASE m = 0
    BY <1>1, <2>1 DEF CurrentBlock
  <2>2. CASE m # 0
    <3>1. m \in 1..n /\ m - 1 \in 0..n /\ m - 1 # n /\ m - 1 \notin T
      BY <1>1, <1>3, <2>2
    <3>2. After(q, m - 1) = q[m].start_block
      BY <3>1 DEF After
    <3>3. ~(b < q[m].start_block)
      BY <3>1, <3>2
    <3>4. q[m].start_block \in Nat /\ EndOf(q[m]) \in Nat
      BY <3>1 DEF Spread
    <3>5. b \notin q[m].start_block .. (EndOf(q[m]) - 1)
      BY <3>1
    <3>6. EndOf(q[m]) <= b
      BY <1>1, <3>3, <3>4, <3>5
    <3> QED
      BY <3>1, <3>6 DEF CurrentBlock, EndOf, Size
  <2> QED
    BY <2>1, <2>2
<1>5. CurrentBlock(q, m) \in Nat /\ After(q, m) \in Nat
  BY <1>3, GapIs
<1> QED
  BY <1>1, <1>3, <1>4, <1>5 DEF Gap

(* A block in a gap is in no file, and in no other gap.                    *)
LEMMA GapApart ==
  ASSUME NEW q, Spread(q), NEW i \in 0..Len(q), NEW b \in Gap(q, i)
  PROVE  /\ b \in Blocks
         /\ \A j \in 1..Len(q) : b \notin q[j].start_block .. (EndOf(q[j]) - 1)
         /\ \A j \in 0..Len(q) : b \in Gap(q, j) => i = j
<1> DEFINE n == Len(q)
<1>1. n \in Nat /\ BlockCount \in Nat
  BY SizesAssumption DEF Spread
<1>2. /\ b \in Nat /\ CurrentBlock(q, i) <= b /\ b < After(q, i) /\ After(q, i) <= BlockCount
      /\ After(q, i) \in Nat
  BY GapIs DEF Gap
<1>3. b \in Blocks
  BY <1>1, <1>2 DEF Blocks
<1>4. ASSUME NEW j \in 1..n, j <= i PROVE EndOf(q[j]) <= b
  <2>1. i \in 1..n /\ CurrentBlock(q, i) = EndOf(q[i])
    BY <1>1, <1>4 DEF CurrentBlock, EndOf, Size
  <2>2. /\ EndOf(q[j]) \in Nat /\ EndOf(q[i]) \in Nat
        /\ q[i].start_block \in Nat /\ q[i].start_block < EndOf(q[i])
    BY <2>1 DEF Spread
  <2>3. CASE i = j
    BY <1>2, <2>1, <2>3
  <2>4. CASE j < i
    <3>1. EndOf(q[j]) <= q[i].start_block
      BY <2>1, <2>4 DEF Spread
    <3> QED
      BY <1>2, <2>1, <2>2, <3>1
  <2> QED
    BY <1>4, <2>3, <2>4
<1>5. ASSUME NEW j \in 1..n, j > i PROVE b < q[j].start_block
  <2>1. i + 1 \in 1..n /\ i # n /\ i + 1 <= j
    BY <1>1, <1>5
  <2>5. After(q, i) = q[i + 1].start_block
    BY <2>1 DEF After
  <2> DEFINE k == i + 1
  <2>6. k \in 1..n /\ k <= j /\ b < q[k].start_block
    BY <1>2, <2>1, <2>5
  <2> HIDE DEF k
  <2>2. /\ q[j].start_block \in Nat /\ EndOf(q[k]) \in Nat
        /\ q[k].start_block \in Nat /\ q[k].start_block < EndOf(q[k])
    BY <2>6 DEF Spread
  <2>3. CASE k = j
    BY <2>3, <2>6
  <2>4. CASE k < j
    <3>1. EndOf(q[k]) <= q[j].start_block
      BY <2>4, <2>6 DEF Spread
    <3>2. \A x, y, z, t \in Nat : x < y /\ y < z /\ z <= t => x < t
      OBVIOUS
    <3> QED
      BY <1>2, <2>2, <2>6, <3>1, <3>2, Zenon
  <2> QED
    BY <2>3, <2>4, <2>6
<1>6. ASSUME NEW j \in 1..n PROVE b \notin q[j].start_block .. (EndOf(q[j]) - 1)
  <2>1. q[j].start_block \in Nat /\ EndOf(q[j]) \in Nat
    BY DEF Spread
  <2>2. j <= i \/ j > i
    OBVIOUS
  <2> QED
    BY <1>2, <1>4, <1>5, <2>1, <2>2
<1>7. ASSUME NEW j \in 0..n, b \in Gap(q, j), j # i PROVE FALSE
  <2>1. CurrentBlock(q, j) <= b /\ b < After(q, j) /\ After(q, j) \in Nat
    BY <1>7, GapIs DEF Gap
  <2>2. CASE j > i
    <3>1. j \in 1..n /\ CurrentBlock(q, j) = EndOf(q[j])
      BY <2>2 DEF CurrentBlock, EndOf, Size
    <3>2. q[j].start_block \in Nat /\ EndOf(q[j]) \in Nat /\ q[j].start_block < EndOf(q[j])
      BY <3>1 DEF Spread
    <3> QED
      BY <1>2, <1>5, <2>1, <2>2, <3>1, <3>2
  <2>3. CASE j < i
    <3>1. j + 1 \in 1..n /\ j # n /\ j + 1 <= i
      BY <1>1, <2>3
    <3>2. After(q, j) = q[j + 1].start_block
      BY <3>1 DEF After
    <3> DEFINE k == j + 1
    <3>3. k \in 1..n /\ k <= i /\ b < q[k].start_block
      BY <2>1, <3>1, <3>2
    <3> HIDE DEF k
    <3>4. q[k].start_block \in Nat /\ EndOf(q[k]) \in Nat /\ q[k].start_block < EndOf(q[k])
      BY <3>3 DEF Spread
    <3>5. EndOf(q[k]) <= b
      BY <1>4, <3>3
    <3> QED
      BY <1>2, <3>3, <3>4, <3>5
  <2> QED
    BY <1>7, <2>2, <2>3
<1> QED
  BY <1>3, <1>6, <1>7

(* The rows FREE that -map shows of a directory that can be on the disk    *)
(* are exactly its free blocks, none of them in two rows.                  *)
THEOREM MapRight == Spec => []MapShowsFree
<1>1. ASSUME DirectoryInv PROVE MapShowsFree
  <2> DEFINE q == Sorted(super)
             n == Len(q)
             covers(r) == r.address .. (r.address + r.size - 1)
             Row(i) == [address |-> CurrentBlock(q, i), size |-> After(q, i) - CurrentBlock(q, i)]
             rows == FreeRows(q)
  <2>1. DirectoryOK(super)
    BY <1>1 DEF DirectoryInv
  <2>2. /\ n \in Nat /\ DOMAIN q = 1..n
        /\ \A i \in 1..n : q[i] \in Listed(super)
        /\ \A e \in Listed(super) : \E i \in 1..n : q[i] = e
        /\ \A i, j \in 1..n : i < j => EndOf(q[i]) <= q[j].start_block
    BY <2>1, SortedIs
  <2> HIDE DEF q
  <2>3. Spread(q)
    BY <2>1, <2>2, ListedIs DEF Spread
  <2>4. rows = {Row(i) : i \in {j \in 0..n : CurrentBlock(q, j) < After(q, j)}}
    BY <2>3, RowsAreGaps
  <2>5. ASSUME NEW i \in 0..n PROVE covers(Row(i)) = Gap(q, i)
    <3>1. CurrentBlock(q, i) \in Nat /\ After(q, i) \in Nat
      BY <2>3, GapIs
    <3> QED
      BY <3>1 DEF Gap
  <2>6. ASSUME NEW b
        PROVE  b \in Taken(super) <=> \E i \in 1..n : b \in q[i].start_block .. (EndOf(q[i]) - 1)
    <3>1. Taken(super) = UNION {BlocksOf(e) : e \in Listed(super)}
      BY <2>1, ListedIs
    <3>2. \A e \in Listed(super) : BlocksOf(e) = e.start_block .. (EndOf(e) - 1)
      BY <2>1, ListedIs
    <3>3. ASSUME b \in Taken(super)
          PROVE  \E i \in 1..n : b \in q[i].start_block .. (EndOf(q[i]) - 1)
      <4>1. PICK e \in Listed(super) : b \in BlocksOf(e)
        BY <3>1, <3>3
      <4> QED
        BY <2>2, <3>2, <4>1
    <3>4. ASSUME NEW i \in 1..n, b \in q[i].start_block .. (EndOf(q[i]) - 1)
          PROVE  b \in Taken(super)
      <4>1. q[i] \in Listed(super)
        BY <2>2
      <4>2. b \in BlocksOf(q[i])
        BY <3>2, <3>4, <4>1
      <4> QED
        BY <3>1, <4>1, <4>2
    <3> QED
      BY <3>3, <3>4
  <2> HIDE DEF covers, Row, rows
  <2>7. UNION {covers(r) : r \in rows} = Blocks \ Taken(super)
    <3>1. ASSUME NEW r \in rows, NEW b \in covers(r) PROVE b \in Blocks \ Taken(super)
      <4>1. PICK i \in 0..n : r = Row(i)
        BY <2>4
      <4>2. b \in Gap(q, i)
        BY <2>5, <3>1, <4>1
      <4> QED
        BY <2>3, <2>6, <4>2, GapApart
    <3>2. ASSUME NEW b \in Blocks \ Taken(super) PROVE \E r \in rows : b \in covers(r)
      <4>1. PICK i \in 0..n : b \in Gap(q, i)
        BY <2>3, <2>6, InSomeGap
      <4>2. CurrentBlock(q, i) < After(q, i)
        <5>1. CurrentBlock(q, i) \in Nat /\ After(q, i) \in Nat
          BY <2>3, GapIs
        <5> QED
          BY <4>1, <5>1 DEF Gap
      <4> QED
        BY <2>4, <2>5, <4>1, <4>2
    <3> QED
      BY <3>1, <3>2
  <2>8. ASSUME NEW r \in rows, NEW s \in rows, r # s
        PROVE  covers(r) \cap covers(s) = {}
    <3>1. PICK i \in 0..n : r = Row(i)
      BY <2>4
    <3>2. PICK j \in 0..n : s = Row(j)
      BY <2>4
    <3>3. i # j
      BY <2>8, <3>1, <3>2
    <3> QED
      BY <2>3, <2>5, <3>1, <3>2, <3>3, GapApart
  <2> QED
    BY <2>7, <2>8 DEF MapShowsFree, covers, rows, q
<1>2. DirectoryInv => MapShowsFree
  BY <1>1
<1> QED
  BY <1>2, DirectoryAlways, PTL
=============================================================================
