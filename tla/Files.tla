---------------------------------- MODULE Files ----------------------------------
(***************************************************************************)
(* Open files: the descriptor calls of filemanager.cpp on top of the table *)
(* of open files, the descriptor generators and the directory entries of   *)
(* filesystem.cpp.  A call runs to its end before the next one starts:     *)
(* only one process besides idle is ever outside create_process            *)
(* (Kernel!ParentsWait), so the disk transfers inside a call hand the      *)
(* processor to nobody who uses files.                                     *)
(*                                                                         *)
(* One directory of one cluster stands for all; of a file only its size is *)
(* kept.                                                                   *)
(***************************************************************************)
EXTENDS Integers, Sequences, FiniteSets, FiniteSetsExt, Functions

CONSTANTS
    Word,       \* values of an unsigned short (2^16)
    File,       \* names
    MaxSlots,   \* entries of the directory
    SectorSlots,\* entries of its first sector (16)
    MaxOpens,   \* bound: files opened, over all time
    MaxSize,    \* bound: bytes of a file
    MaxBack     \* bound: offsets of seek are -MaxBack..1

ASSUME FilesAssumption ==
    /\ MaxSlots \in Nat \ {0} /\ SectorSlots \in Nat /\ MaxOpens \in Nat /\ MaxSize \in Nat /\ MaxBack \in Nat
    /\ Word \in Nat /\ Word % 6 = 4    \* as 2^16
    /\ 6 * MaxOpens < Word             \* no generator wraps around
    /\ MaxSize < Word * Word           \* a size has two words

VARIABLES
    generators,   \* rid, wid, rwid and the padding behind them, of 16 bits each
    entries,      \* every file_table allocated but the head; never freed
    list,         \* the entries on the list from ft_head, by number
    ft_ptr,       \* the entry allocated last; None: the head
    ruf1, ruf2,   \* recently used files: fpointer, None when not valid
    dir,          \* directory entries on the disk
    open,         \* ghost: entries whose descriptor was returned and not passed to close
    taken         \* ghost: entries reached by a close of another descriptor

vars == <<generators, entries, list, ft_ptr, ruf1, ruf2, dir, open, taken>>

None == 0
Mode == {"R", "W", "RW"}
Slot == 1..MaxSlots
Nothing == "nothing"
UnusedSlot == [name |-> Nothing, size |-> 0]

(* Unsigned ints have two words. *)
U(n) == n % (Word * Word)

(* main.cpp declares the generators as unsigned short, filesystem.cpp as    *)
(* unsigned int: what it reads and writes is the generator and, in the      *)
(* upper half, the one behind it.                                           *)
Cell(mode) == CASE mode = "R" -> 0 [] mode = "W" -> 1 [] mode = "RW" -> 2
Generator(mode) == generators[Cell(mode)] + Word * generators[Cell(mode) + 1]

NextFidAnyParity(mode) ==      \* mutant: W does not skip even numbers
    LET g == Generator(mode)
    IN  CASE mode = "R" -> IF U(g + 2) % 3 = 0 THEN U(g + 4) ELSE U(g + 2)
          [] mode = "W" -> U(g + 3)
          [] mode = "RW" -> U(g + 6)

NextFid(mode) ==
    LET g == Generator(mode)
    IN  CASE mode = "R" -> IF U(g + 2) % 3 = 0 THEN U(g + 4) ELSE U(g + 2)
          [] mode = "W" -> IF U(g + 3) % 2 = 0 THEN U(g + 6) ELSE U(g + 3)
          [] mode = "RW" -> U(g + 6)

GenerateWhole(mode) ==      \* mutant: the cell takes all of the value
    generators' = [generators EXCEPT ![Cell(mode)] = NextFid(mode)]

Generate(mode) ==
    generators' = [generators EXCEPT ![Cell(mode)] = NextFid(mode) % Word,
                                     ![Cell(mode) + 1] = NextFid(mode) \div Word]

(* The caches remember entries but never their descriptors: ruf1.fid and    *)
(* ruf2.fid keep the value they start with.                                 *)
RufFid == 0

(* The entry a descriptor reaches on the list lst of the table ent. *)
Find(fid, lst, ent) ==
    LET hits == {i \in DOMAIN lst : ent[lst[i]].fid = fid}
    IN  IF fid = RufFid /\ ruf1 # None THEN ruf1
        ELSE IF fid = RufFid /\ ruf2 # None THEN ruf2
        ELSE IF hits # {} THEN lst[Min(hits)] ELSE None
Lookup(fid) == Find(fid, list, entries)

(* An entry found on the list enters a cache.  Only ruf1, which is asked    *)
(* first, is ever hit, so its count is never below that of ruf2.            *)
Remember(fid, n) ==
    IF n = None \/ (fid = RufFid /\ (ruf1 # None \/ ruf2 # None))
    THEN UNCHANGED <<ruf1, ruf2>>
    ELSE IF ruf1 = None THEN ruf1' = n /\ UNCHANGED ruf2
                        ELSE ruf2' = n /\ UNCHANGED ruf1

SlotsOf(f) == {s \in Slot : dir[s].name = f}
NewEntry(f, fid) ==
    LET s == Min(SlotsOf(f))
    IN  [fid |-> fid, slot |-> s, size |-> dir[s].size, fptr |-> 0]

(* ft_ptr->next = new entry: it is on the list if ft_ptr is. *)
Linked == IF ft_ptr = None \/ ft_ptr \in Range(list)
          THEN Append(list, Len(entries) + 1) ELSE list

Init ==
    /\ generators = [i \in 0..3 |-> 0]
    /\ entries = <<>> /\ list = <<>> /\ ft_ptr = None
    /\ ruf1 = None /\ ruf2 = None
    /\ \E content \in [Slot -> File \cup {Nothing}] :
          /\ \A s, t \in Slot : content[s] = content[t] => s = t \/ content[s] = Nothing
          /\ dir = [s \in Slot |-> IF content[s] = Nothing THEN UnusedSlot
                       ELSE [name |-> content[s], size |-> MaxSize]]
    /\ open = {} /\ taken = {}

-----------------------------------------------------------------------------
(* filemanager::open of an existing file; for a name that is not in the     *)
(* directory it changes nothing.                                            *)
Open(f, mode) ==
    /\ SlotsOf(f) # {} /\ Len(entries) < MaxOpens
    /\ Generate(mode)
    /\ entries' = Append(entries, NewEntry(f, NextFid(mode)))
    /\ list' = Linked
    /\ ft_ptr' = Len(entries) + 1
    /\ open' = open \cup {Len(entries) + 1}
    /\ UNCHANGED <<ruf1, ruf2, dir, taken>>

(* An invalid mode is reported after the entry has been linked; its fid is  *)
(* whatever the memory held: 0 if it is new, else taken to be no descriptor.*)
OpenInvalid(f) ==
    /\ SlotsOf(f) # {} /\ Len(entries) < MaxOpens
    /\ \E fid \in {0, -1} : entries' = Append(entries, NewEntry(f, fid))
    /\ list' = Linked
    /\ ft_ptr' = Len(entries) + 1
    /\ UNCHANGED <<generators, ruf1, ruf2, dir, open, taken>>

(* process::process opens the executable, keeps the descriptor in an        *)
(* unsigned short, reads the file to its end, by two calls of read at       *)
(* least, and never closes it.                                              *)
ReadImage(f) ==
    LET n == Len(entries) + 1
        fid == NextFid("R") % Word
        table == Append(entries, NewEntry(f, NextFid("R")))
        found == Find(fid, Linked, table)
    IN  /\ SlotsOf(f) # {} /\ n <= MaxOpens
        /\ Generate("R")
        /\ entries' = IF found = None THEN table
                      ELSE [table EXCEPT ![found].fptr = table[found].size]
        /\ list' = Linked
        /\ ft_ptr' = n
        /\ IF found = None \/ (fid = RufFid /\ (ruf1 # None \/ ruf2 # None))
           THEN UNCHANGED <<ruf1, ruf2>>
           ELSE /\ ruf1' = IF ruf1 = None THEN found ELSE ruf1
                /\ ruf2' = IF fid = RufFid THEN ruf2 ELSE found
        /\ UNCHANGED <<dir, open, taken>>

UnlinkNextToo(n) ==      \* mutant: skips one link too many
    list' = SelectSeq(list, LAMBDA m : m < n \/ \E k \in Range(list) : n < k /\ k < m)

(* fclose: the first link to the entry is made to skip it; ft_ptr is left   *)
(* alone.  What its call of kdfree does is Memory!FileClose.                *)
Unlink(n) ==
    LET k == Min({i \in DOMAIN list : list[i] = n})
    IN  list' = IF n \in Range(list)
                THEN SubSeq(list, 1, k - 1) \o SubSeq(list, k + 1, Len(list)) ELSE list

(* The descriptor passed is closed for its owner, whichever entry goes.     *)
Close(fid) ==
    LET n == Lookup(fid)
    IN  /\ n # None
        /\ Unlink(n)
        /\ open' = {m \in open : entries[m].fid # fid}
        /\ taken' = IF entries[n].fid = fid THEN taken ELSE taken \cup {n}
        /\ UNCHANGED <<generators, entries, ft_ptr, ruf1, ruf2, dir>>

(* fread: count is cut at the end of the file. *)
Read(fid, count) ==
    LET n == Lookup(fid)
        e == entries[n]
        cut == IF U(e.fptr + count) > e.size THEN U(e.size - e.fptr) ELSE count
    IN  /\ n # None
        /\ Remember(fid, n)
        /\ entries' = [entries EXCEPT ![n].fptr = U(@ + cut)]
        /\ UNCHANGED <<generators, list, ft_ptr, dir, open, taken>>

(* fwrite records the size in the directory entry of ft_ptr.  It reads and  *)
(* writes one sector, the first of the directory's cluster, but counts the  *)
(* entry from there over the whole cluster: from the second sector on the   *)
(* size lands behind the buffer and the disk keeps the old one.  What the   *)
(* clusters do is module Clusters; a full disk, on which nothing or less is *)
(* written, and a pointer beyond the end are left out.                      *)
Write(fid, count) ==
    LET n == Lookup(fid)
        e == entries[n]
        size == Max({e.size, e.fptr + count})
    IN  /\ n # None
        /\ e.fptr <= e.size /\ e.fptr + count <= MaxSize
        /\ Remember(fid, n)
        /\ entries' = [entries EXCEPT ![n].size = size, ![n].fptr = @ + count]
        /\ dir' = IF entries[ft_ptr].slot <= SectorSlots
                  THEN [dir EXCEPT ![entries[ft_ptr].slot].size = size] ELSE dir
        /\ UNCHANGED <<generators, list, ft_ptr, open, taken>>

Sought(e, offset, from) ==
    IF from = 0 /\ offset >= 0 /\ U(e.fptr + offset) <= e.size THEN offset
    ELSE IF from = 1 /\ U(e.fptr + offset) <= e.size THEN U(e.fptr + offset)
    ELSE IF from = 2 /\ offset <= 0 THEN U(e.size + offset)
    ELSE IF from = 1 \/ (from = 0 /\ offset >= 0) THEN e.size
    ELSE e.fptr

(* fseek.  The comparisons are unsigned: "< 0" is never true, so a negative *)
(* sum is beyond the end, and from the end of the file it becomes the       *)
(* pointer as it is.                                                        *)
Seek(fid, offset, from) ==
    LET n == Lookup(fid)
    IN  /\ n # None
        /\ Remember(fid, n)
        /\ entries' = [entries EXCEPT ![n].fptr = Sought(entries[n], offset, from)]
        /\ UNCHANGED <<generators, list, ft_ptr, dir, open, taken>>

Create(f) ==
    LET unused == {s \in Slot : dir[s].name = Nothing}
    IN  /\ SlotsOf(f) = {} /\ unused # {}
        /\ dir' = [dir EXCEPT ![Min(unused)] = [name |-> f, size |-> 0]]
        /\ UNCHANGED <<generators, entries, list, ft_ptr, ruf1, ruf2, open, taken>>

(* The entry goes whether the file is open or not. *)
Delete(f) ==
    /\ SlotsOf(f) # {}
    /\ dir' = [dir EXCEPT ![Min(SlotsOf(f))].name = Nothing]
    /\ UNCHANGED <<generators, entries, list, ft_ptr, ruf1, ruf2, open, taken>>

(* A program may pass any descriptor it was given, or 0. *)
Fid == {entries[n].fid : n \in open} \cup {0}

DescriptorStep(fid) ==
    \/ Close(fid)
    \/ \E count \in 1..MaxSize : Read(fid, count) \/ Write(fid, count)
    \/ \E offset \in -MaxBack..1, from \in 0..2 : Seek(fid, offset, from)

NameStep(f) ==
    \/ \E mode \in Mode : Open(f, mode)
    \/ OpenInvalid(f) \/ ReadImage(f) \/ Create(f) \/ Delete(f)

Next == (\E f \in File : NameStep(f)) \/ (\E fid \in Fid : DescriptorStep(fid))

Spec == Init /\ [][Next]_vars

-----------------------------------------------------------------------------
Node == 1..MaxOpens
Entry == [fid : -1..Word * Word - 1, slot : Slot,
          size : 0..Word * Word - 1, fptr : 0..Word * Word - 1]

TypeOK ==
    /\ generators \in [0..3 -> 0..Word - 1]
    /\ entries \in Seq(Entry) /\ Len(entries) <= MaxOpens
    /\ list \in Seq(Node)
    /\ {ft_ptr, ruf1, ruf2} \subseteq 0..Len(entries)
    /\ dir \in [Slot -> [name : File \cup {Nothing}, size : 0..MaxSize]]
    /\ open \subseteq DOMAIN entries /\ taken \subseteq DOMAIN entries

(* The three generators overlap in memory, and each skips what could be     *)
(* another's: no two files ever opened have the same descriptor, and none   *)
(* has the one the caches answer to.                                        *)
DescriptorsDistinct ==
    \A m, n \in open :
        /\ entries[m].fid = entries[n].fid => m = n
        /\ entries[n].fid # RufFid

(* A descriptor that has not been closed never reaches another file. *)
OwnFile == \A n \in open : Lookup(entries[n].fid) \in {n, None}

(* It reaches its own, with two exceptions: a file that a close of descriptor *)
(* 0 took off the list through a cache, and that can only be the first file   *)
(* ever read, written or sought; and files opened after the file opened last  *)
(* was taken off, each of which hangs off an entry that is not on the list.   *)
ReachedUnlessTaken ==
    /\ ft_ptr \in Range(list) => \A n \in open \ taken : Lookup(entries[n].fid) = n
    /\ taken \subseteq {ruf1}

(* process.cpp:33: "open the executable file in read mode"; what is read    *)
(* next is that file.                                                       *)
ImagesRead ==
    [][\A f \in File : ReadImage(f) =>
          Find(NextFid("R") % Word, list', entries') = ft_ptr']_vars
==============================================================================
