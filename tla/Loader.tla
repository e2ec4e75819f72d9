-------------------------------- MODULE Loader --------------------------------
(***************************************************************************)
(* The boot loader, src/smldr/cpp: the configuration file it reads, the    *)
(* menu with its countdown, and the loading of the kernel or of another    *)
(* system's boot sector.                                                   *)
(*                                                                         *)
(* The handlers are interrupt gates: each runs to its end with interrupts  *)
(* off, and so does the boot it starts.  A sector is known by its address  *)
(* on the disk, and memory from 1 MB on by the sectors copied there.  kmain *)
(* reads the configuration line by line, with interrupts still off.         *)
(***************************************************************************)
EXTENDS Integers, Sequences, Functions

CONSTANTS
    Configs,         \* what SMCONF may say, line by line
    Tables,          \* partition tables: [mbr |-> addresses, ebr |-> records]
    Directories,     \* [root |-> names, osmosys |-> names]
    Chains,          \* clusters a kernel may be in, in order
    FileSizes,       \* bytes of the kernel
    SectorSize,      \* bytes in a sector (512)
    TicksPerSecond,  \* 18
    sectors_per_cluster,
    FatOffset,       \* a partition's reserved sectors
    DataOffset,      \* its sectors before the first cluster
    DiskSectors,
    BitOr(_, _)         \* the bitwise or of two halves of a cluster number

VARIABLES
    disk,            \* [table, dirs, chain, filesize]
    place,           \* "config", "menu", "loading", "osmosys", "chained" or "stuck"
    unread,          \* the lines of the configuration still to come
    code,            \* the key of the line before
    os,              \* the array of options
    oscount, current_option, timer, is_timer_active,
    loop,            \* of bootosmosys: [part, i, cluster, count]
    memory,          \* the sector copied to each place, Rest if none of the kernel's
    booted           \* ghost: the first sector of the partition started

menu == <<os, oscount, current_option, timer, is_timer_active>>
boot == <<loop, memory, booted>>
vars == <<disk, place, unread, code, menu, boot>>

MaxOses == 10
FatEntries == 128             \* in a sector
Half == 65536                 \* a directory entry keeps a cluster in two halves
EndMark == 268435455          \* 0x0FFFFFFF
MediaMark == 268435448        \* what the first entry of a table has
NoCluster == -1               \* 0xFFFFFFFF
Rest == -1
NoPart == -1

Clusters(bytes) == (bytes + SectorSize * sectors_per_cluster - 1) \div (SectorSize * sectors_per_cluster)

Option == {"osmosys", "chloados"}
Code == {"timeout", "default", "unknown"} \cup Option

ASSUME LoaderAssumption ==
    \* There is something to choose, and no line leads beyond the array of
    \* options or the partition table: what is there nobody knows.
    /\ \A c \in Configs :
          /\ c \in Seq([key : Code, value : Nat, part : Nat \cup {NoPart}]) /\ Len(c) <= MaxOses
          /\ \E k \in DOMAIN c : c[k].key \in Option
          /\ \A k \in DOMAIN c :
                /\ c[k].key \in {"default", "unknown"} => c[k].value < MaxOses
                /\ \A t \in Tables : c[k].part = NoPart \/ c[k].part \div 8 < Len(t.mbr)
    /\ \A t \in Tables :
          /\ t.mbr \in Seq(Nat) \ {<<>>}
          /\ \A a \in DOMAIN t.ebr : t.ebr[a] \in [first : Nat, next : Nat]
    /\ {SectorSize, TicksPerSecond, sectors_per_cluster} \subseteq Nat \ {0}
    /\ {FatOffset, DataOffset, DiskSectors} \subseteq Nat
    /\ FileSizes \subseteq Nat \ {0}
    /\ \A f \in FileSizes : \E c \in Chains : Len(c) = Clusters(f)
    \* The first two entries of the table are no clusters of files.
    /\ \A c \in Chains :
          /\ c \in Seq(Nat \ {0, 1}) /\ IsInjective(c)
          /\ c # <<>> => BitOr(c[1] \div Half, c[1] % Half) \in Nat
          /\ c # <<>> /\ c[1] < Half => BitOr(0, c[1]) = c[1]
    \* The end mark, taken for a cluster, is in front of the first one, and
    \* its own table entry beyond the disk.
    /\ 3 * sectors_per_cluster <= DataOffset /\ DiskSectors <= EndMark \div FatEntries

-----------------------------------------------------------------------------
(* What the disk says *)

Record(a) ==
    IF a \in DOMAIN disk.table.ebr THEN disk.table.ebr[a] ELSE [first |-> 0, next |-> 0]

(* Option 8p is the p-th entry of the master boot record, 8p + k the k-th   *)
(* logical partition in it.  Each link is added to the record it is read    *)
(* from.                                                                    *)
return_partition_lba(index) ==
    LET lba == disk.table.mbr[(index \div 8) + 1]
        ebr[k \in 1..7] == IF k = 1 THEN lba ELSE ebr[k - 1] + Record(ebr[k - 1]).next
    IN  IF index % 8 = 0 THEN lba ELSE ebr[index % 8] + Record(ebr[index % 8]).first

(* The loader gives the disk 28 bits of an address and then waits, with no  *)
(* limit, for it to offer data.                                             *)
Readable(a) == a % 268435456 < DiskSectors

FatSector(part, cluster) == part + FatOffset + (cluster \div FatEntries)

find_chain_cluster(cluster) ==
    LET k == CHOOSE k \in DOMAIN disk.chain : disk.chain[k] = cluster
    IN  CASE cluster = 0 -> MediaMark
          [] cluster = 1 -> EndMark
          [] cluster \in Range(disk.chain) ->
                IF k = Len(disk.chain) THEN EndMark ELSE disk.chain[k + 1]
          [] OTHER -> 0

ClusterSector(part, cluster) == (part + DataOffset + ((cluster - 2) * sectors_per_cluster)) % 268435456

(* Whether a search of a directory finds a name: it goes through the names, *)
(* cluster by cluster, and ends at the first unused entry.  After a full    *)
(* last cluster it goes on in the end of the table, taken to be unused.     *)
Finds(dir, name) ==
    \E k \in DOMAIN dir : dir[k] = name /\ \A j \in 1..(k - 1) : dir[j] # "end"

FileCluster == BitOr(disk.chain[1] \div Half, disk.chain[1] % Half)

-----------------------------------------------------------------------------
(* kmain: the configuration *)

Unset == [isosmosys |-> FALSE, partindex |-> 0]

(* code is not initialised: an unknown first key may be taken for any.      *)
Init ==
    /\ unread \in Configs
    /\ code \in Code /\ (code # "unknown" => Head(unread).key = "unknown")
    /\ os = [k \in 0..(MaxOses - 1) |-> Unset] /\ oscount = 0
    /\ current_option = 0 /\ timer = 0 /\ is_timer_active = FALSE
    /\ disk \in [table : Tables, dirs : Directories, chain : Chains, filesize : FileSizes]
    /\ Len(disk.chain) = Clusters(disk.filesize)
    /\ place = "config" /\ booted = NoPart
    /\ loop = [part |-> 0, i |-> 0, cluster |-> 0, count |-> 0]
    /\ memory = [k \in {} |-> Rest]

(* One line.  Its key is remembered from the line before if it is unknown,  *)
(* and an option's kind and partition are set only where a comma is.        *)
ReadLine ==
    LET line == Head(unread)
        key == IF line.key = "unknown" THEN code ELSE line.key
    IN  /\ place = "config" /\ unread # <<>>
        /\ unread' = Tail(unread) /\ code' = key
        /\ timer' = IF key = "timeout" THEN line.value * TicksPerSecond ELSE timer
        /\ current_option' = IF key = "default" THEN line.value ELSE current_option
        /\ oscount' = IF key \in Option THEN oscount + 1 ELSE oscount
        /\ os' = IF key \in Option /\ line.part # NoPart
                 THEN [os EXCEPT ![oscount] = [isosmosys |-> key = "osmosys", partindex |-> line.part]]
                 ELSE os
        /\ UNCHANGED <<disk, place, is_timer_active, boot>>

ShowMenu ==
    /\ place = "config" /\ unread = <<>>
    /\ place' = "menu" /\ is_timer_active' = TRUE
    /\ UNCHANGED <<disk, unread, code, os, oscount, current_option, timer, boot>>

-----------------------------------------------------------------------------
(* Booting *)

(* Both names are there: the first cluster is read and the loop begins.     *)
(* The size is the kernel's own only if its entry is among the first 128 of *)
(* the directory's cluster, as the disks here have it; of a later one       *)
(* return_file_cluster reads another entry's.                               *)
BeginLoading(part) ==
    /\ Finds(disk.dirs.root, "OSMOSYS") /\ Finds(disk.dirs.osmosys, "KERNEL")
    /\ loop' = [part |-> part, i |-> 0, cluster |-> FileCluster,
                count |-> disk.filesize \div SectorSize]
    /\ place' = IF Readable(ClusterSector(part, FileCluster)) THEN "loading" ELSE "stuck"
    /\ UNCHANGED <<memory, booted>>

(* One is missing: a message, and back to what was interrupted.             *)
NothingToLoad ==
    /\ ~(Finds(disk.dirs.root, "OSMOSYS") /\ Finds(disk.dirs.osmosys, "KERNEL"))
    /\ UNCHANGED <<place, boot>>

ChainloadOs(part) ==
    /\ place' = IF Readable(part) THEN "chained" ELSE "stuck"
    /\ booted' = IF Readable(part) THEN part ELSE booted
    /\ UNCHANGED <<loop, memory>>

Boot(option) ==
    LET part == return_partition_lba(option.partindex)
    IN  \/ option.isosmosys /\ BeginLoading(part)
        \/ option.isosmosys /\ NothingToLoad
        \/ ~option.isosmosys /\ ChainloadOs(part)

(* Which sectors of the buffer are copied: one more than there are to read. *)
CopiedExactly(to_read) == 0..(to_read - 1)    \* mutant: without the one too many

Copied(to_read) == 0..to_read

(* What the buffer has in its k-th sector.                                  *)
Buffered(k) ==
    IF k < sectors_per_cluster THEN ClusterSector(loop.part, loop.cluster) + k ELSE Rest

LastClusterNext(filesize) == filesize \div (SectorSize * sectors_per_cluster) + 1    \* mutant: one round more

LastCluster(filesize) == filesize \div (SectorSize * sectors_per_cluster)

(* One round of the loop: copy a cluster, follow the chain and read the     *)
(* next, whatever the table says it is.                                     *)
LoadCluster ==
    LET to_read == IF loop.count >= sectors_per_cluster THEN sectors_per_cluster ELSE loop.count
        start == loop.i * sectors_per_cluster
        next == find_chain_cluster(loop.cluster)
        done == next = NoCluster \/ loop.i = LastCluster(disk.filesize)
    IN  /\ place = "loading"
        /\ memory' = [k \in DOMAIN memory \cup {start + j : j \in Copied(to_read)} |->
                        IF k - start \in Copied(to_read) THEN Buffered(k - start) ELSE memory[k]]
        /\ loop' = [loop EXCEPT !.i = @ + 1, !.cluster = next, !.count = @ - to_read]
        /\ \/ /\ ~Readable(FatSector(loop.part, loop.cluster))
              /\ place' = "stuck" /\ UNCHANGED booted
           \/ /\ Readable(FatSector(loop.part, loop.cluster))
              /\ next # NoCluster /\ ~Readable(ClusterSector(loop.part, next))
              /\ place' = "stuck" /\ UNCHANGED booted
           \/ /\ Readable(FatSector(loop.part, loop.cluster))
              /\ next = NoCluster \/ Readable(ClusterSector(loop.part, next))
              /\ place' = IF done THEN "osmosys" ELSE "loading"
              /\ booted' = IF done THEN loop.part ELSE booted
        /\ UNCHANGED <<disk, unread, code, menu>>

-----------------------------------------------------------------------------
(* The menu *)

(* timer_handler; below 0 all values are one here, for none comes back.     *)
Timer ==
    /\ place = "menu" /\ is_timer_active
    /\ timer' = IF timer < 0 THEN timer ELSE timer - 1
    /\ \/ timer' = 0 /\ Boot(os[current_option])
       \/ timer' # 0 /\ UNCHANGED <<place, boot>>
    /\ UNCHANGED <<disk, unread, code, os, oscount, current_option, is_timer_active>>

(* Every key stops the countdown, a key that is let go too.                 *)
Key ==
    /\ place = "menu"
    /\ is_timer_active' = FALSE
    /\ UNCHANGED <<disk, unread, code, os, oscount, timer>>

Down ==
    /\ Key
    \* bound: beyond the array nothing is known
    /\ current_option + 1 \in 0..(MaxOses - 1) \cup {oscount}
    /\ current_option' = IF current_option + 1 = oscount THEN 0 ELSE current_option + 1
    /\ UNCHANGED <<place, boot>>

UpToCount(count) == IF current_option - 1 = -1 THEN count ELSE current_option - 1    \* mutant: off by one

UpBelow(count) == current_option - 1    \* mutant: no wrapping

UpTo(count) == IF current_option - 1 = -1 THEN count - 1 ELSE current_option - 1

Up ==
    /\ Key
    /\ current_option' = UpTo(oscount)
    /\ UNCHANGED <<place, boot>>

Enter == Key /\ UNCHANGED current_option /\ Boot(os[current_option])

OtherKey == Key /\ UNCHANGED <<current_option, place, boot>>

Next == ReadLine \/ ShowMenu \/ Timer \/ Down \/ Up \/ Enter \/ OtherKey \/ LoadCluster

(* The timer ticks as long as interrupts are on, and the loop goes on.      *)
Spec == Init /\ [][Next]_vars /\ WF_vars(Timer) /\ WF_vars(LoadCluster)

-----------------------------------------------------------------------------
(* Properties *)

InMenu == current_option \in 0..(oscount - 1)

(* The variables keep their types: what is highlighted is always a place of *)
(* the array, and the kernel's sectors are never counted below 0.           *)
TypeOK ==
    /\ place \in {"config", "menu", "loading", "osmosys", "chained", "stuck"} /\ code \in Code
    /\ os \in [0..(MaxOses - 1) -> [isosmosys : BOOLEAN, partindex : Nat]]
    /\ oscount \in 0..MaxOses /\ current_option \in 0..(MaxOses - 1)
    /\ timer \in Int /\ timer >= -1 /\ is_timer_active \in BOOLEAN
    /\ loop \in [part : Nat, i : Nat, cluster : Nat, count : Nat]
    /\ booted \in Nat \cup {NoPart}

(* A highlight that is an option of the menu stays one, whatever keys are   *)
(* pressed.  That it is one at first is not sure: kmain does not compare    *)
(* default with the number of options, and Down only wraps at that number.  *)
HighlightStays == [][place = "menu" /\ InMenu => InMenu']_vars

(* Where a partition is by the rule that every link of an extended          *)
(* partition is counted from that partition.                                *)
PartitionStart(index) ==
    LET extended == disk.table.mbr[(index \div 8) + 1]
        record[k \in 1..7] == IF k = 1 THEN extended ELSE extended + Record(record[k - 1]).next
    IN  IF index % 8 = 0 THEN extended
        ELSE record[index % 8] + Record(record[index % 8]).first

(* What is started is the system of the highlighted option, from its own    *)
(* partition, and of a kernel every sector is in its place, although the    *)
(* loop counts in clusters and sectors and copies one more of each round.   *)
(* Beyond the second logical partition the walk of return_partition_lba     *)
(* leaves the records, and a kernel from cluster 65536 on is not found.     *)
StartedRight ==
    LET option == os[current_option]
        sectors == (disk.filesize + SectorSize - 1) \div SectorSize
    IN  /\ place \in {"osmosys", "chained"} =>
              /\ option.isosmosys <=> place = "osmosys"
              /\ option.partindex % 8 <= 2 => booted = PartitionStart(option.partindex)
        /\ place = "osmosys" /\ disk.chain[1] < Half =>
              \A k \in 0..(sectors - 1) :
                 /\ k \in DOMAIN memory
                 /\ memory[k] = ClusterSector(booted, disk.chain[(k \div sectors_per_cluster) + 1])
                                + (k % sectors_per_cluster)

(* A menu nobody touches starts a system when the countdown ends, unless it *)
(* has no kernel to load; and loading ends, unless the kernel fills its     *)
(* clusters: then bootosmosys goes one round beyond the last cluster and    *)
(* waits for ever for a table entry beyond the disk.                        *)
FillsClusters == disk.filesize % (SectorSize * sectors_per_cluster) = 0
HasKernel == Finds(disk.dirs.root, "OSMOSYS") /\ Finds(disk.dirs.osmosys, "KERNEL")

UnattendedBoots ==
    (is_timer_active /\ timer > 0) ~>
        \/ ~is_timer_active
        \/ place \in {"osmosys", "chained"}
        \/ os[current_option].isosmosys /\ (~HasKernel \/ FillsClusters \/ disk.chain[1] >= Half)
=============================================================================
