-------------------------------- MODULE Drives --------------------------------
(***************************************************************************)
(* How class filemanager of src/os/cpp/filemanager.cpp finds partitions:   *)
(* the scan of the partition tables at boot, the drive letters it gives    *)
(* out, and the two cached recently used partitions that seven calls ask   *)
(* before they search the list.                                            *)
(*                                                                         *)
(* The scan is one step per partition table entry or extended boot record. *)
(* Only the primary master is attached: the code that looks for other      *)
(* drives is commented out.  detach_partition is never called.             *)
(***************************************************************************)
EXTENDS Integers, Sequences, FiniteSets

CONSTANTS
    Disks,       \* disks: [mbr |-> entries, ebr |-> records by their sector]
    Bits,        \* bits of partition_status that are looked at (31)
    LastLetter,  \* the last letter given out, counted from 0 (26)
    MaxCount     \* bound: uses of a cached partition that are counted

Kind == {"fat32", "extended", "other"}

(* An entry of the table has the kind of a partition and where it begins;   *)
(* an extended boot record describes a partition, relative to itself, and   *)
(* the next record.                                                         *)
ASSUME DrivesAssumption ==
    /\ Bits \in Nat /\ LastLetter \in Nat /\ LastLetter < Bits /\ MaxCount \in Nat \ {0}
    /\ \A d \in Disks :
          /\ d.mbr \in Seq([kind : Kind, lba : Nat])
          /\ DOMAIN d.ebr \subseteq Nat /\ IsFiniteSet(DOMAIN d.ebr)
          /\ \A a \in DOMAIN d.ebr : d.ebr[a] \in [kind : Kind, first : Nat, next : Nat]

VARIABLES
    disk,
    i,                     \* the entry of the master boot record looked at
    lba,                   \* the extended boot record in ebr, None outside a chain
    partitions,            \* phead..ptail: [drive_letter, begin]
    partition_status,      \* letters not given out
    number_of_partitions,
    rup1, rup2,            \* [ppointer, count, isvalid]; ppointer is a place in the list
    partition              \* ghost: the letter last asked for and the answer

scanvars == <<disk, i, lba, partitions, partition_status, number_of_partitions>>
vars == <<scanvars, rup1, rup2, partition>>

None == -1
Letter == 0..LastLetter
Place == 1..Len(partitions)

(* What a sector says as an extended boot record; a sector that is none has *)
(* zeros there.                                                             *)
Record(d, a) ==
    IF a \in DOMAIN d.ebr THEN d.ebr[a] ELSE [kind |-> "other", first |-> 0, next |-> 0]

Scanned == i > Len(disk.mbr)

Unused == [ppointer |-> 0, count |-> 0, isvalid |-> FALSE]

Init ==
    /\ disk \in Disks
    /\ i = 1 /\ lba = None
    /\ partitions = <<>> /\ partition_status = 0..Bits - 1 /\ number_of_partitions = 0
    /\ rup1 = Unused /\ rup2 = Unused
    /\ partition = [letter |-> None, begin |-> None]

-----------------------------------------------------------------------------
(* The lowest letter not given out; Bits if there is none. *)
LowestFree(b) ==
    /\ b \in partition_status \cup {Bits}
    /\ \A c \in partition_status : b <= c

AttachAnyLetter(begin) ==      \* mutant: the number of letters is not checked
    \E b \in 0..Bits :
        /\ LowestFree(b)
        /\ number_of_partitions' = number_of_partitions + 1
        /\ partition_status' = partition_status \ {b}
        /\ partitions' = Append(partitions, [drive_letter |-> b, begin |-> begin])

AttachKeepsLetter(begin) ==      \* mutant: the letter stays free
    \E b \in 0..Bits :
        /\ LowestFree(b)
        /\ number_of_partitions' = number_of_partitions + 1
        /\ partition_status' = partition_status
        /\ partitions' = IF b > LastLetter THEN partitions
                         ELSE Append(partitions, [drive_letter |-> b, begin |-> begin])

(* attach_partition: the partition is counted, and a bit taken, also when   *)
(* it gets no letter and is left out of the list.                           *)
AttachPartition(begin) ==
    \E b \in 0..Bits :
        /\ LowestFree(b)
        /\ number_of_partitions' = number_of_partitions + 1
        /\ partition_status' = partition_status \ {b}
        /\ partitions' = IF b > LastLetter THEN partitions
                         ELSE Append(partitions, [drive_letter |-> b, begin |-> begin])

AttachNothing == UNCHANGED <<partitions, partition_status, number_of_partitions>>

Entry ==
    /\ ~Scanned /\ lba = None
    /\ \/ disk.mbr[i].kind = "fat32" /\ AttachPartition(disk.mbr[i].lba) /\ i' = i + 1 /\ lba' = lba
       \/ disk.mbr[i].kind = "extended" /\ AttachNothing /\ i' = i /\ lba' = disk.mbr[i].lba
       \/ disk.mbr[i].kind = "other" /\ AttachNothing /\ i' = i + 1 /\ lba' = lba
    /\ UNCHANGED <<disk, rup1, rup2, partition>>

LinkForgetsLast ==      \* mutant: the partition of the last record is not attached
    LET ebr == Record(disk, lba)
    IN  /\ lba # None
        /\ IF ebr.kind = "fat32" /\ ebr.next # 0 THEN AttachPartition(ebr.first + lba) ELSE AttachNothing
        /\ IF ebr.next = 0 THEN i' = i + 1 /\ lba' = None ELSE i' = i /\ lba' = lba + ebr.next
        /\ UNCHANGED <<disk, rup1, rup2, partition>>

(* One extended boot record; the next one is taken to lie ebr.next behind   *)
(* this one.                                                                *)
Link ==
    LET ebr == Record(disk, lba)
    IN  /\ lba # None
        /\ IF ebr.kind = "fat32" THEN AttachPartition(ebr.first + lba) ELSE AttachNothing
        /\ IF ebr.next = 0 THEN i' = i + 1 /\ lba' = None ELSE i' = i /\ lba' = lba + ebr.next
        /\ UNCHANGED <<disk, rup1, rup2, partition>>

-----------------------------------------------------------------------------
(* Which partition a name is looked up in. *)

CachedIn(rup, d) == rup.isvalid /\ partitions[rup.ppointer].drive_letter = d

Answer(d, begin) == partition' = [letter |-> d, begin |-> begin]

UseFirst(d) ==
    /\ CachedIn(rup1, d) /\ rup1.count < MaxCount
    /\ rup1' = [rup1 EXCEPT !.count = @ + 1]
    /\ Answer(d, partitions[rup1.ppointer].begin)
    /\ UNCHANGED rup2

UseSecondAsFirst(d) ==      \* mutant: the second hit answers with the first's partition
    /\ ~CachedIn(rup1, d) /\ CachedIn(rup2, d) /\ rup2.count < MaxCount
    /\ rup2' = [rup2 EXCEPT !.count = @ + 1]
    /\ Answer(d, partitions[rup1.ppointer].begin)
    /\ UNCHANGED rup1

UseSecond(d) ==
    /\ ~CachedIn(rup1, d) /\ CachedIn(rup2, d) /\ rup2.count < MaxCount
    /\ rup2' = [rup2 EXCEPT !.count = @ + 1]
    /\ Answer(d, partitions[rup2.ppointer].begin)
    /\ UNCHANGED rup1

(* The first entry of the list with the letter. *)
FirstInList(p, d) ==
    /\ partitions[p].drive_letter = d
    /\ \A q \in 1..p - 1 : partitions[q].drive_letter # d
InList(d) == \E p \in Place : partitions[p].drive_letter = d

Used(p) == [ppointer |-> p, count |-> 1, isvalid |-> TRUE]

SearchListFirst(d) ==      \* mutant: the second cache is not asked
    \E p \in Place :
        /\ ~CachedIn(rup1, d) /\ FirstInList(p, d)
        /\ Answer(d, partitions[p].begin)
        /\ IF rup1.count < rup2.count \/ ~rup1.isvalid
           THEN rup1' = Used(p) /\ UNCHANGED rup2
           ELSE rup2' = Used(p) /\ UNCHANGED rup1

(* The partition found in the list takes the place of the one used less.    *)
SearchList(d) ==
    \E p \in Place :
        /\ ~CachedIn(rup1, d) /\ ~CachedIn(rup2, d) /\ FirstInList(p, d)
        /\ Answer(d, partitions[p].begin)
        /\ IF rup1.count < rup2.count \/ ~rup1.isvalid
           THEN rup1' = Used(p) /\ UNCHANGED rup2
           ELSE rup2' = Used(p) /\ UNCHANGED rup1

NoSuchDrive(d) ==
    /\ ~CachedIn(rup1, d) /\ ~CachedIn(rup2, d) /\ ~InList(d)
    /\ Answer(d, None)
    /\ UNCHANGED <<rup1, rup2>>

Select(d) ==
    /\ Scanned
    /\ UseFirst(d) \/ UseSecond(d) \/ SearchList(d) \/ NoSuchDrive(d)
    /\ UNCHANGED scanvars

(* The calls differ in what they ask the partition for, and in the answer   *)
(* that stands for no such drive: -1 from open, 0 from the others.          *)
CreateFile(d) == Select(d)
Open(d) == Select(d)
DeleteFile(d) == Select(d)
List(d) == Select(d)
CreateDir(d) == Select(d)
Cd(d) == Select(d)
FileSearch(d) == Select(d)

Next ==
    \/ Entry
    \/ Link
    \/ \E d \in 0..LastLetter + 1 :
          \/ CreateFile(d) \/ Open(d) \/ DeleteFile(d) \/ List(d)
          \/ CreateDir(d) \/ Cd(d) \/ FileSearch(d)

Spec == Init /\ [][Next]_vars

-----------------------------------------------------------------------------
Rup == [ppointer : 0..Len(partitions), count : 0..MaxCount, isvalid : BOOLEAN]

TypeOK ==
    /\ disk \in Disks
    /\ i \in 1..Len(disk.mbr) + 1 /\ lba \in Nat \cup {None}
    /\ partitions \in Seq([drive_letter : Letter, begin : Nat])
    /\ partition_status \subseteq 0..Bits - 1
    /\ number_of_partitions \in Nat
    /\ rup1 \in Rup /\ rup2 \in Rup
    /\ partition.letter \in 0..LastLetter + 1 \cup {None} /\ partition.begin \in Nat \cup {None}

(* attach_partition: no two partitions share a drive letter, and no letter  *)
(* in use is still on offer.                                                *)
LettersDistinct ==
    \A p \in Place :
        /\ partitions[p].drive_letter \notin partition_status
        /\ \A q \in Place \ {p} : partitions[p].drive_letter # partitions[q].drive_letter

(* filemanager.cpp:101, "cached recently used partitions": the two caches   *)
(* are about two partitions, both in the list.                              *)
CachesApart ==
    /\ \A r \in {rup1, rup2} : r.isvalid => r.ppointer \in Place
    /\ rup1.isvalid /\ rup2.isvalid => rup1.ppointer # rup2.ppointer

(* Whatever is cached and whatever was evicted, a name reaches the only     *)
(* partition that has its drive letter, and none if there is none.          *)
ReachesOwnDrive ==
    LET own == {p \in Place : partitions[p].drive_letter = partition.letter}
    IN  partition.letter # None =>
          IF own = {} THEN partition.begin = None
          ELSE \A p \in own : partition.begin = partitions[p].begin

(* What a disk holds.  The records of an extended partition are the least    *)
(* set with the one at its beginning and with all that those in it lead to: *)
(* each lies as far behind the beginning as the one before it says.         *)
Records(d, e) ==
    LET all == {e} \cup {e + d.ebr[a].next : a \in DOMAIN d.ebr}
        closed == {s \in SUBSET all :
                     e \in s /\ \A a \in s : Record(d, a).next # 0 => e + Record(d, a).next \in s}
    IN  {a \in all : \A s \in closed : a \in s}

PartitionIn(d, a) == IF Record(d, a).kind = "fat32" THEN {a + Record(d, a).first} ELSE {}

(* The partitions behind one entry of the table, and all of them.           *)
Behind(d, k) ==
    CASE d.mbr[k].kind = "fat32" -> {d.mbr[k].lba}
      [] d.mbr[k].kind = "extended" -> UNION {PartitionIn(d, a) : a \in Records(d, d.mbr[k].lba)}
      [] OTHER -> {}
Contents(d) == UNION {Behind(d, k) : k \in DOMAIN d.mbr}

Extended(d) == {d.mbr[k].lba : k \in {n \in DOMAIN d.mbr : d.mbr[n].kind = "extended"}}

(* No two partitions of a disk begin at one place, and in a chain every     *)
(* record lies behind the one before it.                                    *)
WellFormed(d) ==
    /\ \A j, k \in DOMAIN d.mbr : j # k => Behind(d, j) \cap Behind(d, k) = {}
    /\ \A e \in Extended(d) :
          /\ \A a \in Records(d, e) : Record(d, a).next # 0 => e + Record(d, a).next > a
          /\ \A a, b \in Records(d, e) : a # b => PartitionIn(d, a) \cap PartitionIn(d, b) = {}

(* initialize: unless a chain has more than two records, the scan finds     *)
(* every FAT32 partition of the disk once and nothing else, and all of them *)
(* get letters as long as there are letters.                                *)
ScanComplete ==
    LET found == {partitions[p].begin : p \in Place}
    IN  Scanned /\ (\A e \in Extended(disk) : Cardinality(Records(disk, e)) <= 2) =>
          /\ number_of_partitions = Cardinality(Contents(disk))
          /\ found \subseteq Contents(disk) /\ Cardinality(found) = Len(partitions)
          /\ number_of_partitions <= LastLetter + 1 => found = Contents(disk)
==============================================================================
