----------------------------- MODULE Drives_proofs -----------------------------
(***************************************************************************)
(* What Drives promises for every set of disks, every number of letters    *)
(* and every bound on the counters: letters are distinct, the two caches   *)
(* are about two partitions, and every request reaches its own drive.      *)
(*                                                                         *)
(* The invariant that carries the last one is Boot: until the scan has     *)
(* ended nothing is cached and nothing asked for, so that the list is      *)
(* fixed from the first request on.                                        *)
(***************************************************************************)
EXTENDS Drives, SequenceTheorems, FiniteSetTheorems, TLAPS

Boot ==
    /\ lba # None => ~Scanned
    /\ ~Scanned => rup1 = Unused /\ rup2 = Unused /\ partition.letter = None

ListEntry == [drive_letter : Letter, begin : Nat]
TableEntry == [kind : Kind, lba : Nat]

(* Elements of sequences have the type the sequence has. *)
LEMMA ListTyped ==
    ASSUME partitions \in Seq(ListEntry), NEW p \in Place PROVE partitions[p].begin \in Nat
  <1>1. partitions[p] \in ListEntry
    BY DEF Place
  <1> QED BY <1>1 DEF ListEntry

LEMMA TableTyped ==
    ASSUME NEW mbr \in Seq(TableEntry), NEW k \in 1..Len(mbr)
    PROVE  mbr[k].kind \in Kind /\ mbr[k].lba \in Nat
  <1>1. mbr[k] \in TableEntry
    OBVIOUS
  <1> QED BY <1>1 DEF TableEntry

IInv == TypeOK /\ Boot /\ LettersDistinct /\ CachesApart /\ ReachesOwnDrive

LEMMA InitIInv == ASSUME Init PROVE IInv
  <1>1. disk.mbr \in Seq([kind : Kind, lba : Nat])
    BY DrivesAssumption DEF Init
  <1>2. TypeOK
    BY <1>1, DrivesAssumption DEF Init, TypeOK, Rup, Unused, None, Letter
  <1>3. Boot /\ LettersDistinct /\ CachesApart /\ ReachesOwnDrive
    BY <1>1 DEF Init, Boot, LettersDistinct, CachesApart, ReachesOwnDrive, Place, Unused, None, Scanned
  <1> QED BY <1>2, <1>3 DEF IInv

-----------------------------------------------------------------------------
(* The scan. *)

(* A partition attached behind the others gets a letter none of them has,   *)
(* and gives it up from those on offer.                                     *)
LEMMA Attached ==
    ASSUME IInv, NEW begin \in Nat, AttachPartition(begin)
    PROVE  /\ partitions' \in Seq([drive_letter : Letter, begin : Nat])
           /\ partition_status' \subseteq 0..Bits - 1
           /\ number_of_partitions' \in Nat
           /\ LettersDistinct'
  <1> PICK b \in 0..Bits :
          /\ LowestFree(b)
          /\ number_of_partitions' = number_of_partitions + 1
          /\ partition_status' = partition_status \ {b}
          /\ partitions' = IF b > LastLetter THEN partitions
                           ELSE Append(partitions, [drive_letter |-> b, begin |-> begin])
    BY DEF AttachPartition
  <1> partitions \in Seq([drive_letter : Letter, begin : Nat])
    BY DEF IInv, TypeOK
  <1>1. partition_status' \subseteq 0..Bits - 1 /\ number_of_partitions' \in Nat
    BY DEF IInv, TypeOK
  <1>2. CASE b > LastLetter
    BY <1>1, <1>2 DEF IInv, LettersDistinct, Place
  <1>3. CASE ~(b > LastLetter)
    <2>1. b \in Letter /\ b \in partition_status
      BY <1>3, DrivesAssumption DEF Letter, LowestFree
    <2>2. partitions' = Append(partitions, [drive_letter |-> b, begin |-> begin])
      BY <1>3
    <2>3. partitions' \in Seq([drive_letter : Letter, begin : Nat])
      <3>1. [drive_letter |-> b, begin |-> begin] \in ListEntry
        BY <2>1 DEF ListEntry
      <3>2. partitions \in Seq(ListEntry)
        BY DEF ListEntry
      <3>3. partitions' \in Seq(ListEntry)
        BY <2>2, <3>1, <3>2
      <3> QED BY <3>3 DEF ListEntry
    <2>4. /\ Len(partitions') = Len(partitions) + 1
          /\ \A p \in Place : partitions'[p] = partitions[p]
          /\ partitions'[Len(partitions) + 1].drive_letter = b
      BY <2>2 DEF Place
    <2>5. \A p \in Place' : p \in Place \/ p = Len(partitions) + 1
      BY <2>4 DEF Place
    <2>6. \A p \in Place : partitions[p].drive_letter # b
      BY <2>1 DEF IInv, LettersDistinct
    <2>7. ASSUME NEW p \in Place'
          PROVE  /\ partitions'[p].drive_letter \notin partition_status'
                 /\ \A q \in Place' \ {p} : partitions'[p].drive_letter # partitions'[q].drive_letter
      <3>1. partition_status' = partition_status \ {b}
        OBVIOUS
      <3>2. LettersDistinct
        BY DEF IInv
      <3>3. CASE p \in Place
        BY <2>4, <2>5, <2>6, <3>1, <3>2, <3>3 DEF LettersDistinct
      <3>4. CASE p = Len(partitions) + 1
        <4>1. partitions'[p].drive_letter = b
          BY <2>4, <3>4
        <4>2. \A q \in Place' \ {p} : q \in Place
          BY <2>5, <3>4
        <4> QED BY <2>4, <2>6, <3>1, <4>1, <4>2
      <3> QED BY <2>5, <2>7, <3>3, <3>4
    <2>8. LettersDistinct'
      BY <2>7 DEF LettersDistinct
    <2> QED BY <1>1, <2>3, <2>8
  <1> QED BY <1>2, <1>3

(* What is to be shown of a step of the scan: it only adds to the list.     *)
LEMMA ScanStep ==
    ASSUME IInv, ~Scanned,
           partitions' \in Seq([drive_letter : Letter, begin : Nat]),
           partition_status' \subseteq 0..Bits - 1, number_of_partitions' \in Nat,
           LettersDistinct',
           i' = i \/ (i' = i + 1 /\ lba' = None), lba' \in Nat \cup {None},
           UNCHANGED <<disk, rup1, rup2, partition>>
    PROVE  IInv'
  <1>1. rup1 = Unused /\ rup2 = Unused /\ partition.letter = None
    BY DEF IInv, Boot
  <1>2. disk.mbr \in Seq([kind : Kind, lba : Nat])
    BY DrivesAssumption DEF IInv, TypeOK
  <1>3. i' \in 1..Len(disk'.mbr) + 1
    BY <1>2 DEF IInv, TypeOK, Scanned
  <1>4. rup1' \in Rup' /\ rup2' \in Rup'
    BY <1>1, DrivesAssumption DEF Rup, Unused
  <1>5. TypeOK'
    BY <1>3, <1>4 DEF IInv, TypeOK
  <1>6. lba' # None => ~Scanned'
    BY DEF Scanned
  <1>7. Boot'
    BY <1>1, <1>6 DEF Boot, Unused
  <1>8. CachesApart'
    BY <1>1 DEF CachesApart, Unused
  <1>9. ReachesOwnDrive'
    BY <1>1 DEF ReachesOwnDrive
  <1> QED BY <1>5, <1>7, <1>8, <1>9 DEF IInv

LEMMA EntryIInv == ASSUME IInv, Entry PROVE IInv'
  <1>1. disk.mbr \in Seq(TableEntry)
    BY DrivesAssumption DEF IInv, TypeOK, TableEntry
  <1>2. disk.mbr[i].kind \in Kind /\ disk.mbr[i].lba \in Nat
    <2>1. i \in 1..Len(disk.mbr)
      BY <1>1 DEF IInv, TypeOK, Entry, Scanned
    <2> QED BY <1>1, <2>1, TableTyped
  <1>3. lba = None /\ ~Scanned /\ UNCHANGED <<disk, rup1, rup2, partition>>
    BY DEF Entry
  <1>4. CASE disk.mbr[i].kind = "fat32"
    <2>1. AttachPartition(disk.mbr[i].lba) /\ i' = i + 1 /\ lba' = lba
      BY <1>4 DEF Entry
    <2> QED BY <1>2, <1>3, <2>1, Attached, ScanStep
  <1>5. CASE disk.mbr[i].kind # "fat32"
    <2>1. AttachNothing /\ (i' = i \/ (i' = i + 1 /\ lba' = None)) /\ lba' \in Nat \cup {None}
      BY <1>2, <1>3, <1>5 DEF Entry, Kind
    <2>2. /\ partitions' \in Seq([drive_letter : Letter, begin : Nat])
          /\ partition_status' \subseteq 0..Bits - 1 /\ number_of_partitions' \in Nat
          /\ LettersDistinct'
      BY <2>1 DEF AttachNothing, IInv, TypeOK, LettersDistinct, Place
    <2> QED BY <1>3, <2>1, <2>2, ScanStep
  <1> QED BY <1>4, <1>5

LEMMA LinkIInv == ASSUME IInv, Link PROVE IInv'
  <1> DEFINE ebr == Record(disk, lba)
  <1>1. lba \in Nat /\ ~Scanned /\ UNCHANGED <<disk, rup1, rup2, partition>>
    BY DEF Link, IInv, TypeOK, Boot
  <1>2. ebr.first \in Nat /\ ebr.next \in Nat
    BY <1>1, DrivesAssumption DEF Record, IInv, TypeOK
  <1>3. (i' = i \/ (i' = i + 1 /\ lba' = None)) /\ lba' \in Nat \cup {None}
    BY <1>1, <1>2 DEF Link
  <1>4. CASE ebr.kind = "fat32"
    <2>1. AttachPartition(ebr.first + lba)
      BY <1>4 DEF Link
    <2>2. ebr.first + lba \in Nat
      BY <1>1, <1>2
    <2> HIDE DEF ebr
    <2> QED BY <1>1, <1>3, <2>1, <2>2, Attached, ScanStep
  <1>5. CASE ebr.kind # "fat32"
    <2>1. AttachNothing
      BY <1>5 DEF Link
    <2>2. /\ partitions' \in Seq([drive_letter : Letter, begin : Nat])
          /\ partition_status' \subseteq 0..Bits - 1 /\ number_of_partitions' \in Nat
          /\ LettersDistinct'
      BY <2>1 DEF AttachNothing, IInv, TypeOK, LettersDistinct, Place
    <2> QED BY <1>1, <1>3, <2>2, ScanStep
  <1> QED BY <1>4, <1>5

-----------------------------------------------------------------------------
(* A request leaves the list alone, so what is to be shown is about the     *)
(* caches and the answer.                                                   *)
LEMMA RequestStep ==
    ASSUME IInv, Scanned, UNCHANGED scanvars,
           rup1' \in Rup, rup2' \in Rup,
           CachesApart', ReachesOwnDrive',
           partition'.letter \in 0..LastLetter + 1, partition'.begin \in Nat \cup {None}
    PROVE  IInv'
  <1>1. Scanned' /\ Place' = Place /\ Rup' = Rup
    BY DEF Scanned, scanvars, Place, Rup
  <1>2. TypeOK'
    BY <1>1 DEF IInv, TypeOK, scanvars
  <1>3. Boot'
    BY <1>1 DEF IInv, Boot, scanvars
  <1>4. LettersDistinct'
    BY <1>1 DEF IInv, LettersDistinct, scanvars
  <1> QED BY <1>2, <1>3, <1>4 DEF IInv

(* The partition at place p, which has letter d, is the right answer.       *)
LEMMA RightAnswer ==
    ASSUME IInv, NEW d, NEW p \in Place, partitions[p].drive_letter = d,
           partitions' = partitions, Answer(d, partitions[p].begin)
    PROVE  ReachesOwnDrive' /\ partition'.letter = d /\ partition'.begin \in Nat
  <1>1. partition'.letter = d /\ partition'.begin = partitions[p].begin
    BY DEF Answer
  <1>2. partitions[p].begin \in Nat
    BY ListTyped DEF IInv, TypeOK, ListEntry
  <1>3. \A q \in Place : partitions[q].drive_letter = d => q = p
    BY DEF IInv, LettersDistinct
  <1>4. Place' = Place
    BY DEF Place
  <1>5. ReachesOwnDrive'
    BY <1>1, <1>3, <1>4 DEF ReachesOwnDrive
  <1> QED BY <1>1, <1>2, <1>5

LEMMA SelectIInv == ASSUME IInv, NEW d \in 0..LastLetter + 1, Select(d) PROVE IInv'
  <1>1. Scanned /\ UNCHANGED scanvars /\ partitions' = partitions /\ Place' = Place
    BY DEF Select, scanvars, Place
  <1>2. rup1 \in Rup /\ rup2 \in Rup /\ CachesApart
    BY DEF IInv, TypeOK
  <1>3. CASE UseFirst(d)
    <2>1. rup1.ppointer \in Place /\ partitions[rup1.ppointer].drive_letter = d
      BY <1>2, <1>3 DEF UseFirst, CachedIn, CachesApart
    <2>2. ReachesOwnDrive' /\ partition'.letter = d /\ partition'.begin \in Nat
      BY <1>1, <1>3, <2>1, RightAnswer DEF UseFirst
    <2>3. rup1' \in Rup /\ rup2' \in Rup /\ CachesApart'
      BY <1>1, <1>2, <1>3, DrivesAssumption DEF UseFirst, Rup, CachesApart
    <2> QED BY <1>1, <2>2, <2>3, RequestStep
  <1>4. CASE UseSecond(d)
    <2>1. rup2.ppointer \in Place /\ partitions[rup2.ppointer].drive_letter = d
      BY <1>2, <1>4 DEF UseSecond, CachedIn, CachesApart
    <2>2. ReachesOwnDrive' /\ partition'.letter = d /\ partition'.begin \in Nat
      BY <1>1, <1>4, <2>1, RightAnswer DEF UseSecond
    <2>3. rup1' \in Rup /\ rup2' \in Rup /\ CachesApart'
      BY <1>1, <1>2, <1>4, DrivesAssumption DEF UseSecond, Rup, CachesApart
    <2> QED BY <1>1, <2>2, <2>3, RequestStep
  <1>5. CASE SearchList(d)
    <2>1. PICK p \in Place :
              /\ ~CachedIn(rup1, d) /\ ~CachedIn(rup2, d) /\ FirstInList(p, d)
              /\ Answer(d, partitions[p].begin)
              /\ IF rup1.count < rup2.count \/ ~rup1.isvalid
                 THEN rup1' = Used(p) /\ UNCHANGED rup2
                 ELSE rup2' = Used(p) /\ UNCHANGED rup1
      BY <1>5 DEF SearchList
    <2>2. partitions[p].drive_letter = d
      BY <2>1 DEF FirstInList
    <2>3. ReachesOwnDrive' /\ partition'.letter = d /\ partition'.begin \in Nat
      BY <1>1, <2>1, <2>2, RightAnswer
    <2>4. Used(p) \in Rup
      BY DrivesAssumption DEF Used, Rup, Place
    <2>5. rup1.isvalid => rup1.ppointer # p
      BY <2>1, <2>2 DEF CachedIn
    <2>6. rup2.isvalid => rup2.ppointer # p
      BY <2>1, <2>2 DEF CachedIn
    <2>7. rup1' \in Rup /\ rup2' \in Rup
      BY <1>2, <2>1, <2>4
    <2>8. CachesApart'
      <3>1. CASE rup1' = Used(p) /\ rup2' = rup2
        BY <1>1, <1>2, <2>6, <3>1 DEF CachesApart, Used
      <3>2. CASE rup2' = Used(p) /\ rup1' = rup1
        BY <1>1, <1>2, <2>5, <3>2 DEF CachesApart, Used
      <3> QED BY <2>1, <3>1, <3>2
    <2> QED BY <1>1, <2>3, <2>7, <2>8, RequestStep
  <1>6. CASE NoSuchDrive(d)
    <2>1. partition'.letter = d /\ partition'.begin = None
      BY <1>6 DEF NoSuchDrive, Answer
    <2>2. \A p \in Place : partitions[p].drive_letter # d
      BY <1>6 DEF NoSuchDrive, InList
    <2>3. ReachesOwnDrive'
      BY <1>1, <2>1, <2>2 DEF ReachesOwnDrive
    <2>4. rup1' \in Rup /\ rup2' \in Rup /\ CachesApart'
      BY <1>1, <1>2, <1>6 DEF NoSuchDrive, CachesApart
    <2> QED BY <1>1, <2>1, <2>3, <2>4, RequestStep
  <1> QED BY <1>3, <1>4, <1>5, <1>6 DEF Select

LEMMA NextIInv == ASSUME IInv, [Next]_vars PROVE IInv'
  <1>1. CASE Entry
    BY <1>1, EntryIInv
  <1>2. CASE Link
    BY <1>2, LinkIInv
  <1>3. CASE \E d \in 0..LastLetter + 1 :
                \/ CreateFile(d) \/ Open(d) \/ DeleteFile(d) \/ List(d)
                \/ CreateDir(d) \/ Cd(d) \/ FileSearch(d)
    BY <1>3, SelectIInv DEF CreateFile, Open, DeleteFile, List, CreateDir, Cd, FileSearch
  <1>4. CASE UNCHANGED vars
    BY <1>4 DEF vars, scanvars, IInv, TypeOK, Boot, LettersDistinct, CachesApart,
                ReachesOwnDrive, Place, Rup, Scanned
  <1> QED BY <1>1, <1>2, <1>3, <1>4 DEF Next

(* The whole invariant holds in every state of every behaviour. *)
LEMMA Invariance == Spec => []IInv
  <1>1. Init => IInv
    BY InitIInv
  <1>2. IInv /\ [Next]_vars => IInv'
    BY NextIInv
  <1> QED BY <1>1, <1>2, PTL DEF Spec

-----------------------------------------------------------------------------
(* The state of the file manager keeps its types: in particular, every      *)
(* partition in the list has one of the letters there are.                  *)
THEOREM TypeCorrect == Spec => []TypeOK
  <1>1. IInv => TypeOK
    BY DEF IInv
  <1> QED BY <1>1, Invariance, PTL

(* attach_partition never gives a drive letter to two partitions.           *)
THEOREM LettersAreDistinct == Spec => []LettersDistinct
  <1>1. IInv => LettersDistinct
    BY DEF IInv
  <1> QED BY <1>1, Invariance, PTL

(* The caches of recently used partitions never hold the same one twice.    *)
THEOREM CachesAreApart == Spec => []CachesApart
  <1>1. IInv => CachesApart
    BY DEF IInv
  <1> QED BY <1>1, Invariance, PTL

(* Whatever the caches hold, a name reaches the partition of its drive.     *)
THEOREM EveryNameReachesItsDrive == Spec => []ReachesOwnDrive
  <1>1. IInv => ReachesOwnDrive
    BY DEF IInv
  <1> QED BY <1>1, Invariance, PTL

-----------------------------------------------------------------------------
(* What the scan finds. *)

(* The records of an extended partition include the first one and what they *)
(* lead to, and no more than any set that does so.                          *)
LEMMA RecordsLeast ==
    ASSUME NEW d \in Disks, NEW e \in Nat
    PROVE  /\ IsFiniteSet(Records(d, e))
           /\ e \in Records(d, e)
           /\ \A a \in Records(d, e) : Record(d, a).next # 0 => e + Record(d, a).next \in Records(d, e)
           /\ \A s : /\ s \subseteq Records(d, e) /\ e \in s
                     /\ \A a \in s : Record(d, a).next # 0 => e + Record(d, a).next \in s
                     => Records(d, e) = s
  <1> DEFINE links == {e + d.ebr[a].next : a \in DOMAIN d.ebr}
             all == {e} \cup links
             follows(s) == e \in s /\ \A a \in s : Record(d, a).next # 0 => e + Record(d, a).next \in s
             closed == {s \in SUBSET all : follows(s)}
             R == Records(d, e)
  <1>1. R = {a \in all : \A s \in closed : a \in s}
    BY DEF Records
  <1>2. IsFiniteSet(R)
    <2>1. IsFiniteSet(DOMAIN d.ebr)
      BY DrivesAssumption
    <2>2. IsFiniteSet(links)
      <3> DEFINE f == [a \in DOMAIN d.ebr |-> e + d.ebr[a].next]
      <3>1. f \in Surjection(DOMAIN d.ebr, links)
        BY DEF Surjection
      <3> HIDE DEF f, links
      <3> QED BY <2>1, <3>1, FS_Surjection
    <2>3. IsFiniteSet(all)
      BY <2>2, FS_Singleton, FS_Union
    <2>4. R \subseteq all
      BY <1>1
    <2> HIDE DEF all, R
    <2> QED BY <2>3, <2>4, FS_Subset
  <1>3. \A a : Record(d, a).next # 0 => e + Record(d, a).next \in all
    BY DEF Record
  <1>4. follows(R)
    <2>1. e \in R
      BY <1>1
    <2>2. ASSUME NEW a \in R, Record(d, a).next # 0 PROVE e + Record(d, a).next \in R
      <3>1. \A s \in closed : e + Record(d, a).next \in s
        BY <1>1, <2>2
      <3> HIDE DEF R, closed, all
      <3> QED BY <1>1, <1>3, <2>2, <3>1
    <2> HIDE DEF R
    <2> QED BY <2>1, <2>2
  <1>5. ASSUME NEW s, s \subseteq R, follows(s) PROVE R = s
    <2>1. s \in closed
      BY <1>1, <1>5
    <2>2. R \subseteq s
      <3> HIDE DEF R, closed, all
      <3> QED BY <1>1, <2>1
    <2> QED BY <1>5, <2>2
  <1> HIDE DEF R
  <1>6. \A s : s \subseteq R /\ follows(s) => R = s
    BY <1>5
  <1> QED BY <1>2, <1>4, <1>6 DEF R

(* A chain of at most two records.                                          *)
Ends(d, e) ==
    LET second == e + Record(d, e).next
    IN  \/ Record(d, e).next = 0 /\ Records(d, e) = {e}
        \/ /\ Record(d, e).next # 0 /\ Record(d, second).next = 0 /\ second # e
           /\ Records(d, e) = {e, second}

(* It ends with the first or the second one.                                *)
LEMMA ShortChain ==
    ASSUME NEW d \in Disks, WellFormed(d), NEW e \in Extended(d), e \in Nat,
           Cardinality(Records(d, e)) <= 2
    PROVE  Ends(d, e)
  <1> DEFINE R == Records(d, e)
             n1 == Record(d, e).next
             second == e + n1
             n2 == Record(d, second).next
             third == e + n2
  <1>1. /\ IsFiniteSet(R) /\ e \in R
        /\ \A a \in R : Record(d, a).next # 0 => e + Record(d, a).next \in R
        /\ \A s : /\ s \subseteq R /\ e \in s
                  /\ \A a \in s : Record(d, a).next # 0 => e + Record(d, a).next \in s
                  => R = s
    BY RecordsLeast
  <1>2. \A a \in R : Record(d, a).next # 0 => e + Record(d, a).next > a
    BY DEF WellFormed
  <1>3. \A a : Record(d, a).next \in Nat
    BY DrivesAssumption DEF Record
  <1>4. CASE n1 = 0
    <2>1. R = {e}
      <3>1. \A a \in {e} : Record(d, a).next # 0 => e + Record(d, a).next \in {e}
        BY <1>4
      <3> HIDE DEF R
      <3> QED BY <1>1, <3>1
    <2> QED BY <1>4, <2>1 DEF Ends
  <1>5. CASE n1 # 0
    <2>1. second \in R /\ second > e /\ n1 \in Nat /\ n2 \in Nat
      BY <1>1, <1>2, <1>3, <1>5
    <2>2. n2 = 0
      <3>1. SUFFICES ASSUME n2 # 0 PROVE FALSE
        OBVIOUS
      <3>2. third \in R /\ third > second
        BY <1>1, <1>2, <2>1, <3>1
      <3> HIDE DEF R, second, third, n2
      <3>3. IsFiniteSet({e, second, third}) /\ Cardinality({e, second, third}) = 3
        <4>1. e # second /\ third # e /\ third # second
          <5>1. second \in Nat /\ third \in Nat
            BY <2>1 DEF second, third
          <5> QED BY <2>1, <3>2, <5>1
        <4>2. IsFiniteSet({e}) /\ Cardinality({e}) = 1
          BY FS_Singleton
        <4>3. IsFiniteSet({e} \cup {second}) /\ Cardinality({e} \cup {second}) = 2
          BY <4>1, <4>2, FS_AddElement
        <4>4. /\ IsFiniteSet(({e} \cup {second}) \cup {third})
              /\ Cardinality(({e} \cup {second}) \cup {third}) = 3
          BY <4>1, <4>3, FS_AddElement
        <4>5. ({e} \cup {second}) \cup {third} = {e, second, third}
          OBVIOUS
        <4> QED BY <4>4, <4>5
      <3>4. {e, second, third} \subseteq R
        BY <1>1, <2>1, <3>2
      <3>5. 3 <= Cardinality(R)
        BY <1>1, <3>3, <3>4, FS_Subset
      <3>6. Cardinality(R) \in Nat
        BY <1>1, FS_CardinalityType
      <3> QED BY <3>5, <3>6 DEF R
    <2>3. R = {e, second}
      <3>1. \A a \in {e, second} : Record(d, a).next # 0 => e + Record(d, a).next \in {e, second}
        BY <2>2
      <3> HIDE DEF R, second
      <3> QED BY <1>1, <2>1, <3>1
    <2> QED BY <1>5, <2>1, <2>2, <2>3 DEF Ends
  <1> QED BY <1>4, <1>5

(* What n, the letters on offer and the list say after the partitions in S  *)
(* were found, one after the other.                                         *)
Found(list) == {list[p].begin : p \in 1..Len(list)}

Counted(S, n, offer, list) ==
    /\ IsFiniteSet(S) /\ n = Cardinality(S)
    /\ offer = {b \in 0..Bits - 1 : b >= n}
    /\ IsFiniteSet(Found(list)) /\ Cardinality(Found(list)) = Len(list)
    /\ Found(list) \subseteq S
    /\ n <= LastLetter + 1 => Found(list) = S

CountedNow(S) == Counted(S, number_of_partitions, partition_status, partitions)

(* attach_partition counts one more; as long as there are letters, the next *)
(* one is given out.                                                        *)
LEMMA AttachCounts ==
    ASSUME TypeOK, NEW S, CountedNow(S), NEW begin \in Nat, begin \notin S, AttachPartition(begin)
    PROVE  Counted(S \cup {begin}, number_of_partitions', partition_status', partitions')
  <1> DEFINE n == number_of_partitions
  <1>1. /\ IsFiniteSet(S) /\ n = Cardinality(S) /\ n \in Nat
        /\ partition_status = {b \in 0..Bits - 1 : b >= n}
        /\ IsFiniteSet(Found(partitions)) /\ Cardinality(Found(partitions)) = Len(partitions)
        /\ Found(partitions) \subseteq S
        /\ n <= LastLetter + 1 => Found(partitions) = S
        /\ partitions \in Seq(ListEntry)
    BY DEF CountedNow, Counted, TypeOK, ListEntry
  <1>2. PICK b \in 0..Bits :
          /\ LowestFree(b)
          /\ number_of_partitions' = n + 1
          /\ partition_status' = partition_status \ {b}
          /\ partitions' = IF b > LastLetter THEN partitions
                           ELSE Append(partitions, [drive_letter |-> b, begin |-> begin])
    BY DEF AttachPartition
  <1>3. Bits \in Nat /\ LastLetter \in Nat /\ LastLetter < Bits
    BY DrivesAssumption
  <1> HIDE DEF n
  <1>4. IF n < Bits THEN b = n ELSE b = Bits
    <2>1. b \in partition_status \cup {Bits} /\ \A c \in partition_status : b <= c
      BY <1>2 DEF LowestFree
    <2>2. CASE n < Bits
      <3>1. n \in partition_status
        BY <1>1, <1>3, <2>2
      <3>2. b <= n
        BY <2>1, <3>1
      <3>3. b # Bits
        BY <1>1, <1>2, <1>3, <2>2, <3>2
      <3>4. b >= n
        BY <1>1, <2>1, <3>3
      <3> QED BY <1>1, <1>2, <2>2, <3>2, <3>4
    <2>3. CASE ~(n < Bits)
      <3>1. partition_status = {}
        BY <1>1, <1>3, <2>3
      <3> QED BY <2>1, <2>3, <3>1
    <2> QED BY <2>2, <2>3
  <1>5. partition_status' = {c \in 0..Bits - 1 : c >= n + 1}
    BY <1>1, <1>2, <1>3, <1>4
  <1>6. IsFiniteSet(S \cup {begin}) /\ Cardinality(S \cup {begin}) = n + 1
    BY <1>1, FS_AddElement
  <1>7. CASE b > LastLetter
    <2>1. partitions' = partitions /\ ~(n + 1 <= LastLetter + 1)
      BY <1>1, <1>2, <1>3, <1>4, <1>7
    <2>2. Found(partitions) \subseteq S \cup {begin}
      BY <1>1
    <2> QED BY <1>1, <1>2, <1>5, <1>6, <2>1, <2>2 DEF Counted
  <1>8. CASE ~(b > LastLetter)
    <2> DEFINE entry == [drive_letter |-> b, begin |-> begin]
    <2>1. partitions' = Append(partitions, entry) /\ n <= LastLetter
      BY <1>1, <1>2, <1>3, <1>4, <1>8
    <2>2. entry.begin = begin
      OBVIOUS
    <2>3. entry \in ListEntry
      BY <1>3, <1>8 DEF ListEntry, Letter
    <2> HIDE DEF entry
    <2>4. /\ Len(partitions) \in Nat /\ Len(partitions') = Len(partitions) + 1
          /\ \A p \in 1..Len(partitions) : partitions'[p] = partitions[p]
          /\ partitions'[Len(partitions) + 1] = entry
      BY <1>1, <2>1, <2>3, AppendProperties
    <2>5. Found(partitions') = Found(partitions) \cup {begin}
      <3>1. \A p \in 1..Len(partitions') : p \in 1..Len(partitions) \/ p = Len(partitions) + 1
        BY <2>4
      <3>2. \A p \in 1..Len(partitions) : p \in 1..Len(partitions')
        BY <2>4
      <3>3. Len(partitions) + 1 \in 1..Len(partitions')
        BY <2>4
      <3>4. Found(partitions') \subseteq Found(partitions) \cup {begin}
        BY <2>2, <2>4, <3>1 DEF Found
      <3>5. Found(partitions) \subseteq Found(partitions')
        BY <2>4, <3>2 DEF Found
      <3>6. begin \in Found(partitions')
        BY <2>2, <2>4, <3>3 DEF Found
      <3> QED BY <3>4, <3>5, <3>6
    <2>6. /\ IsFiniteSet(Found(partitions) \cup {begin})
          /\ Cardinality(Found(partitions) \cup {begin}) = Len(partitions) + 1
      <3>1. begin \notin Found(partitions)
        BY <1>1
      <3> QED BY <1>1, <3>1, FS_AddElement
    <2>7. /\ Found(partitions') \subseteq S \cup {begin}
          /\ Found(partitions) = S => Found(partitions') = S \cup {begin}
      BY <1>1, <2>5
    <2>8. Found(partitions) = S
      BY <1>1, <1>3, <2>1
    <2> QED BY <1>1, <1>2, <1>5, <1>6, <2>4, <2>5, <2>6, <2>7, <2>8 DEF Counted
  <1> QED BY <1>7, <1>8

(* The partitions behind the first entries of the table.                    *)
Before(d, n) == UNION {Behind(d, k) : k \in 1..n - 1}

Short(d) == \A e \in Extended(d) : Cardinality(Records(d, e)) <= 2

(* Between two steps of the scan all that lies before is found, and nothing *)
(* else.                                                                    *)
Progress ==
    Short(disk) =>
        \/ lba = None /\ CountedNow(Before(disk, i))
        \/ /\ lba # None /\ ~Scanned /\ disk.mbr[i].kind = "extended"
           /\ LET e == disk.mbr[i].lba
              IN  \/ lba = e /\ CountedNow(Before(disk, i))
                  \/ /\ Record(disk, e).next # 0 /\ lba = e + Record(disk, e).next
                     /\ CountedNow(Before(disk, i) \cup PartitionIn(disk, e))

(* What one entry of the table adds.                                        *)
LEMMA BeforeNext ==
    ASSUME NEW d \in Disks, WellFormed(d), NEW n \in 1..Len(d.mbr)
    PROVE  /\ Before(d, n + 1) = Before(d, n) \cup Behind(d, n)
           /\ Before(d, n) \cap Behind(d, n) = {}
  <1>1. DOMAIN d.mbr = 1..Len(d.mbr) /\ Len(d.mbr) \in Nat
    BY DrivesAssumption
  <1>2. 1..(n + 1) - 1 = (1..n - 1) \cup {n}
    BY <1>1
  <1>3. Before(d, n + 1) = Before(d, n) \cup Behind(d, n)
    BY <1>2 DEF Before
  <1>4. \A k \in 1..n - 1 : Behind(d, k) \cap Behind(d, n) = {}
    <2>1. \A k \in 1..n - 1 : k \in DOMAIN d.mbr /\ n \in DOMAIN d.mbr /\ k # n
      BY <1>1
    <2> QED BY <2>1 DEF WellFormed
  <1> QED BY <1>3, <1>4 DEF Before

(* The entry looked at, and its record.                                     *)
LEMMA EntryTyped ==
    ASSUME IInv, ~Scanned
    PROVE  /\ disk \in Disks /\ i \in 1..Len(disk.mbr) /\ i \in DOMAIN disk.mbr
           /\ disk.mbr[i].kind \in Kind /\ disk.mbr[i].lba \in Nat
           /\ \A a : Record(disk, a).first \in Nat /\ Record(disk, a).next \in Nat
  <1>1. disk \in Disks /\ disk.mbr \in Seq(TableEntry)
    BY DrivesAssumption DEF IInv, TypeOK, TableEntry
  <1>2. i \in 1..Len(disk.mbr) /\ i \in DOMAIN disk.mbr
    BY <1>1 DEF IInv, TypeOK, Scanned
  <1>3. disk.mbr[i].kind \in Kind /\ disk.mbr[i].lba \in Nat
    BY <1>1, <1>2, TableTyped
  <1>4. \A a : Record(disk, a).first \in Nat /\ Record(disk, a).next \in Nat
    BY <1>1, DrivesAssumption DEF Record
  <1> QED BY <1>1, <1>2, <1>3, <1>4

(* An entry of the table.                                                   *)
LEMMA EntryProgress ==
    ASSUME IInv, Progress, WellFormed(disk), Entry PROVE Progress'
  <1> DEFINE entry == disk.mbr[i]
             B == Before(disk, i)
  <1>1. ~Scanned /\ lba = None /\ disk' = disk
    BY DEF Entry
  <1>2. SUFFICES ASSUME Short(disk)
        PROVE  \/ lba' = None /\ Counted(Before(disk, i'), number_of_partitions', partition_status', partitions')
               \/ /\ lba' # None /\ ~Scanned' /\ i' = i /\ entry.kind = "extended" /\ lba' = entry.lba
                  /\ Counted(B, number_of_partitions', partition_status', partitions')
    BY <1>1 DEF Progress, CountedNow
  <1>3. CountedNow(B)
    BY <1>1, <1>2 DEF Progress
  <1>4. /\ disk \in Disks /\ i \in 1..Len(disk.mbr) /\ entry.kind \in Kind /\ entry.lba \in Nat
    BY <1>1, EntryTyped
  <1>5. Before(disk, i + 1) = B \cup Behind(disk, i) /\ B \cap Behind(disk, i) = {}
    BY <1>4, BeforeNext
  <1>6. CASE entry.kind = "fat32"
    <2>1. AttachPartition(entry.lba) /\ i' = i + 1 /\ lba' = None
      BY <1>1, <1>6 DEF Entry
    <2>2. Behind(disk, i) = {entry.lba}
      BY <1>6 DEF Behind
    <2>3. Before(disk, i') = B \cup {entry.lba} /\ entry.lba \notin B
      BY <1>5, <2>1, <2>2
    <2> HIDE DEF entry, B
    <2>4. Counted(B \cup {entry.lba}, number_of_partitions', partition_status', partitions')
      BY <1>3, <1>4, <2>1, <2>3, AttachCounts DEF IInv
    <2> QED BY <2>1, <2>3, <2>4
  <1>7. CASE entry.kind = "extended"
    <2>1. AttachNothing /\ i' = i /\ lba' = entry.lba
      BY <1>7 DEF Entry
    <2>2. Counted(B, number_of_partitions', partition_status', partitions')
      BY <1>3, <2>1 DEF AttachNothing, CountedNow
    <2> QED BY <1>1, <1>4, <1>7, <2>1, <2>2 DEF Scanned, None
  <1>8. CASE entry.kind = "other"
    <2>1. AttachNothing /\ i' = i + 1 /\ lba' = None
      BY <1>1, <1>8 DEF Entry
    <2>2. Behind(disk, i) = {}
      BY <1>8 DEF Behind
    <2>3. Counted(B, number_of_partitions', partition_status', partitions')
      BY <1>3, <2>1 DEF AttachNothing, CountedNow
    <2> QED BY <1>5, <2>1, <2>2, <2>3
  <1> QED BY <1>4, <1>6, <1>7, <1>8 DEF Kind

(* What a record adds to what was found before it.                          *)
LEMMA RecordCounts ==
    ASSUME IInv, NEW S, CountedNow(S), Link, S \cap PartitionIn(disk, lba) = {}
    PROVE  Counted(S \cup PartitionIn(disk, lba), number_of_partitions', partition_status', partitions')
  <1> DEFINE ebr == Record(disk, lba)
  <1>1. lba # None /\ lba \in Nat /\ ~Scanned
    BY DEF IInv, TypeOK, Boot, Link
  <1>2. ebr.first \in Nat /\ (ebr.first + lba) = (lba + ebr.first)
    BY <1>1, EntryTyped
  <1>3. CASE ebr.kind = "fat32"
    <2>1. AttachPartition(ebr.first + lba)
      BY <1>3 DEF Link
    <2>2. PartitionIn(disk, lba) = {ebr.first + lba}
      BY <1>2, <1>3 DEF PartitionIn
    <2>3. ebr.first + lba \in Nat /\ ebr.first + lba \notin S
      BY <1>1, <1>2, <2>2
    <2> HIDE DEF ebr
    <2> QED BY <2>1, <2>2, <2>3, AttachCounts DEF IInv
  <1>4. CASE ebr.kind # "fat32"
    <2>1. AttachNothing /\ PartitionIn(disk, lba) = {}
      BY <1>4 DEF Link, PartitionIn
    <2> QED BY <2>1 DEF AttachNothing, CountedNow
  <1> QED BY <1>3, <1>4

(* An extended boot record: the first, which leads to a second or ends the  *)
(* chain, or the second, which ends it.                                     *)
LEMMA LinkProgress ==
    ASSUME IInv, Progress, WellFormed(disk), Link PROVE Progress'
  <1> DEFINE e == disk.mbr[i].lba
             B == Before(disk, i)
             second == e + Record(disk, e).next
  <1>1. lba # None /\ lba \in Nat /\ ~Scanned /\ disk' = disk
    BY DEF IInv, TypeOK, Boot, Link
  <1>2. SUFFICES ASSUME Short(disk) PROVE Progress'
    BY <1>1 DEF Progress, Short
  <1>3. /\ disk.mbr[i].kind = "extended"
        /\ \/ lba = e /\ CountedNow(B)
           \/ Record(disk, e).next # 0 /\ lba = second /\ CountedNow(B \cup PartitionIn(disk, e))
    BY <1>1, <1>2 DEF Progress
  <1>4. /\ disk \in Disks /\ i \in 1..Len(disk.mbr) /\ i \in DOMAIN disk.mbr /\ e \in Nat
        /\ \A a : Record(disk, a).next \in Nat
    BY <1>1, EntryTyped
  <1>5. e \in Extended(disk)
    BY <1>3, <1>4 DEF Extended
  <1>6. Ends(disk, e)
    BY <1>2, <1>4, <1>5, ShortChain DEF Short
  <1>7. Before(disk, i + 1) = B \cup Behind(disk, i) /\ B \cap Behind(disk, i) = {}
    BY <1>4, BeforeNext
  <1>8. Behind(disk, i) = UNION {PartitionIn(disk, a) : a \in Records(disk, e)}
    BY <1>3 DEF Behind
  <1>9. /\ Record(disk, lba).next = 0 => i' = i + 1 /\ lba' = None
        /\ Record(disk, lba).next # 0 => i' = i /\ lba' = lba + Record(disk, lba).next
    BY DEF Link
  <1>10. CASE lba = e /\ CountedNow(B)
    <2>1. B \cap PartitionIn(disk, e) = {}
      <3>1. e \in Records(disk, e)
        BY <1>6 DEF Ends
      <3> HIDE DEF e, B
      <3> QED BY <1>7, <1>8, <3>1
    <2>2. Counted(B \cup PartitionIn(disk, e), number_of_partitions', partition_status', partitions')
      BY <1>10, <2>1, RecordCounts
    <2>3. CASE Record(disk, e).next = 0
      <3>1. Before(disk, i') = B \cup PartitionIn(disk, e)
        <4>1. Records(disk, e) = {e}
          BY <1>6, <2>3 DEF Ends
        <4>2. Behind(disk, i) = PartitionIn(disk, e)
          BY <1>8, <4>1
        <4> QED BY <1>7, <1>9, <1>10, <2>3, <4>2
      <3>2. lba' = None
        BY <1>9, <1>10, <2>3
      <3> QED BY <1>1, <2>2, <3>1, <3>2 DEF Progress, CountedNow
    <2>4. CASE Record(disk, e).next # 0
      <3>1. i' = i /\ lba' = second /\ lba' # None /\ ~Scanned'
        BY <1>1, <1>4, <1>9, <1>10, <2>4 DEF Scanned, None
      <3> QED BY <1>1, <1>3, <2>2, <2>4, <3>1 DEF Progress, CountedNow
    <2> QED BY <2>3, <2>4
  <1>11. CASE Record(disk, e).next # 0 /\ lba = second /\ CountedNow(B \cup PartitionIn(disk, e))
    <2>1. Records(disk, e) = {e, second} /\ Record(disk, second).next = 0 /\ second # e
      BY <1>6, <1>11 DEF Ends
    <2>2. Behind(disk, i) = PartitionIn(disk, e) \cup PartitionIn(disk, second)
      <3> HIDE DEF e, second
      <3> QED BY <1>8, <2>1
    <2>3. PartitionIn(disk, e) \cap PartitionIn(disk, second) = {}
      <3>1. \A a, b \in Records(disk, e) : a # b => PartitionIn(disk, a) \cap PartitionIn(disk, b) = {}
        BY <1>5 DEF WellFormed
      <3> HIDE DEF e, second
      <3> QED BY <2>1, <3>1
    <2>4. (B \cup PartitionIn(disk, e)) \cap PartitionIn(disk, lba) = {}
      BY <1>7, <1>11, <2>2, <2>3
    <2>5. Counted((B \cup PartitionIn(disk, e)) \cup PartitionIn(disk, lba),
                  number_of_partitions', partition_status', partitions')
      BY <1>11, <2>4, RecordCounts
    <2>6. i' = i + 1 /\ lba' = None
      BY <1>9, <1>11, <2>1
    <2>7. Before(disk, i') = (B \cup PartitionIn(disk, e)) \cup PartitionIn(disk, lba)
      BY <1>7, <1>11, <2>2, <2>6
    <2> QED BY <1>1, <2>5, <2>6, <2>7 DEF Progress, CountedNow
  <1> QED BY <1>3, <1>10, <1>11

(* Steps that scan nothing.                                                 *)
LEMMA RestProgress == ASSUME Progress, UNCHANGED scanvars PROVE Progress'
  <1>1. /\ disk' = disk /\ i' = i /\ lba' = lba /\ partitions' = partitions
        /\ partition_status' = partition_status /\ number_of_partitions' = number_of_partitions
    BY DEF scanvars
  <1>2. \A S : CountedNow(S)' <=> CountedNow(S)
    BY <1>1 DEF CountedNow
  <1> QED BY <1>1, <1>2 DEF Progress, Scanned

LEMMA NextProgress ==
    ASSUME IInv, Progress, WellFormed(disk), [Next]_vars PROVE Progress'
  <1>1. CASE Entry
    BY <1>1, EntryProgress
  <1>2. CASE Link
    BY <1>2, LinkProgress
  <1>3. CASE \E d \in 0..LastLetter + 1 :
                \/ CreateFile(d) \/ Open(d) \/ DeleteFile(d) \/ List(d)
                \/ CreateDir(d) \/ Cd(d) \/ FileSearch(d)
    BY <1>3, RestProgress DEF CreateFile, Open, DeleteFile, List, CreateDir, Cd, FileSearch, Select
  <1>4. CASE UNCHANGED vars
    BY <1>4, RestProgress DEF vars
  <1> QED BY <1>1, <1>2, <1>3, <1>4 DEF Next

(* When the scan has ended, all entries lie before.                         *)
LEMMA ProgressComplete == ASSUME IInv, Progress PROVE ScanComplete
  <1>1. SUFFICES ASSUME Scanned, Short(disk)
        PROVE  /\ number_of_partitions = Cardinality(Contents(disk))
               /\ Found(partitions) \subseteq Contents(disk)
               /\ Cardinality(Found(partitions)) = Len(partitions)
               /\ number_of_partitions <= LastLetter + 1 => Found(partitions) = Contents(disk)
    BY DEF ScanComplete, Short, Found, Place
  <1>2. i = Len(disk.mbr) + 1 /\ DOMAIN disk.mbr = 1..i - 1
    BY <1>1, DrivesAssumption DEF IInv, TypeOK, Scanned
  <1>3. Contents(disk) = Before(disk, i)
    BY <1>2 DEF Contents, Before
  <1>4. CountedNow(Before(disk, i))
    BY <1>1 DEF Progress
  <1> QED BY <1>3, <1>4 DEF CountedNow, Counted

(* initialize: on a disk whose partitions lie apart, the scan finds every   *)
(* partition once and nothing else, and all get letters while there are any.*)
THEOREM ScanFindsAll ==
    ASSUME \A d \in Disks : WellFormed(d) PROVE Spec => []ScanComplete
  <1>1. Init => Progress
    <2>1. ASSUME Init PROVE Counted(Before(disk, i), number_of_partitions, partition_status, partitions)
      <3>1. Before(disk, i) = {} /\ Found(partitions) = {} /\ Len(partitions) = 0
        BY <2>1 DEF Init, Before, Found
      <3>2. /\ number_of_partitions = 0 /\ partition_status = 0..Bits - 1
        BY <2>1 DEF Init
      <3> QED BY <3>1, <3>2, FS_EmptySet, DrivesAssumption DEF Counted
    <2> QED BY <2>1 DEF Init, Progress, CountedNow
  <1>2. IInv /\ Progress /\ [Next]_vars => Progress'
    BY NextProgress DEF IInv, TypeOK
  <1>3. IInv /\ Progress => ScanComplete
    BY ProgressComplete
  <1> QED BY <1>1, <1>2, <1>3, Invariance, PTL DEF Spec
==============================================================================
