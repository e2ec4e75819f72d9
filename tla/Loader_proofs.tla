----------------------------- MODULE Loader_proofs -----------------------------
(***************************************************************************)
(* What the boot loader starts is the system that is highlighted, with its *)
(* kernel complete, for any disk, configuration, size of sectors and       *)
(* clusters and order of keys and ticks.                                   *)
(***************************************************************************)
EXTENDS Loader, SequenceTheorems, TLAPS

-----------------------------------------------------------------------------
(* The inductive invariant. *)

(* The disk is one of those the constants allow, the length of the chain    *)
(* that of the kernel.                                                      *)
Geometry == disk.table \in Tables /\ disk.chain \in Chains /\ disk.filesize \in FileSizes
            /\ Len(disk.chain) = Clusters(disk.filesize)

(* A line that leads to no place beyond the array and the partition table.  *)
Fits(line) ==
    /\ line.key \in {"default", "unknown"} => line.value < MaxOses
    /\ line.part = NoPart \/ line.part \div 8 < Len(disk.table.mbr)

(* What is left of the configuration fits, and there will be an option.     *)
LinesFit ==
    /\ unread \in Seq([key : Code, value : Nat, part : Nat \cup {NoPart}])
    /\ \A k \in DOMAIN unread : Fits(unread[k])
    /\ oscount + Len(unread) <= MaxOses
    /\ oscount > 0 \/ \E k \in DOMAIN unread : unread[k].key \in Option
    /\ place # "config" => unread = <<>>

OptionsKnown == \A k \in 0..(MaxOses - 1) : os[k].partindex \div 8 < Len(disk.table.mbr)

Chosen == os[current_option]
Partition == return_partition_lba(Chosen.partindex)

(* What is being loaded, or has been started, is the highlighted option.    *)
ChosenStarted ==
    /\ place \in {"loading", "osmosys"} => Chosen.isosmosys /\ loop.part = Partition
    /\ place = "osmosys" => booted = Partition
    /\ place = "chained" => ~Chosen.isosmosys /\ booted = Partition

Sectors == (disk.filesize + SectorSize - 1) \div SectorSize

(* The first n sectors of the kernel are in m, but for those it lacks.      *)
Has(m, n) ==
    \A k \in 0..(Sectors - 1) :
        k < n => /\ k \in DOMAIN m
                 /\ m[k] = ClusterSector(loop.part, disk.chain[(k \div sectors_per_cluster) + 1])
                           + (k % sectors_per_cluster)

InMemory(n) == Has(memory, n)

(* Before round i the clusters before it are in memory, the next one is in  *)
(* the buffer, and count is what is left in whole sectors.                  *)
LoopInvariant ==
    /\ loop.i \in 0..Len(disk.chain) /\ loop.i <= LastCluster(disk.filesize)
    /\ loop.i < Len(disk.chain) => loop.cluster = disk.chain[loop.i + 1]
    /\ loop.count = IF loop.i * sectors_per_cluster <= disk.filesize \div SectorSize
                    THEN (disk.filesize \div SectorSize) - (loop.i * sectors_per_cluster)
                    ELSE 0
    /\ InMemory(loop.i * sectors_per_cluster)

KernelLoads ==
    disk.chain[1] < Half =>
        /\ place = "loading" => LoopInvariant
        /\ place = "osmosys" => InMemory(Sectors)

IInv == TypeOK /\ Geometry /\ LinesFit /\ OptionsKnown /\ ChosenStarted /\ KernelLoads

-----------------------------------------------------------------------------
(* The disk. *)

(* The numbers of the instance.                                             *)
LEMMA Numbers ==
    /\ SectorSize \in Nat /\ SectorSize > 0
    /\ TicksPerSecond \in Nat /\ TicksPerSecond > 0
    /\ sectors_per_cluster \in Nat /\ sectors_per_cluster > 0
    /\ FatOffset \in Nat /\ DataOffset \in Nat /\ DiskSectors \in Nat
    /\ SectorSize * sectors_per_cluster \in Nat /\ SectorSize * sectors_per_cluster > 0
<1>1. /\ SectorSize \in Nat /\ SectorSize > 0
      /\ TicksPerSecond \in Nat /\ TicksPerSecond > 0
      /\ sectors_per_cluster \in Nat /\ sectors_per_cluster > 0
      /\ FatOffset \in Nat /\ DataOffset \in Nat /\ DiskSectors \in Nat
  BY LoaderAssumption
<1>2. \A x, y \in Nat : x > 0 /\ y > 0 => x * y \in Nat /\ x * y > 0
  BY Z3
<1> QED  BY <1>1, <1>2

(* The parts of the disk.                                                   *)
LEMMA DiskParts ==
    ASSUME Geometry
    PROVE  /\ disk.table.mbr \in Seq(Nat) /\ Len(disk.table.mbr) \in Nat /\ Len(disk.table.mbr) > 0
           /\ \A n \in 1..Len(disk.table.mbr) : disk.table.mbr[n] \in Nat
           /\ \A a : Record(a).first \in Nat /\ Record(a).next \in Nat
           /\ disk.chain \in Seq(Nat \ {0, 1}) /\ IsInjective(disk.chain)
           /\ Len(disk.chain) \in Nat /\ DOMAIN disk.chain = 1..Len(disk.chain)
           /\ \A n \in 1..Len(disk.chain) : disk.chain[n] \in Nat /\ disk.chain[n] > 1
           /\ disk.filesize \in Nat /\ disk.filesize > 0
<1> DEFINE t == disk.table
           c == disk.chain
<1>1. t \in Tables /\ c \in Chains /\ disk.filesize \in FileSizes
  BY DEF Geometry
<1>2. /\ t.mbr \in Seq(Nat) /\ t.mbr # <<>>
      /\ \A a \in DOMAIN t.ebr : t.ebr[a] \in [first : Nat, next : Nat]
  BY <1>1, LoaderAssumption
<1>3. \A a : Record(a).first \in Nat /\ Record(a).next \in Nat
  BY <1>2 DEF Record
<1>4. c \in Seq(Nat \ {0, 1}) /\ IsInjective(c)
  BY <1>1, LoaderAssumption
<1>5. disk.filesize \in Nat /\ disk.filesize > 0
  <2>1. \A f \in FileSizes : f \in Nat /\ f > 0
    BY LoaderAssumption
  <2> QED  BY <1>1, <2>1, Zenon
<1> HIDE DEF t, c
<1>6. Len(t.mbr) \in Nat /\ Len(t.mbr) > 0 /\ \A n \in 1..Len(t.mbr) : t.mbr[n] \in Nat
  BY <1>2, EmptySeq, LenProperties, ElementOfSeq
<1>7. /\ Len(c) \in Nat /\ DOMAIN c = 1..Len(c)
      /\ \A n \in 1..Len(c) : c[n] \in Nat /\ c[n] > 1
  BY <1>4, LenProperties, ElementOfSeq
<1> QED  BY <1>2, <1>3, <1>4, <1>5, <1>6, <1>7 DEF t, c

(* Seven steps from x.                                                      *)
Walk(w, x, step) ==
    /\ w \in [1..7 -> Nat]
    /\ \A k \in 1..7 : w[k] = IF k = 1 THEN x ELSE step[w[k - 1]]

(* There are such.                                                          *)
LEMMA WalkExists ==
    ASSUME NEW x \in Nat, NEW step \in [Nat -> Nat]
    PROVE  \E w : Walk(w, x, step)
<1> DEFINE x2 == step[x]
           x3 == step[x2]
           x4 == step[x3]
           x5 == step[x4]
           x6 == step[x5]
           x7 == step[x6]
           v == [k \in 1..7 |-> CASE k = 1 -> x [] k = 2 -> x2 [] k = 3 -> x3 [] k = 4 -> x4
                                  [] k = 5 -> x5 [] k = 6 -> x6 [] k = 7 -> x7]
<1>1. /\ x2 \in Nat /\ x3 \in Nat /\ x4 \in Nat /\ x5 \in Nat /\ x6 \in Nat /\ x7 \in Nat
      /\ x2 = step[x] /\ x3 = step[x2] /\ x4 = step[x3] /\ x5 = step[x4]
      /\ x6 = step[x5] /\ x7 = step[x6]
  OBVIOUS
<1> HIDE DEF x2, x3, x4, x5, x6, x7
<1>2. v[1] = x /\ v[2] = x2 /\ v[3] = x3 /\ v[4] = x4 /\ v[5] = x5 /\ v[6] = x6 /\ v[7] = x7
  OBVIOUS
<1>3. v = [k \in 1..7 |-> v[k]]
  OBVIOUS
<1> HIDE DEF v
<1>4. \A k \in 1..7 : k = 1 \/ k = 2 \/ k = 3 \/ k = 4 \/ k = 5 \/ k = 6 \/ k = 7
  OBVIOUS
<1>5. \A k \in 1..7 : v[k] \in Nat
  BY <1>1, <1>2, <1>4
<1>6. v \in [1..7 -> Nat]
  BY <1>3, <1>5
<1>7. \A k \in 1..7 : v[k] = IF k = 1 THEN x ELSE step[v[k - 1]]
  <2>1. /\ v[1] = x /\ v[2] = step[v[1]] /\ v[3] = step[v[2]] /\ v[4] = step[v[3]]
        /\ v[5] = step[v[4]] /\ v[6] = step[v[5]] /\ v[7] = step[v[6]]
    BY <1>1, <1>2
  <2>2. ASSUME NEW k \in 1..7 PROVE v[k] = IF k = 1 THEN x ELSE step[v[k - 1]]
    <3>1. k = 1 => v[k] = x
      BY <2>1
    <3>2. /\ (k = 2 => k - 1 = 1) /\ (k = 3 => k - 1 = 2) /\ (k = 4 => k - 1 = 3)
          /\ (k = 5 => k - 1 = 4) /\ (k = 6 => k - 1 = 5) /\ (k = 7 => k - 1 = 6)
      OBVIOUS
    <3>3. k # 1 => v[k] = step[v[k - 1]]
      BY <1>4, <2>1, <3>2, Zenon
    <3> QED  BY <3>1, <3>3
  <2> QED  BY <2>2
<1> QED  BY <1>6, <1>7 DEF Walk

(* A partition begins somewhere, and the first two of an extended one where *)
(* its records say.                                                         *)
LEMMA Partitions ==
    ASSUME Geometry, NEW index \in Nat, index \div 8 < Len(disk.table.mbr)
    PROVE  /\ return_partition_lba(index) \in Nat
           /\ index % 8 <= 2 => return_partition_lba(index) = PartitionStart(index)
<1> DEFINE x == disk.table.mbr[(index \div 8) + 1]
           E(e) == [k \in 1..7 |-> IF k = 1 THEN x ELSE e[k - 1] + Record(e[k - 1]).next]
           R(r) == [k \in 1..7 |-> IF k = 1 THEN x ELSE x + Record(r[k - 1]).next]
           ebr == CHOOSE e : e = E(e)
           record == CHOOSE r : r = R(r)
           m == index % 8
<1>1. x \in Nat /\ \A a : Record(a).first \in Nat /\ Record(a).next \in Nat
  <2>1. (index \div 8) + 1 \in 1..Len(disk.table.mbr)
    BY DiskParts
  <2> QED  BY <2>1, DiskParts
<1>2. /\ return_partition_lba(index) = IF m = 0 THEN x ELSE ebr[m] + Record(ebr[m]).first
      /\ PartitionStart(index) = IF m = 0 THEN x ELSE record[m] + Record(record[m]).first
  BY Zenon DEF return_partition_lba, PartitionStart
<1> HIDE DEF x
<1>3. ebr = E(ebr)
  <2> DEFINE step == [a \in Nat |-> a + Record(a).next]
  <2>1. step \in [Nat -> Nat]
    BY <1>1
  <2>2. \A a \in Nat : step[a] = a + Record(a).next
    OBVIOUS
  <2> HIDE DEF step
  <2>3. PICK w : Walk(w, x, step)
    BY <1>1, <2>1, WalkExists
  <2>4. w = E(w)
    BY <2>2, <2>3 DEF Walk
  <2> HIDE DEF E
  <2> QED  BY <2>4, Zenon
<1>4. record = R(record)
  <2> DEFINE step == [a \in Nat |-> x + Record(a).next]
  <2>1. step \in [Nat -> Nat]
    BY <1>1
  <2>2. \A a \in Nat : step[a] = x + Record(a).next
    OBVIOUS
  <2> HIDE DEF step
  <2>3. PICK w : Walk(w, x, step)
    BY <1>1, <2>1, WalkExists
  <2>4. w = R(w)
    BY <2>2, <2>3 DEF Walk
  <2> HIDE DEF R
  <2> QED  BY <2>4, Zenon
<1> HIDE DEF ebr, record
<1>5. \A k \in 1..7 : ebr[k] = IF k = 1 THEN x ELSE ebr[k - 1] + Record(ebr[k - 1]).next
  BY <1>3
<1>6. \A k \in 1..7 : record[k] = IF k = 1 THEN x ELSE x + Record(record[k - 1]).next
  BY <1>4
<1>7. /\ ebr[1] = x /\ ebr[2] = x + Record(x).next
      /\ record[1] = x /\ record[2] = x + Record(x).next
  BY <1>5, <1>6
<1>8. /\ ebr[1] \in Nat /\ ebr[2] \in Nat /\ ebr[3] \in Nat /\ ebr[4] \in Nat
      /\ ebr[5] \in Nat /\ ebr[6] \in Nat /\ ebr[7] \in Nat
  <2>1. \A a \in Nat : a + Record(a).next \in Nat
    BY <1>1
  <2>2. /\ ebr[3] = ebr[2] + Record(ebr[2]).next /\ ebr[4] = ebr[3] + Record(ebr[3]).next
        /\ ebr[5] = ebr[4] + Record(ebr[4]).next /\ ebr[6] = ebr[5] + Record(ebr[5]).next
        /\ ebr[7] = ebr[6] + Record(ebr[6]).next
    BY <1>5
  <2>3. ebr[1] \in Nat /\ ebr[2] \in Nat
    BY <1>1, <1>7, <2>1
  <2>4. ebr[3] \in Nat /\ ebr[4] \in Nat
    BY <2>1, <2>2, <2>3, Zenon
  <2>5. ebr[5] \in Nat /\ ebr[6] \in Nat
    BY <2>1, <2>2, <2>4, Zenon
  <2> QED  BY <2>1, <2>2, <2>3, <2>4, <2>5, Zenon
<1>9. m = 0 \/ m = 1 \/ m = 2 \/ m = 3 \/ m = 4 \/ m = 5 \/ m = 6 \/ m = 7
  OBVIOUS
<1> HIDE DEF m
<1>10. return_partition_lba(index) \in Nat
  <2>1. \A a \in Nat : a + Record(a).first \in Nat
    BY <1>1
  <2> QED  BY <1>1, <1>2, <1>8, <1>9, <2>1
<1>11. m <= 2 => return_partition_lba(index) = PartitionStart(index)
  BY <1>2, <1>7, <1>9
<1> QED  BY <1>10, <1>11 DEF m

(* The first cluster is read from its two halves, if it has one only.       *)
LEMMA FirstCluster ==
    ASSUME Geometry, Len(disk.chain) > 0
    PROVE  FileCluster \in Nat /\ (disk.chain[1] < Half => FileCluster = disk.chain[1])
<1> DEFINE c == disk.chain
           x == c[1]
<1>1. c \in Chains /\ c # <<>> /\ x \in Nat
  <2>1. c \in Seq(Nat \ {0, 1}) /\ Len(c) > 0 /\ x \in Nat
    BY DiskParts
  <2>2. c # <<>>
    BY <2>1
  <2> QED  BY <2>1, <2>2 DEF Geometry
<1>2. BitOr(x \div Half, x % Half) \in Nat /\ (x < Half => BitOr(0, x) = x)
  BY <1>1, LoaderAssumption
<1>3. FileCluster = BitOr(x \div Half, x % Half)
  BY DEF FileCluster
<1> HIDE DEF x
<1>4. x < Half => x \div Half = 0 /\ x % Half = x
  BY <1>1 DEF Half
<1>5. FileCluster \in Nat /\ (x < Half => FileCluster = x)
  BY <1>2, <1>3, <1>4
<1> QED  BY <1>5 DEF x

(* The table leads from cluster to cluster of the kernel, and to numbers.   *)
LEMMA NextCluster ==
    ASSUME Geometry
    PROVE  /\ \A cluster : find_chain_cluster(cluster) \in Nat
           /\ \A j \in 1..Len(disk.chain) - 1 : find_chain_cluster(disk.chain[j]) = disk.chain[j + 1]
<1> DEFINE c == disk.chain
           place_of(cluster) == CHOOSE k \in DOMAIN c : c[k] = cluster
           next(cluster) == IF place_of(cluster) = Len(c) THEN EndMark ELSE c[place_of(cluster) + 1]
<1>1. /\ c \in Seq(Nat \ {0, 1}) /\ IsInjective(c)
      /\ Len(c) \in Nat /\ DOMAIN c = 1..Len(c)
      /\ \A n \in 1..Len(c) : c[n] \in Nat /\ c[n] > 1
  BY DiskParts
<1>2. ASSUME NEW cluster
      PROVE  find_chain_cluster(cluster) =
               CASE cluster = 0 -> MediaMark
                 [] cluster = 1 -> EndMark
                 [] cluster \in Range(c) -> next(cluster)
                 [] OTHER -> 0
  BY DEF find_chain_cluster
<1> HIDE DEF c
<1>3. ASSUME NEW cluster \in Range(c)
      PROVE  place_of(cluster) \in 1..Len(c) /\ c[place_of(cluster)] = cluster
  <2>1. \E k \in DOMAIN c : c[k] = cluster
    BY DEF Range
  <2> QED  BY <1>1, <2>1
<1> HIDE DEF place_of
<1>4. ASSUME NEW cluster \in Range(c) PROVE next(cluster) \in Nat
  <2>1. place_of(cluster) # Len(c) => place_of(cluster) + 1 \in 1..Len(c)
    BY <1>1, <1>3
  <2> QED  BY <1>1, <2>1 DEF EndMark
<1>5. ASSUME NEW j \in 1..Len(c) - 1 PROVE next(c[j]) = c[j + 1] /\ c[j] \in Range(c) /\ c[j] > 1
  <2>1. j \in DOMAIN c /\ c[j] \in Range(c) /\ c[j] > 1
    BY <1>1 DEF Range
  <2>2. place_of(c[j]) \in DOMAIN c /\ c[place_of(c[j])] = c[j]
    BY <1>1, <1>3, <2>1
  <2>3. place_of(c[j]) = j
    BY <1>1, <2>1, <2>2 DEF IsInjective
  <2> QED  BY <2>1, <2>3
<1> HIDE DEF next
<1>6. ASSUME NEW cluster PROVE find_chain_cluster(cluster) \in Nat
  BY <1>2, <1>4 DEF MediaMark, EndMark
<1>7. ASSUME NEW j \in 1..Len(c) - 1 PROVE find_chain_cluster(c[j]) = c[j + 1]
  <2>1. c[j] # 0 /\ c[j] # 1
    BY <1>5
  <2> QED  BY <1>2, <1>5, <2>1
<1> QED  BY <1>6, <1>7 DEF c

-----------------------------------------------------------------------------
(* Sectors and clusters. *)

(* Rounding up stays below a number that is enough.                         *)
LEMMA RoundedUp ==
    ASSUME NEW a \in Nat, NEW d \in Nat, d > 0, NEW q \in Nat, a <= q * d
    PROVE  (a + d - 1) \div d <= q
<1> DEFINE m == (a + d - 1) \div d
<1>1. m \in Nat /\ m * d <= a + d - 1
  <2>1. \A x \in Nat : x \div d \in Nat /\ (x \div d) * d <= x
    BY Z3
  <2>2. a + d - 1 \in Nat
    OBVIOUS
  <2> QED  BY <2>1, <2>2
<1> HIDE DEF m
<1>2. m * d < (q + 1) * d
  BY <1>1
<1>3. ~(m >= q + 1)
  BY <1>1, <1>2
<1> QED  BY <1>1, <1>3 DEF m

(* A number is less than the next multiple of what it is divided by.        *)
LEMMA Quotient ==
    ASSUME NEW a \in Nat, NEW d \in Nat, d > 0
    PROVE  /\ a \div d \in Nat /\ (a \div d) * d <= a /\ a < ((a \div d) + 1) * d
           /\ (a + d - 1) \div d \in Nat /\ a <= ((a + d - 1) \div d) * d
           /\ (a + d - 1) \div d <= (a \div d) + 1
           /\ a \div d <= (a + d - 1) \div d
<1>1. \A x \in Nat : x \div d \in Nat /\ (x \div d) * d <= x /\ x < ((x \div d) + 1) * d
  BY Z3
<1>2. a + d - 1 \in Nat
  OBVIOUS
<1> DEFINE q == a \div d
           m == (a + d - 1) \div d
<1>3. /\ q \in Nat /\ q * d <= a /\ a < (q + 1) * d
      /\ m \in Nat /\ m * d <= a + d - 1 /\ a + d - 1 < (m + 1) * d
  BY <1>1, <1>2
<1> HIDE DEF q, m
<1>4. a <= m * d
  BY <1>3
<1>5. m <= q + 1
  <2>1. m * d < (q + 2) * d
    BY <1>3
  <2>2. ~(m >= q + 2)
    BY <1>3, <2>1
  <2> QED  BY <1>3, <2>2
<1>6. q <= m
  <2>1. q * d <= m * d
    BY <1>3, <1>4
  <2>2. ~(q >= m + 1)
    <3>1. SUFFICES ASSUME q >= m + 1 PROVE FALSE
      OBVIOUS
    <3>2. q * d >= (m + 1) * d
      BY <1>3, <3>1
    <3> QED  BY <1>3, <2>1, <3>2
  <2> QED  BY <1>3, <2>2
<1> QED  BY <1>3, <1>4, <1>5, <1>6 DEF q, m

(* The kernel's sectors fit its clusters, which are counted to be enough    *)
(* and at most one more than the whole ones.                                *)
LEMMA Sizes ==
    ASSUME Geometry
    PROVE  LET C == Len(disk.chain)
               c0 == disk.filesize \div SectorSize
               last == LastCluster(disk.filesize)
           IN  /\ C \in Nat /\ C > 0 /\ c0 \in Nat /\ last \in Nat /\ Sectors \in Nat
               /\ Sectors <= c0 + 1
               /\ last <= C /\ C <= last + 1
               /\ Sectors <= C * sectors_per_cluster
<1> DEFINE fs == disk.filesize
           SS == SectorSize
           spc == sectors_per_cluster
           M == SS * spc
           C == (fs + M - 1) \div M
           c0 == fs \div SS
           last == fs \div M
           n == (fs + SS - 1) \div SS
<1>1. fs \in Nat /\ fs > 0 /\ SS \in Nat /\ SS > 0 /\ spc \in Nat /\ spc > 0 /\ M \in Nat /\ M > 0
  BY DiskParts, Numbers
<1>2. Len(disk.chain) = C /\ LastCluster(fs) = last /\ Sectors = n
  BY DEF Geometry, Clusters, LastCluster, Sectors
<1> HIDE DEF fs
<1>3. c0 \in Nat /\ n \in Nat /\ n <= c0 + 1
  <2> HIDE DEF SS
  <2> QED  BY <1>1, Quotient
<1>4. last \in Nat /\ C \in Nat /\ last <= C /\ C <= last + 1 /\ fs <= C * M
  <2> HIDE DEF M
  <2> QED  BY <1>1, Quotient
<1> HIDE DEF C
<1>5. C > 0
  <2>1. C = 0 => C * M = 0
    BY <1>1
  <2> QED  BY <1>1, <1>4, <2>1
<1>6. n <= C * spc
  <2> DEFINE q == C * spc
  <2>1. \A x, y, z \in Nat : x * (y * z) = (x * z) * y
    BY Z3
  <2>2. C * M = q * SS
    BY <1>1, <1>4, <2>1
  <2>3. q \in Nat
    BY <1>1, <1>4
  <2> HIDE DEF q, M
  <2>4. n <= q
    <3> HIDE DEF SS
    <3> QED  BY <1>1, <1>4, <2>2, <2>3, RoundedUp
  <2> QED  BY <2>4 DEF q
<1> QED  BY <1>2, <1>3, <1>4, <1>5, <1>6 DEF fs

-----------------------------------------------------------------------------
(* kmain. *)

(* The first line and the rest.                                             *)
LEMMA Lines ==
    ASSUME NEW T, NEW s \in Seq(T), s # <<>>
    PROVE  /\ Head(s) \in T /\ Head(s) = s[1] /\ 1 \in DOMAIN s
           /\ Tail(s) \in Seq(T) /\ Len(s) \in Nat /\ Len(Tail(s)) + 1 = Len(s)
           /\ \A k \in DOMAIN Tail(s) : k + 1 \in DOMAIN s /\ Tail(s)[k] = s[k + 1]
           /\ \A k \in DOMAIN s : k = 1 \/ (k - 1 \in DOMAIN Tail(s) /\ Tail(s)[k - 1] = s[k])
<1>1. /\ Head(s) \in T /\ Tail(s) \in Seq(T) /\ Len(Tail(s)) = Len(s) - 1
      /\ \A k \in 1..Len(Tail(s)) : Tail(s)[k] = s[k + 1]
  BY HeadTailProperties
<1>2. Len(s) \in Nat /\ Len(s) > 0 /\ DOMAIN s = 1..Len(s) /\ DOMAIN Tail(s) = 1..Len(Tail(s))
  BY <1>1, LenProperties, EmptySeq
<1>3. Head(s) = s[1]
  OBVIOUS
<1> QED  BY <1>1, <1>2, <1>3

Line == [key : Code, value : Nat, part : Nat \cup {NoPart}]

(* Every initial state satisfies it.                                        *)
LEMMA InitIInv == Init => IInv
<1> SUFFICES ASSUME Init PROVE IInv
  OBVIOUS
<1>1. Geometry
  BY DEF Init, Geometry
<1>2. LinesFit
  <2>1. unread \in Configs /\ oscount = 0 /\ place = "config" /\ disk.table \in Tables
    BY DEF Init
  <2>2. unread \in Seq(Line) /\ Len(unread) <= MaxOses /\ \E k \in DOMAIN unread : unread[k].key \in Option
    BY <2>1, LoaderAssumption DEF Line
  <2>3. ASSUME NEW k \in DOMAIN unread PROVE Fits(unread[k])
    BY <2>1, LoaderAssumption DEF Fits
  <2>4. Len(unread) \in Nat
    BY <2>2, LenProperties
  <2> QED  BY <2>1, <2>2, <2>3, <2>4 DEF LinesFit, Line
<1>3. OptionsKnown
  BY <1>1, DiskParts DEF Init, OptionsKnown, Unset
<1>4. TypeOK
  <2>1. Unset \in [isosmosys : BOOLEAN, partindex : Nat]
    BY DEF Unset
  <2>2. os \in [0..(MaxOses - 1) -> [isosmosys : BOOLEAN, partindex : Nat]]
    BY <2>1 DEF Init
  <2>3. /\ oscount \in 0..MaxOses /\ current_option \in 0..(MaxOses - 1)
        /\ timer \in Int /\ timer >= -1 /\ is_timer_active \in BOOLEAN
        /\ booted \in Nat \cup {NoPart} /\ code \in Code /\ place = "config"
    <3>1. /\ oscount = 0 /\ current_option = 0 /\ timer = 0 /\ is_timer_active = FALSE
          /\ booted = NoPart /\ code \in Code /\ place = "config"
      BY DEF Init
    <3>2. 0 \in 0..MaxOses /\ 0 \in 0..(MaxOses - 1) /\ 0 \in Int /\ 0 >= -1
      BY DEF MaxOses
    <3> QED  BY <3>1, <3>2, Zenon
  <2>4. loop \in [part : Nat, i : Nat, cluster : Nat, count : Nat]
    BY DEF Init
  <2> QED  BY <2>2, <2>3, <2>4 DEF TypeOK
<1> QED  BY <1>1, <1>2, <1>3, <1>4 DEF IInv, Init, ChosenStarted, KernelLoads

(* A line leads to no place beyond the array and the partition table.       *)
LEMMA ReadLineIInv == ASSUME IInv, ReadLine PROVE IInv'
<1> DEFINE line == Head(unread)
           key == IF line.key = "unknown" THEN code ELSE line.key
<1>1. /\ place = "config" /\ unread # <<>> /\ unread' = Tail(unread) /\ code' = key
      /\ timer' = IF key = "timeout" THEN line.value * TicksPerSecond ELSE timer
      /\ current_option' = IF key = "default" THEN line.value ELSE current_option
      /\ oscount' = IF key \in Option THEN oscount + 1 ELSE oscount
      /\ os' = IF key \in Option /\ line.part # NoPart
               THEN [os EXCEPT ![oscount] = [isosmosys |-> key = "osmosys", partindex |-> line.part]]
               ELSE os
      /\ disk' = disk /\ place' = place /\ is_timer_active' = is_timer_active
      /\ loop' = loop /\ memory' = memory /\ booted' = booted
  BY DEF ReadLine, boot
<1>2. unread \in Seq(Line) /\ TypeOK
  BY DEF IInv, LinesFit, Line
<1>3. /\ line \in Line /\ line = unread[1] /\ 1 \in DOMAIN unread
      /\ Tail(unread) \in Seq(Line) /\ Len(unread) \in Nat /\ Len(Tail(unread)) + 1 = Len(unread)
      /\ \A k \in DOMAIN Tail(unread) : k + 1 \in DOMAIN unread /\ Tail(unread)[k] = unread[k + 1]
      /\ \A k \in DOMAIN unread :
            k = 1 \/ (k - 1 \in DOMAIN Tail(unread) /\ Tail(unread)[k - 1] = unread[k])
  BY <1>1, <1>2, Lines
<1>4. Len(Tail(unread)) \in Nat
  BY <1>3, LenProperties
<1>5. Fits(line)
  BY <1>3 DEF IInv, LinesFit
<1> HIDE DEF line
<1>6. /\ line.key \in Code /\ line.value \in Nat /\ line.part \in Nat \cup {NoPart} /\ key \in Code
      /\ line.key = "unknown" \/ line.key = key
  BY <1>2, <1>3 DEF Line, TypeOK
<1> HIDE DEF key
<1>7. oscount \in Nat /\ oscount < MaxOses /\ oscount + Len(Tail(unread)) + 1 <= MaxOses
  <2>1. oscount \in Nat /\ oscount + Len(unread) <= MaxOses
    BY DEF IInv, LinesFit, TypeOK, MaxOses
  <2> QED  BY <1>3, <1>4, <2>1 DEF MaxOses
<1>8. TypeOK'
  <2>1. line.value * TicksPerSecond \in Nat
    BY <1>6, Numbers
  <2>2. timer' \in Int /\ timer' >= -1
    BY <1>1, <1>2, <2>1 DEF TypeOK
  <2>3. current_option' \in 0..(MaxOses - 1)
    <3>1. key = "default" => line.value < MaxOses
      BY <1>5, <1>6 DEF Fits
    <3>2. current_option \in 0..(MaxOses - 1)
      BY <1>2 DEF TypeOK
    <3>3. line.value \in Nat /\ (key = "default" => line.value \in 0..(MaxOses - 1))
      BY <1>6, <3>1 DEF MaxOses
    <3> QED  BY <1>1, <3>2, <3>3, Zenon
  <2>4. os' \in [0..(MaxOses - 1) -> [isosmosys : BOOLEAN, partindex : Nat]]
    <3>1. line.part # NoPart =>
            [isosmosys |-> key = "osmosys", partindex |-> line.part] \in [isosmosys : BOOLEAN, partindex : Nat]
      BY <1>6
    <3> QED  BY <1>1, <1>2, <3>1 DEF TypeOK
  <2>5. oscount' \in 0..MaxOses
    BY <1>1, <1>7 DEF MaxOses
  <2> QED  BY <1>1, <1>2, <1>6, <2>2, <2>3, <2>4, <2>5 DEF TypeOK
<1>9. Geometry'
  BY <1>1 DEF IInv, Geometry, Clusters
<1>10. LinesFit'
  <2>1. ASSUME NEW k \in DOMAIN unread' PROVE Fits(unread[k])'
    <3>1. k + 1 \in DOMAIN unread /\ unread'[k] = unread[k + 1]
      BY <1>1, <1>3
    <3>2. Fits(unread[k + 1])
      BY <3>1 DEF IInv, LinesFit
    <3> QED  BY <1>1, <3>1, <3>2 DEF Fits
  <2>2. oscount' + Len(unread') <= MaxOses
    <3> DEFINE m == Len(Tail(unread))
    <3>1. (oscount' = oscount \/ oscount' = oscount + 1) /\ Len(unread') = m
      BY <1>1
    <3>2. m \in Nat /\ oscount \in Nat /\ oscount + m + 1 <= 10
      BY <1>4, <1>7 DEF MaxOses
    <3> HIDE DEF m
    <3> QED  BY <3>1, <3>2 DEF MaxOses
  <2>3. oscount' > 0 \/ \E k \in DOMAIN unread' : unread'[k].key \in Option
    <3>1. CASE key \in Option \/ oscount > 0
      BY <1>1, <1>7, <3>1
    <3>2. CASE key \notin Option /\ ~(oscount > 0)
      <4>1. PICK k \in DOMAIN unread : unread[k].key \in Option
        BY <3>2 DEF IInv, LinesFit
      <4>2. k # 1
        BY <1>3, <1>6, <3>2, <4>1 DEF Option
      <4> QED  BY <1>1, <1>3, <4>1, <4>2
    <3> QED  BY <3>1, <3>2
  <2>4. unread' \in Seq(Line) /\ place' = "config"
    BY <1>1, <1>3
  <2> QED  BY <2>1, <2>2, <2>3, <2>4 DEF LinesFit, Line
<1>11. OptionsKnown'
  <2> SUFFICES ASSUME NEW k \in 0..(MaxOses - 1) PROVE os'[k].partindex \div 8 < Len(disk.table.mbr)
    BY <1>1 DEF OptionsKnown
  <2>1. os[k].partindex \div 8 < Len(disk.table.mbr)
    BY DEF IInv, OptionsKnown
  <2>2. line.part # NoPart => line.part \div 8 < Len(disk.table.mbr)
    BY <1>5 DEF Fits
  <2> QED  BY <1>1, <1>2, <2>1, <2>2 DEF TypeOK
<1> QED  BY <1>1, <1>8, <1>9, <1>10, <1>11 DEF IInv, ChosenStarted, KernelLoads

(* The menu has something to choose.                                        *)
LEMMA ShowMenuIInv == ASSUME IInv, ShowMenu PROVE IInv'
<1>1. /\ place = "config" /\ unread = <<>> /\ place' = "menu" /\ is_timer_active' = TRUE
      /\ disk' = disk /\ unread' = unread /\ code' = code /\ os' = os /\ oscount' = oscount
      /\ current_option' = current_option /\ timer' = timer
      /\ loop' = loop /\ memory' = memory /\ booted' = booted
  BY DEF ShowMenu, boot
<1>2. TypeOK'
  BY <1>1 DEF IInv, TypeOK
<1>3. Geometry'
  BY <1>1 DEF IInv, Geometry, Clusters
<1>4. LinesFit' /\ OptionsKnown'
  BY <1>1 DEF IInv, LinesFit, Fits, OptionsKnown
<1> QED  BY <1>1, <1>2, <1>3, <1>4 DEF IInv, ChosenStarted, KernelLoads

-----------------------------------------------------------------------------
(* The menu. *)

(* What a tick or a key leaves of the configuration and the disk.           *)
Configured ==
    /\ place = "menu" /\ disk' = disk /\ unread' = unread /\ code' = code
    /\ os' = os /\ oscount' = oscount
    /\ timer' \in Int /\ timer' >= -1 /\ is_timer_active' \in BOOLEAN
    /\ current_option' \in 0..(MaxOses - 1)

(* In the menu there is an option.                                          *)
LEMMA SomeOption == ASSUME IInv, place = "menu" PROVE oscount \in 1..MaxOses
<1>1. unread = <<>> /\ oscount \in 0..MaxOses
  BY DEF IInv, LinesFit, TypeOK
<1>2. DOMAIN unread = {}
  BY <1>1
<1>3. oscount > 0
  BY <1>2 DEF IInv, LinesFit
<1> QED  BY <1>1, <1>3 DEF MaxOses

(* Nothing is started: the invariant speaks of the menu only.               *)
LEMMA StaysInMenu ==
    ASSUME IInv, Configured, UNCHANGED <<place, boot>>
    PROVE  IInv'
<1>1. /\ place = "menu" /\ place' = "menu" /\ disk' = disk /\ unread' = unread /\ code' = code
      /\ os' = os /\ oscount' = oscount /\ loop' = loop /\ booted' = booted
  BY DEF Configured, boot
<1>2. TypeOK'
  BY <1>1 DEF IInv, TypeOK, Configured
<1>3. Geometry'
  BY <1>1 DEF IInv, Geometry, Clusters
<1>4. LinesFit' /\ OptionsKnown'
  BY <1>1 DEF IInv, LinesFit, Fits, OptionsKnown
<1> QED  BY <1>1, <1>2, <1>3, <1>4 DEF IInv, ChosenStarted, KernelLoads

(* The highlighted option begins where its entry of the table says.         *)
LEMMA PartitionTyped == ASSUME IInv PROVE Partition \in Nat
<1>1. Chosen.partindex \in Nat /\ Chosen.partindex \div 8 < Len(disk.table.mbr)
  BY DEF IInv, TypeOK, OptionsKnown, Chosen
<1> QED  BY <1>1, Partitions DEF IInv, Partition

(* The highlighted option is started, or begins to load.                    *)
LEMMA BootIInv ==
    ASSUME IInv, Configured, current_option' = current_option, Boot(Chosen)
    PROVE  IInv'
<1>1. /\ place = "menu" /\ disk' = disk /\ unread' = unread /\ code' = code
      /\ os' = os /\ oscount' = oscount /\ Chosen' = Chosen /\ Partition' = Partition
  BY DEF Configured, Chosen, Partition, return_partition_lba, Record
<1>2. Partition \in Nat
  BY PartitionTyped
<1>3. Geometry'
  BY <1>1 DEF IInv, Geometry, Clusters
<1>4. place' # "config" => LinesFit' /\ OptionsKnown'
  BY <1>1 DEF IInv, LinesFit, Fits, OptionsKnown
<1>5. CASE Chosen.isosmosys /\ BeginLoading(Partition)
  <2>1. /\ loop' = [part |-> Partition, i |-> 0, cluster |-> FileCluster,
                    count |-> disk.filesize \div SectorSize]
        /\ place' \in {"loading", "stuck"} /\ memory' = memory /\ booted' = booted
    BY <1>5 DEF BeginLoading
  <2>2. FileCluster \in Nat /\ (disk.chain[1] < Half => FileCluster = disk.chain[1])
    BY Sizes, FirstCluster DEF IInv
  <2>3. disk.filesize \div SectorSize \in Nat /\ LastCluster(disk.filesize) \in Nat
        /\ Len(disk.chain) \in Nat /\ Len(disk.chain) > 0
    BY Sizes DEF IInv
  <2>4. TypeOK'
    BY <1>1, <1>2, <2>1, <2>2, <2>3 DEF IInv, TypeOK, Configured
  <2>5. disk.chain[1] < Half => LoopInvariant'
    <3> SUFFICES ASSUME disk.chain[1] < Half PROVE LoopInvariant'
      OBVIOUS
    <3>1. 0 * sectors_per_cluster = 0 /\ \A k \in Int : k \in 0..(Sectors' - 1) => ~(k < 0)
      BY Numbers
    <3>2. loop'.i = 0 /\ loop'.cluster = disk.chain[1] /\ loop'.count = disk.filesize \div SectorSize
      BY <2>1, <2>2
    <3>3. InMemory(0)'
      BY <3>1 DEF InMemory, Has
    <3>4. LastCluster(disk.filesize)' = LastCluster(disk.filesize)
      BY <1>1 DEF LastCluster
    <3> QED  BY <1>1, <2>3, <3>1, <3>2, <3>3, <3>4 DEF LoopInvariant
  <2>6. ChosenStarted' /\ KernelLoads'
    BY <1>1, <1>5, <2>1, <2>5 DEF ChosenStarted, KernelLoads
  <2> QED  BY <1>3, <1>4, <2>1, <2>4, <2>6 DEF IInv
<1>6. CASE Chosen.isosmosys /\ NothingToLoad
  BY <1>6, StaysInMenu DEF NothingToLoad, boot
<1>7. CASE ~Chosen.isosmosys /\ ChainloadOs(Partition)
  <2>1. /\ place' \in {"chained", "stuck"} /\ loop' = loop /\ booted' \in {Partition, booted}
        /\ place' = "chained" => booted' = Partition
    BY <1>7 DEF ChainloadOs
  <2>2. TypeOK'
    BY <1>1, <1>2, <2>1 DEF IInv, TypeOK, Configured
  <2>3. ChosenStarted' /\ KernelLoads'
    BY <1>1, <1>7, <2>1 DEF ChosenStarted, KernelLoads
  <2> QED  BY <1>3, <1>4, <2>1, <2>2, <2>3 DEF IInv
<1> QED  BY <1>5, <1>6, <1>7 DEF Boot, Partition

(* A tick counts down, and the last one boots.                              *)
LEMMA TimerIInv == ASSUME IInv, Timer PROVE IInv'
<1>1. Configured /\ current_option' = current_option
  <2>1. /\ place = "menu" /\ disk' = disk /\ unread' = unread /\ code' = code
        /\ os' = os /\ oscount' = oscount /\ current_option' = current_option
        /\ is_timer_active' = is_timer_active
        /\ timer' = IF timer < 0 THEN timer ELSE timer - 1
    BY DEF Timer
  <2>2. /\ timer \in Int /\ timer >= -1 /\ is_timer_active \in BOOLEAN
        /\ current_option \in 0..(MaxOses - 1)
    BY DEF IInv, TypeOK
  <2>3. timer' \in Int /\ timer' >= -1
    BY <2>1, <2>2
  <2> QED  BY <2>1, <2>2, <2>3 DEF Configured
<1>2. CASE Boot(Chosen)
  BY <1>1, <1>2, BootIInv
<1>3. CASE UNCHANGED <<place, boot>>
  BY <1>1, <1>3, StaysInMenu
<1> QED  BY <1>2, <1>3 DEF Timer, Chosen

(* No key leads out of the array of options.                                *)
LEMMA KeyIInv == ASSUME IInv, Down \/ Up \/ Enter \/ OtherKey PROVE IInv'
<1>1. /\ place = "menu" /\ disk' = disk /\ unread' = unread /\ code' = code
      /\ os' = os /\ oscount' = oscount /\ timer' = timer /\ is_timer_active' = FALSE
  BY DEF Down, Up, Enter, OtherKey, Key
<1>2. /\ timer \in Int /\ timer >= -1 /\ current_option \in 0..(MaxOses - 1)
  BY DEF IInv, TypeOK
<1>3. oscount \in 1..MaxOses
  BY <1>1, SomeOption
<1>4. current_option' \in 0..(MaxOses - 1)
  <2>1. CASE Down
    <3>1. current_option + 1 \in 0..(MaxOses - 1) \/ current_option + 1 = oscount
      BY <2>1 DEF Down
    <3>2. current_option' = IF current_option + 1 = oscount THEN 0 ELSE current_option + 1
      BY <2>1 DEF Down
    <3>3. 0 \in 0..(MaxOses - 1)
      BY DEF MaxOses
    <3> QED  BY <3>1, <3>2, <3>3
  <2>2. CASE Up
    <3>1. current_option' = IF current_option - 1 = -1 THEN oscount - 1 ELSE current_option - 1
      BY <2>2 DEF Up, UpTo
    <3> QED  BY <1>2, <1>3, <3>1 DEF MaxOses
  <2>3. CASE Enter \/ OtherKey
    BY <1>2, <2>3 DEF Enter, OtherKey
  <2> QED  BY <2>1, <2>2, <2>3
<1>5. Configured
  BY <1>1, <1>2, <1>4 DEF Configured
<1>6. CASE Enter
  BY <1>5, <1>6, BootIInv DEF Enter, Chosen
<1>7. CASE Down \/ Up \/ OtherKey
  <2>1. UNCHANGED <<place, boot>>
    BY <1>7 DEF Down, Up, OtherKey
  <2> QED  BY <1>5, <2>1, StaysInMenu
<1> QED  BY <1>6, <1>7

-----------------------------------------------------------------------------
(* The loop. *)

(* How many sectors a round is to read.                                     *)
ToRead == IF loop.count >= sectors_per_cluster THEN sectors_per_cluster ELSE loop.count
Start == loop.i * sectors_per_cluster

(* What a round does, whichever way it ends.                                *)
LEMMA Round ==
    ASSUME IInv, LoadCluster
    PROVE  /\ place = "loading"
           /\ disk' = disk /\ unread' = unread /\ code' = code /\ os' = os /\ oscount' = oscount
           /\ current_option' = current_option /\ timer' = timer /\ is_timer_active' = is_timer_active
           /\ ToRead \in Nat /\ ToRead <= loop.count /\ ToRead <= sectors_per_cluster
           /\ Start \in Nat /\ (loop.i + 1) * sectors_per_cluster = Start + sectors_per_cluster
           /\ loop \in [part : Nat, i : Nat, cluster : Nat, count : Nat]
           /\ loop' \in [part : Nat, i : Nat, cluster : Nat, count : Nat]
           /\ loop'.part = loop.part /\ loop'.i = loop.i + 1
           /\ loop'.cluster = find_chain_cluster(loop.cluster) /\ loop'.count = loop.count - ToRead
           /\ memory' = [k \in DOMAIN memory \cup {Start + j : j \in 0..ToRead} |->
                            IF k - Start \in 0..ToRead THEN Buffered(k - Start) ELSE memory[k]]
           /\ \/ place' = "stuck" /\ booted' = booted
              \/ place' = "loading" /\ loop.i # LastCluster(disk.filesize) /\ booted' = booted
              \/ place' = "osmosys" /\ loop.i = LastCluster(disk.filesize) /\ booted' = loop.part
<1> DEFINE next == find_chain_cluster(loop.cluster)
           done == next = NoCluster \/ loop.i = LastCluster(disk.filesize)
<1>1. loop \in [part : Nat, i : Nat, cluster : Nat, count : Nat]
  BY DEF IInv, TypeOK
<1>2. next \in Nat /\ next # NoCluster
  BY NextCluster DEF IInv, NoCluster
<1>3. ToRead \in Nat /\ ToRead <= loop.count /\ ToRead <= sectors_per_cluster
  BY <1>1, Numbers DEF ToRead
<1>4. /\ loop.i \in Nat /\ loop.part \in Nat /\ loop.count \in Nat
  BY <1>1
<1>5. Start \in Nat /\ (loop.i + 1) * sectors_per_cluster = Start + sectors_per_cluster
  <2>1. \A x, y \in Nat : x * y \in Nat /\ (x + 1) * y = (x * y) + y
    BY Z3
  <2> QED  BY <1>4, <2>1, Numbers DEF Start
<1>6. /\ place = "loading"
      /\ loop' = [loop EXCEPT !.i = @ + 1, !.cluster = next, !.count = @ - ToRead]
      /\ memory' = [k \in DOMAIN memory \cup {Start + j : j \in Copied(ToRead)} |->
                      IF k - Start \in Copied(ToRead) THEN Buffered(k - Start) ELSE memory[k]]
      /\ \/ place' = "stuck" /\ booted' = booted
         \/ place' = (IF done THEN "osmosys" ELSE "loading")
            /\ booted' = (IF done THEN loop.part ELSE booted)
      /\ disk' = disk /\ unread' = unread /\ code' = code /\ os' = os /\ oscount' = oscount
      /\ current_option' = current_option /\ timer' = timer /\ is_timer_active' = is_timer_active
  BY DEF LoadCluster, ToRead, Start, menu
<1> HIDE DEF next
<1>7. /\ loop'.part = loop.part /\ loop'.i = loop.i + 1
      /\ loop'.cluster = next /\ loop'.count = loop.count - ToRead
      /\ loop' = [part |-> loop.part, i |-> loop.i + 1, cluster |-> next, count |-> loop.count - ToRead]
  BY <1>1, <1>6
<1>8. loop' \in [part : Nat, i : Nat, cluster : Nat, count : Nat]
  BY <1>2, <1>3, <1>4, <1>7
<1> QED  BY <1>1, <1>2, <1>3, <1>5, <1>6, <1>7, <1>8 DEF Copied, next

(* The place of a sector among the clusters.                                *)
LEMMA SectorInCluster ==
    ASSUME NEW i \in Nat, NEW n \in Nat, n > 0, NEW k \in Nat, i * n <= k, k < (i * n) + n
    PROVE  k \div n = i /\ k % n = k - (i * n)
<1> DEFINE r == k - (i * n)
<1>1. i * n \in Nat /\ r \in Nat /\ r < n /\ k = (i * n) + r
  BY Z3
<1>2. \A x \in Nat : x = (x \div n) * n + (x % n) /\ x \div n \in Nat /\ x % n \in Nat /\ x % n < n
  BY Z3
<1> DEFINE q == k \div n
           m == k % n
<1>3. k = q * n + m /\ q \in Nat /\ m \in Nat /\ m < n
  BY <1>2
<1> HIDE DEF q, m
<1>4. q = i
  <2>1. ~(q >= i + 1)
    <3>1. SUFFICES ASSUME q >= i + 1 PROVE FALSE
      OBVIOUS
    <3>2. q * n >= (i + 1) * n /\ (i + 1) * n = (i * n) + n
      BY <1>3, <3>1
    <3> QED  BY <1>1, <1>3, <3>2
  <2>2. ~(i >= q + 1)
    <3>1. SUFFICES ASSUME i >= q + 1 PROVE FALSE
      OBVIOUS
    <3>2. i * n >= (q + 1) * n /\ (q + 1) * n = (q * n) + n
      BY <1>3, <3>1
    <3> QED  BY <1>1, <1>3, <3>2
  <2> QED  BY <1>3, <2>1, <2>2
<1>5. m = k - (i * n)
  BY <1>1, <1>3, <1>4
<1> QED  BY <1>4, <1>5 DEF q, m

(* A round keeps the sectors of earlier rounds, and the first of the        *)
(* cluster it has in its buffer are put behind them: all that the kernel    *)
(* has there.                                                               *)
LEMMA RoundCopies ==
    ASSUME IInv, LoadCluster, LoopInvariant
    PROVE  /\ Has(memory', Start)
           /\ loop.i < Len(disk.chain) => Has(memory', Start + sectors_per_cluster)
<1> DEFINE spc == sectors_per_cluster
           C == Len(disk.chain)
           c0 == disk.filesize \div SectorSize
<1>1. /\ ToRead \in Nat /\ Start \in Nat /\ loop.i \in Nat
      /\ loop'.part = loop.part /\ disk' = disk
      /\ memory' = [k \in DOMAIN memory \cup {Start + j : j \in 0..ToRead} |->
                      IF k - Start \in 0..ToRead THEN Buffered(k - Start) ELSE memory[k]]
  BY Round
<1>2. C \in Nat /\ c0 \in Nat /\ Sectors \in Nat /\ Sectors <= c0 + 1 /\ Sectors' = Sectors
      /\ spc \in Nat /\ spc > 0
  BY <1>1, Sizes, Numbers DEF IInv, Sectors
<1>3. /\ loop.i < C => loop.cluster = disk.chain[loop.i + 1]
      /\ loop.count = IF Start <= c0 THEN c0 - Start ELSE 0
      /\ InMemory(Start)
  BY DEF LoopInvariant, Start
<1> DEFINE right(k) == ClusterSector(loop.part, disk.chain[(k \div spc) + 1]) + (k % spc)
<1>4. ASSUME NEW k \in 0..(Sectors - 1), k < Start
      PROVE  k \in DOMAIN memory' /\ memory'[k] = right(k)
  <2>1. k \in DOMAIN memory /\ memory[k] = right(k)
    BY <1>3, <1>4 DEF InMemory, Has
  <2>2. ~(k - Start \in 0..ToRead)
    BY <1>1, <1>2, <1>4
  <2> HIDE DEF right
  <2> QED  BY <1>1, <2>1, <2>2
<1>5. ASSUME NEW k \in 0..(Sectors - 1), loop.i < C, ~(k < Start), k < Start + spc
      PROVE  k \in DOMAIN memory' /\ memory'[k] = right(k)
  <2> DEFINE j == k - Start
  <2>1. j \in Nat /\ j < spc /\ k = Start + j /\ k <= c0
    BY <1>1, <1>2, <1>5
  <2>2. k \div spc = loop.i /\ k % spc = j
    <3>1. loop.i * spc <= k /\ k < (loop.i * spc) + spc /\ k \in Nat /\ Start = loop.i * spc
      BY <1>1, <1>2, <1>5 DEF Start
    <3> HIDE DEF spc
    <3>2. k \div spc = loop.i /\ k % spc = k - (loop.i * spc)
      BY <1>1, <1>2, <3>1, SectorInCluster
    <3> QED  BY <3>1, <3>2
  <2>3. j \in 0..ToRead
    <3>1. CASE loop.count >= spc
      BY <2>1, <3>1, <1>2 DEF ToRead
    <3>2. CASE ~(loop.count >= spc)
      <4>1. ToRead = c0 - Start
        BY <1>1, <1>2, <1>3, <2>1, <3>2 DEF ToRead
      <4> QED  BY <1>1, <1>2, <2>1, <4>1
    <3> QED  BY <3>1, <3>2
  <2>4. Buffered(j) = ClusterSector(loop.part, loop.cluster) + j
    BY <2>1 DEF Buffered
  <2>5. Buffered(j) = right(k)
    BY <1>3, <1>5, <2>2, <2>4
  <2> HIDE DEF right
  <2>6. k \in DOMAIN memory \cup {Start + x : x \in 0..ToRead}
    BY <2>1, <2>3
  <2> QED  BY <1>1, <2>3, <2>5, <2>6
<1>6. Has(memory', Start)
  BY <1>4 DEF Has
<1>7. ASSUME loop.i < C PROVE Has(memory', Start + spc)
  <2>1. \A k \in 0..(Sectors - 1) : k < Start + spc => k \in DOMAIN memory' /\ memory'[k] = right(k)
    BY <1>4, <1>5, <1>7
  <2> QED  BY <2>1 DEF Has
<1> QED  BY <1>6, <1>7

(* A round keeps the invariant of the loop, and when it is the last one all *)
(* sectors of the kernel are in their places.                               *)
LEMMA RoundKeeps ==
    ASSUME IInv, LoadCluster, LoopInvariant
    PROVE  /\ place' = "loading" => LoopInvariant'
           /\ place' = "osmosys" => InMemory(Sectors)'
<1> DEFINE spc == sectors_per_cluster
           C == Len(disk.chain)
           c0 == disk.filesize \div SectorSize
           last == LastCluster(disk.filesize)
           i == loop.i
<1>1. /\ disk' = disk /\ Start \in Nat /\ (i + 1) * spc = Start + spc
      /\ ToRead \in Nat /\ ToRead <= loop.count
      /\ loop'.part = loop.part /\ loop'.i = i + 1
      /\ loop'.cluster = find_chain_cluster(loop.cluster)
      /\ loop'.count = loop.count - ToRead /\ i \in Nat
      /\ place' = "loading" => i # last
      /\ place' = "osmosys" => i = last
  BY Round
<1>2. /\ C \in Nat /\ c0 \in Nat /\ last \in Nat /\ Sectors \in Nat
      /\ last <= C /\ C <= last + 1 /\ Sectors <= C * spc
      /\ spc \in Nat /\ spc > 0
  BY Sizes, Numbers DEF IInv
<1>3. Sectors' = Sectors /\ LastCluster(disk.filesize)' = last
  BY <1>1 DEF Sectors, LastCluster
<1>4. /\ i \in 0..C /\ i <= last
      /\ i < C => loop.cluster = disk.chain[i + 1]
      /\ loop.count = IF Start <= c0 THEN c0 - Start ELSE 0
  <2>1. Start = i * spc
    BY DEF Start
  <2> HIDE DEF c0
  <2> QED  BY <2>1 DEF LoopInvariant, c0
<1>5. Has(memory', Start) /\ (i < C => Has(memory', Start + spc))
  BY RoundCopies
<1>6. CASE place' = "loading"
  <2>1. i + 1 \in 0..C /\ i + 1 <= last /\ i < C
    <3>1. i # last /\ i \in Nat /\ last \in Nat /\ C \in Nat /\ last <= C /\ i <= last
      BY <1>1, <1>2, <1>4, <1>6
    <3> HIDE DEF i, C, last
    <3> QED  BY <3>1
  <2>2. i + 1 < C => loop'.cluster = disk.chain[(i + 1) + 1]
    <3>1. SUFFICES ASSUME i + 1 < C PROVE loop'.cluster = disk.chain[(i + 1) + 1]
      OBVIOUS
    <3>2. i + 1 \in 1..C - 1
      BY <1>1, <1>2, <3>1
    <3>3. loop.cluster = disk.chain[i + 1]
      BY <1>4, <2>1
    <3> QED  BY <1>1, <3>2, <3>3, NextCluster DEF IInv
  <2>3. loop'.count = IF Start + spc <= c0 THEN c0 - (Start + spc) ELSE 0
    <3>1. ToRead = IF loop.count >= spc THEN spc ELSE loop.count
      BY DEF ToRead
    <3> HIDE DEF spc, c0
    <3> QED  BY <1>1, <1>2, <1>4, <3>1
  <2>4. InMemory(i * spc)'
    BY <1>1, <1>3, <1>5, <2>1 DEF InMemory, Has
  <2>5. LoopInvariant'
    <3>1. loop'.i \in 0..C /\ loop'.i <= last /\ (loop'.i < C => loop'.cluster = disk.chain[loop'.i + 1])
      BY <1>1, <2>1, <2>2
    <3>2. loop'.count = IF loop'.i * spc <= c0 THEN c0 - (loop'.i * spc) ELSE 0
      BY <1>1, <2>3
    <3> QED  BY <1>1, <1>3, <2>4, <3>1, <3>2 DEF LoopInvariant
  <2> QED  BY <1>6, <2>5
<1>7. CASE place' = "osmosys"
  <2>1. i = last
    BY <1>1, <1>7
  <2>2. CASE i < C
    <3>1. C = i + 1
      BY <1>2, <1>1, <2>1, <2>2
    <3>2. Sectors <= Start + spc
      BY <1>1, <1>2, <3>1
    <3>3. Has(memory', Start + spc)
      BY <1>5, <2>2
    <3>4. \A k \in 0..(Sectors - 1) : k < Start + spc
      BY <1>1, <1>2, <3>2
    <3>5. InMemory(Sectors)'
      BY <1>1, <1>3, <3>3, <3>4 DEF InMemory, Has
    <3> QED  BY <1>7, <3>5
  <2>3. CASE ~(i < C)
    <3>1. i = C
      BY <1>2, <1>4, <2>3
    <3>2. Sectors <= Start
      BY <1>2, <3>1 DEF Start
    <3>4. \A k \in 0..(Sectors - 1) : k < Start
      BY <1>1, <1>2, <3>2
    <3>5. InMemory(Sectors)'
      BY <1>1, <1>3, <1>5, <3>4 DEF InMemory, Has
    <3> QED  BY <1>7, <3>5
  <2> QED  BY <2>2, <2>3
<1> QED  BY <1>6, <1>7

(* A round of the loop.                                                     *)
LEMMA LoadClusterIInv == ASSUME IInv, LoadCluster PROVE IInv'
<1>1. /\ place = "loading" /\ place' \in {"stuck", "loading", "osmosys"}
      /\ disk' = disk /\ unread' = unread /\ code' = code /\ os' = os /\ oscount' = oscount
      /\ current_option' = current_option /\ timer' = timer /\ is_timer_active' = is_timer_active
      /\ loop' \in [part : Nat, i : Nat, cluster : Nat, count : Nat]
      /\ loop'.part = loop.part
      /\ place' = "osmosys" => booted' = loop.part
      /\ booted' \in {booted, loop.part}
  BY Round
<1>2. Chosen' = Chosen /\ Partition' = Partition /\ Partition \in Nat
  <2>1. Chosen' = Chosen
    BY <1>1 DEF Chosen
  <2>2. Partition' = Partition
    BY <1>1, <2>1 DEF Partition, return_partition_lba, Record
  <2> QED  BY <2>1, <2>2, PartitionTyped
<1>3. Chosen.isosmosys /\ loop.part = Partition
  BY <1>1 DEF IInv, ChosenStarted
<1>4. TypeOK'
  BY <1>1, <1>2, <1>3 DEF IInv, TypeOK
<1>5. Geometry'
  BY <1>1 DEF IInv, Geometry, Clusters
<1>6. LinesFit' /\ OptionsKnown'
  BY <1>1 DEF IInv, LinesFit, Fits, OptionsKnown
<1>7. ChosenStarted'
  BY <1>1, <1>2, <1>3 DEF ChosenStarted
<1>8. KernelLoads'
  <2>1. SUFFICES ASSUME disk.chain[1] < Half
        PROVE  /\ place' = "loading" => LoopInvariant'
               /\ place' = "osmosys" => InMemory(Sectors)'
    BY <1>1 DEF KernelLoads
  <2>2. LoopInvariant
    BY <1>1, <2>1 DEF IInv, KernelLoads
  <2> QED  BY <2>2, RoundKeeps
<1> QED  BY <1>4, <1>5, <1>6, <1>7, <1>8 DEF IInv

-----------------------------------------------------------------------------
(* The results. *)

(* The inductive invariant holds in every reachable state.                  *)
THEOREM Invariant == Spec => []IInv
<1>1. Init => IInv
  BY InitIInv
<1>2. IInv /\ [Next]_vars => IInv'
  <2>1. SUFFICES ASSUME IInv, [Next]_vars PROVE IInv'
    OBVIOUS
  <2>2. CASE UNCHANGED vars
    <3>1. /\ disk' = disk /\ place' = place /\ unread' = unread /\ code' = code
          /\ os' = os /\ oscount' = oscount /\ current_option' = current_option
          /\ timer' = timer /\ is_timer_active' = is_timer_active
          /\ loop' = loop /\ memory' = memory /\ booted' = booted
      BY <2>2 DEF vars, menu, boot
    <3>2. TypeOK' /\ Geometry'
      BY <2>1, <3>1 DEF IInv, TypeOK, Geometry, Clusters
    <3>3. LinesFit' /\ OptionsKnown'
      <4>1. \A line : Fits(line)' <=> Fits(line)
        BY <3>1 DEF Fits
      <4>2. LinesFit'
        BY <2>1, <3>1, <4>1 DEF IInv, LinesFit
      <4>3. OptionsKnown'
        BY <2>1, <3>1 DEF IInv, OptionsKnown
      <4> QED  BY <4>2, <4>3
    <3>4. ChosenStarted'
      <4>1. Chosen' = Chosen
        BY <3>1 DEF Chosen
      <4>2. Partition' = Partition
        BY <3>1, <4>1 DEF Partition, return_partition_lba, Record
      <4> QED  BY <2>1, <3>1, <4>1, <4>2 DEF IInv, ChosenStarted
    <3>5. KernelLoads'
      <4>1. Sectors' = Sectors /\ LastCluster(disk.filesize)' = LastCluster(disk.filesize)
        BY <3>1 DEF Sectors, LastCluster
      <4>2. InMemory(Sectors)' <=> InMemory(Sectors)
        BY <3>1, <4>1 DEF InMemory, Has, ClusterSector
      <4>3. InMemory(loop.i * sectors_per_cluster)' <=> InMemory(loop.i * sectors_per_cluster)
        BY <3>1, <4>1 DEF InMemory, Has, ClusterSector
      <4>4. LoopInvariant' <=> LoopInvariant
        BY <3>1, <4>1, <4>3 DEF LoopInvariant
      <4> QED  BY <2>1, <3>1, <4>2, <4>4 DEF IInv, KernelLoads
    <3> QED  BY <3>2, <3>3, <3>4, <3>5 DEF IInv
  <2> QED  BY <2>1, <2>2, ReadLineIInv, ShowMenuIInv, TimerIInv, KeyIInv, LoadClusterIInv DEF Next
<1> QED  BY <1>1, <1>2, PTL DEF Spec

(* The variables keep their types: what is highlighted is always in the     *)
(* array of options.                                                        *)
THEOREM TypeCorrect == Spec => []TypeOK
<1>1. IInv => TypeOK
  BY DEF IInv
<1> QED  BY <1>1, Invariant, PTL

(* bootosmosys and chainload_os start the highlighted system from its own   *)
(* partition, and of a kernel every sector is in its place.                 *)
THEOREM StartsTheRightSystem == Spec => []StartedRight
<1>1. ASSUME IInv PROVE StartedRight
  <2> DEFINE spc == sectors_per_cluster
  <2>1. Chosen.partindex \in Nat /\ Chosen.partindex \div 8 < Len(disk.table.mbr)
    BY <1>1 DEF IInv, TypeOK, OptionsKnown, Chosen
  <2>2. Chosen.partindex % 8 <= 2 => Partition = PartitionStart(Chosen.partindex)
    BY <1>1, <2>1, Partitions DEF IInv, Partition
  <2>3. place \in {"osmosys", "chained"} =>
          /\ Chosen.isosmosys <=> place = "osmosys"
          /\ Chosen.partindex % 8 <= 2 => booted = PartitionStart(Chosen.partindex)
    BY <1>1, <2>2 DEF IInv, ChosenStarted
  <2>4. ASSUME place = "osmosys", disk.chain[1] < Half, NEW k \in 0..(Sectors - 1)
        PROVE  /\ k \in DOMAIN memory
               /\ memory[k] = ClusterSector(booted, disk.chain[(k \div spc) + 1]) + (k % spc)
    <3>1. InMemory(Sectors) /\ booted = loop.part
      BY <1>1, <2>4 DEF IInv, KernelLoads, ChosenStarted
    <3>2. k < Sectors
      BY <1>1, Sizes DEF IInv
    <3> QED  BY <3>1, <3>2 DEF InMemory, Has
  <2> QED  BY <2>3, <2>4, Zenon DEF StartedRight, Chosen, Sectors
<1> QED  BY <1>1, Invariant, PTL

(* An option of the menu that is highlighted gives way to options only,     *)
(* whatever keys are pressed.                                               *)
THEOREM HighlightIsKept == Spec => HighlightStays
<1>1. ASSUME IInv, [Next]_vars, place = "menu", InMenu PROVE InMenu'
  <2>1. oscount \in Nat /\ current_option \in Nat /\ current_option < oscount
    BY <1>1 DEF IInv, TypeOK, InMenu, MaxOses
  <2>2. CASE Timer \/ Enter \/ OtherKey
    <3>1. oscount' = oscount /\ current_option' = current_option
      BY <2>2 DEF Timer, Enter, OtherKey, Key
    <3> QED  BY <1>1, <3>1 DEF InMenu
  <2>3. CASE Down
    <3>1. /\ oscount' = oscount
          /\ current_option' = IF current_option + 1 = oscount THEN 0 ELSE current_option + 1
      BY <2>3 DEF Down, Key
    <3> QED  BY <2>1, <3>1 DEF InMenu
  <2>4. CASE Up
    <3>1. /\ oscount' = oscount
          /\ current_option' = IF current_option - 1 = -1 THEN oscount - 1 ELSE current_option - 1
      BY <2>4 DEF Up, UpTo, Key
    <3> QED  BY <2>1, <3>1 DEF InMenu
  <2>5. CASE LoadCluster
    BY <1>1, <2>5, Round
  <2>6. CASE ReadLine \/ ShowMenu
    BY <1>1, <2>6 DEF ReadLine, ShowMenu
  <2>7. CASE UNCHANGED vars
    BY <1>1, <2>7 DEF InMenu, vars, menu
  <2> QED  BY <1>1, <2>2, <2>3, <2>4, <2>5, <2>6, <2>7 DEF Next
<1>2. IInv /\ [Next]_vars => [place = "menu" /\ InMenu => InMenu']_vars
  BY <1>1
<1> QED  BY <1>2, Invariant, PTL DEF Spec, HighlightStays
=============================================================================
