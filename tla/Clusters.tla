-------------------------------- MODULE Clusters --------------------------------
(***************************************************************************)
(* Where files lie on the disk: the file allocation table, and the         *)
(* clusters fwrite, new_clstr and a deletion of filesystem.cpp take and    *)
(* give back.  The bytes in the clusters are left out.                     *)
(*                                                                         *)
(* Only the file opened last is written and only other files are deleted:  *)
(* fwrite puts the first cluster and the size into the directory entry of  *)
(* ft_ptr, the file opened last.  It reads and writes one sector for that, *)
(* the first of the directory's cluster, but counts the entry from there   *)
(* over the whole cluster: the words of an entry beyond the first sector   *)
(* land in the heap behind the buffer (what they do there is left out) and *)
(* its entry on the disk stays as it was created, empty.                   *)
(* Calls run one after another, as in Files.                               *)
(***************************************************************************)
EXTENDS Integers, FiniteSets, FiniteSetsExt

CONSTANTS
    File,          \* names
    FatSectors,    \* sec_per_fat
    PerSector,     \* entries of a sector of the table (128)
    Sector,        \* bytes of a sector (512)
    SecPerClstr,   \* sec_per_clstr
    Word,          \* values of an unsigned int (2^32)
    MaxCount       \* bound: bytes of one write

ASSUME ClustersAssumption ==
    /\ {FatSectors, SecPerClstr} \subseteq Nat \ {0}
    /\ PerSector \in Nat \ 0..3 /\ Sector \in Nat \ 0..1 /\ MaxCount \in Nat
    /\ Word \in Nat /\ Word % (Sector * SecPerClstr) = 0
    /\ FatSectors * PerSector * Sector * SecPerClstr + MaxCount < Word

VARIABLES
    fat,           \* the table: next cluster, 0 if free, End
    start, size,   \* first cluster and bytes: of ft_ptr as its entry in the table
                   \* of open files has them, of the others as on the disk
    far,           \* files whose entry lies beyond the first sector of its directory
    ft_ptr,        \* the file opened last
    fptr,          \* its file pointer
    short,         \* ghost: a write met a full disk or began behind the last cluster
    lost           \* ghost: clusters written whose file's entry was never told

vars == <<fat, start, size, far, ft_ptr, fptr, short, lost>>

Entry == 0..FatSectors * PerSector - 1
End == FatSectors * PerSector       \* 0x0FFFFFFF
Root == 2
None == "none"
Absent == End + 1                   \* start of a file that does not exist
S == Sector * SecPerClstr
U(n) == n % Word

Existing == {f \in File : start[f] # Absent}

(* new_clstr passes over the first two entries of every sector of the       *)
(* table, and counts the others from 2.                                     *)
Free(t) == {c \in Entry : t[c] = 0 /\ c % PerSector >= 2}

FreeClstrFromOne(t) ==      \* mutant: counts from 1
    IF Free(t) = {} THEN 0
    ELSE Min(Free(t)) - 2 * (Min(Free(t)) \div PerSector) - 1

FreeClstr(t) ==
    IF Free(t) = {} THEN 0
    ELSE Min(Free(t)) - 2 * (Min(Free(t)) \div PerSector)

NewClstrUnended(t, curr) ==      \* mutant: the new end is not marked
    IF curr > 1 THEN [t EXCEPT ![curr] = FreeClstr(t)] ELSE t

(* new_clstr, when there is one: linked behind curr and made the end. *)
NewClstr(t, curr) ==
    [IF curr > 1 THEN [t EXCEPT ![curr] = FreeClstr(t)] ELSE t
        EXCEPT ![FreeClstr(t)] = End]

(* The clusters reached from c. *)
Chain(c, t) ==
    LET reach[i \in Entry] ==
            IF i = 0 THEN {c} \cap Entry
            ELSE reach[i - 1] \cup ({t[b] : b \in reach[i - 1]} \cap Entry)
    IN  IF c = 0 THEN {} ELSE reach[End - 1]
ChainOf(f) == Chain(start[f], fat)

(* The cluster k links behind c; End once the chain is left. *)
Walk(c, k, t) ==
    LET at[i \in 0..k] == IF i = 0 THEN c
                          ELSE IF at[i - 1] = End THEN End ELSE t[at[i - 1]]
    IN  at[k]

Init ==
    /\ fat = [c \in Entry |-> IF c <= Root THEN End ELSE 0]
    /\ start = [f \in File |-> Absent] /\ size = [f \in File |-> 0] /\ far = {}
    /\ ft_ptr = None /\ fptr = 0 /\ short = FALSE /\ lost = {}

-----------------------------------------------------------------------------
(* The clusters fwrite goes through, from the pointer's place f in the      *)
(* first: one more than it needs whenever f is not 0 and count fits.        *)
ClstrsNoRest(f, count) ==      \* mutant: what is left after whole clusters is forgotten
    IF f = 0 THEN count \div S
    ELSE (IF count # 0 THEN 1 ELSE 0)
         + (IF count > S - f THEN (count - (S - f)) \div S ELSE 0)

Clstrs(f, count) ==
    (IF f = 0 THEN count \div S
     ELSE (IF count # 0 THEN 1 ELSE 0)
          + (IF count > S - f THEN (count - (S - f)) \div S + 1 ELSE 0))
    + (IF count - (count \div S) * Sector # 0 THEN 1 ELSE 0)

(* To the next cluster of the chain or, behind its end, to a new one. *)
Advance(w) ==
    LET next == w.fat[w.curr]
    IN  IF w.failed THEN w
        ELSE IF next # End THEN [w EXCEPT !.curr = next, !.i = @ + 1]
        ELSE IF FreeClstr(w.fat) = 0 THEN [w EXCEPT !.failed = TRUE]
        ELSE [w EXCEPT !.fat = NewClstr(w.fat, w.curr),
                       !.curr = FreeClstr(w.fat), !.i = @ + 1]

Written(t, curr, n) ==
    LET w[i \in 0..n] == IF i <= 1 THEN [fat |-> t, curr |-> curr, i |-> 0, failed |-> FALSE]
                         ELSE Advance(w[i - 1])
    IN  w[n]

(* What fwrite returns: less than count by n - i clusters, which may be more *)
(* than count.                                                              *)
Transferred(w, n, count) ==
    IF w.failed THEN count - (n - w.i) * S ELSE count

MovedSigned(by) == fptr + by      \* mutant: the pointer can go below 0

Moved(by) == U(fptr + by)

(* fwrite, with the pointer in a cluster of the chain. *)
Write(count) ==
    LET first == IF start[ft_ptr] = 0 THEN FreeClstr(fat) ELSE start[ft_ptr]
        table == IF start[ft_ptr] = 0 THEN NewClstr(fat, 0) ELSE fat
        curr == Walk(first, fptr \div S, table)
        n == Clstrs(fptr % S, count)
        w == Written(table, curr, n)
        pointer == Moved(Transferred(w, n, count))
    IN  /\ ft_ptr # None
        /\ first # 0 /\ fptr < End * S /\ curr # End
        /\ start' = [start EXCEPT ![ft_ptr] = first]
        /\ fat' = w.fat
        /\ short' = (short \/ w.failed)
        /\ fptr' = pointer
        /\ size' = [size EXCEPT ![ft_ptr] = Max({@, pointer})]
        /\ UNCHANGED <<far, ft_ptr, lost>>

(* fwrite at the end of a chain whose clusters are all filled: the end mark *)
(* is taken for a cluster, and a sector outside the data area is written.   *)
(* Not modelled: such a write of more than one cluster, or with the pointer *)
(* further on, which takes links from sectors that are no part of the table.*)
WriteOutside(count) ==
    /\ ft_ptr # None
    /\ start[ft_ptr] # 0 /\ fptr = S * Cardinality(ChainOf(ft_ptr))
    /\ Clstrs(0, count) <= 1
    /\ fptr' = Moved(count)
    /\ size' = [size EXCEPT ![ft_ptr] = Max({@, Moved(count)})]
    /\ short' = TRUE
    /\ UNCHANGED <<fat, start, far, ft_ptr, lost>>

(* fwrite to an empty file on a full disk returns 0 at once. *)
WriteNothing ==
    /\ ft_ptr # None /\ start[ft_ptr] = 0 /\ FreeClstr(fat) = 0
    /\ short' = TRUE
    /\ UNCHANGED <<fat, start, size, far, ft_ptr, fptr, lost>>

(* fread and fseek: the pointer can get anywhere in the file (what each     *)
(* call does to it is in Files).                                            *)
Move(to) ==
    /\ ft_ptr # None /\ to <= size[ft_ptr]
    /\ fptr' = to
    /\ UNCHANGED <<fat, start, size, far, ft_ptr, short, lost>>

(* What the file opened before has on the disk counts from now on; the new *)
(* entry is read from there, too.                                           *)
Open(f) ==
    /\ f \in Existing
    /\ ft_ptr' = f /\ fptr' = 0
    /\ IF ft_ptr \in far
       THEN /\ start' = [start EXCEPT ![ft_ptr] = 0] /\ size' = [size EXCEPT ![ft_ptr] = 0]
            /\ lost' = lost \cup ChainOf(ft_ptr)
       ELSE UNCHANGED <<start, size, lost>>
    /\ UNCHANGED <<fat, far, short>>

(* The entry is the first unused one of the directory. *)
Create(f) ==
    /\ f \notin Existing
    /\ start' = [start EXCEPT ![f] = 0] /\ size' = [size EXCEPT ![f] = 0]
    /\ \/ UNCHANGED far
       \/ SecPerClstr > 1 /\ far' = far \cup {f}
    /\ UNCHANGED <<fat, ft_ptr, fptr, short, lost>>

FreedButLast(c) ==      \* mutant: stops before the last cluster
    [b \in Entry |-> IF b \in Chain(c, fat) /\ fat[b] # End THEN 0 ELSE fat[b]]

(* The deletion clears every entry of the chain, the end included. *)
Freed(c) == [b \in Entry |-> IF b \in Chain(c, fat) THEN 0 ELSE fat[b]]

Delete(f) ==
    /\ f \in Existing \ {ft_ptr}
    /\ fat' = IF start[f] > Root THEN Freed(start[f]) ELSE fat
    /\ start' = [start EXCEPT ![f] = Absent] /\ size' = [size EXCEPT ![f] = 0]
    /\ far' = far \ {f}
    /\ UNCHANGED <<ft_ptr, fptr, short, lost>>

Next ==
    \/ \E count \in 0..MaxCount : Write(count) \/ WriteOutside(count)
    \/ WriteNothing
    \/ \E to \in 0..End * S : Move(to)
    \/ \E f \in File : Open(f) \/ Create(f) \/ Delete(f)

Spec == Init /\ [][Next]_vars

-----------------------------------------------------------------------------
TypeOK ==
    /\ fat \in [Entry -> Entry \cup {End}]
    /\ start \in [File -> Entry \cup {Absent}]
    /\ size \in [File -> 0..Word - 1]
    /\ ft_ptr \in Existing \cup {None}
    /\ fptr \in 0..Word - 1
    /\ far \subseteq Existing /\ lost \subseteq Entry
    /\ SecPerClstr = 1 => far = {} /\ lost = {}
    /\ short \in BOOLEAN

(* No cluster belongs to two files or to a file and the root directory, and *)
(* every chain of new_clstr's links runs to an end mark without a free      *)
(* cluster in it.                                                           *)
ChainsApart ==
    \A f \in Existing :
        /\ \A g \in Existing \ {f} : ChainOf(f) \cap ChainOf(g) = {}
        /\ ChainOf(f) \cap 0..Root = {}
        /\ \A c \in ChainOf(f) : fat[c] # 0
        /\ start[f] # 0 => \E c \in ChainOf(f) : fat[c] = End

(* A cluster that is not free belongs to a file: none is lost by deletions  *)
(* or by writes that end early, but for the chain of a file whose entry lies*)
(* beyond the first sector of its directory.  It belongs to nobody as soon  *)
(* as a file is opened.                                                     *)
NoneLost ==
    /\ {c \in Entry : fat[c] # 0} \subseteq
           0..Root \cup lost \cup UNION {ChainOf(f) : f \in Existing}
    /\ SecPerClstr = 1 => lost = {}
    /\ \A f \in Existing : lost \cap ChainOf(f) = {}

(* Until a write has met a full disk or begun behind the last cluster,      *)
(* fwrite has given every file the clusters its size needs.                 *)
Covered == ~short => \A f \in Existing : size[f] <= S * Cardinality(ChainOf(f))

(* filesystem.cpp:871: "code to find the lba of a free cluster and          *)
(* associate it with the file".  A cluster that joins a file was free.      *)
AllocatesFree ==
    [][\A f \in File : start[f] \in Entry /\ start'[f] \in Entry =>
          \A c \in Chain(start'[f], fat') \ ChainOf(f) : fat[c] = 0]_vars
==============================================================================
