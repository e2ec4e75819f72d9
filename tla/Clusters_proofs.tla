----------------------------- MODULE Clusters_proofs -----------------------------
(***************************************************************************)
(* Files lie apart on the disk, no cluster is lost, and what fwrite takes   *)
(* is free and enough, for any geometry of the disk and any number of      *)
(* files, as long as the first sector of the allocation table has a free   *)
(* entry, or is the only one.  (new_clstr miscounts in the others.)        *)
(*                                                                         *)
(* The argument: there is a path for every file, a sequence of clusters    *)
(* that begins at start, follows the table and ends at an end mark, and no *)
(* cluster is twice in the paths.  Writes extend one path, deletions empty *)
(* one.                                                                    *)
(***************************************************************************)
EXTENDS Clusters, SequenceTheorems, FiniteSetTheorems, WellFoundedInduction, TLAPS

Table == [Entry -> Entry \cup {End}]

-----------------------------------------------------------------------------
(* Numbers and recursive functions. *)

(* Min picks the least member of a nonempty set of naturals.                *)
LEMMA MinMember ==
    ASSUME NEW T, T \subseteq Nat, T # {}
    PROVE  Min(T) \in T /\ \A x \in T : Min(T) <= x
<1>1. PICK x \in T : \A y \in T : <<y, x>> \notin OpToRel(<, Nat)
  BY WFMin, NatLessThanWellFounded, Zenon
<1>2. \A y \in T : x <= y
  <2>1. SUFFICES ASSUME NEW y \in T PROVE ~(y < x)
    BY SMT
  <2>2. y \in Nat /\ x \in Nat /\ <<y, x>> \notin {ss \in Nat \X Nat : ss[1] < ss[2]}
    BY <1>1 DEF OpToRel
  <2> QED  BY <2>2
<1> QED  BY <1>1, <1>2 DEF Min

(* What holds of 0 and with every number of the next holds of all: a least  *)
(* number outside P would have one before it inside.                        *)
LEMMA Induction ==
    ASSUME NEW n \in Nat, NEW P, 0 \in P,
           \A i \in 1..n : i - 1 \in P => i \in P
    PROVE  \A i \in 0..n : i \in P
<1> DEFINE bad == {i \in 0..n : i \notin P}
<1>1. SUFFICES ASSUME bad # {} PROVE FALSE
  OBVIOUS
<1>2. bad \subseteq Nat
  OBVIOUS
<1>3. PICK m \in bad : \A x \in bad : m <= x
  BY <1>1, <1>2, MinMember
<1>4. m \in 1..n /\ m - 1 \in 0..n
  BY <1>3
<1>5. m - 1 \in P
  BY <1>3, <1>4
<1> QED  BY <1>3, <1>4, <1>5

(* g applies step over and over, from x and but for the first b times.      *)
Iterates(g, n, V, x, step, b) ==
    /\ g \in [0..n -> V]
    /\ \A i \in 0..n : g[i] = IF i <= b THEN x ELSE step[g[i - 1]]

(* A function on 0..n is defined by its first value and a step.             *)
LEMMA Iteration ==
    ASSUME NEW V, NEW x \in V, NEW step \in [V -> V], NEW b \in Nat, NEW n \in Nat
    PROVE  \E g : Iterates(g, n, V, x, step, b)
<1> DEFINE P == {m \in 0..n : \E g : Iterates(g, m, V, x, step, b)}
<1>1. 0 \in P
  <2> DEFINE h == [i \in 0..0 |-> x]
  <2>1. h \in [0..0 -> V]
    OBVIOUS
  <2>2. \A i \in 0..0 : h[i] = IF i <= b THEN x ELSE step[h[i - 1]]
    OBVIOUS
  <2> HIDE DEF h
  <2> QED  BY <2>1, <2>2 DEF Iterates
<1>2. ASSUME NEW m \in 1..n, m - 1 \in P PROVE m \in P
  <2>1. PICK g : Iterates(g, m - 1, V, x, step, b)
    BY <1>2
  <2> DEFINE h == [i \in 0..m |-> IF i < m THEN g[i]
                                  ELSE IF m <= b THEN x ELSE step[g[m - 1]]]
  <2>2. /\ g \in [0..m - 1 -> V]
        /\ \A i \in 0..m - 1 : g[i] = IF i <= b THEN x ELSE step[g[i - 1]]
    BY <2>1 DEF Iterates
  <2>3. h \in [0..m -> V]
    BY <2>2
  <2>4. ASSUME NEW i \in 0..m
        PROVE  h[i] = IF i <= b THEN x ELSE step[h[i - 1]]
    <3>1. CASE i < m
      <4>1. i \in 0..m - 1 /\ h[i] = g[i] /\ (i > b => h[i - 1] = g[i - 1])
        BY <3>1
      <4> QED  BY <4>1, <2>2
    <3>2. CASE i = m
      <4>1. h[m - 1] = g[m - 1]
        OBVIOUS
      <4> QED  BY <4>1, <3>2
    <3> QED  BY <3>1, <3>2
  <2> HIDE DEF h
  <2> QED  BY <2>3, <2>4 DEF Iterates
<1> HIDE DEF P
<1>3. n \in P
  BY <1>1, <1>2, Induction
<1> QED  BY <1>3 DEF P

-----------------------------------------------------------------------------
(* The geometry. *)

(* The numbers of the disk.                                                 *)
LEMMA Geometry ==
    /\ End \in Nat /\ End >= 4 /\ Entry = 0..End - 1 /\ Root \in Entry
    /\ S \in Nat /\ S > 0 /\ Word \in Nat /\ MaxCount \in Nat
    /\ End * S \in Nat /\ End * S + MaxCount < Word
    /\ PerSector \in Nat /\ PerSector >= 4 /\ PerSector <= End
<1>1. /\ FatSectors \in Nat /\ FatSectors > 0 /\ SecPerClstr \in Nat /\ SecPerClstr > 0
      /\ PerSector \in Nat /\ PerSector >= 4 /\ Sector \in Nat /\ Sector > 0
      /\ MaxCount \in Nat /\ Word \in Nat
      /\ FatSectors * PerSector * Sector * SecPerClstr + MaxCount < Word
  BY ClustersAssumption
<1>2. FatSectors * PerSector \in Nat /\ FatSectors * PerSector >= PerSector
  BY <1>1
<1>3. Sector * SecPerClstr \in Nat /\ Sector * SecPerClstr > 0
  BY <1>1
<1>4. FatSectors * PerSector * Sector * SecPerClstr
        = (FatSectors * PerSector) * (Sector * SecPerClstr)
  BY <1>1
<1>5. (FatSectors * PerSector) * (Sector * SecPerClstr) \in Nat
  BY <1>2, <1>3
<1>6. End * S \in Nat /\ End * S + MaxCount < Word
  BY <1>1, <1>4, <1>5 DEF End, S
<1>7. End \in Nat /\ End >= 4 /\ PerSector <= End
  BY <1>1, <1>2 DEF End
<1>8. Entry = 0..End - 1 /\ Root \in Entry
  BY <1>7 DEF Entry, End, Root
<1>9. S \in Nat /\ S > 0
  BY <1>3 DEF S
<1> QED  BY <1>1, <1>6, <1>7, <1>8, <1>9

(* Where in its cluster a byte lies.                                        *)
LEMMA Division ==
    ASSUME NEW n \in Nat
    PROVE  /\ n \div S \in Nat /\ n % S \in 0..S - 1
           /\ n = S * (n \div S) + (n % S)
<1> DEFINE s == S
<1>1. s \in Nat /\ s > 0
  BY Geometry
<1> HIDE DEF s
<1>2. n \div s \in Nat /\ n % s \in 0..s - 1 /\ n = s * (n \div s) + (n % s)
  BY <1>1, Z3
<1> QED  BY <1>2 DEF s

-----------------------------------------------------------------------------
(* Chains and walks along a path. *)

(* The sequence s of clusters is a path of the table t.                     *)
Path(s, t) ==
    /\ s \in Seq(Entry) /\ s # <<>>
    /\ \A k \in DOMAIN s : s[k] > Root
    /\ \A j, k \in DOMAIN s : s[j] = s[k] => j = k
    /\ \A k \in DOMAIN s : t[s[k]] = IF k = Len(s) THEN End ELSE s[k + 1]

Elements(s) == {s[k] : k \in DOMAIN s}

(* The path by its numbers; as it never meets an entry twice, it is not     *)
(* longer than the table.                                                   *)
LEMMA PathLength ==
    ASSUME NEW s, NEW t, Path(s, t)
    PROVE  /\ Len(s) \in 1..End /\ DOMAIN s = 1..Len(s)
           /\ \A k \in DOMAIN s : s[k] \in Entry
           /\ IsFiniteSet(Elements(s)) /\ Cardinality(Elements(s)) = Len(s)
<1>1. s \in Seq(Entry) /\ s # <<>>
  BY DEF Path
<1>2. Len(s) \in Nat /\ DOMAIN s = 1..Len(s) /\ s \in [1..Len(s) -> Entry] /\ Len(s) # 0
  BY <1>1, LenProperties, EmptySeq
<1>3. s \in Bijection(1..Len(s), Elements(s))
  <2>1. s \in [1..Len(s) -> Elements(s)]
    BY <1>2 DEF Elements
  <2>2. \A j, k \in 1..Len(s) : s[j] = s[k] => j = k
    BY <1>2 DEF Path
  <2>3. \A c \in Elements(s) : \E k \in 1..Len(s) : s[k] = c
    BY <1>2 DEF Elements
  <2> QED  BY <2>1, <2>2, <2>3 DEF Bijection, Injection, Surjection, IsInjective
<1>4. IsFiniteSet(1..Len(s)) /\ Cardinality(1..Len(s)) = Len(s)
  BY <1>2, FS_Interval
<1>5. IsFiniteSet(Elements(s)) /\ Cardinality(Elements(s)) = Len(s)
  <2>1. ExistsBijection(1..Len(s), Elements(s))
    BY <1>3 DEF ExistsBijection
  <2> QED  BY <2>1, <1>4, FS_Bijection
<1>6. Cardinality(Elements(s)) <= End
  <2>1. IsFiniteSet(Entry) /\ Cardinality(Entry) = End
    <3>1. /\ IsFiniteSet(0..End - 1)
          /\ Cardinality(0..End - 1) = IF 0 > End - 1 THEN 0 ELSE (End - 1) - 0 + 1
      BY Geometry, FS_Interval
    <3> QED  BY <3>1, Geometry
  <2>2. Elements(s) \subseteq Entry
    BY <1>2 DEF Elements
  <2> QED  BY <2>1, <2>2, FS_Subset
<1> QED  BY <1>2, <1>5, <1>6, Geometry

(* What is reached in i links, and in as many as the table has entries.     *)
LEMMA Reach ==
    ASSUME NEW t \in Table, NEW c \in Entry \ {0}
    PROVE  \E r \in [0..End - 1 -> SUBSET Entry] :
              /\ r[0] = {c}
              /\ \A i \in 1..End - 1 : r[i] = r[i - 1] \cup ({t[b] : b \in r[i - 1]} \cap Entry)
              /\ Chain(c, t) = r[End - 1]
<1> DEFINE reach[i \in Entry] ==
               IF i = 0 THEN {c} \cap Entry
               ELSE reach[i - 1] \cup ({t[b] : b \in reach[i - 1]} \cap Entry)
<1>0. /\ End - 1 \in Nat /\ 0 \in 0..End - 1 /\ Entry = 0..End - 1 /\ c \in Entry
      /\ \A i \in 1..End - 1 : i \in 0..End - 1 /\ i - 1 \in 0..End - 1 /\ i # 0
  BY Geometry
<1>1. Chain(c, t) = reach[End - 1]
  BY DEF Chain
<1>2. \E g : g = [i \in Entry |-> IF i = 0 THEN {c} \cap Entry
                                  ELSE g[i - 1] \cup ({t[b] : b \in g[i - 1]} \cap Entry)]
  <2> DEFINE x == {c} \cap Entry
             step == [R \in SUBSET Entry |-> R \cup ({t[b] : b \in R} \cap Entry)]
  <2>1. step \in [SUBSET Entry -> SUBSET Entry]
    OBVIOUS
  <2>2. x \in SUBSET Entry
    OBVIOUS
  <2>3. 0 \in Nat /\ End - 1 \in Nat
    BY Geometry
  <2>4. PICK g : Iterates(g, End - 1, SUBSET Entry, x, step, 0)
    <3> HIDE DEF x, step
    <3> QED  BY <2>1, <2>2, <2>3, Iteration, Zenon
  <2>7. /\ g \in [0..End - 1 -> SUBSET Entry]
        /\ \A i \in 0..End - 1 : g[i] = IF i <= 0 THEN x ELSE step[g[i - 1]]
    BY <2>4 DEF Iterates
  <2>5. ASSUME NEW i \in 0..End - 1
        PROVE  g[i] = IF i = 0 THEN {c} \cap Entry
                      ELSE g[i - 1] \cup ({t[b] : b \in g[i - 1]} \cap Entry)
    <3>1. CASE i = 0
      <4>1. 0 \in 0..End - 1 /\ 0 <= 0
        BY <1>0
      <4>2. g[0] = x
        <5> HIDE DEF x, step
        <5> QED  BY <4>1, <2>7
      <4> QED  BY <3>1, <4>2 DEF x
    <3>2. CASE i # 0
      <4>1. i - 1 \in 0..End - 1 /\ ~(i <= 0)
        BY <3>2, Geometry
      <4>2. g[i - 1] \in SUBSET Entry /\ g[i] = step[g[i - 1]]
        BY <4>1, <2>7
      <4> QED  BY <3>2, <4>2 DEF step
    <3> QED  BY <3>1, <3>2
  <2>6. g = [i \in 0..End - 1 |-> IF i = 0 THEN {c} \cap Entry
                                  ELSE g[i - 1] \cup ({t[b] : b \in g[i - 1]} \cap Entry)]
    BY <2>7, <2>5
  <2> QED  BY <2>6, Geometry
<1>3. reach = [i \in Entry |-> IF i = 0 THEN {c} \cap Entry
                               ELSE reach[i - 1] \cup ({t[b] : b \in reach[i - 1]} \cap Entry)]
  BY <1>2, Zenon DEF reach
<1> HIDE DEF reach
<1>4. \A i \in 0..End - 1 : reach[i] = IF i = 0 THEN {c} \cap Entry
                            ELSE reach[i - 1] \cup ({t[b] : b \in reach[i - 1]} \cap Entry)
  BY <1>3, Geometry
<1>5. \A i \in 0..End - 1 : reach[i] \in SUBSET Entry
  <2> DEFINE P == {i \in 0..End - 1 : reach[i] \in SUBSET Entry}
  <2>1. 0 \in P
    <3>1. reach[0] = {c} \cap Entry
      BY <1>0, <1>4
    <3> QED  BY <3>1, <1>0
  <2>2. ASSUME NEW i \in 1..End - 1, i - 1 \in P PROVE i \in P
    <3>1. reach[i] = reach[i - 1] \cup ({t[b] : b \in reach[i - 1]} \cap Entry)
      BY <1>0, <1>4, Zenon
    <3> QED  BY <3>1, <2>2, <1>0
  <2>3. End - 1 \in Nat
    BY Geometry
  <2>4. \A i \in 0..End - 1 : i \in P
    <3> HIDE DEF P
    <3> QED  BY <2>1, <2>2, <2>3, Induction
  <2> QED  BY <2>4
<1>6. DOMAIN reach = 0..End - 1 /\ reach \in [0..End - 1 -> SUBSET Entry]
  BY <1>3, <1>5, Geometry
<1>7. reach[0] = {c}
  <2>1. reach[0] = {c} \cap Entry
    BY <1>0, <1>4
  <2> QED  BY <2>1, <1>0
<1>8. \A i \in 1..End - 1 : reach[i] = reach[i - 1] \cup ({t[b] : b \in reach[i - 1]} \cap Entry)
  BY <1>0, <1>4, Zenon
<1> QED  BY <1>1, <1>6, <1>7, <1>8

(* Chains are made of entries.                                              *)
LEMMA ChainInEntry ==
    ASSUME NEW t \in Table, NEW c \in Entry
    PROVE  Chain(c, t) \subseteq Entry
<1>1. CASE c = 0
  BY <1>1 DEF Chain
<1>2. CASE c # 0
  <2>1. PICK r \in [0..End - 1 -> SUBSET Entry] : Chain(c, t) = r[End - 1]
    BY <1>2, Reach
  <2>2. End - 1 \in 0..End - 1
    BY Geometry
  <2> QED  BY <2>1, <2>2
<1> QED  BY <1>1, <1>2

(* The chain that begins where a path begins is the path.                   *)
LEMMA ChainOfPath ==
    ASSUME NEW t \in Table, NEW s, Path(s, t)
    PROVE  Chain(s[1], t) = Elements(s)
<1>1. Len(s) \in 1..End /\ DOMAIN s = 1..Len(s) /\ \A k \in DOMAIN s : s[k] \in Entry
  BY PathLength
<1>2. s[1] \in Entry \ {0}
  BY <1>1, Geometry DEF Path, Root
<1>3. PICK r \in [0..End - 1 -> SUBSET Entry] :
         /\ r[0] = {s[1]}
         /\ \A i \in 1..End - 1 : r[i] = r[i - 1] \cup ({t[b] : b \in r[i - 1]} \cap Entry)
         /\ Chain(s[1], t) = r[End - 1]
  BY <1>2, Reach
<1> DEFINE upto(i) == {s[k] : k \in {j \in DOMAIN s : j <= i + 1}}
           P == {i \in 0..End - 1 : r[i] = upto(i)}
<1>4. 0 \in P
  <2>1. upto(0) = {s[1]}
    BY <1>1
  <2>2. 0 \in 0..End - 1
    BY Geometry
  <2> HIDE DEF upto
  <2>3. r[0] = upto(0)
    BY <2>1, <1>3
  <2> QED  BY <2>2, <2>3
<1>5. ASSUME NEW i \in 1..End - 1, i - 1 \in P PROVE i \in P
  <2>1. i \in Nat /\ i >= 1 /\ i - 1 \in Nat /\ Len(s) \in Nat /\ End \in Nat
    BY <1>1, Geometry
  <2>2. r[i - 1] = upto(i - 1)
    BY <1>5
  <2>3. \A k \in DOMAIN s : k <= i => t[s[k]] = End \/ t[s[k]] \in upto(i)
    <3> SUFFICES ASSUME NEW k \in DOMAIN s, k <= i, k # Len(s) PROVE t[s[k]] \in upto(i)
      BY DEF Path
    <3>1. k + 1 \in DOMAIN s /\ k + 1 <= i + 1 /\ t[s[k]] = s[k + 1]
      BY <1>1, <2>1 DEF Path
    <3> QED  BY <3>1
  <2>4. End \notin Entry
    BY Geometry
  <2>5. {t[b] : b \in upto(i - 1)} \cap Entry \subseteq upto(i)
    BY <2>1, <2>3, <2>4
  <2>6. upto(i - 1) \subseteq upto(i)
    BY <2>1
  <2>7. \A k \in DOMAIN s : k <= i + 1 => s[k] \in upto(i - 1) \cup ({t[b] : b \in upto(i - 1)} \cap Entry)
    <3> SUFFICES ASSUME NEW k \in DOMAIN s, k = i + 1
                 PROVE  s[k] \in {t[b] : b \in upto(i - 1)} \cap Entry
      BY <1>1, <2>1
    <3>0. i \in DOMAIN s /\ i # Len(s)
      <4> HIDE DEF upto, P
      <4>1. k \in 1..Len(s) /\ i = k - 1 /\ Len(s) \in Int
        BY <1>1, <2>1
      <4> DEFINE m == Len(s)
      <4>2. m \in Nat /\ k \in 1..m /\ i = k - 1 /\ i \in Nat /\ i >= 1
        BY <2>1, <4>1
      <4> HIDE DEF m
      <4>3. i \in 1..m /\ i # m
        BY <4>2
      <4> QED  BY <1>1, <4>3 DEF m
    <3>1. i \in DOMAIN s /\ i # Len(s) /\ t[s[i]] = s[i + 1]
      BY <3>0 DEF Path
    <3>2. s[i] \in upto(i - 1)
      BY <3>1, <2>1
    <3> QED  BY <3>1, <3>2, <1>1
  <2>8. upto(i) \subseteq upto(i - 1) \cup ({t[b] : b \in upto(i - 1)} \cap Entry)
    BY <2>7
  <2> HIDE DEF upto
  <2>9. r[i] = upto(i)
    BY <1>3, <2>2, <2>5, <2>6, <2>8
  <2> QED  BY <2>9, <2>1
<1>6. r[End - 1] = upto(End - 1)
  <2>1. End - 1 \in Nat
    BY Geometry
  <2> HIDE DEF P
  <2>2. \A i \in 0..End - 1 : i \in P
    BY <1>4, <1>5, <2>1, Induction
  <2> QED  BY <2>1, <2>2 DEF P
<1>7. upto(End - 1) = Elements(s)
  BY <1>1, Geometry DEF Elements
<1> QED  BY <1>3, <1>6, <1>7

-----------------------------------------------------------------------------
(* What new_clstr and fwrite compute. *)

(* The first sector of the table has a free entry, or is the only one.      *)
RoomyIn(t) == FatSectors = 1 \/ \E c \in Free(t) : c < PerSector
Roomy == RoomyIn(fat)

(* What new_clstr finds is an entry of the table, and 0 on a full disk only.*)
LEMMA FreeClstrTyped ==
    ASSUME NEW t \in Table
    PROVE  FreeClstr(t) \in Entry /\ (FreeClstr(t) = 0 <=> Free(t) = {})
<1>1. CASE Free(t) = {}
  BY <1>1, Geometry DEF FreeClstr
<1>2. CASE Free(t) # {}
  <2> DEFINE m == Min(Free(t))
             q == m \div PerSector
             r == m % PerSector
  <2>1. Free(t) \subseteq Nat
    BY Geometry DEF Free
  <2>2. m \in Free(t)
    BY <1>2, <2>1, MinMember
  <2>3. m \in Nat /\ m < End /\ r >= 2
    BY <2>2, Geometry DEF Free
  <2>4. \A x, y \in Nat : y >= 4 => /\ x \div y \in Nat /\ x % y \in Nat
                                    /\ x = (y * (x \div y)) + (x % y)
    BY Z3
  <2>5. \A x, y \in Nat : y >= 4 => y * x \in Nat /\ y * x >= 2 * x
    BY Z3
  <2>6. m \in Nat /\ PerSector \in Nat /\ PerSector >= 4 /\ End \in Nat
    BY <2>3, Geometry
  <2> HIDE DEF m
  <2>7. q \in Nat /\ r \in Nat /\ m = (PerSector * q) + r
    BY <2>4, <2>6
  <2>8. PerSector * q \in Nat /\ PerSector * q >= 2 * q
    BY <2>5, <2>6, <2>7
  <2> DEFINE z == PerSector * q
  <2>9. z \in Nat /\ z >= 2 * q /\ m = z + r
    BY <2>7, <2>8
  <2> HIDE DEF z, q, r
  <2>10. m - 2 * q \in 0..End - 1 /\ m - 2 * q # 0
    BY <2>3, <2>6, <2>7, <2>9
  <2>11. FreeClstr(t) = m - 2 * q
    BY <1>2 DEF FreeClstr, m, q
  <2> QED  BY <1>2, <2>10, <2>11, Geometry
<1> QED  BY <1>1, <1>2

(* With room in the first sector, what new_clstr finds is free.             *)
LEMMA FreeClstrFree ==
    ASSUME NEW t \in Table, RoomyIn(t), Free(t) # {}
    PROVE  FreeClstr(t) \in Free(t)
<1> DEFINE m == Min(Free(t))
<1>1. Free(t) \subseteq Nat /\ Free(t) \subseteq 0..End - 1
  BY Geometry DEF Free
<1>2. m \in Free(t) /\ \A c \in Free(t) : m <= c
  BY <1>1, MinMember
<1>3. m \in Nat /\ m < PerSector
  <2>1. CASE FatSectors = 1
    <3>1. End = PerSector
      BY <2>1, Geometry DEF End
    <3>2. m \in 0..End - 1 /\ End \in Nat
      BY <1>1, <1>2, Geometry
    <3> HIDE DEF m
    <3> QED  BY <3>1, <3>2
  <2>2. CASE \E c \in Free(t) : c < PerSector
    BY <2>2, <1>1, <1>2, Geometry
  <2> QED  BY <2>1, <2>2 DEF RoomyIn
<1> HIDE DEF m
<1>4. m \div PerSector = 0
  <2>1. \A x, y \in Nat : x < y => x \div y = 0
    BY Z3
  <2> QED  BY <2>1, <1>3, Geometry
<1>5. FreeClstr(t) = m - 2 * 0
  BY <1>4 DEF FreeClstr, m
<1> QED  BY <1>2, <1>3, <1>5

(* The table new_clstr leaves.                                              *)
LEMMA NewClstrTyped ==
    ASSUME NEW t \in Table, NEW c \in Entry
    PROVE  NewClstr(t, c) \in Table
BY FreeClstrTyped, Geometry DEF NewClstr, Table

(* Walk goes link by link.                                                  *)
LEMMA WalkSteps ==
    ASSUME NEW t \in Table, NEW c \in Entry, NEW k \in Nat
    PROVE  \E at \in [0..k -> Entry \cup {End}] :
              /\ at[0] = c
              /\ \A i \in 1..k : at[i] = IF at[i - 1] = End THEN End ELSE t[at[i - 1]]
              /\ Walk(c, k, t) = at[k]
<1> DEFINE at[i \in 0..k] == IF i = 0 THEN c
                             ELSE IF at[i - 1] = End THEN End ELSE t[at[i - 1]]
<1>1. Walk(c, k, t) = at[k]
  BY DEF Walk
<1>2. \E g : g = [i \in 0..k |-> IF i = 0 THEN c
                                 ELSE IF g[i - 1] = End THEN End ELSE t[g[i - 1]]]
  <2> DEFINE V == Entry \cup {End}
             step == [b \in V |-> IF b = End THEN End ELSE t[b]]
  <2>1. step \in [V -> V] /\ c \in V /\ 0 \in Nat
    BY DEF Table
  <2>2. PICK g : Iterates(g, k, V, c, step, 0)
    <3> HIDE DEF V, step
    <3> QED  BY <2>1, Iteration, Zenon
  <2>3. /\ g \in [0..k -> V]
        /\ \A i \in 0..k : g[i] = IF i <= 0 THEN c ELSE step[g[i - 1]]
    BY <2>2 DEF Iterates
  <2>4. ASSUME NEW i \in 0..k
        PROVE  g[i] = IF i = 0 THEN c ELSE IF g[i - 1] = End THEN End ELSE t[g[i - 1]]
    <3>1. CASE i = 0
      <4>1. 0 \in 0..k /\ 0 <= 0
        OBVIOUS
      <4> HIDE DEF V, step
      <4>2. g[0] = c
        BY <4>1, <2>3
      <4> QED  BY <3>1, <4>2
    <3>2. CASE i # 0
      <4>1. i - 1 \in 0..k /\ ~(i <= 0)
        BY <3>2
      <4>2. g[i - 1] \in V /\ g[i] = step[g[i - 1]]
        <5> HIDE DEF V, step
        <5> QED  BY <4>1, <2>3
      <4> QED  BY <3>2, <4>2
    <3> QED  BY <3>1, <3>2
  <2>5. g = [i \in 0..k |-> IF i = 0 THEN c ELSE IF g[i - 1] = End THEN End ELSE t[g[i - 1]]]
    BY <2>3, <2>4
  <2> QED  BY <2>5
<1>3. at = [i \in 0..k |-> IF i = 0 THEN c
                           ELSE IF at[i - 1] = End THEN End ELSE t[at[i - 1]]]
  BY <1>2, Zenon DEF at
<1> HIDE DEF at
<1>4. /\ 0 \in 0..k /\ at[0] = c
      /\ \A i \in 1..k : at[i] = IF at[i - 1] = End THEN End ELSE t[at[i - 1]]
  BY <1>3
<1>5. \A i \in 0..k : at[i] \in Entry \cup {End}
  <2> DEFINE P == {i \in 0..k : at[i] \in Entry \cup {End}}
  <2>1. 0 \in P
    BY <1>4
  <2>2. ASSUME NEW i \in 1..k, i - 1 \in P PROVE i \in P
    <3>1. at[i - 1] \in Entry \cup {End} /\ i \in 0..k
      BY <2>2
    <3>2. at[i] = IF at[i - 1] = End THEN End ELSE t[at[i - 1]]
      BY <1>4
    <3> QED  BY <3>1, <3>2 DEF Table
  <2>3. \A i \in 0..k : i \in P
    <3> HIDE DEF P
    <3> QED  BY <2>1, <2>2, Induction
  <2> QED  BY <2>3
<1>6. at \in [0..k -> Entry \cup {End}]
  BY <1>3, <1>5
<1> QED  BY <1>1, <1>4, <1>6

(* Along a path Walk gives its clusters one by one, then the end mark.      *)
LEMMA WalkAlong ==
    ASSUME NEW t \in Table, NEW s, Path(s, t), NEW k \in Nat
    PROVE  Walk(s[1], k, t) = IF k < Len(s) THEN s[k + 1] ELSE End
<1>1. Len(s) \in 1..End /\ DOMAIN s = 1..Len(s) /\ \A j \in DOMAIN s : s[j] \in Entry
  BY PathLength
<1>2. s[1] \in Entry
  BY <1>1, Geometry
<1>3. PICK at \in [0..k -> Entry \cup {End}] :
         /\ at[0] = s[1]
         /\ \A i \in 1..k : at[i] = IF at[i - 1] = End THEN End ELSE t[at[i - 1]]
         /\ Walk(s[1], k, t) = at[k]
  BY <1>2, WalkSteps
<1> DEFINE m == Len(s)
           P == {i \in 0..k : at[i] = IF i < m THEN s[i + 1] ELSE End}
<1>4. m \in Nat /\ m >= 1 /\ DOMAIN s = 1..m /\ \A j \in 1..m : s[j] \in Entry
  BY <1>1, Geometry
<1>5. \A j \in 1..m : t[s[j]] = IF j = m THEN End ELSE s[j + 1]
  BY <1>1 DEF Path
<1> HIDE DEF m
<1>6. 0 \in P
  BY <1>3, <1>4
<1>7. ASSUME NEW i \in 1..k, i - 1 \in P PROVE i \in P
  <2>1. i \in 0..k /\ i \in Nat /\ i - 1 \in Nat
    OBVIOUS
  <2>2. at[i - 1] = IF i - 1 < m THEN s[i] ELSE End
    BY <1>7
  <2>3. at[i] = IF at[i - 1] = End THEN End ELSE t[at[i - 1]]
    BY <1>3
  <2>4. CASE i <= m
    <3>1. i \in 1..m /\ i - 1 < m
      BY <2>1, <2>4, <1>4
    <3>2. s[i] # End
      BY <3>1, <1>4, Geometry
    <3>3. at[i] = t[s[i]]
      BY <2>2, <2>3, <3>1, <3>2
    <3>4. at[i] = IF i = m THEN End ELSE s[i + 1]
      BY <3>1, <3>3, <1>5
    <3> QED  BY <3>4, <2>1, <2>4, <1>4
  <2>5. CASE i > m
    <3>1. ~(i - 1 < m) /\ ~(i < m)
      BY <2>1, <2>5, <1>4
    <3> QED  BY <3>1, <2>1, <2>2, <2>3
  <2> QED  BY <2>1, <2>4, <2>5, <1>4
<1> HIDE DEF P
<1>8. k \in 0..k /\ \A i \in 0..k : i \in P
  <2>1. \A i \in 0..k : i \in P
    BY <1>6, <1>7, Induction
  <2> QED  BY <2>1
<1> QED  BY <1>3, <1>8 DEF P, m

(* fwrite on its way: the table, the cluster, how many it has gone.         *)
Writing == [fat : Table, curr : Entry, i : Nat, failed : BOOLEAN]

(* Changing a record of four fields.                                        *)
LEMMA Fields ==
    ASSUME NEW A, NEW B, NEW C, NEW D,
           NEW w \in [fat : A, curr : B, i : C, failed : D]
    PROVE  /\ \A e \in B, k \in C :
                 /\ [w EXCEPT !.curr = e, !.i = k] \in [fat : A, curr : B, i : C, failed : D]
                 /\ [w EXCEPT !.curr = e, !.i = k].curr = e
                 /\ [w EXCEPT !.curr = e, !.i = k].i = k
                 /\ [w EXCEPT !.curr = e, !.i = k].fat = w.fat
                 /\ [w EXCEPT !.curr = e, !.i = k].failed = w.failed
           /\ \A b \in D :
                 /\ [w EXCEPT !.failed = b] \in [fat : A, curr : B, i : C, failed : D]
                 /\ [w EXCEPT !.failed = b].curr = w.curr
                 /\ [w EXCEPT !.failed = b].i = w.i
                 /\ [w EXCEPT !.failed = b].fat = w.fat
                 /\ [w EXCEPT !.failed = b].failed = b
           /\ \A t \in A, e \in B, k \in C :
                 /\ [w EXCEPT !.fat = t, !.curr = e, !.i = k]
                       \in [fat : A, curr : B, i : C, failed : D]
                 /\ [w EXCEPT !.fat = t, !.curr = e, !.i = k].curr = e
                 /\ [w EXCEPT !.fat = t, !.curr = e, !.i = k].i = k
                 /\ [w EXCEPT !.fat = t, !.curr = e, !.i = k].fat = t
                 /\ [w EXCEPT !.fat = t, !.curr = e, !.i = k].failed = w.failed
OBVIOUS

(* One cluster on: nothing after a failure; else the next of the chain;     *)
(* else a new one; else the failure.                                        *)
LEMMA AdvanceTo ==
    ASSUME NEW w \in Writing
    PROVE  /\ Advance(w) \in Writing
           /\ w.failed => Advance(w) = w
           /\ ~w.failed /\ w.fat[w.curr] # End =>
                 /\ Advance(w).fat = w.fat /\ Advance(w).curr = w.fat[w.curr]
                 /\ Advance(w).i = w.i + 1 /\ ~Advance(w).failed
           /\ ~w.failed /\ w.fat[w.curr] = End /\ Free(w.fat) # {} =>
                 /\ Advance(w).fat = NewClstr(w.fat, w.curr)
                 /\ Advance(w).curr = FreeClstr(w.fat)
                 /\ Advance(w).i = w.i + 1 /\ ~Advance(w).failed
           /\ ~w.failed /\ w.fat[w.curr] = End /\ Free(w.fat) = {} =>
                 /\ Advance(w).fat = w.fat /\ Advance(w).curr = w.curr
                 /\ Advance(w).i = w.i /\ Advance(w).failed
<1>1. w.fat \in Table /\ w.curr \in Entry /\ w.i \in Nat /\ w.failed \in BOOLEAN
  BY DEF Writing
<1>2. w.fat[w.curr] \in Entry \cup {End}
  BY <1>1 DEF Table
<1>3. /\ FreeClstr(w.fat) \in Entry /\ (FreeClstr(w.fat) = 0 <=> Free(w.fat) = {})
      /\ NewClstr(w.fat, w.curr) \in Table
  BY <1>1, FreeClstrTyped, NewClstrTyped
<1> DEFINE t == NewClstr(w.fat, w.curr)
           c == FreeClstr(w.fat)
           next == w.fat[w.curr]
           on == [w EXCEPT !.curr = next, !.i = @ + 1]
           stuck == [w EXCEPT !.failed = TRUE]
           new == [w EXCEPT !.fat = t, !.curr = c, !.i = @ + 1]
<1>4. Advance(w) = IF w.failed THEN w ELSE IF next # End THEN on
                   ELSE IF c = 0 THEN stuck ELSE new
  BY DEF Advance
<1> HIDE DEF t, c, next
<1>5. c \in Entry /\ t \in Table /\ next \in Entry \cup {End} /\ w.i + 1 \in Nat
  BY <1>1, <1>2, <1>3 DEF c, t, next
<1>6. /\ next # End => /\ on \in Writing /\ on.curr = next /\ on.i = w.i + 1
                       /\ on.fat = w.fat /\ on.failed = w.failed
      /\ stuck \in Writing /\ stuck.curr = w.curr /\ stuck.i = w.i
      /\ stuck.fat = w.fat /\ stuck.failed = TRUE
      /\ new \in Writing /\ new.curr = c /\ new.i = w.i + 1
      /\ new.fat = t /\ new.failed = w.failed
  <2> HIDE DEF Table
  <2>1. next # End => next \in Entry
    BY <1>5
  <2>2. w \in [fat : Table, curr : Entry, i : Nat, failed : BOOLEAN] /\ TRUE \in BOOLEAN
    BY DEF Writing
  <2>3. next # End => /\ on \in [fat : Table, curr : Entry, i : Nat, failed : BOOLEAN]
                      /\ on.curr = next /\ on.i = w.i + 1
                      /\ on.fat = w.fat /\ on.failed = w.failed
    BY <1>5, <2>1, <2>2, Fields
  <2>4. /\ stuck \in [fat : Table, curr : Entry, i : Nat, failed : BOOLEAN]
        /\ stuck.curr = w.curr /\ stuck.i = w.i
        /\ stuck.fat = w.fat /\ stuck.failed = TRUE
    BY <2>2, Fields
  <2>5. /\ new \in [fat : Table, curr : Entry, i : Nat, failed : BOOLEAN]
        /\ new.curr = c /\ new.i = w.i + 1 /\ new.fat = t /\ new.failed = w.failed
    BY <1>5, <2>2, Fields
  <2> HIDE DEF on, stuck, new
  <2> QED  BY <2>3, <2>4, <2>5, Zenon DEF Writing
<1> HIDE DEF on, stuck, new
<1>7. /\ stuck \in Writing /\ (next # End => on \in Writing) /\ new \in Writing
  BY <1>6
<1>8. Advance(w) \in Writing
  BY <1>4, <1>7
<1>9. CASE w.failed
  BY <1>4, <1>8, <1>9
<1>10. CASE ~w.failed /\ next # End
  BY <1>4, <1>6, <1>8, <1>10 DEF next
<1>11. CASE ~w.failed /\ next = End /\ c = 0
  BY <1>3, <1>4, <1>6, <1>8, <1>11 DEF next, c
<1>12. CASE ~w.failed /\ next = End /\ c # 0
  BY <1>3, <1>4, <1>6, <1>8, <1>12 DEF next, c, t
<1> QED  BY <1>9, <1>10, <1>11, <1>12

(* fwrite advances once for every cluster but the first.                    *)
LEMMA WrittenSteps ==
    ASSUME NEW t \in Table, NEW curr \in Entry, NEW n \in Nat
    PROVE  \E w \in [0..n -> Writing] :
              /\ \A i \in 0..n : i <= 1 => w[i] = [fat |-> t, curr |-> curr, i |-> 0, failed |-> FALSE]
              /\ \A i \in 1..n : i > 1 => w[i] = Advance(w[i - 1])
              /\ Written(t, curr, n) = w[n]
<1> DEFINE x == [fat |-> t, curr |-> curr, i |-> 0, failed |-> FALSE]
           w[i \in 0..n] == IF i <= 1 THEN x ELSE Advance(w[i - 1])
<1>1. Written(t, curr, n) = w[n]
  BY DEF Written
<1>2. \E g : g = [i \in 0..n |-> IF i <= 1 THEN x ELSE Advance(g[i - 1])]
  <2> DEFINE step == [v \in Writing |-> Advance(v)]
  <2>1. \A v \in Writing : Advance(v) \in Writing
    BY AdvanceTo
  <2>2. step \in [Writing -> Writing]
    BY <2>1
  <2>3. x \in Writing
    <3> HIDE DEF Table
    <3> QED  BY DEF Writing
  <2>4. PICK g : Iterates(g, n, Writing, x, step, 1)
    <3> HIDE DEF x, step
    <3>1. 1 \in Nat
      OBVIOUS
    <3> QED  BY <2>2, <2>3, <3>1, Iteration, Zenon
  <2>5. /\ g \in [0..n -> Writing]
        /\ \A i \in 0..n : g[i] = IF i <= 1 THEN x ELSE step[g[i - 1]]
    BY <2>4 DEF Iterates
  <2> HIDE DEF x
  <2>6. ASSUME NEW i \in 0..n PROVE g[i] = IF i <= 1 THEN x ELSE Advance(g[i - 1])
    <3>1. CASE i <= 1
      BY <2>5, <3>1
    <3>2. CASE ~(i <= 1)
      <4>1. i - 1 \in 0..n
        BY <3>2
      <4>2. g[i - 1] \in Writing
        BY <2>5, <4>1
      <4>3. g[i] = step[g[i - 1]]
        <5> HIDE DEF step
        <5> QED  BY <2>5, <3>2
      <4> QED  BY <3>2, <4>2, <4>3
    <3> QED  BY <3>1, <3>2
  <2>7. g = [i \in 0..n |-> IF i <= 1 THEN x ELSE Advance(g[i - 1])]
    BY <2>5, <2>6, Zenon
  <2> QED  BY <2>7, Zenon
<1>3. w = [i \in 0..n |-> IF i <= 1 THEN x ELSE Advance(w[i - 1])]
  BY <1>2, Zenon DEF w
<1> HIDE DEF w
<1>4. \A i \in 0..n : w[i] = IF i <= 1 THEN x ELSE Advance(w[i - 1])
  BY <1>3, Zenon
<1>7. x \in Writing
  <2> HIDE DEF Table
  <2> QED  BY DEF Writing
<1> HIDE DEF x
<1>8. w \in [0..n -> Writing]
  <2> DEFINE P == {i \in 0..n : w[i] \in Writing}
  <2>1. 0 \in P
    <3>1. 0 \in 0..n
      OBVIOUS
    <3> QED  BY <3>1, <1>4, <1>7
  <2>2. ASSUME NEW i \in 1..n, i - 1 \in P PROVE i \in P
    <3>1. w[i - 1] \in Writing /\ i \in 0..n
      BY <2>2
    <3> QED  BY <3>1, <1>4, <1>7, AdvanceTo
  <2>3. \A i \in 0..n : i \in P
    <3> HIDE DEF P
    <3> QED  BY <2>1, <2>2, Induction
  <2>4. \A i \in 0..n : w[i] \in Writing
    BY <2>3
  <2>5. \E h : w = [i \in 0..n |-> h[i]]
    <3>1. w = [i \in 0..n |-> w[i]]
      BY <1>3, <1>4, Zenon
    <3> QED  BY <3>1
  <2> QED  BY <2>4, <2>5
<1>5. \A i \in 0..n : i <= 1 => w[i] = x
  BY <1>4
<1>6. \A i \in 1..n : i > 1 => w[i] = Advance(w[i - 1])
  BY <1>4
<1> QED  BY <1>1, <1>8, <1>5, <1>6, Zenon DEF x

(* The greater of two numbers.                                              *)
LEMMA MaxOfTwo ==
    ASSUME NEW a \in Int, NEW b \in Int
    PROVE  Max({a, b}) = IF a >= b THEN a ELSE b
<1> DEFINE m == IF a >= b THEN a ELSE b
<1>1. m \in {a, b} /\ \A y \in {a, b} : m >= y
  OBVIOUS
<1>2. \A x \in {a, b} : (\A y \in {a, b} : x >= y) => x = m
  OBVIOUS
<1> HIDE DEF m
<1>3. Max({a, b}) = CHOOSE x \in {a, b} : \A y \in {a, b} : x >= y
  BY DEF Max
<1>4. Max({a, b}) = m
  BY <1>1, <1>2, <1>3
<1> QED  BY <1>4 DEF m

(* An unsigned int.                                                         *)
LEMMA Unsigned ==
    ASSUME NEW n \in Int
    PROVE  U(n) \in 0..Word - 1 /\ (n >= 0 => U(n) <= n)
<1>1. Word \in Nat /\ Word > 0
  BY Geometry
<1>2. \A x \in Int, y \in Nat : y > 0 => x % y \in 0..y - 1
  BY Z3
<1>3. \A x \in Nat, y \in Nat : y > 0 => x % y <= x
  BY Z3
<1> QED  BY <1>1, <1>2, <1>3 DEF U

(* How many clusters fwrite goes through.                                   *)
LEMMA ClstrsTyped ==
    ASSUME NEW f \in 0..S - 1, NEW count \in Nat
    PROVE  Clstrs(f, count) \in Nat
<1>1. \A x \in Nat : x \div S \in Nat
  BY Division
<1>2. S \in Nat /\ S > 0 /\ Sector \in Nat
  BY Geometry, ClustersAssumption
<1>3. count \div S \in Nat /\ (count > S - f => (count - (S - f)) \div S \in Nat)
  <2>1. count > S - f => count - (S - f) \in Nat
    BY <1>2
  <2> QED  BY <1>1, <2>1
<1> DEFINE d == count \div S
           e == (count - (S - f)) \div S
           b == count - d * Sector # 0
<1>4. d \in Nat /\ (count > S - f => e \in Nat)
  BY <1>3
<1>5. Clstrs(f, count) = (IF f = 0 THEN d
                          ELSE (IF count # 0 THEN 1 ELSE 0)
                               + (IF count > S - f THEN e + 1 ELSE 0))
                         + (IF b THEN 1 ELSE 0)
  BY DEF Clstrs
<1> HIDE DEF d, e, b
<1> QED  BY <1>4, <1>5

-----------------------------------------------------------------------------
(* Types. *)

(* The variables after an fwrite.                                           *)
LEMMA WriteTyped ==
    ASSUME TypeOK, NEW count \in 0..MaxCount, Write(count)
    PROVE  TypeOK'
<1> DEFINE first == IF start[ft_ptr] = 0 THEN FreeClstr(fat) ELSE start[ft_ptr]
           table == IF start[ft_ptr] = 0 THEN NewClstr(fat, 0) ELSE fat
           curr == Walk(first, fptr \div S, table)
           n == Clstrs(fptr % S, count)
           w == Written(table, curr, n)
           pointer == Moved(Transferred(w, n, count))
<1>1. /\ ft_ptr # None /\ first # 0 /\ curr # End
      /\ start' = [start EXCEPT ![ft_ptr] = first]
      /\ fat' = w.fat
      /\ short' = (short \/ w.failed)
      /\ fptr' = pointer
      /\ size' = [size EXCEPT ![ft_ptr] = Max({@, pointer})]
      /\ ft_ptr' = ft_ptr /\ far' = far /\ lost' = lost
  BY Zenon DEF Write
<1>2. /\ fat \in Table /\ ft_ptr \in File /\ start[ft_ptr] \in Entry /\ fptr \in Nat
      /\ count \in Nat
  BY <1>1, Geometry DEF TypeOK, Table, Existing
<1>3. first \in Entry /\ table \in Table
  <2>1. 0 \in Entry
    BY Geometry
  <2> QED  BY <1>2, <2>1, FreeClstrTyped, NewClstrTyped
<1>4. fptr \div S \in Nat /\ fptr % S \in 0..S - 1
  BY <1>2, Division
<1> HIDE DEF first, table
<1>5. curr \in Entry
  <2>1. \A k \in Nat : Walk(first, k, table) \in Entry \cup {End}
    <3> TAKE k \in Nat
    <3>1. PICK at \in [0..k -> Entry \cup {End}] : Walk(first, k, table) = at[k]
      BY <1>3, WalkSteps
    <3> QED  BY <3>1
  <2> QED  BY <1>1, <1>4, <2>1
<1>6. n \in Nat
  BY <1>2, <1>4, ClstrsTyped
<1> HIDE DEF curr, n
<1>7. w \in Writing
  <2>1. PICK v \in [0..n -> Writing] : Written(table, curr, n) = v[n]
    BY <1>3, <1>5, <1>6, WrittenSteps
  <2> QED  BY <1>6, <2>1
<1> HIDE DEF w
<1>8. w.fat \in Table /\ w.i \in Nat /\ w.failed \in BOOLEAN
  BY <1>7 DEF Writing
<1>9. pointer \in 0..Word - 1
  <2>1. Transferred(w, n, count) \in Int
    BY <1>2, <1>6, <1>8, Geometry DEF Transferred
  <2>2. fptr + Transferred(w, n, count) \in Int
    BY <1>2, <2>1
  <2> QED  BY <2>2, Unsigned DEF Moved
<1> HIDE DEF pointer
<1>10. fat' \in [Entry -> Entry \cup {End}]
  BY <1>1, <1>8 DEF Table
<1>11. start' \in [File -> Entry \cup {Absent}]
  BY <1>1, <1>3 DEF TypeOK
<1>12. size' \in [File -> 0..Word - 1]
  <2>1. size[ft_ptr] \in 0..Word - 1
    BY <1>2 DEF TypeOK
  <2>2. Max({size[ft_ptr], pointer}) \in 0..Word - 1
    BY <2>1, <1>9, MaxOfTwo
  <2> QED  BY <1>1, <2>2 DEF TypeOK
<1>13. ft_ptr' \in Existing' \cup {None}
  <2>1. first # Absent
    BY <1>3, Geometry DEF Absent
  <2>2. start'[ft_ptr] = first
    BY <1>1, <1>2 DEF TypeOK
  <2> QED  BY <1>1, <1>2, <2>1, <2>2 DEF Existing
<1>14. fptr' \in 0..Word - 1 /\ short' \in BOOLEAN
  BY <1>1, <1>8, <1>9 DEF TypeOK
<1>15. far' \subseteq Existing' /\ lost' = lost
  <2>1. \A g \in Existing : g = ft_ptr \/ start'[g] = start[g]
    BY <1>1 DEF TypeOK, Existing
  <2>2. first # Absent /\ start'[ft_ptr] = first
    BY <1>1, <1>2, <1>3, Geometry DEF Absent, TypeOK
  <2>3. Existing \subseteq Existing'
    BY <2>1, <2>2 DEF Existing
  <2> QED  BY <1>1, <2>3 DEF TypeOK
<1> QED  BY <1>1, <1>10, <1>11, <1>12, <1>13, <1>14, <1>15 DEF TypeOK

(* The variables after any step.                                            *)
LEMMA TypeStep ==
    ASSUME TypeOK, [Next]_vars
    PROVE  TypeOK'
<1>0. Word \in Nat /\ Word > 0 /\ 0 \in Entry /\ End * S < Word /\ End * S \in Nat
  BY Geometry
<1>1. ASSUME NEW count \in 0..MaxCount, Write(count) PROVE TypeOK'
  BY <1>1, WriteTyped
<1>2. ASSUME NEW count \in 0..MaxCount, WriteOutside(count) PROVE TypeOK'
  <2>1. ft_ptr \in Existing /\ ft_ptr \in File /\ fptr \in Nat /\ count \in Nat
    BY <1>0, <1>2, Geometry DEF TypeOK, WriteOutside, Existing
  <2>2. Moved(count) \in 0..Word - 1
    BY <2>1, Unsigned DEF Moved
  <2>3. size[ft_ptr] \in 0..Word - 1
    BY <2>1 DEF TypeOK
  <2>4. Max({size[ft_ptr], Moved(count)}) \in 0..Word - 1
    BY <1>0, <2>2, <2>3, MaxOfTwo
  <2>5. /\ size' = [size EXCEPT ![ft_ptr] = Max({size[ft_ptr], Moved(count)})]
        /\ fptr' = Moved(count) /\ short' = TRUE
        /\ fat' = fat /\ start' = start /\ ft_ptr' = ft_ptr
        /\ far' = far /\ lost' = lost
    BY <1>2 DEF WriteOutside
  <2> QED  BY <2>2, <2>4, <2>5 DEF TypeOK, Existing
<1>3. CASE WriteNothing
  BY <1>3 DEF TypeOK, WriteNothing, Existing
<1>4. ASSUME NEW to \in 0..End * S, Move(to) PROVE TypeOK'
  <2>1. to \in 0..Word - 1
    <3> DEFINE z == End * S
    <3>1. z \in Nat /\ z < Word /\ to \in 0..z
      BY <1>0
    <3> HIDE DEF z
    <3> QED  BY <1>0, <3>1
  <2> QED  BY <1>4, <2>1 DEF TypeOK, Move, Existing
<1>5. ASSUME NEW f \in File, Open(f) PROVE TypeOK'
  <2>1. 0 # Absent /\ 0 \in 0..Word - 1
    BY <1>0, Geometry DEF Absent
  <2>2. ft_ptr \in far => ft_ptr \in File /\ ChainOf(ft_ptr) \subseteq Entry
    <3>1. ft_ptr \in far => ft_ptr \in File /\ start[ft_ptr] \in Entry /\ fat \in Table
      BY DEF TypeOK, Existing, Table
    <3> QED  BY <3>1, ChainInEntry DEF ChainOf
  <2>3. start' \in [File -> Entry \cup {Absent}] /\ size' \in [File -> 0..Word - 1]
    BY <1>0, <1>5, <2>1, <2>2 DEF TypeOK, Open
  <2>4. Existing' = Existing
    BY <1>5, <2>1 DEF TypeOK, Open, Existing
  <2>5. lost' \subseteq Entry /\ (SecPerClstr = 1 => lost' = lost)
    BY <1>5, <2>2 DEF TypeOK, Open
  <2> QED  BY <1>0, <1>5, <2>3, <2>4, <2>5 DEF TypeOK, Open
<1>6. ASSUME NEW f \in File, Create(f) PROVE TypeOK'
  <2>1. ft_ptr = f => ft_ptr = None
    BY <1>6 DEF TypeOK, Create, Existing
  <2>2. 0 # Absent /\ 0 \in 0..Word - 1
    BY <1>0, Geometry DEF Absent
  <2>3. ft_ptr' \in Existing' \cup {None}
    BY <1>6, <2>1, <2>2 DEF TypeOK, Create, Existing
  <2>4. Existing \subseteq Existing' /\ f \in Existing'
    BY <1>6, <2>2 DEF TypeOK, Create, Existing
  <2>5. /\ far' \subseteq Existing' /\ lost' \subseteq Entry
        /\ SecPerClstr = 1 => far' = {} /\ lost' = {}
    BY <1>6, <2>4 DEF TypeOK, Create
  <2> QED  BY <1>0, <1>6, <2>2, <2>3, <2>5 DEF TypeOK, Create
<1>7. ASSUME NEW f \in File, Delete(f) PROVE TypeOK'
  <2>1. fat' \in [Entry -> Entry \cup {End}]
    BY <1>0, <1>7 DEF TypeOK, Delete, Freed
  <2>2. ft_ptr' \in Existing' \cup {None}
    BY <1>7 DEF TypeOK, Delete, Existing
  <2>3. 0 \in 0..Word - 1
    BY <1>0
  <2>4. Existing \ {f} \subseteq Existing'
    BY <1>7 DEF TypeOK, Delete, Existing
  <2>5. /\ far' \subseteq Existing' /\ lost' \subseteq Entry
        /\ SecPerClstr = 1 => far' = {} /\ lost' = {}
    BY <1>7, <2>4 DEF TypeOK, Delete
  <2> QED  BY <1>7, <2>1, <2>2, <2>3, <2>5 DEF TypeOK, Delete
<1>8. CASE UNCHANGED vars
  BY <1>8 DEF TypeOK, vars, Existing
<1> QED  BY <1>1, <1>2, <1>3, <1>4, <1>5, <1>6, <1>7, <1>8 DEF Next

(* The variables have their types, for every geometry, whatever new_clstr   *)
(* miscounts: filesystem.cpp's table holds entries and end marks only.      *)
THEOREM TypeCorrect == Spec => []TypeOK
<1>1. Init => TypeOK
  <2> SUFFICES ASSUME Init PROVE TypeOK
    OBVIOUS
  <2>1. /\ Entry = 0..End - 1 /\ 0 \in Entry /\ 0 \in 0..Word - 1
    BY Geometry
  <2> QED  BY <2>1 DEF Init, TypeOK
<1>2. TypeOK /\ [Next]_vars => TypeOK'
  BY TypeStep
<1> QED  BY <1>1, <1>2, PTL DEF Spec

-----------------------------------------------------------------------------
(* Paths. *)

(* p gives every file its clusters in order: they begin at start, follow    *)
(* the table, and with the root directory and those in L, which belong to   *)
(* nobody, are all that is taken.                                           *)
Laid(p, t, st, L) ==
    /\ p \in [File -> Seq(Entry)]
    /\ \A f \in File : st[f] \in {0, Absent} <=> p[f] = <<>>
    /\ \A f \in File : p[f] # <<>> => Path(p[f], t) /\ p[f][1] = st[f]
    /\ \A f, g \in File : f # g => Elements(p[f]) \cap Elements(p[g]) = {}
    /\ \A c \in Entry : t[c] # 0 => c <= Root \/ c \in L \/ \E f \in File : c \in Elements(p[f])
    /\ t[Root] # 0
    /\ \A c \in L : c \in Entry /\ t[c] # 0
    /\ \A f \in File : Elements(p[f]) \cap L = {}

(* Until a write has ended early, the clusters hold the bytes.              *)
Covers(p, sh, sz, st) ==
    ~sh => \A f \in File : st[f] # Absent => sz[f] <= S * Len(p[f])

IInv == TypeOK /\ \E p : Laid(p, fat, start, lost) /\ Covers(p, short, size, start)

(* The chain of a file is the set of the clusters of its path, none free.   *)
LEMMA ChainOfFile ==
    ASSUME NEW p, NEW t \in Table, NEW st, NEW L, Laid(p, t, st, L), NEW f \in File, st[f] # Absent
    PROVE  /\ Chain(st[f], t) = Elements(p[f])
           /\ \A c \in Elements(p[f]) : c \in Entry /\ c > Root /\ t[c] # 0
           /\ st[f] # 0 => \E c \in Elements(p[f]) : t[c] = End
           /\ Cardinality(Elements(p[f])) = Len(p[f])
<1>1. CASE st[f] = 0
  <2>1. p[f] = <<>>
    BY <1>1 DEF Laid
  <2>2. Elements(p[f]) = {} /\ Len(p[f]) = 0
    BY <2>1 DEF Elements
  <2>3. Chain(st[f], t) = {}
    BY <1>1 DEF Chain
  <2> QED  BY <1>1, <2>2, <2>3, FS_EmptySet
<1>2. CASE st[f] # 0
  <2>1. Path(p[f], t) /\ p[f][1] = st[f]
    BY <1>2 DEF Laid
  <2>2. /\ Len(p[f]) \in 1..End /\ DOMAIN p[f] = 1..Len(p[f])
        /\ \A k \in DOMAIN p[f] : p[f][k] \in Entry
        /\ Cardinality(Elements(p[f])) = Len(p[f])
    BY <2>1, PathLength
  <2>3. Chain(st[f], t) = Elements(p[f])
    BY <2>1, ChainOfPath
  <2> DEFINE s == p[f]  m == Len(s)
  <2>4. /\ m \in Nat /\ m >= 1 /\ DOMAIN s = 1..m
        /\ \A k \in 1..m : s[k] \in Entry /\ s[k] > Root
        /\ \A k \in 1..m : t[s[k]] = IF k = m THEN End ELSE s[k + 1]
    <3>1. Path(s, t) /\ m \in 1..End /\ DOMAIN s = 1..m /\ \A k \in DOMAIN s : s[k] \in Entry
      BY <2>1, <2>2
    <3>2. m \in Nat /\ m >= 1
      <4> HIDE DEF m
      <4> QED  BY <3>1, Geometry
    <3> HIDE DEF s
    <3> QED  BY <3>1, <3>2 DEF Path
  <2> HIDE DEF s, m
  <2>5. \A k \in 1..m : t[s[k]] # 0
    <3> TAKE k \in 1..m
    <3>1. k # m => k + 1 \in 1..m
      BY <2>4
    <3> QED  BY <2>4, <3>1, Geometry DEF Root
  <2>6. m \in 1..m /\ t[s[m]] = End
    BY <2>4
  <2>7. Elements(s) = {s[k] : k \in 1..m}
    BY <2>4 DEF Elements
  <2>8. /\ \A c \in Elements(s) : c \in Entry /\ c > Root /\ t[c] # 0
        /\ \E c \in Elements(s) : t[c] = End
    BY <2>4, <2>5, <2>6, <2>7
  <2> QED  BY <2>2, <2>3, <2>8 DEF s
<1> QED  BY <1>1, <1>2

(* What the runs check follows from the paths.                              *)
LEMMA Consequences ==
    ASSUME IInv
    PROVE  ChainsApart /\ NoneLost /\ Covered
<1>1. PICK p : Laid(p, fat, start, lost) /\ Covers(p, short, size, start)
  BY DEF IInv
<1>2. fat \in Table /\ Existing \subseteq File /\ \A f \in Existing : start[f] # Absent
  BY DEF IInv, TypeOK, Table, Existing
<1>3. \A f \in Existing :
         /\ ChainOf(f) = Elements(p[f])
         /\ \A c \in Elements(p[f]) : c \in Entry /\ c > Root /\ fat[c] # 0
         /\ start[f] # 0 => \E c \in Elements(p[f]) : fat[c] = End
         /\ Cardinality(Elements(p[f])) = Len(p[f])
  BY <1>1, <1>2, ChainOfFile DEF ChainOf
<1>4. \A f, g \in File : f # g => Elements(p[f]) \cap Elements(p[g]) = {}
  BY <1>1 DEF Laid
<1>5. ChainsApart
  <2>1. ASSUME NEW f \in Existing
        PROVE  ChainOf(f) \cap 0..Root = {}
    <3>1. \A c \in ChainOf(f) : c > Root
      BY <1>3
    <3>2. \A c \in 0..Root : ~(c > Root)
      BY DEF Root
    <3> QED  BY <3>1, <3>2
  <2>2. ASSUME NEW f \in Existing, NEW g \in Existing \ {f}
        PROVE  ChainOf(f) \cap ChainOf(g) = {}
    BY <1>2, <1>3, <1>4
  <2>3. ASSUME NEW f \in Existing
        PROVE  /\ \A c \in ChainOf(f) : fat[c] # 0
               /\ start[f] # 0 => \E c \in ChainOf(f) : fat[c] = End
    BY <1>3
  <2> QED  BY <2>1, <2>2, <2>3 DEF ChainsApart
<1>6. NoneLost
  <2>5. ASSUME NEW c \in Entry, fat[c] # 0, c \notin 0..Root, c \notin lost
        PROVE  \E f \in Existing : c \in ChainOf(f)
    <3>1. ~(c <= Root)
      BY <2>5, Geometry DEF Root
    <3>2. PICK f \in File : c \in Elements(p[f])
      BY <1>1, <2>5, <3>1 DEF Laid
    <3>3. p[f] # <<>>
      BY <3>2 DEF Elements
    <3>4. start[f] # Absent
      BY <1>1, <3>3 DEF Laid
    <3> QED  BY <1>3, <3>2, <3>4 DEF Existing
  <2>6. SecPerClstr = 1 => lost = {}
    BY DEF IInv, TypeOK
  <2>7. \A f \in Existing : lost \cap ChainOf(f) = {}
    BY <1>1, <1>2, <1>3 DEF Laid
  <2> QED  BY <2>5, <2>6, <2>7 DEF NoneLost
<1>7. Covered
  BY <1>1, <1>2, <1>3 DEF Covered, Covers
<1> QED  BY <1>5, <1>6, <1>7

-----------------------------------------------------------------------------
(* A path grows. *)

(* s with the cluster c behind it.                                          *)
LEMMA Longer ==
    ASSUME NEW s \in Seq(Entry), NEW c \in Entry
    PROVE  /\ Append(s, c) \in Seq(Entry) /\ Append(s, c) # <<>>
           /\ Len(s) \in Nat /\ Len(Append(s, c)) = Len(s) + 1
           /\ DOMAIN s = 1..Len(s) /\ DOMAIN Append(s, c) = 1..Len(s) + 1
           /\ \A k \in 1..Len(s) : Append(s, c)[k] = s[k]
           /\ Append(s, c)[Len(s) + 1] = c
           /\ Elements(Append(s, c)) = Elements(s) \cup {c}
<1> DEFINE a == Append(s, c)  m == Len(s)
<1>1. /\ a \in Seq(Entry) /\ m \in Nat /\ Len(a) = m + 1
      /\ \A k \in 1..m : a[k] = s[k]
      /\ a[m + 1] = c /\ DOMAIN s = 1..m
  BY AppendProperties, LenProperties
<1>2. DOMAIN a = 1..m + 1
  BY <1>1, LenProperties
<1> HIDE DEF a, m
<1>3. Elements(a) = Elements(s) \cup {c}
  <2>1. \A k \in 1..m + 1 : a[k] \in Elements(s) \cup {c}
    <3> TAKE k \in 1..m + 1
    <3>1. k \in 1..m \/ k = m + 1
      BY <1>1
    <3> QED  BY <1>1, <3>1 DEF Elements
  <2>2. \A k \in 1..m : s[k] \in Elements(a)
    <3> TAKE k \in 1..m
    <3>1. k \in 1..m + 1 /\ a[k] = s[k]
      BY <1>1
    <3> QED  BY <1>2, <3>1 DEF Elements
  <2>3. m + 1 \in 1..m + 1 /\ a[m + 1] = c
    BY <1>1
  <2>4. c \in Elements(a)
    BY <1>2, <2>3 DEF Elements
  <2> QED  BY <1>1, <1>2, <2>1, <2>2, <2>4 DEF Elements
<1>4. a # <<>>
  BY <1>1, EmptySeq
<1> QED  BY <1>1, <1>2, <1>3, <1>4 DEF a, m

(* The clusters of the files are taken; none of them is a free one.         *)
LEMMA Taken ==
    ASSUME NEW p, NEW t \in Table, NEW st, NEW L, Laid(p, t, st, L), NEW f \in File
    PROVE  \A c \in Elements(p[f]) : c \in Entry /\ c > Root /\ t[c] # 0
<1>1. CASE st[f] = Absent
  <2>1. Elements(p[f]) = {}
    BY <1>1 DEF Laid, Elements
  <2> QED  BY <2>1
<1>2. CASE st[f] # Absent
  BY <1>2, ChainOfFile
<1> QED  BY <1>1, <1>2

(* A free entry is no cluster of the root directory.                        *)
LEMMA FreeEntry ==
    ASSUME NEW t \in Table, t[Root] # 0, NEW c \in Free(t)
    PROVE  c \in Entry /\ c > Root /\ t[c] = 0
<1>1. c \in Entry /\ t[c] = 0 /\ c % PerSector >= 2 /\ c \in Nat
  BY Geometry DEF Free
<1>2. \A x, y \in Nat : y >= 4 /\ x < 2 => x % y = x
  BY Z3
<1>3. ~(c < 2)
  BY <1>1, <1>2, Geometry
<1>4. c # Root
  BY <1>1
<1> QED  BY <1>1, <1>3, <1>4 DEF Root

(* The last cluster of a path, 0 if there is none.                          *)
LastOf(s) == IF s = <<>> THEN 0 ELSE s[Len(s)]

(* The free cluster n linked behind c, and the first one of a file that had *)
(* none.                                                                    *)
Linked(t, c, n) == [IF c > 1 THEN [t EXCEPT ![c] = n] ELSE t EXCEPT ![n] = End]
Begun(st, f, s, n) == [st EXCEPT ![f] = IF s = <<>> THEN n ELSE st[f]]

(* new_clstr, with a free cluster n and c the last one of the file: the path*)
(* is longer by n, the others are as they were.                             *)
LEMMA Extended ==
    ASSUME NEW p, NEW t \in Table, NEW st \in [File -> Entry \cup {Absent}], NEW L, Laid(p, t, st, L),
           NEW f \in File, NEW n \in Free(t)
    PROVE  Laid([p EXCEPT ![f] = Append(p[f], n)], Linked(t, LastOf(p[f]), n),
                Begun(st, f, p[f], n), L)
<1> DEFINE s == p[f]
           m == Len(s)
           a == Append(s, n)
           c == LastOf(s)
           t2 == Linked(t, c, n)
           p2 == [p EXCEPT ![f] = a]
           st2 == Begun(st, f, s, n)
<1>1. n \in Entry /\ n > Root /\ t[n] = 0
  BY FreeEntry DEF Laid
<1>2. s \in Seq(Entry)
  BY DEF Laid
<1>3. /\ a \in Seq(Entry) /\ a # <<>>
      /\ m \in Nat /\ Len(a) = m + 1
      /\ DOMAIN s = 1..m /\ DOMAIN a = 1..m + 1
      /\ \A k \in 1..m : a[k] = s[k]
      /\ a[m + 1] = n
      /\ Elements(a) = Elements(s) \cup {n}
  BY <1>1, <1>2, Longer
<1>4. \A g \in File : \A b \in Elements(p[g]) : b \in Entry /\ b > Root /\ t[b] # 0 /\ b # n
  BY <1>1, Taken
<1>5. s # <<>> => Path(s, t) /\ s[1] = st[f] /\ m \in 1..m
  BY <1>3, EmptySeq, PathLength DEF Laid
<1>6. /\ s = <<>> => c = 0 /\ m = 0
      /\ s # <<>> => c = s[m] /\ c \in Entry /\ c > Root /\ c \in Elements(s) /\ c > 1
  <2>1. s = <<>> => c = 0 /\ m = 0
    BY DEF LastOf
  <2>2. s # <<>> => c = s[m] /\ c \in Elements(s)
    BY <1>3, <1>5 DEF Elements, LastOf
  <2>3. \A b \in Entry : b > Root => b > 1
    BY Geometry DEF Root
  <2> QED  BY <1>4, <2>1, <2>2, <2>3
<1> HIDE DEF m, a, c
<1>7. ASSUME NEW b \in Entry
      PROVE  t2[b] = IF b = n THEN End ELSE IF s # <<>> /\ b = c THEN n ELSE t[b]
  <2>1. CASE s = <<>>
    <3>1. t2 = [t EXCEPT ![n] = End]
      BY <1>6, <2>1 DEF Linked
    <3> QED  BY <2>1, <3>1 DEF Table
  <2>2. CASE s # <<>>
    <3>1. t2 = [[t EXCEPT ![c] = n] EXCEPT ![n] = End]
      BY <1>6, <2>2 DEF Linked
    <3> QED  BY <1>6, <2>2, <3>1 DEF Table
  <2> QED  BY <2>1, <2>2
<1> HIDE DEF t2
<1>8. Path(a, t2)
  <2>1. \A k \in 1..m : s[k] \in Entry /\ s[k] > Root /\ s[k] # n /\ s[k] \in Elements(s)
    <3> TAKE k \in 1..m
    <3>1. s[k] \in Elements(s)
      BY <1>3 DEF Elements
    <3> QED  BY <1>4, <3>1
  <2>2. \A k \in 1..m + 1 : a[k] > Root
    <3> TAKE k \in 1..m + 1
    <3>1. k \in 1..m \/ k = m + 1
      BY <1>3
    <3> QED  BY <1>1, <1>3, <2>1, <3>1
  <2>3. \A j, k \in 1..m : s[j] = s[k] => j = k
    <3>1. CASE s = <<>>
      BY <1>6, <3>1
    <3>2. CASE s # <<>>
      <4>1. Path(s, t)
        BY <1>5, <3>2
      <4> HIDE DEF s
      <4> QED  BY <1>3, <4>1 DEF Path
    <3> QED  BY <3>1, <3>2
  <2>4. \A j, k \in 1..m + 1 : a[j] = a[k] => j = k
    <3> TAKE j, k \in 1..m + 1
    <3>1. (j \in 1..m \/ j = m + 1) /\ (k \in 1..m \/ k = m + 1)
      BY <1>3
    <3> QED  BY <1>3, <2>1, <2>3, <3>1
  <2>5. ASSUME NEW k \in 1..m + 1 PROVE t2[a[k]] = IF k = m + 1 THEN End ELSE a[k + 1]
    <3>1. CASE k = m + 1
      BY <1>1, <1>3, <1>7, <3>1
    <3>2. CASE k = m /\ k # 0
      <4>1. s # <<>> /\ c = s[m]
        BY <1>3, <1>6, <3>2, EmptySeq
      <4>2. a[k] = c /\ c # n /\ c \in Entry
        BY <1>3, <2>1, <3>2, <4>1
      <4>3. t2[c] = n
        BY <1>7, <4>1, <4>2
      <4> QED  BY <1>3, <3>2, <4>2, <4>3
    <3>3. CASE k < m
      <4>1. k \in 1..m /\ m \in 1..m /\ k + 1 \in 1..m /\ k # m
        BY <1>3, <3>3
      <4>2. s # <<>> /\ c = s[m]
        BY <1>3, <1>6, <3>3, EmptySeq
      <4>3. s[k] # c /\ s[k] # n /\ s[k] \in Entry
        BY <2>1, <2>3, <4>1, <4>2
      <4>4. t2[s[k]] = t[s[k]]
        BY <1>7, <4>3
      <4>5. t[s[k]] = s[k + 1]
        <5>1. Path(s, t)
          BY <1>5, <4>2
        <5> HIDE DEF s
        <5> QED  BY <1>3, <4>1, <5>1 DEF Path, m
      <4>6. a[k] = s[k] /\ a[k + 1] = s[k + 1] /\ k # m + 1
        BY <1>3, <4>1
      <4> QED  BY <4>4, <4>5, <4>6
    <3> QED  BY <1>3, <3>1, <3>2, <3>3
  <2> HIDE DEF s
  <2> QED  BY <1>3, <2>2, <2>4, <2>5 DEF Path
<1>9. \A g \in File : g # f /\ p[g] # <<>> => Path(p[g], t2)
  <2> SUFFICES ASSUME NEW g \in File, g # f, p[g] # <<>> PROVE Path(p[g], t2)
    OBVIOUS
  <2> DEFINE q == p[g]
  <2>1. Path(q, t)
    BY DEF Laid
  <2>2. \A k \in DOMAIN q : q[k] \in Elements(q)
    BY DEF Elements
  <2>3. Elements(q) \cap Elements(s) = {}
    BY DEF Laid
  <2>4. \A k \in DOMAIN q : q[k] \in Entry /\ q[k] # n /\ ~(s # <<>> /\ q[k] = c)
    BY <1>4, <1>6, <2>2, <2>3
  <2>5. \A k \in DOMAIN q : t2[q[k]] = t[q[k]]
    BY <1>7, <2>4
  <2> HIDE DEF q
  <2>6. Path(q, t2)
    BY <2>1, <2>5 DEF Path
  <2> QED  BY <2>6 DEF q
<1>10. /\ p2 \in [File -> Seq(Entry)] /\ p2[f] = a
       /\ \A g \in File : g # f => p2[g] = p[g]
  <2>1. p \in [File -> Seq(Entry)]
    BY DEF Laid
  <2> QED  BY <1>3, <2>1
<1>11. st2[f] = (IF s = <<>> THEN n ELSE st[f]) /\ \A g \in File : g # f => st2[g] = st[g]
  BY DEF Begun
<1> HIDE DEF p2, st2
<1>12. \A g \in File : st2[g] \in {0, Absent} <=> p2[g] = <<>>
  <2>1. \A g \in File : st[g] \in {0, Absent} <=> p[g] = <<>>
    BY DEF Laid
  <2>2. n \notin {0, Absent}
    BY <1>1, Geometry DEF Root, Absent
  <2>3. st2[f] \notin {0, Absent}
    BY <1>11, <2>1, <2>2
  <2> QED  BY <1>3, <1>10, <1>11, <2>1, <2>3
<1>13. \A g \in File : p2[g] # <<>> => Path(p2[g], t2) /\ p2[g][1] = st2[g]
  <2>1. a[1] = st2[f]
    <3>1. CASE s = <<>>
      <4>1. m = 0 /\ a[1] = n
        BY <1>3, <1>6, <3>1
      <4> QED  BY <1>11, <3>1, <4>1
    <3>2. CASE s # <<>>
      <4>1. m # 0 /\ 1 \in 1..m
        BY <1>3, <1>5, <3>2
      <4> QED  BY <1>3, <1>5, <1>11, <3>2, <4>1
    <3> QED  BY <3>1, <3>2
  <2>2. \A g \in File : p[g] # <<>> => p[g][1] = st[g]
    BY DEF Laid
  <2> QED  BY <1>8, <1>9, <1>10, <1>11, <2>1, <2>2
<1>14. \A g, h \in File : g # h => Elements(p2[g]) \cap Elements(p2[h]) = {}
  <2>1. \A g, h \in File : g # h => Elements(p[g]) \cap Elements(p[h]) = {}
    BY DEF Laid
  <2>2. \A g \in File : n \notin Elements(p[g])
    BY <1>4
  <2>3. Elements(p2[f]) = Elements(p[f]) \cup {n}
    BY <1>3, <1>10
  <2>4. \A g \in File : g # f => Elements(p2[g]) = Elements(p[g])
    BY <1>10
  <2> TAKE g, h \in File
  <2> HAVE g # h
  <2>5. CASE g = f
    BY <2>1, <2>2, <2>3, <2>4, <2>5
  <2>6. CASE h = f
    BY <2>1, <2>2, <2>3, <2>4, <2>6
  <2>7. CASE g # f /\ h # f
    BY <2>1, <2>4, <2>7
  <2> QED  BY <2>5, <2>6, <2>7
<1>15. \A b \in Entry : t2[b] # 0 =>
          b <= Root \/ b \in L \/ \E g \in File : b \in Elements(p2[g])
  <2>1. n \in Elements(p2[f]) /\ (s # <<>> => c \in Elements(p2[f]))
    BY <1>3, <1>6, <1>10
  <2>2. \A b \in Entry : t[b] # 0 =>
           b <= Root \/ b \in L \/ \E g \in File : b \in Elements(p[g])
    BY DEF Laid
  <2>3. \A g \in File : Elements(p[g]) \subseteq Elements(p2[g])
    BY <1>3, <1>10
  <2> QED  BY <1>7, <2>1, <2>2, <2>3
<1>16. t2[Root] # 0
  <2>1. Root \in Entry /\ t[Root] # 0 /\ Root # n /\ ~(s # <<>> /\ Root = c)
    BY <1>1, <1>6, Geometry DEF Laid, Root
  <2> QED  BY <1>7, <2>1
<1>18. \A b \in L : b \in Entry /\ t2[b] # 0
  <2>1. \A b \in L : b \in Entry /\ t[b] # 0
    BY DEF Laid
  <2>2. n # 0 /\ End # 0
    BY <1>1, Geometry DEF Root
  <2> QED  BY <1>7, <2>1, <2>2
<1>19. \A g \in File : Elements(p2[g]) \cap L = {}
  <2>1. n \notin L
    BY <1>1 DEF Laid
  <2>2. \A g \in File : Elements(p[g]) \cap L = {}
    BY DEF Laid
  <2> QED  BY <1>3, <1>10, <2>1, <2>2
<1>17. Laid(p2, t2, st2, L)
  BY <1>10, <1>12, <1>13, <1>14, <1>15, <1>16, <1>18, <1>19 DEF Laid
<1> QED  BY <1>17 DEF p2, st2, a, t2, c

(* What is free in t2 was free in t.                                        *)
Zeros(t2, t) == \A c \in Entry : t2[c] = 0 => t[c] = 0

(* From p to r only the file f has grown, by clusters free in t.            *)
Grown(p, r, f, t) ==
    /\ \A g \in File : g # f => r[g] = p[g]
    /\ Len(p[f]) <= Len(r[f])
    /\ \A c \in Elements(r[f]) \ Elements(p[f]) : t[c] = 0

(* Room that is left was there before.                                      *)
LEMMA RoomBefore ==
    ASSUME NEW t, NEW t2, Zeros(t2, t), RoomyIn(t2)
    PROVE  RoomyIn(t)
BY DEF Zeros, RoomyIn, Free

(* new_clstr frees nothing.                                                 *)
LEMMA NewClstrZeros ==
    ASSUME NEW t \in Table, NEW c \in Entry, Free(t) # {}
    PROVE  Zeros(NewClstr(t, c), t)
<1>1. FreeClstr(t) \in Entry /\ FreeClstr(t) # 0 /\ End # 0
  BY FreeClstrTyped, Geometry
<1> QED  BY <1>1 DEF Zeros, NewClstr, Table

(* Nor does fwrite on its way, which stays failed once it has.              *)
LEMMA AdvanceZeros ==
    ASSUME NEW w \in Writing
    PROVE  /\ Zeros(Advance(w).fat, w.fat)
           /\ w.failed => Advance(w).failed
           /\ Advance(w).failed \/ Advance(w).i = w.i + 1
<1>1. w.fat \in Table /\ w.curr \in Entry /\ w.failed \in BOOLEAN
  BY DEF Writing
<1>2. Zeros(w.fat, w.fat)
  BY DEF Zeros
<1>3. Free(w.fat) # {} => Zeros(NewClstr(w.fat, w.curr), w.fat)
  BY <1>1, NewClstrZeros
<1>4. CASE w.failed
  BY <1>2, <1>4, AdvanceTo
<1>5. CASE ~w.failed /\ w.fat[w.curr] # End
  BY <1>2, <1>5, AdvanceTo
<1>6. CASE ~w.failed /\ w.fat[w.curr] = End /\ Free(w.fat) # {}
  BY <1>3, <1>6, AdvanceTo
<1>7. CASE ~w.failed /\ w.fat[w.curr] = End /\ Free(w.fat) = {}
  BY <1>2, <1>7, AdvanceTo
<1> QED  BY <1>1, <1>4, <1>5, <1>6, <1>7

(* new_clstr for a file that has its clusters in r: its first, or one more. *)
LEMMA Appended ==
    ASSUME NEW r, NEW t \in Table, NEW st \in [File -> Entry \cup {Absent}], NEW L, Laid(r, t, st, L),
           NEW f \in File, Free(t) # {}, RoomyIn(t)
    PROVE  \E x : /\ Laid(x, NewClstr(t, LastOf(r[f])), Begun(st, f, r[f], FreeClstr(t)), L)
                  /\ Grown(r, x, f, t)
                  /\ Len(x[f]) = Len(r[f]) + 1 /\ x[f][Len(r[f]) + 1] = FreeClstr(t)
                  /\ \A k \in 1..Len(r[f]) : x[f][k] = r[f][k]
<1> DEFINE n == FreeClstr(t)
           x == [r EXCEPT ![f] = Append(r[f], n)]
<1>1. n \in Free(t)
  BY FreeClstrFree
<1>2. n \in Entry /\ t[n] = 0
  BY <1>1 DEF Free
<1> HIDE DEF n
<1>3. NewClstr(t, LastOf(r[f])) = Linked(t, LastOf(r[f]), n)
  BY DEF NewClstr, Linked, n
<1>4. Laid(x, NewClstr(t, LastOf(r[f])), Begun(st, f, r[f], n), L)
  BY <1>1, <1>3, Extended
<1>5. r[f] \in Seq(Entry) /\ r \in [File -> Seq(Entry)]
  BY DEF Laid
<1>6. x[f] = Append(r[f], n) /\ \A g \in File : g # f => x[g] = r[g]
  BY <1>5
<1> HIDE DEF x
<1>7. /\ Len(r[f]) \in Nat /\ Len(x[f]) = Len(r[f]) + 1 /\ x[f][Len(r[f]) + 1] = n
      /\ \A k \in 1..Len(r[f]) : x[f][k] = r[f][k]
      /\ Elements(x[f]) = Elements(r[f]) \cup {n}
  BY <1>2, <1>5, <1>6, Longer
<1>8. Grown(r, x, f, t)
  <2>1. Len(r[f]) <= Len(x[f])
    BY <1>7
  <2> QED  BY <1>2, <1>6, <1>7, <2>1 DEF Grown
<1> QED  BY <1>4, <1>7, <1>8 DEF n

(* fwrite is in the cluster number q + 1 + i of the file f.                 *)
Reached(r, w, st, f, q, L) ==
    /\ Laid(r, w.fat, st, L)
    /\ q + 1 + w.i \in 1..Len(r[f])
    /\ w.curr = r[f][q + 1 + w.i]

(* One cluster on, in the chain or in a new cluster behind it.              *)
LEMMA AdvanceGrows ==
    ASSUME NEW w \in Writing, NEW st \in [File -> Entry \cup {Absent}], NEW L,
           NEW f \in File, NEW q \in Nat, NEW r, Reached(r, w, st, f, q, L), RoomyIn(w.fat)
    PROVE  \E x : Reached(x, Advance(w), st, f, q, L) /\ Grown(r, x, f, w.fat)
<1> DEFINE v == Advance(w)
           j == q + 1 + w.i
           m == Len(r[f])
<1>1. w.fat \in Table /\ w.curr \in Entry /\ w.failed \in BOOLEAN /\ w.i \in Nat
  BY DEF Writing
<1>2. Laid(r, w.fat, st, L) /\ j \in 1..m /\ w.curr = r[f][j]
  BY DEF Reached
<1>3. r[f] \in Seq(Entry) /\ m \in Nat /\ DOMAIN r[f] = 1..m
  BY <1>2, LenProperties DEF Laid
<1>4. r[f] # <<>>
  BY <1>2, <1>3, EmptySeq
<1>5. Path(r[f], w.fat)
  BY <1>2, <1>4 DEF Laid
<1>6. w.fat[w.curr] = IF j = m THEN End ELSE r[f][j + 1]
  BY <1>2, <1>3, <1>5 DEF Path
<1>7. Grown(r, r, f, w.fat)
  BY <1>3 DEF Grown
<1>8. j \in Nat /\ q + 1 + (w.i + 1) = j + 1
  BY <1>1
<1> HIDE DEF v, m
<1>9. CASE w.failed
  <2>1. v = w
    BY <1>9, AdvanceTo DEF v
  <2> QED  BY <1>7, <2>1 DEF v
<1>10. CASE ~w.failed /\ j # m
  <2>1. j + 1 \in 1..m
    BY <1>2, <1>3, <1>8, <1>10
  <2>2. r[f][j + 1] \in Entry /\ r[f][j + 1] # End
    <3>1. j + 1 \in 1..Len(r[f])
      BY <2>1 DEF m
    <3>2. r[f][j + 1] \in Entry
      BY <1>3, <3>1, ElementOfSeq
    <3> QED  BY <3>2, Geometry
  <2>3. v.fat = w.fat /\ v.curr = r[f][j + 1] /\ v.i = w.i + 1
    BY <1>6, <1>10, <2>2, AdvanceTo DEF v
  <2>4. Reached(r, v, st, f, q, L)
    <3>1. q + 1 + v.i = j + 1
      BY <1>8, <2>3
    <3> QED  BY <1>2, <2>1, <2>3, <3>1 DEF Reached, m
  <2> QED  BY <1>7, <2>4 DEF v
<1>11. CASE ~w.failed /\ j = m /\ Free(w.fat) = {}
  <2>1. v.fat = w.fat /\ v.curr = w.curr /\ v.i = w.i
    BY <1>6, <1>11, AdvanceTo DEF v
  <2>2. Reached(r, v, st, f, q, L)
    BY <1>2, <2>1 DEF Reached, m
  <2> QED  BY <1>7, <2>2 DEF v
<1>12. CASE ~w.failed /\ j = m /\ Free(w.fat) # {}
  <2>1. /\ v.fat = NewClstr(w.fat, w.curr) /\ v.curr = FreeClstr(w.fat)
        /\ v.i = w.i + 1
    BY <1>6, <1>12, AdvanceTo DEF v
  <2>2. w.curr = LastOf(r[f])
    BY <1>2, <1>4, <1>12 DEF m, LastOf
  <2>3. Begun(st, f, r[f], FreeClstr(w.fat)) = st
    BY <1>4 DEF Begun
  <2>4. PICK x : /\ Laid(x, NewClstr(w.fat, w.curr), Begun(st, f, r[f], FreeClstr(w.fat)), L)
                 /\ Grown(r, x, f, w.fat)
                 /\ Len(x[f]) = m + 1 /\ x[f][m + 1] = FreeClstr(w.fat)
    BY <1>1, <1>2, <1>12, <2>2, Appended DEF m
  <2>5. Laid(x, v.fat, st, L)
    BY <2>1, <2>3, <2>4
  <2>6. q + 1 + v.i = m + 1 /\ m + 1 \in 1..m + 1
    BY <1>3, <1>8, <1>12, <2>1
  <2>7. Reached(x, v, st, f, q, L)
    BY <2>1, <2>4, <2>5, <2>6 DEF Reached
  <2> QED  BY <2>4, <2>7 DEF v
<1> QED  BY <1>1, <1>9, <1>10, <1>11, <1>12

(* Growth after growth.                                                     *)
LEMMA GrownTwice ==
    ASSUME NEW p \in [File -> Seq(Entry)], NEW r \in [File -> Seq(Entry)],
           NEW x \in [File -> Seq(Entry)], NEW f \in File, NEW t, NEW t2,
           Grown(p, r, f, t), Grown(r, x, f, t2), Zeros(t2, t),
           \A c \in Elements(x[f]) : c \in Entry
    PROVE  Grown(p, x, f, t)
<1>1. Len(p[f]) \in Nat /\ Len(r[f]) \in Nat /\ Len(x[f]) \in Nat
  BY LenProperties
<1>2. Len(p[f]) <= Len(x[f])
  BY <1>1 DEF Grown
<1>3. \A c \in Elements(x[f]) \ Elements(p[f]) : t[c] = 0
  BY DEF Grown, Zeros
<1>4. \A g \in File : g # f => x[g] = p[g]
  BY DEF Grown
<1> QED  BY <1>2, <1>3, <1>4 DEF Grown

(* The way of fwrite, with the tables on it, none of which has entries free *)
(* that were not free before.                                               *)
Way(v, t, curr, n) ==
    /\ v \in [0..n -> Writing]
    /\ \A i \in 0..n : i <= 1 => v[i] = [fat |-> t, curr |-> curr, i |-> 0, failed |-> FALSE]
    /\ \A i \in 1..n : i > 1 => v[i] = Advance(v[i - 1])
    /\ Written(t, curr, n) = v[n]
    /\ \A i \in 0..n : Zeros(v[i].fat, t) /\ Zeros(v[n].fat, v[i].fat)

(* fwrite goes such a way.                                                  *)
LEMMA WrittenZeros ==
    ASSUME NEW t \in Table, NEW curr \in Entry, NEW n \in Nat
    PROVE  \E v : Way(v, t, curr, n)
<1> DEFINE x == [fat |-> t, curr |-> curr, i |-> 0, failed |-> FALSE]
<1>1. PICK v \in [0..n -> Writing] :
         /\ \A i \in 0..n : i <= 1 => v[i] = x
         /\ \A i \in 1..n : i > 1 => v[i] = Advance(v[i - 1])
         /\ Written(t, curr, n) = v[n]
  BY WrittenSteps
<1>2. x.fat = t
  OBVIOUS
<1> HIDE DEF x
<1>3. \A i \in 0..n : v[i] \in Writing
  BY <1>1
<1> DEFINE P == {i \in 0..n : \A j \in 0..i : Zeros(v[i].fat, v[j].fat)}
<1>4. 0 \in P
  BY DEF Zeros
<1>5. ASSUME NEW i \in 1..n, i - 1 \in P PROVE i \in P
  <2>1. i \in 0..n /\ i - 1 \in 0..n
    OBVIOUS
  <2>2. Zeros(v[i].fat, v[i - 1].fat)
    <3>1. CASE i <= 1
      <4>1. v[i] = x /\ v[i - 1] = x
        BY <1>1, <2>1, <3>1
      <4> QED  BY <4>1 DEF Zeros
    <3>2. CASE i > 1
      <4>1. v[i] = Advance(v[i - 1]) /\ v[i - 1] \in Writing
        BY <1>1, <1>3, <2>1, <3>2
      <4> QED  BY <4>1, AdvanceZeros
    <3> QED  BY <3>1, <3>2
  <2>3. \A j \in 0..i - 1 : Zeros(v[i - 1].fat, v[j].fat)
    BY <1>5
  <2>4. \A j \in 0..i : j = i \/ j \in 0..i - 1
    OBVIOUS
  <2>5. ASSUME NEW j \in 0..i PROVE Zeros(v[i].fat, v[j].fat)
    <3>1. CASE j = i
      BY <3>1 DEF Zeros
    <3>2. CASE j \in 0..i - 1
      BY <2>2, <2>3, <3>2 DEF Zeros
    <3> QED  BY <2>4, <3>1, <3>2
  <2> QED  BY <2>1, <2>5
<1>6. \A i \in 0..n : i \in P
  <2> HIDE DEF P
  <2> QED  BY <1>4, <1>5, Induction
<1>7. \A i \in 0..n : Zeros(v[i].fat, t) /\ Zeros(v[n].fat, v[i].fat)
  <2> TAKE i \in 0..n
  <2>1. n \in 0..n /\ 0 \in 0..i /\ 0 \in 0..n
    OBVIOUS
  <2>2. Zeros(v[n].fat, v[i].fat) /\ Zeros(v[i].fat, v[0].fat)
    BY <1>6, <2>1
  <2>3. v[0].fat = t
    BY <1>1, <1>2, <2>1
  <2> QED  BY <2>2, <2>3
<1> QED  BY <1>1, <1>7, Zenon DEF x, Way

(* All of fwrite: the file grows by clusters that were free, and reaches as *)
(* many clusters as it went through, unless it failed.                      *)
LEMMA WrittenGrows ==
    ASSUME NEW p, NEW t \in Table, NEW st \in [File -> Entry \cup {Absent}], NEW L, Laid(p, t, st, L),
           NEW f \in File, NEW q \in Nat, q < Len(p[f]), NEW n \in Nat,
           NEW w, w = Written(t, p[f][q + 1], n), RoomyIn(w.fat)
    PROVE  \E r : /\ Laid(r, w.fat, st, L) /\ Grown(p, r, f, t)
                  /\ ~w.failed => Len(r[f]) >= q + 1 + (IF n <= 1 THEN 0 ELSE n - 1)
<1> DEFINE c == p[f][q + 1]
           x == [fat |-> t, curr |-> c, i |-> 0, failed |-> FALSE]
<1>1. p \in [File -> Seq(Entry)] /\ p[f] \in Seq(Entry) /\ Len(p[f]) \in Nat
  BY LenProperties DEF Laid
<1>2. q + 1 \in 1..Len(p[f])
  BY <1>1
<1>3. c \in Entry
  BY <1>1, <1>2, ElementOfSeq
<1>7. PICK v : Way(v, t, c, n)
  <2> HIDE DEF c
  <2> QED  BY <1>3, WrittenZeros
<1>4. /\ v \in [0..n -> Writing]
      /\ \A i \in 0..n : i <= 1 => v[i] = x
      /\ \A i \in 1..n : i > 1 => v[i] = Advance(v[i - 1])
      /\ w = v[n]
      /\ \A i \in 0..n : Zeros(v[i].fat, t) /\ Zeros(v[n].fat, v[i].fat)
  BY <1>7 DEF Way
<1>5. x.fat = t /\ x.curr = c /\ x.i = 0 /\ x.failed = FALSE
  OBVIOUS
<1> HIDE DEF x, c
<1>6. \A i \in 0..n : v[i] \in Writing
  BY <1>4
<1>8. \A i \in 0..n : RoomyIn(v[i].fat) /\ Zeros(v[i].fat, t)
  BY <1>4, RoomBefore
<1> DEFINE ok(i) == \E r : /\ Reached(r, v[i], st, f, q, L) /\ Grown(p, r, f, t)
                           /\ ~v[i].failed => v[i].i = IF i <= 1 THEN 0 ELSE i - 1
           P == {i \in 0..n : ok(i)}
<1>9. \A i \in 0..n : i <= 1 => ok(i)
  <2> SUFFICES ASSUME NEW i \in 0..n, i <= 1 PROVE ok(i)
    BY Zenon
  <2>1. v[i] = x
    BY <1>4
  <2>2. Grown(p, p, f, t)
    BY <1>1 DEF Grown
  <2>3. Reached(p, x, st, f, q, L)
    BY <1>2, <1>5 DEF Reached, c
  <2>4. x.i = IF i <= 1 THEN 0 ELSE i - 1
    BY <1>5
  <2> QED  BY <2>1, <2>2, <2>3, <2>4
<1>10. ASSUME NEW i \in 1..n, i - 1 \in P PROVE i \in P
  <2>1. i \in 0..n /\ i - 1 \in 0..n
    OBVIOUS
  <2>2. CASE i <= 1
    BY <1>9, <2>1, <2>2
  <2>3. CASE i > 1
    <3>1. PICK r : /\ Reached(r, v[i - 1], st, f, q, L) /\ Grown(p, r, f, t)
                   /\ ~v[i - 1].failed => v[i - 1].i = IF i - 1 <= 1 THEN 0 ELSE i - 1 - 1
      BY <1>10
    <3> DEFINE u == v[i - 1]
    <3>2. v[i] = Advance(u) /\ u \in Writing /\ RoomyIn(u.fat) /\ Zeros(u.fat, t)
      BY <1>4, <1>6, <1>8, <2>1, <2>3
    <3>3. u.fat \in Table /\ v[i] \in Writing /\ v[i].fat \in Table
      BY <1>6, <2>1, <3>2 DEF Writing
    <3>4. /\ u.failed => v[i].failed
          /\ v[i].failed \/ v[i].i = u.i + 1
      BY <3>2, AdvanceZeros
    <3> HIDE DEF u
    <3>5. Reached(r, u, st, f, q, L)
      BY <3>1 DEF u
    <3>6. PICK y : Reached(y, v[i], st, f, q, L) /\ Grown(r, y, f, u.fat)
      BY <3>2, <3>5, AdvanceGrows
    <3>7. Laid(y, v[i].fat, st, L)
      BY <3>6 DEF Reached
    <3>8. \A b \in Elements(y[f]) : b \in Entry
      BY <3>3, <3>7, Taken
    <3>9. r \in [File -> Seq(Entry)] /\ y \in [File -> Seq(Entry)]
      BY <3>5, <3>7 DEF Reached, Laid
    <3>10. Grown(p, y, f, t)
      BY <1>1, <3>1, <3>2, <3>6, <3>8, <3>9, GrownTwice
    <3>11. ~v[i].failed => v[i].i = IF i <= 1 THEN 0 ELSE i - 1
      BY <2>3, <3>1, <3>4 DEF u
    <3>12. ok(i)
      BY <3>6, <3>10, <3>11
    <3> QED  BY <2>1, <3>12
  <2> QED  BY <2>2, <2>3
<1>11. 0 \in P
  BY <1>9
<1>12. n \in P
  <2>1. \A i \in 0..n : i \in P
    <3> HIDE DEF P
    <3> QED  BY <1>10, <1>11, Induction
  <2> QED  BY <2>1
<1>13. PICK r : /\ Reached(r, w, st, f, q, L) /\ Grown(p, r, f, t)
                /\ ~w.failed => w.i = IF n <= 1 THEN 0 ELSE n - 1
  BY <1>4, <1>12
<1>14. ~w.failed => Len(r[f]) >= q + 1 + (IF n <= 1 THEN 0 ELSE n - 1)
  <2>1. Laid(r, w.fat, st, L) /\ q + 1 + w.i \in 1..Len(r[f])
    BY <1>13 DEF Reached
  <2>2. Len(r[f]) \in Nat
    BY <2>1, LenProperties DEF Laid
  <2> QED  BY <1>13, <2>1, <2>2
<1>15. Laid(r, w.fat, st, L)
  BY <1>13 DEF Reached
<1> QED  BY <1>13, <1>14, <1>15

-----------------------------------------------------------------------------
(* fwrite. *)

(* The clusters fwrite goes through hold what it writes.                    *)
LEMMA Enough ==
    ASSUME NEW f \in 0..S - 1, NEW count \in Nat,
           NEW n, n = Clstrs(f, count),
           NEW k, k = 1 + (IF n <= 1 THEN 0 ELSE n - 1)
    PROVE  n \in Nat /\ k \in Nat /\ f + count <= S * k
<1>1. n \in Nat
  BY ClstrsTyped
<1>2. k \in Nat /\ k >= 1 /\ k >= n
  BY <1>1
<1>3. S \in Nat /\ S > 0 /\ Sector \in Nat /\ Sector <= S
  <2>1. \A a, b \in Nat : b > 0 => a <= a * b
    BY Z3
  <2>2. Sector \in Nat /\ SecPerClstr \in Nat /\ SecPerClstr > 0
    BY ClustersAssumption
  <2>3. Sector <= Sector * SecPerClstr
    BY <2>1, <2>2
  <2> QED  BY <2>2, <2>3, Geometry DEF S
<1>4. \A a, b, c \in Nat : a <= b => c * a \in Nat /\ c * b \in Nat /\ c * a <= c * b
  BY Z3
<1>5. \A a, b \in Nat : a * (b + 1) = a * b + a /\ a * (b + 2) = a * b + a + a /\ a * b \in Nat
  BY Z3
<1>6. \A a, b, c \in Nat : b <= c => a * b \in Nat /\ a * c \in Nat /\ a * b <= a * c
  BY Z3
<1>7. \A a, b \in Nat : a * b = b * a
  BY Z3
<1> DEFINE s == S
           d == count \div s
           r == count % s
           y == count - (s - f)
           e == y \div s
           b == count - d * Sector # 0
<1>8. n = (IF f = 0 THEN d
           ELSE (IF count # 0 THEN 1 ELSE 0) + (IF count > s - f THEN e + 1 ELSE 0))
          + (IF b THEN 1 ELSE 0)
  BY DEF Clstrs
<1>9. d \in Nat /\ r \in 0..s - 1 /\ count = s * d + r
  BY Division
<1>10. count > s - f => y \in Nat /\ e \in Nat /\ y % s \in 0..s - 1 /\ y = s * e + (y % s)
  <2>1. count > s - f => y \in Nat
    BY <1>3
  <2> QED  BY <2>1, Division
<1>11. r > 0 => b
  <2>1. d * Sector \in Nat /\ s * d \in Nat /\ d * Sector <= s * d
    BY <1>3, <1>6, <1>7, <1>9
  <2> DEFINE u == d * Sector  z == s * d
  <2>2. u \in Nat /\ z \in Nat /\ u <= z /\ count = z + r
    BY <1>9, <2>1
  <2> HIDE DEF u, z, r
  <2>3. r \in Int /\ r > 0 => count - u # 0
    BY <2>2
  <2>4. r \in Int
    BY <1>9
  <2> QED  BY <2>3, <2>4 DEF u
<1>12. s \in Nat /\ s > 0 /\ f \in 0..s - 1 /\ y = count - (s - f)
  BY <1>3
<1> HIDE DEF s, d, r, e, b, y
<1>13. s * k \in Nat /\ s <= s * k
  <2>1. 1 \in Nat /\ s * 1 = s
    BY <1>12
  <2> QED  BY <1>2, <1>4, <1>12, <2>1
<1>14. CASE f = 0
  <2>1. CASE r = 0
    <3>1. d <= k
      BY <1>1, <1>2, <1>8, <1>9, <1>14
    <3>2. s * d <= s * k /\ s * d \in Nat
      BY <1>2, <1>4, <1>9, <1>12, <3>1
    <3> DEFINE z == s * d  u == s * k
    <3>3. z \in Nat /\ u \in Nat /\ z <= u /\ count = z + r
      BY <1>9, <1>13, <3>2
    <3> HIDE DEF z, u
    <3>4. f + count <= u
      BY <1>14, <2>1, <3>3
    <3> QED  BY <1>1, <1>2, <3>4 DEF u, s
  <2>2. CASE r # 0
    <3>1. r > 0 /\ b
      BY <1>9, <1>11, <1>12, <2>2
    <3>2. d + 1 <= k
      BY <1>1, <1>2, <1>8, <1>9, <1>14, <3>1
    <3>3. s * (d + 1) <= s * k /\ s * (d + 1) = s * d + s /\ s * d \in Nat
      <4>1. d + 1 \in Nat
        BY <1>9
      <4> QED  BY <1>2, <1>4, <1>5, <1>9, <1>12, <3>2, <4>1
    <3>4. f + count <= s * k
      <4> DEFINE z == s * d  u == s * k  v == s * (d + 1)
      <4>1. z \in Nat /\ u \in Nat /\ v <= u /\ v = z + s /\ count = z + r
        BY <1>9, <1>13, <3>3
      <4> HIDE DEF z, u, v
      <4>2. f + count <= u
        BY <1>9, <1>12, <1>14, <4>1
      <4> QED  BY <4>2 DEF u
    <3> QED  BY <1>1, <1>2, <3>4 DEF s
  <2> QED  BY <2>1, <2>2
<1>15. CASE f # 0 /\ ~(count > s - f)
  <2> DEFINE u == s * k
  <2>1. u \in Nat /\ s <= u
    BY <1>13
  <2> HIDE DEF u
  <2>2. f + count <= u
    BY <1>12, <1>15, <2>1
  <2> QED  BY <1>1, <1>2, <2>2 DEF u, s
<1>16. CASE f # 0 /\ count > s - f
  <2>1. count # 0
    BY <1>12, <1>16
  <2>2. e + 2 <= k
    BY <1>1, <1>2, <1>8, <1>10, <1>16, <2>1
  <2>3. s * (e + 2) <= s * k /\ s * (e + 2) = s * e + s + s /\ s * e \in Nat
    <3>1. e + 2 \in Nat /\ e \in Nat
      BY <1>10, <1>16
    <3> QED  BY <1>2, <1>4, <1>5, <1>12, <2>2, <3>1
  <2> DEFINE z == s * e  u == s * k  v == s * (e + 2)  rest == y % s
  <2>4. /\ z \in Nat /\ u \in Nat /\ v <= u /\ v = z + s + s
        /\ y \in Nat /\ rest \in 0..s - 1 /\ y = z + rest
    BY <1>10, <1>13, <1>16, <2>3
  <2> HIDE DEF z, u, v, rest
  <2>5. f + count <= u
    BY <1>12, <1>16, <2>4
  <2> QED  BY <1>1, <1>2, <2>5 DEF u, s
<1> QED  BY <1>1, <1>2, <1>14, <1>15, <1>16

(* An fwrite: the file has its first cluster, and grows from there.         *)
LEMMA WriteStep ==
    ASSUME TypeOK, NEW p, Laid(p, fat, start, lost), Covers(p, short, size, start),
           NEW count \in 0..MaxCount, Write(count), Roomy'
    PROVE  \E r : /\ Laid(r, fat', start', lost') /\ Covers(r, short', size', start')
                  /\ \A f \in File : \A c \in Elements(r[f]) \ Elements(p[f]) : fat[c] = 0
<1> DEFINE F == ft_ptr
           first == IF start[F] = 0 THEN FreeClstr(fat) ELSE start[F]
           table == IF start[F] = 0 THEN NewClstr(fat, 0) ELSE fat
           q == fptr \div S
           f == fptr % S
           curr == Walk(first, q, table)
           n == Clstrs(f, count)
           w == Written(table, curr, n)
           k == 1 + (IF n <= 1 THEN 0 ELSE n - 1)
           pointer == Moved(Transferred(w, n, count))
           st1 == [start EXCEPT ![F] = first]
<1>1. /\ F # None /\ first # 0 /\ curr # End
      /\ start' = st1
      /\ fat' = w.fat
      /\ short' = (short \/ w.failed)
      /\ size' = [size EXCEPT ![F] = Max({size[F], pointer})]
      /\ lost' = lost
  BY Zenon DEF Write
<1>2. /\ fat \in Table /\ F \in File /\ start[F] \in Entry /\ fptr \in Nat
      /\ count \in Nat /\ start \in [File -> Entry \cup {Absent}] /\ short \in BOOLEAN
      /\ size \in [File -> 0..Word - 1]
  BY <1>1, Geometry DEF TypeOK, Table, Existing
<1>3. first \in Entry /\ table \in Table /\ st1 \in [File -> Entry \cup {Absent}]
  <2>1. 0 \in Entry
    BY Geometry
  <2>2. first \in Entry /\ table \in Table
    BY <1>2, <2>1, FreeClstrTyped, NewClstrTyped
  <2> HIDE DEF first
  <2> QED  BY <1>2, <2>2
<1>4. q \in Nat /\ f \in 0..S - 1 /\ fptr = S * q + f
  BY <1>2, Division
<1>5. p \in [File -> Seq(Entry)] /\ Len(p[F]) \in Nat
  BY <1>2, LenProperties DEF Laid
<1> HIDE DEF q, f, F
<1>6. curr \in Entry
  <2> HIDE DEF first, table
  <2>1. \A m \in Nat : Walk(first, m, table) \in Entry \cup {End}
    <3> TAKE m \in Nat
    <3>1. PICK at \in [0..m -> Entry \cup {End}] : Walk(first, m, table) = at[m]
      BY <1>3, WalkSteps
    <3> QED  BY <3>1
  <2> QED  BY <1>1, <1>4, <2>1
<1>7. n \in Nat /\ k \in Nat /\ f + count <= S * k
  BY <1>2, <1>4, Enough
<1>8. w \in Writing /\ Zeros(w.fat, table)
  <2> HIDE DEF n, curr, table
  <2>1. PICK v : Way(v, table, curr, n)
    BY <1>3, <1>6, <1>7, WrittenZeros
  <2>2. n \in 0..n
    BY <1>7
  <2> QED  BY <2>1, <2>2 DEF Way
<1>9. RoomyIn(w.fat) /\ RoomyIn(table)
  <2>1. RoomyIn(w.fat)
    <3> HIDE DEF w
    <3>1. RoomyIn(fat')
      BY DEF Roomy, RoomyIn, Free
    <3> QED  BY <1>1, <3>1
  <2> HIDE DEF w, table
  <2> QED  BY <1>8, <2>1, RoomBefore
<1>10. PICK p1 : Laid(p1, table, st1, lost) /\ Grown(p, p1, F, fat) /\ Zeros(table, fat)
  <2>1. CASE start[F] = 0
    <3>1. p[F] = <<>>
      BY <1>2, <2>1 DEF Laid
    <3>2. Free(fat) # {}
      BY <1>1, <1>2, <2>1, FreeClstrTyped
    <3>3. 0 \in Entry
      BY Geometry
    <3>4. Zeros(table, fat)
      BY <1>2, <2>1, <3>2, <3>3, NewClstrZeros
    <3>5. RoomyIn(fat)
      <4> HIDE DEF table
      <4> QED  BY <1>9, <3>4, RoomBefore
    <3>6. PICK x : /\ Laid(x, NewClstr(fat, LastOf(p[F])), Begun(start, F, p[F], FreeClstr(fat)), lost)
                   /\ Grown(p, x, F, fat)
      BY <1>2, <3>2, <3>5, Appended
    <3>7. LastOf(p[F]) = 0 /\ Begun(start, F, p[F], FreeClstr(fat)) = st1
      BY <2>1, <3>1 DEF LastOf, Begun
    <3>8. Laid(x, table, st1, lost)
      BY <2>1, <3>6, <3>7
    <3> QED  BY <3>4, <3>6, <3>8
  <2>2. CASE start[F] # 0
    <3>1. st1 = start
      BY <1>2, <2>2
    <3>2. Grown(p, p, F, fat)
      BY <1>5 DEF Grown
    <3>3. Zeros(table, fat)
      BY <2>2 DEF Zeros
    <3> QED  BY <2>2, <3>1, <3>2, <3>3
  <2> QED  BY <2>1, <2>2
<1> HIDE DEF first, table
<1>11. p1 \in [File -> Seq(Entry)] /\ p1[F] # <<>> /\ Path(p1[F], table) /\ p1[F][1] = first
  <2>1. st1[F] = first
    BY <1>2
  <2>2. st1[F] \notin {0, Absent}
    BY <1>1, <1>3, <2>1, Geometry DEF Absent
  <2> HIDE DEF st1
  <2> QED  BY <1>2, <1>10, <2>1, <2>2 DEF Laid
<1>12. q < Len(p1[F]) /\ curr = p1[F][q + 1]
  <2>1. Walk(p1[F][1], q, table) = IF q < Len(p1[F]) THEN p1[F][q + 1] ELSE End
    BY <1>3, <1>4, <1>11, WalkAlong
  <2> QED  BY <1>1, <1>11, <2>1
<1> HIDE DEF curr, n, st1
<1>13. PICK r : /\ Laid(r, w.fat, st1, lost) /\ Grown(p1, r, F, table)
                /\ ~w.failed => Len(r[F]) >= q + 1 + (IF n <= 1 THEN 0 ELSE n - 1)
  <2>1. w = Written(table, p1[F][q + 1], n)
    BY <1>12
  <2> HIDE DEF w
  <2> QED  BY <1>2, <1>3, <1>4, <1>7, <1>9, <1>10, <1>12, <2>1, WrittenGrows
<1> HIDE DEF w
<1>14. r \in [File -> Seq(Entry)] /\ Len(r[F]) \in Nat /\ w.fat \in Table /\ w.failed \in BOOLEAN
  BY <1>2, <1>8, <1>13, LenProperties DEF Laid, Writing
<1>15. Grown(p, r, F, fat)
  <2>1. \A c \in Elements(r[F]) : c \in Entry
    BY <1>2, <1>13, <1>14, Taken
  <2> QED  BY <1>2, <1>5, <1>10, <1>11, <1>13, <1>14, <2>1, GrownTwice
<1>16. \A g \in File : \A c \in Elements(r[g]) \ Elements(p[g]) : fat[c] = 0
  <2> TAKE g \in File
  <2>1. CASE g = F
    BY <1>15, <2>1 DEF Grown
  <2>2. CASE g # F
    <3>1. r[g] = p[g]
      BY <1>15, <2>2 DEF Grown
    <3> QED  BY <3>1
  <2> QED  BY <2>1, <2>2
<1>17. Covers(r, short', size', start')
  <2> SUFFICES ASSUME ~short', NEW g \in File, start'[g] # Absent
               PROVE  size'[g] <= S * Len(r[g])
    BY DEF Covers
  <2>1. ~short /\ ~w.failed
    BY <1>1, <1>2, <1>14
  <2>2. CASE g # F
    <3>1. r[g] = p[g] /\ size'[g] = size[g] /\ start'[g] = start[g]
      BY <1>1, <1>2, <1>15, <2>2 DEF Grown, st1
    <3> QED  BY <2>1, <3>1 DEF Covers
  <2>3. CASE g = F
    <3> DEFINE m == Len(r[F])  l == Len(p[F])  u == S * m
    <3>1. m \in Nat /\ l \in Nat /\ l <= m /\ q + k <= m
      BY <1>4, <1>5, <1>7, <1>13, <1>14, <1>15, <2>1 DEF Grown
    <3>2. start[F] # Absent
      BY <1>2, Geometry DEF Absent
    <3>3. size[F] <= S * l
      BY <1>2, <2>1, <3>2 DEF Covers
    <3> HIDE DEF m, l
    <3>4. S \in Nat
      BY Geometry
    <3>5. \A a, b, c \in Nat : b <= c => a * b \in Nat /\ a * c \in Nat /\ a * b <= a * c
      BY Z3
    <3>6. \A a, b, c \in Nat : a * (b + c) = a * b + a * c
      BY Z3
    <3>7. S * l \in Nat /\ u \in Nat /\ S * l <= u
      BY <3>1, <3>4, <3>5
    <3> HIDE DEF k
    <3>8. q + k \in Nat /\ S * (q + k) <= u /\ S * (q + k) = S * q + S * k
      <4>1. q \in Nat /\ k \in Nat /\ q + k \in Nat
        BY <1>4, <1>7
      <4> QED  BY <3>1, <3>4, <3>5, <3>6, <4>1
    <3>9. S * q \in Nat /\ S * k \in Nat
      BY <1>4, <1>7, <3>4, <3>5
    <3> DEFINE y == S * q  z == S * k  v == S * (q + k)  o == S * l
    <3>10. /\ y \in Nat /\ z \in Nat /\ v = y + z /\ v <= u /\ u \in Nat /\ fptr = y + f
           /\ f + count <= z /\ o \in Nat /\ o <= u /\ size[F] <= o
      BY <1>4, <1>7, <3>3, <3>7, <3>8, <3>9
    <3> HIDE DEF y, z, v, u, o
    <3>11. fptr + count <= u
      BY <1>2, <1>4, <3>10
    <3>12. pointer \in 0..Word - 1 /\ pointer <= fptr + count
      <4>1. Transferred(w, n, count) = count
        BY <2>1 DEF Transferred
      <4>2. fptr + count \in Int /\ fptr + count >= 0
        BY <1>2
      <4> QED  BY <4>1, <4>2, Unsigned DEF Moved
    <3> HIDE DEF pointer
    <3>13. size[F] \in Int /\ pointer \in Int
      BY <1>2, <3>12, Geometry
    <3>14. Max({size[F], pointer}) <= u
      <4>1. size[F] <= u
        BY <3>10, <3>13
      <4>2. pointer <= u
        BY <1>2, <3>10, <3>11, <3>12, <3>13
      <4> QED  BY <3>13, <4>1, <4>2, MaxOfTwo
    <3>15. size'[F] = Max({size[F], pointer})
      BY <1>1, <1>2
    <3> QED  BY <2>3, <3>14, <3>15 DEF u, m
  <2> QED  BY <2>2, <2>3
<1>18. Laid(r, fat', start', lost')
  BY <1>1, <1>13
<1> QED  BY <1>16, <1>17, <1>18

-----------------------------------------------------------------------------
(* The other steps. *)

(* A deletion clears the clusters of the file's path and of no other.       *)
LEMMA DeleteStep ==
    ASSUME TypeOK, NEW p, Laid(p, fat, start, lost), Covers(p, short, size, start),
           NEW f \in File, Delete(f)
    PROVE  \E r : /\ Laid(r, fat', start', lost') /\ Covers(r, short', size', start')
                  /\ \A g \in File : \A c \in Elements(r[g]) \ Elements(p[g]) : fat[c] = 0
<1> DEFINE r == [p EXCEPT ![f] = <<>>]
<1>1. /\ start[f] # Absent
      /\ fat' = IF start[f] > Root THEN Freed(start[f]) ELSE fat
      /\ start' = [start EXCEPT ![f] = Absent] /\ size' = [size EXCEPT ![f] = 0]
      /\ short' = short /\ lost' = lost
  BY DEF Delete, Existing
<1>2. fat \in Table /\ start \in [File -> Entry \cup {Absent}] /\ size \in [File -> 0..Word - 1]
  BY DEF TypeOK, Table
<1>3. p \in [File -> Seq(Entry)]
  BY DEF Laid
<1>4. <<>> \in Seq(Entry) /\ Elements(<<>>) = {} /\ Len(<<>>) = 0
  BY DEF Elements
<1>5. /\ r \in [File -> Seq(Entry)] /\ r[f] = <<>>
      /\ \A g \in File : g # f => r[g] = p[g]
  BY <1>3, <1>4
<1> HIDE DEF r
<1>6. \A g \in File : \A c \in Elements(p[g]) : c \in Entry /\ c > Root /\ fat[c] # 0
  BY <1>2, Taken
<1>7. \A b \in Entry : fat'[b] = IF b \in Elements(p[f]) THEN 0 ELSE fat[b]
  <2>1. CASE start[f] > Root
    <3>1. Chain(start[f], fat) = Elements(p[f])
      BY <1>1, <1>2, ChainOfFile
    <3>2. fat' = [b \in Entry |-> IF b \in Chain(start[f], fat) THEN 0 ELSE fat[b]]
      BY <1>1, <2>1 DEF Freed
    <3> QED  BY <3>1, <3>2
  <2>2. CASE ~(start[f] > Root)
    <3>1. p[f] = <<>>
      <4>1. SUFFICES ASSUME p[f] # <<>> PROVE FALSE
        OBVIOUS
      <4>2. Path(p[f], fat) /\ p[f][1] = start[f]
        BY <4>1 DEF Laid
      <4>3. 1 \in DOMAIN p[f]
        BY <4>2, PathLength
      <4>4. p[f][1] > Root
        BY <4>2, <4>3 DEF Path
      <4> QED  BY <2>2, <4>2, <4>4
    <3> QED  BY <1>1, <1>4, <2>2, <3>1
  <2> QED  BY <2>1, <2>2
<1>8. start'[f] = Absent /\ \A g \in File : g # f => start'[g] = start[g] /\ size'[g] = size[g]
  BY <1>1, <1>2
<1>9. \A g \in File : start'[g] \in {0, Absent} <=> r[g] = <<>>
  <2>1. \A g \in File : start[g] \in {0, Absent} <=> p[g] = <<>>
    BY DEF Laid
  <2> QED  BY <1>5, <1>8, <2>1
<1>10. \A g, h \in File : g # h => Elements(p[g]) \cap Elements(p[h]) = {}
  BY DEF Laid
<1>11. \A g \in File : r[g] # <<>> => Path(r[g], fat') /\ r[g][1] = start'[g]
  <2> SUFFICES ASSUME NEW g \in File, r[g] # <<>>
               PROVE  Path(r[g], fat') /\ r[g][1] = start'[g]
    OBVIOUS
  <2>1. g # f /\ r[g] = p[g] /\ start'[g] = start[g]
    BY <1>5, <1>8
  <2> DEFINE s == p[g]
  <2>2. Path(s, fat) /\ s[1] = start[g]
    BY <2>1 DEF Laid
  <2>3. \A k \in DOMAIN s : s[k] \in Elements(s)
    BY DEF Elements
  <2>4. \A k \in DOMAIN s : s[k] \in Entry /\ s[k] \notin Elements(p[f])
    BY <1>6, <1>10, <2>1, <2>3
  <2>5. \A k \in DOMAIN s : fat'[s[k]] = fat[s[k]]
    BY <1>7, <2>4
  <2> HIDE DEF s
  <2>6. Path(s, fat')
    BY <2>2, <2>5 DEF Path
  <2> QED  BY <2>1, <2>2, <2>6 DEF s
<1>12. \A g, h \in File : g # h => Elements(r[g]) \cap Elements(r[h]) = {}
  <2> TAKE g, h \in File
  <2> HAVE g # h
  <2>1. CASE g = f \/ h = f
    BY <1>4, <1>5, <2>1
  <2>2. CASE g # f /\ h # f
    BY <1>5, <1>10, <2>2
  <2> QED  BY <2>1, <2>2
<1>13. \A c \in Entry : fat'[c] # 0 =>
          c <= Root \/ c \in lost \/ \E g \in File : c \in Elements(r[g])
  <2> SUFFICES ASSUME NEW c \in Entry, fat'[c] # 0, ~(c <= Root), c \notin lost
               PROVE  \E g \in File : c \in Elements(r[g])
    OBVIOUS
  <2>1. c \notin Elements(p[f]) /\ fat[c] # 0
    BY <1>7
  <2>2. PICK g \in File : c \in Elements(p[g])
    BY <2>1 DEF Laid
  <2> QED  BY <1>5, <2>1, <2>2
<1>14. fat'[Root] # 0
  <2>1. Root \in Entry /\ ~(Root > Root) /\ fat[Root] # 0
    BY Geometry DEF Laid, Root
  <2> QED  BY <1>6, <1>7, <2>1
<1>18. \A c \in lost : c \in Entry /\ fat'[c] # 0
  BY <1>7 DEF Laid
<1>19. \A g \in File : Elements(r[g]) \cap lost = {}
  BY <1>4, <1>5 DEF Laid
<1>15. Laid(r, fat', start', lost')
  BY <1>1, <1>5, <1>9, <1>11, <1>12, <1>13, <1>14, <1>18, <1>19 DEF Laid
<1>16. Covers(r, short', size', start')
  <2> SUFFICES ASSUME ~short', NEW g \in File, start'[g] # Absent
               PROVE  size'[g] <= S * Len(r[g])
    BY DEF Covers
  <2>1. g # f /\ r[g] = p[g] /\ size'[g] = size[g] /\ start'[g] = start[g] /\ ~short
    BY <1>1, <1>5, <1>8
  <2> QED  BY <2>1 DEF Covers
<1>17. \A g \in File : Elements(r[g]) \subseteq Elements(p[g])
  BY <1>4, <1>5
<1> QED  BY <1>15, <1>16, <1>17

(* An open: the chain of the file opened before is nobody's if its entry    *)
(* was never told of it.                                                    *)
LEMMA OpenStep ==
    ASSUME TypeOK, NEW p, Laid(p, fat, start, lost), Covers(p, short, size, start),
           NEW f \in File, Open(f)
    PROVE  \E r : /\ Laid(r, fat', start', lost') /\ Covers(r, short', size', start')
                  /\ \A g \in File : \A c \in Elements(r[g]) \ Elements(p[g]) : fat[c] = 0
<1>1. fat' = fat /\ short' = short
  BY DEF Open
<1>2. CASE ft_ptr \notin far
  <2>1. start' = start /\ size' = size /\ lost' = lost
    BY <1>2 DEF Open
  <2>2. \A g \in File : Elements(p[g]) \ Elements(p[g]) = {}
    OBVIOUS
  <2> QED  BY <1>1, <2>1, <2>2
<1>3. CASE ft_ptr \in far
  <2> DEFINE F == ft_ptr
             r == [p EXCEPT ![F] = <<>>]
  <2>1. /\ start' = [start EXCEPT ![F] = 0] /\ size' = [size EXCEPT ![F] = 0]
        /\ lost' = lost \cup ChainOf(F)
    BY <1>3 DEF Open
  <2>2. /\ fat \in Table /\ F \in File /\ start[F] # Absent
        /\ start \in [File -> Entry \cup {Absent}] /\ size \in [File -> 0..Word - 1]
    BY <1>3 DEF TypeOK, Table, Existing
  <2>3. p \in [File -> Seq(Entry)]
    BY DEF Laid
  <2>4. <<>> \in Seq(Entry) /\ Elements(<<>>) = {} /\ Len(<<>>) = 0
    BY DEF Elements
  <2>5. /\ r \in [File -> Seq(Entry)] /\ r[F] = <<>>
        /\ \A g \in File : g # F => r[g] = p[g]
    BY <2>2, <2>3, <2>4
  <2>6. /\ start'[F] = 0 /\ size'[F] = 0
        /\ \A g \in File : g # F => start'[g] = start[g] /\ size'[g] = size[g]
    BY <2>1, <2>2
  <2>7. ChainOf(F) = Elements(p[F])
    <3>1. Chain(start[F], fat) = Elements(p[F])
      BY <2>2, ChainOfFile
    <3> QED  BY <3>1 DEF ChainOf
  <2> HIDE DEF r, F
  <2>8. \A c \in Elements(p[F]) : c \in Entry /\ c > Root /\ fat[c] # 0
    BY <2>2, Taken
  <2>9. \A g \in File : start'[g] \in {0, Absent} <=> r[g] = <<>>
    <3>1. \A g \in File : start[g] \in {0, Absent} <=> p[g] = <<>>
      BY DEF Laid
    <3> QED  BY <2>5, <2>6, <3>1
  <2>10. \A g \in File : r[g] # <<>> => Path(r[g], fat) /\ r[g][1] = start'[g]
    <3>1. \A g \in File : p[g] # <<>> => Path(p[g], fat) /\ p[g][1] = start[g]
      BY DEF Laid
    <3> QED  BY <2>5, <2>6, <3>1
  <2>11. \A g, h \in File : g # h => Elements(r[g]) \cap Elements(r[h]) = {}
    <3>1. \A g, h \in File : g # h => Elements(p[g]) \cap Elements(p[h]) = {}
      BY DEF Laid
    <3> QED  BY <2>4, <2>5, <3>1
  <2>12. \A c \in Entry : fat[c] # 0 =>
            c <= Root \/ c \in lost' \/ \E g \in File : c \in Elements(r[g])
    <3> SUFFICES ASSUME NEW c \in Entry, fat[c] # 0, ~(c <= Root), c \notin lost'
                 PROVE  \E g \in File : c \in Elements(r[g])
      OBVIOUS
    <3>1. c \notin lost /\ c \notin Elements(p[F])
      BY <2>1, <2>7
    <3>2. PICK g \in File : c \in Elements(p[g])
      BY <3>1 DEF Laid
    <3> QED  BY <2>5, <3>1, <3>2
  <2>13. \A c \in lost' : c \in Entry /\ fat[c] # 0
    BY <2>1, <2>7, <2>8 DEF Laid
  <2>14. \A g \in File : Elements(r[g]) \cap lost' = {}
    <3> TAKE g \in File
    <3>1. CASE g = F
      BY <2>4, <2>5, <3>1
    <3>2. CASE g # F
      <4>1. Elements(p[g]) \cap lost = {} /\ Elements(p[g]) \cap Elements(p[F]) = {}
        BY <2>2, <3>2 DEF Laid
      <4> QED  BY <2>1, <2>5, <2>7, <3>2, <4>1
    <3> QED  BY <3>1, <3>2
  <2>15. fat[Root] # 0
    BY DEF Laid
  <2>16. Laid(r, fat', start', lost')
    BY <1>1, <2>5, <2>9, <2>10, <2>11, <2>12, <2>13, <2>14, <2>15 DEF Laid
  <2>17. Covers(r, short', size', start')
    <3> SUFFICES ASSUME ~short', NEW g \in File, start'[g] # Absent
                 PROVE  size'[g] <= S * Len(r[g])
      BY DEF Covers
    <3>1. CASE g # F
      BY <1>1, <2>5, <2>6, <3>1 DEF Covers
    <3>2. CASE g = F
      <4>1. Len(r[g]) = 0 /\ S * 0 = 0
        BY <2>4, <2>5, <3>2, Geometry
      <4> QED  BY <2>6, <3>2, <4>1
    <3> QED  BY <3>1, <3>2
  <2>18. \A g \in File : Elements(r[g]) \subseteq Elements(p[g])
    BY <2>4, <2>5
  <2> QED  BY <2>16, <2>17, <2>18
<1> QED  BY <1>2, <1>3

(* Every step: the paths after it, and where they have grown.               *)
LEMMA Step ==
    ASSUME TypeOK, NEW p, Laid(p, fat, start, lost), Covers(p, short, size, start),
           [Next]_vars, Roomy'
    PROVE  \E r : /\ Laid(r, fat', start', lost') /\ Covers(r, short', size', start')
                  /\ \A f \in File : \A c \in Elements(r[f]) \ Elements(p[f]) : fat[c] = 0
<1> DEFINE Goal == \E r : /\ Laid(r, fat', start', lost') /\ Covers(r, short', size', start')
                          /\ \A f \in File : \A c \in Elements(r[f]) \ Elements(p[f]) : fat[c] = 0
<1>0. \A f \in File : \A c \in Elements(p[f]) \ Elements(p[f]) : fat[c] = 0
  OBVIOUS
<1> SUFFICES Goal
  OBVIOUS
<1> HIDE DEF Goal
<1>1. ASSUME NEW count \in 0..MaxCount, Write(count) PROVE Goal
  BY <1>1, WriteStep DEF Goal
<1>2. ASSUME NEW count \in 0..MaxCount, WriteOutside(count) PROVE Goal
  <2>1. fat' = fat /\ start' = start /\ short' = TRUE /\ lost' = lost
    BY <1>2 DEF WriteOutside
  <2>2. Laid(p, fat', start', lost') /\ Covers(p, short', size', start')
    BY <2>1 DEF Covers
  <2> QED  BY <1>0, <2>2 DEF Goal
<1>3. CASE WriteNothing
  <2>1. fat' = fat /\ start' = start /\ short' = TRUE /\ lost' = lost
    BY <1>3 DEF WriteNothing
  <2>2. Laid(p, fat', start', lost') /\ Covers(p, short', size', start')
    BY <2>1 DEF Covers
  <2> QED  BY <1>0, <2>2 DEF Goal
<1>4. ASSUME NEW to \in 0..End * S, Move(to) PROVE Goal
  <2>1. fat' = fat /\ start' = start /\ short' = short /\ size' = size /\ lost' = lost
    BY <1>4 DEF Move
  <2> QED  BY <1>0, <2>1 DEF Goal
<1>5. ASSUME NEW f \in File, Open(f) PROVE Goal
  BY <1>5, OpenStep DEF Goal
<1>6. ASSUME NEW f \in File, Create(f) PROVE Goal
  <2>1. /\ fat' = fat /\ short' = short /\ lost' = lost /\ start[f] = Absent
        /\ start' = [start EXCEPT ![f] = 0] /\ size' = [size EXCEPT ![f] = 0]
    BY <1>6 DEF Create, Existing
  <2>2. start \in [File -> Entry \cup {Absent}] /\ size \in [File -> 0..Word - 1]
    BY DEF TypeOK
  <2>3. /\ start'[f] = 0 /\ size'[f] = 0
        /\ \A g \in File : g # f => start'[g] = start[g] /\ size'[g] = size[g]
    BY <2>1, <2>2
  <2>4. p[f] = <<>>
    BY <2>1 DEF Laid
  <2>5. \A g \in File : start'[g] \in {0, Absent} <=> p[g] = <<>>
    <3>1. \A g \in File : start[g] \in {0, Absent} <=> p[g] = <<>>
      BY DEF Laid
    <3> QED  BY <2>3, <2>4, <3>1
  <2>6. \A g \in File : p[g] # <<>> => Path(p[g], fat) /\ p[g][1] = start'[g]
    <3>1. \A g \in File : p[g] # <<>> => Path(p[g], fat) /\ p[g][1] = start[g]
      BY DEF Laid
    <3> QED  BY <2>3, <2>4, <3>1
  <2>7. Laid(p, fat', start', lost')
    BY <2>1, <2>5, <2>6 DEF Laid
  <2>8. Covers(p, short', size', start')
    <3> SUFFICES ASSUME ~short', NEW g \in File, start'[g] # Absent
                 PROVE  size'[g] <= S * Len(p[g])
      BY DEF Covers
    <3>1. CASE g # f
      BY <2>1, <2>3, <3>1 DEF Covers
    <3>2. CASE g = f
      <4>1. Len(p[g]) = 0 /\ S * 0 = 0
        BY <2>4, <3>2, Geometry
      <4> QED  BY <2>3, <3>2, <4>1
    <3> QED  BY <3>1, <3>2
  <2> QED  BY <1>0, <2>7, <2>8 DEF Goal
<1>7. ASSUME NEW f \in File, Delete(f) PROVE Goal
  BY <1>7, DeleteStep DEF Goal
<1>8. CASE UNCHANGED vars
  <2>1. fat' = fat /\ start' = start /\ short' = short /\ size' = size /\ lost' = lost
    BY <1>8 DEF vars
  <2> QED  BY <1>0, <2>1 DEF Goal
<1> QED  BY <1>1, <1>2, <1>3, <1>4, <1>5, <1>6, <1>7, <1>8 DEF Next

(* At first no file has a path.                                             *)
LEMMA Initially ==
    ASSUME Init
    PROVE  IInv
<1> DEFINE p == [f \in File |-> <<>>]
<1>1. /\ Entry = 0..End - 1 /\ 0 \in Entry /\ 0 \in 0..Word - 1 /\ Root \in Entry /\ End # 0
  BY Geometry
<1>2. TypeOK
  BY <1>1 DEF Init, TypeOK
<1>3. <<>> \in Seq(Entry) /\ Elements(<<>>) = {}
  BY DEF Elements
<1>4. p \in [File -> Seq(Entry)] /\ \A f \in File : p[f] = <<>>
  BY <1>3
<1> HIDE DEF p
<1>5. \A f \in File : start[f] = Absent
  BY DEF Init
<1>6. /\ \A c \in Entry : fat[c] # 0 => c <= Root
      /\ fat[Root] # 0
  BY <1>1 DEF Init, Root
<1>7. Laid(p, fat, start, lost)
  BY <1>3, <1>4, <1>5, <1>6 DEF Laid, Init
<1>8. Covers(p, short, size, start)
  BY <1>5 DEF Covers
<1> QED  BY <1>2, <1>7, <1>8 DEF IInv

-----------------------------------------------------------------------------
(* The results. *)

(* The invariant: types, and a path for every file.                         *)
THEOREM Invariant == Spec /\ []Roomy => []IInv
<1>1. Init => IInv
  BY Initially
<1>2. IInv /\ [Next]_vars /\ Roomy' => IInv'
  <2> SUFFICES ASSUME IInv, [Next]_vars, Roomy' PROVE IInv'
    OBVIOUS
  <2>1. TypeOK
    BY DEF IInv
  <2>2. TypeOK'
    BY <2>1, TypeStep
  <2>3. PICK p : Laid(p, fat, start, lost) /\ Covers(p, short, size, start)
    BY DEF IInv
  <2>4. \E r : Laid(r, fat', start', lost') /\ Covers(r, short', size', start')
    BY <2>1, <2>3, Step
  <2>5. (\E r : Laid(r, fat, start, lost) /\ Covers(r, short, size, start))'
    BY <2>4
  <2> QED  BY <2>2, <2>5 DEF IInv
<1> QED  BY <1>1, <1>2, PTL DEF Spec

(* No two files share a cluster, none has one of the root directory, and    *)
(* every chain ends: new_clstr, fwrite and the deletion of filesystem.cpp   *)
(* keep the table so, for every disk and any number of files.               *)
THEOREM FilesLieApart == Spec /\ []Roomy => []ChainsApart
<1>1. IInv => ChainsApart
  BY Consequences
<1> QED  BY <1>1, Invariant, PTL

(* Deletions and writes that end early lose no cluster.                     *)
THEOREM NothingIsLost == Spec /\ []Roomy => []NoneLost
<1>1. IInv => NoneLost
  BY Consequences
<1> QED  BY <1>1, Invariant, PTL

(* The clusters of a file hold its size until a write has met a full disk   *)
(* or begun behind the last cluster: fwrite's count of clusters is enough.  *)
THEOREM SizesAreCovered == Spec /\ []Roomy => []Covered
<1>1. IInv => Covered
  BY Consequences
<1> QED  BY <1>1, Invariant, PTL

(* A cluster that joins a file was free.                                    *)
THEOREM TakesOnlyFree == Spec /\ []Roomy => AllocatesFree
<1> DEFINE Joins == \A f \in File : start[f] \in Entry /\ start'[f] \in Entry =>
                       \A c \in Chain(start'[f], fat') \ ChainOf(f) : fat[c] = 0
<1>1. IInv /\ [Next]_vars /\ Roomy' => Joins
  <2> SUFFICES ASSUME IInv, [Next]_vars, Roomy',
                      NEW f \in File, start[f] \in Entry, start'[f] \in Entry,
                      NEW c \in Chain(start'[f], fat') \ ChainOf(f)
               PROVE  fat[c] = 0
    OBVIOUS
  <2>1. TypeOK /\ TypeOK'
    BY TypeStep DEF IInv
  <2>2. fat \in Table /\ fat' \in Table
    BY <2>1 DEF TypeOK, Table
  <2>3. PICK p : Laid(p, fat, start, lost) /\ Covers(p, short, size, start)
    BY DEF IInv
  <2>4. PICK r : /\ Laid(r, fat', start', lost')
                 /\ \A g \in File : \A b \in Elements(r[g]) \ Elements(p[g]) : fat[b] = 0
    BY <2>1, <2>3, Step
  <2>5. start[f] # Absent /\ start'[f] # Absent
    BY Geometry DEF Absent
  <2>6. ChainOf(f) = Elements(p[f])
    <3>1. Chain(start[f], fat) = Elements(p[f])
      BY <2>2, <2>3, <2>5, ChainOfFile, Zenon
    <3> QED  BY <3>1 DEF ChainOf
  <2>7. Chain(start'[f], fat') = Elements(r[f])
    <3> DEFINE t == fat'  st == start'  l == lost'
    <3>1. t \in Table /\ Laid(r, t, st, l) /\ st[f] # Absent
      BY <2>2, <2>4, <2>5
    <3> HIDE DEF t, st, l
    <3>2. Chain(st[f], t) = Elements(r[f])
      BY <3>1, ChainOfFile
    <3> QED  BY <3>2 DEF t, st
  <2> QED  BY <2>4, <2>6, <2>7
<1>2. IInv /\ [Next]_vars /\ Roomy' => [Joins]_vars
  BY <1>1
<1> QED  BY <1>2, Invariant, PTL DEF Spec, AllocatesFree

(* On a disk whose table is one sector new_clstr counts right, and all of   *)
(* this holds without a condition.                                          *)
THEOREM OneSectorIsEnough ==
    ASSUME FatSectors = 1
    PROVE  Spec => [](ChainsApart /\ NoneLost /\ Covered) /\ AllocatesFree
<1>1. Roomy
  BY DEF Roomy, RoomyIn
<1> QED  BY <1>1, FilesLieApart, NothingIsLost, SizesAreCovered, TakesOnlyFree, PTL
==============================================================================
