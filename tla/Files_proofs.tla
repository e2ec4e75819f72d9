------------------------------ MODULE Files_proofs ------------------------------
(***************************************************************************)
(* Descriptors of open files stay distinct and reach their own file or     *)
(* none, for any word size of the form 6w + 4, any number of files, and    *)
(* any number of opens that does not make a generator wrap around.         *)
(***************************************************************************)
EXTENDS Files, SequenceTheorems, WellFoundedInduction, TLAPS

-----------------------------------------------------------------------------
(* Numbers. *)

(* Min picks a member of every nonempty set of naturals.                    *)
LEMMA MinMember ==
    ASSUME NEW T, T \subseteq Nat, T # {}
    PROVE  Min(T) \in T
<1>1. PICK x \in T : \A y \in T : <<y, x>> \notin OpToRel(<, Nat)
  BY WFMin, NatLessThanWellFounded, Zenon
<1>2. \A y \in T : x <= y
  <2>1. SUFFICES ASSUME NEW y \in T PROVE ~(y < x)
    BY SMT
  <2>2. y \in Nat /\ x \in Nat /\ <<y, x>> \notin {ss \in Nat \X Nat : ss[1] < ss[2]}
    BY <1>1 DEF OpToRel
  <2> QED  BY <2>2
<1> QED  BY <1>1, <1>2 DEF Min

(* Max of two numbers is one of them.                                       *)
LEMMA MaxOfTwo ==
    ASSUME NEW a \in Int, NEW b \in Int
    PROVE  Max({a, b}) \in {a, b}
<1>1. \E x \in {a, b} : \A y \in {a, b} : x >= y
  OBVIOUS
<1> QED  BY <1>1 DEF Max

(* A word is positive, and so are two.                                      *)
LEMMA Words == Word \in Nat /\ Word >= 4 /\ Word * Word \in Nat /\ Word * Word > 0
<1>1. Word \in Nat /\ Word >= 4
  BY FilesAssumption
<1>2. Word * Word \in Nat /\ Word * Word > 0
  BY <1>1
<1> QED  BY <1>1, <1>2

(* An unsigned int stays in its two words, and is itself if it fits.        *)
LEMMA Unsigned ==
    ASSUME NEW n \in Int
    PROVE  U(n) \in 0..Word * Word - 1 /\ (n \in 0..Word * Word - 1 => U(n) = n)
<1> DEFINE W2 == Word * Word
<1>1. W2 \in Nat /\ W2 > 0
  BY Words
<1>2. n % W2 \in 0..W2 - 1 /\ (n \in 0..W2 - 1 => n % W2 = n)
  <2> HIDE DEF W2
  <2> QED  BY <1>1, Z3
<1> QED  BY <1>2 DEF U

(* The two halves of an unsigned int.                                       *)
LEMMA Halves ==
    ASSUME NEW a \in Nat, a < Word, NEW h \in Nat
    PROVE  /\ (a + Word * h) % Word = a
           /\ (a + Word * h) \div Word = h
<1> DEFINE n == a + Word * h
           q == n \div Word
<1>1. Word \in Nat /\ Word > 0
  BY Words
<1>2. n \in Nat
  BY <1>1
<1>3. q \in Nat /\ n = (Word * q) + (n % Word) /\ n % Word \in 0..Word - 1
  <2> HIDE DEF n
  <2> QED  BY <1>1, <1>2, Z3
<1>4. q = h
  <2>1. CASE q > h
    <3>1. Word * q >= Word * (h + 1)
      <4>1. q >= h + 1 /\ q \in Nat
        BY <2>1, <1>3
      <4> HIDE DEF q
      <4> QED  BY <4>1, <1>1
    <3> QED  BY <3>1, <1>1, <1>3
  <2>2. CASE q < h
    <3>1. Word * h >= Word * (q + 1)
      <4>1. h >= q + 1 /\ q \in Nat
        BY <2>2, <1>3
      <4> HIDE DEF q
      <4> QED  BY <4>1, <1>1
    <3> QED  BY <3>1, <1>1, <1>3
  <2> QED  BY <2>1, <2>2, <1>3
<1>5. n % Word = a
  <2>1. n = (Word * h) + (n % Word) /\ n = a + Word * h
    BY <1>3, <1>4
  <2>2. Word * h \in Int /\ n % Word \in Int
    BY <1>1, <1>3
  <2>3. \A x, r \in Int : a + x = x + r => r = a
    OBVIOUS
  <2> HIDE DEF n, q
  <2>4. a + (Word * h) = (Word * h) + (n % Word)
    BY <2>1
  <2> QED  BY <2>2, <2>3, <2>4
<1> QED  BY <1>4, <1>5

(* As 6 divides Word - 4, it is the lower half and the upper half's          *)
(* remainder by 3 that decide the remainder by 6.                           *)
LEMMA RemainderBySix ==
    ASSUME NEW a \in Nat, NEW h \in Nat, h % 3 = 0
    PROVE  (a + Word * h) % 6 = a % 6
<1>1. PICK w \in Nat : Word = 6 * w + 4
  <2>1. Word = 6 * (Word \div 6) + 4 /\ Word \div 6 \in Nat
    BY FilesAssumption, Z3
  <2> QED  BY <2>1
<1>2. PICK k \in Nat : h = 3 * k
  <2>1. h = 3 * (h \div 3) /\ h \div 3 \in Nat
    BY Z3
  <2> QED  BY <2>1
<1>3. PICK m \in Nat : Word * h = 6 * m
  <2>1. (6 * w + 4) * (3 * k) = 6 * (3 * (w * k) + 2 * k)
    OBVIOUS
  <2>2. 3 * (w * k) + 2 * k \in Nat
    OBVIOUS
  <2> QED  BY <1>1, <1>2, <2>1, <2>2
<1>4. (a + 6 * m) % 6 = a % 6
  BY Z3
<1> QED  BY <1>3, <1>4
-----------------------------------------------------------------------------
(* The generators. *)

(* Each generator counts in its own residues, advances at most 6 for every  *)
(* file opened, and never has an upper half of its own.                     *)
Counted ==
    /\ generators[3] = 0
    /\ generators[0] + generators[1] + generators[2] <= 6 * Len(entries)
    /\ generators[0] % 2 = 0 /\ generators[1] % 3 = 0 /\ generators[2] % 6 = 0

(* A descriptor tells by its remainder which generator made it, and that    *)
(* generator has not got past it.  0 and -1 come from an invalid mode.      *)
Issued(fid) ==
    \/ fid \in {0, -1}
    \/ fid % 6 \in {2, 4} /\ fid <= Generator("R")
    \/ fid % 6 = 3 /\ fid <= Generator("W")
    \/ fid % 6 = 0 /\ fid <= Generator("RW")

Residues(mode) == CASE mode = "R" -> {2, 4} [] mode = "W" -> {3} [] mode = "RW" -> {0}

(* Cells are in range and differ for different modes.                       *)
LEMMA Cells ==
    /\ Cell("R") = 0 /\ Cell("W") = 1 /\ Cell("RW") = 2
    /\ Residues("R") = {2, 4} /\ Residues("W") = {3} /\ Residues("RW") = {0}
BY DEF Cell, Residues

(* A generator with room for one more step is far from the end of two words.*)
LEMMA NoCarry ==
    ASSUME NEW a \in Nat, NEW h \in Nat, a + h + 6 < Word
    PROVE  (a + Word * h) \in Nat /\ (a + Word * h) + 6 \in 0..Word * Word - 1
<1>1. Word \in Nat /\ Word > 0
  BY Words
<1>2. PICK b \in Nat : Word = h + 1 + b /\ a + 6 < Word
  <2>1. Word = h + 1 + (Word - h - 1) /\ Word - h - 1 \in Nat /\ a + 6 < Word
    BY <1>1
  <2> QED  BY <2>1
<1>3. Word * Word = Word * h + Word + Word * b /\ Word * b \in Nat /\ Word * h \in Nat
  BY <1>1, <1>2
<1> DEFINE x == Word * h  y == Word * b  z == Word * Word
<1>4. x \in Nat /\ y \in Nat /\ z = x + Word + y
  BY <1>3
<1>5. a + x \in Nat /\ a + x + 6 \in 0..z - 1
  <2> HIDE DEF x, y, z
  <2> QED  BY <1>4, <1>2, <1>1
<1> QED  BY <1>5

(* One step of a generator: the value handed out is the generator plus at   *)
(* most 6, only the lower half moves, and the remainder is the mode's.      *)
LEMMA OneStep ==
    ASSUME TypeOK, Counted, Len(entries) < MaxOpens, NEW mode \in Mode
    PROVE  \E d \in 2..6 :
              /\ NextFid(mode) = Generator(mode) + d
              /\ NextFid(mode) \in 0..Word * Word - 1
              /\ NextFid(mode) % Word = generators[Cell(mode)] + d
              /\ NextFid(mode) \div Word = generators[Cell(mode) + 1]
              /\ NextFid(mode) % 6 \in Residues(mode)
              /\ mode = "R" => (generators[0] + d) % 2 = 0
              /\ mode = "W" => (generators[1] + d) % 3 = 0
              /\ mode = "RW" => (generators[2] + d) % 6 = 0
<1> DEFINE a == generators[Cell(mode)]
           h == generators[Cell(mode) + 1]
           g == a + Word * h
<1>1. \A i \in 0..3 : generators[i] \in Nat
  BY Words DEF TypeOK
<1>2. Len(entries) \in Nat /\ MaxOpens \in Nat /\ Word \in Nat /\ 6 * MaxOpens < Word
  BY FilesAssumption, LenProperties DEF TypeOK
<1>3. /\ a \in Nat /\ h \in Nat /\ a + h + 6 < Word /\ h % 3 = 0
      /\ mode = "R" => a % 2 = 0
      /\ mode = "W" => a % 3 = 0
      /\ mode = "RW" => a % 6 = 0
  <2>1. /\ mode = "R" => a = generators[0] /\ h = generators[1]
        /\ mode = "W" => a = generators[1] /\ h = generators[2]
        /\ mode = "RW" => a = generators[2] /\ h = generators[3]
    BY Cells
  <2> HIDE DEF a, h
  <2>2. generators[0] + generators[1] + generators[2] + 6 < Word
    BY <1>1, <1>2 DEF Counted
  <2>3. /\ generators[3] = 0 /\ generators[3] % 3 = 0 /\ generators[2] % 3 = 0
        /\ generators[0] % 2 = 0 /\ generators[1] % 3 = 0 /\ generators[2] % 6 = 0
    BY <1>1, Z3 DEF Counted
  <2>4. generators[0] \in Nat /\ generators[1] \in Nat /\ generators[2] \in Nat
    BY <1>1
  <2>5. mode = "R" \/ mode = "W" \/ mode = "RW"
    BY DEF Mode
  <2>6. CASE mode = "R"
    BY <2>6, <1>2, <2>1, <2>2, <2>3, <2>4
  <2>7. CASE mode = "W"
    BY <2>7, <1>2, <2>1, <2>2, <2>3, <2>4
  <2>8. CASE mode = "RW"
    <3>1. a = generators[2] /\ h = 0 /\ generators[2] + 6 < Word
      BY <2>8, <1>2, <2>1, <2>2, <2>3, <2>4
    <3>2. h % 3 = 0
      BY <3>1, Z3
    <3> QED  BY <3>1, <3>2, <2>8, <2>3, <2>4, <1>2
  <2> QED  BY <2>5, <2>6, <2>7, <2>8
<1>4. g = Generator(mode)
  BY DEF Generator
<1>5. g \in Nat /\ g + 6 \in 0..Word * Word - 1
  BY <1>3, NoCarry
<1>6. ASSUME NEW d \in 0..6
      PROVE  /\ U(g + d) = g + d /\ g + d \in 0..Word * Word - 1
             /\ (g + d) % Word = a + d /\ (g + d) \div Word = h
             /\ (g + d) % 6 = (a + d) % 6
  <2> HIDE DEF a, h
  <2>1. Word * Word \in Nat
    BY Words
  <2>2. g + d \in 0..Word * Word - 1
    <3> DEFINE z == Word * Word
    <3>1. g \in Nat /\ g + 6 \in 0..z - 1 /\ z \in Nat
      BY <1>5, <2>1
    <3> HIDE DEF g, z
    <3>2. g + d \in 0..z - 1
      BY <3>1
    <3> QED  BY <3>2 DEF z
  <2>3. g + d = (a + d) + Word * h
    <3> DEFINE y == Word * h
    <3>1. y \in Nat
      BY <1>2, <1>3
    <3> HIDE DEF y
    <3>2. a + y + d = a + d + y
      BY <3>1, <1>3
    <3> QED  BY <3>2 DEF y
  <2>4. a + d \in Nat /\ a + d < Word
    BY <1>3, <1>2
  <2>5. U(g + d) = g + d
    <3>1. g + d \in Int
      BY <1>5
    <3> QED  BY <3>1, <2>2, Unsigned
  <2> QED  BY <2>2, <2>3, <2>4, <2>5, <1>3, Halves, RemainderBySix
<1>7. \E d \in 2..6 :
         /\ NextFid(mode) = g + d
         /\ (a + d) % 6 \in Residues(mode)
         /\ mode = "R" => (a + d) % 2 = 0
         /\ mode = "W" => (a + d) % 3 = 0
         /\ mode = "RW" => (a + d) % 6 = 0
  <2>0. /\ U(g + 2) = g + 2 /\ U(g + 3) = g + 3 /\ U(g + 4) = g + 4 /\ U(g + 6) = g + 6
        /\ (g + 2) % 6 = (a + 2) % 6 /\ (g + 3) % 6 = (a + 3) % 6
        /\ g \in Nat /\ a \in Nat
    BY <1>6, <1>5, <1>3
  <2>1. CASE mode = "R"
    <3>1. NextFid(mode) = IF (g + 2) % 3 = 0 THEN g + 4 ELSE g + 2
      BY <2>1, <2>0, <1>4 DEF NextFid
    <3> HIDE DEF g, a, h
    <3>2. a % 2 = 0
      BY <2>1, <1>3
    <3>3. CASE (g + 2) % 3 = 0
      <4>1. (a + 4) % 6 \in {2, 4} /\ (a + 4) % 2 = 0
        BY <3>3, <3>2, <2>0, Z3
      <4> QED  BY <4>1, <3>1, <3>3, <2>1, Cells
    <3>4. CASE (g + 2) % 3 # 0
      <4>1. (a + 2) % 6 \in {2, 4} /\ (a + 2) % 2 = 0
        BY <3>4, <3>2, <2>0, Z3
      <4> QED  BY <4>1, <3>1, <3>4, <2>1, Cells
    <3> QED  BY <3>3, <3>4
  <2>2. CASE mode = "W"
    <3>1. NextFid(mode) = IF (g + 3) % 2 = 0 THEN g + 6 ELSE g + 3
      BY <2>2, <2>0, <1>4 DEF NextFid
    <3> HIDE DEF g, a, h
    <3>2. a % 3 = 0
      BY <2>2, <1>3
    <3>3. CASE (g + 3) % 2 = 0
      <4>1. (a + 6) % 6 = 3 /\ (a + 6) % 3 = 0
        BY <3>3, <3>2, <2>0, Z3
      <4> QED  BY <4>1, <3>1, <3>3, <2>2, Cells
    <3>4. CASE (g + 3) % 2 # 0
      <4>1. (a + 3) % 6 = 3 /\ (a + 3) % 3 = 0
        BY <3>4, <3>2, <2>0, Z3
      <4> QED  BY <4>1, <3>1, <3>4, <2>2, Cells
    <3> QED  BY <3>3, <3>4
  <2>3. CASE mode = "RW"
    <3>1. NextFid(mode) = g + 6
      BY <2>3, <2>0, <1>4 DEF NextFid
    <3> HIDE DEF g, a, h
    <3>2. (a + 6) % 6 = 0
      BY <2>3, <1>3, <2>0, Z3
    <3> QED  BY <3>1, <3>2, <2>3, Cells
  <2> QED  BY <2>1, <2>2, <2>3 DEF Mode
<1>8. PICK d \in 2..6 :
         /\ NextFid(mode) = g + d
         /\ (a + d) % 6 \in Residues(mode)
         /\ mode = "R" => (a + d) % 2 = 0
         /\ mode = "W" => (a + d) % 3 = 0
         /\ mode = "RW" => (a + d) % 6 = 0
  BY <1>7
<1>9. /\ g + d \in 0..Word * Word - 1
      /\ (g + d) % Word = a + d /\ (g + d) \div Word = h
      /\ (g + d) % 6 = (a + d) % 6
  <2>1. d \in 0..6
    OBVIOUS
  <2> HIDE DEF g, a, h
  <2> QED  BY <1>6, <2>1, Zenon
<1>10. /\ mode = "R" => generators[0] = a
       /\ mode = "W" => generators[1] = a
       /\ mode = "RW" => generators[2] = a
  BY Cells
<1> HIDE DEF g
<1>11. /\ NextFid(mode) = Generator(mode) + d
       /\ NextFid(mode) \in 0..Word * Word - 1
       /\ NextFid(mode) % Word = generators[Cell(mode)] + d
       /\ NextFid(mode) \div Word = generators[Cell(mode) + 1]
       /\ NextFid(mode) % 6 \in Residues(mode)
       /\ mode = "R" => (generators[0] + d) % 2 = 0
       /\ mode = "W" => (generators[1] + d) % 3 = 0
       /\ mode = "RW" => (generators[2] + d) % 6 = 0
  BY <1>4, <1>8, <1>9, <1>10
<1> QED  BY <1>11
(* The larger cells make the larger generator.                              *)
LEMMA GeneratorGrows ==
    ASSUME NEW a \in Nat, NEW b \in Nat, a <= b, NEW h \in Nat, NEW k \in Nat, h <= k
    PROVE  a + Word * h \in Nat /\ a + Word * h <= b + Word * k
<1>1. Word \in Nat
  BY Words
<1>2. PICK e \in Nat : k = h + e
  <2>1. k = h + (k - h) /\ k - h \in Nat
    OBVIOUS
  <2> QED  BY <2>1
<1>3. Word * k = Word * h + Word * e /\ Word * h \in Nat /\ Word * e \in Nat
  BY <1>1, <1>2
<1> DEFINE x == Word * h  y == Word * e  z == Word * k
<1>4. z = x + y /\ x \in Nat /\ y \in Nat
  BY <1>3
<1>5. a + x \in Nat /\ a + x <= b + z
  <2> HIDE DEF x, y, z
  <2> QED  BY <1>4
<1> QED  BY <1>5

(* A descriptor made by one step of a generator is no descriptor made       *)
(* before, and is issued from then on, as those before are.                 *)
LEMMA Generated ==
    ASSUME TypeOK, Counted, Len(entries) < MaxOpens, NEW mode \in Mode, Generate(mode),
           Len(entries') = Len(entries) + 1
    PROVE  /\ generators' \in [0..3 -> 0..Word - 1]
           /\ Counted'
           /\ NextFid(mode) \in 1..Word * Word - 1
           /\ \A fid \in Int : Issued(fid) => Issued(fid)' /\ fid # NextFid(mode)
           /\ \A fid \in Int : fid = NextFid(mode) => Issued(fid)'
<1>1. PICK d \in 2..6 :
         /\ NextFid(mode) = Generator(mode) + d
         /\ NextFid(mode) \in 0..Word * Word - 1
         /\ NextFid(mode) % Word = generators[Cell(mode)] + d
         /\ NextFid(mode) \div Word = generators[Cell(mode) + 1]
         /\ NextFid(mode) % 6 \in Residues(mode)
         /\ mode = "R" => (generators[0] + d) % 2 = 0
         /\ mode = "W" => (generators[1] + d) % 3 = 0
         /\ mode = "RW" => (generators[2] + d) % 6 = 0
  BY OneStep, Zenon
<1> DEFINE c == Cell(mode)
<1>2. c \in {0, 1, 2} /\ (mode = "R" <=> c = 0) /\ (mode = "W" <=> c = 1) /\ (mode = "RW" <=> c = 2)
  BY Cells DEF Mode
<1>3. generators' = [generators EXCEPT ![c] = generators[c] + d,
                                      ![c + 1] = generators[c + 1]]
  BY <1>1 DEF Generate
<1>4. generators \in [0..3 -> 0..Word - 1]
  BY DEF TypeOK
<1>5. \A i \in 0..3 : generators[i] \in Nat
  BY <1>4, Words
<1> HIDE DEF c
<1>6. \A i \in 0..3 : generators'[i] = IF i = c THEN generators[i] + d ELSE generators[i]
  BY <1>2, <1>3, <1>4
<1>7. Len(entries) \in Nat /\ MaxOpens \in Nat /\ Word \in Nat /\ 6 * MaxOpens < Word
  BY FilesAssumption, LenProperties DEF TypeOK
<1>8. generators[0] + generators[1] + generators[2] + 6 < Word
  BY <1>5, <1>7 DEF Counted
<1>9. /\ generators[0] \in Nat /\ generators[1] \in Nat
      /\ generators[2] \in Nat /\ generators[3] \in Nat
  BY <1>5
<1>10. generators' \in [0..3 -> 0..Word - 1]
  <2>1. \A i \in {0, 1, 2} : generators[i] + d \in 0..Word - 1
    <3>1. \A x, y, z \in Nat : x + y + z + 6 < Word =>
             x + d \in 0..Word - 1 /\ y + d \in 0..Word - 1 /\ z + d \in 0..Word - 1
      BY <1>7
    <3>2. /\ generators[0] + d \in 0..Word - 1
          /\ generators[1] + d \in 0..Word - 1
          /\ generators[2] + d \in 0..Word - 1
      BY <3>1, <1>8, <1>9
    <3> QED  BY <3>2
  <2>2. generators' \in [0..3 -> 0..Word - 1]
    BY <2>1, <1>2, <1>3, <1>4
  <2> QED  BY <2>2
<1>11. /\ generators'[0] = IF c = 0 THEN generators[0] + d ELSE generators[0]
       /\ generators'[1] = IF c = 1 THEN generators[1] + d ELSE generators[1]
       /\ generators'[2] = IF c = 2 THEN generators[2] + d ELSE generators[2]
       /\ generators'[3] = generators[3]
  BY <1>6, <1>2
<1>12. Counted'
  <2>1. generators'[3] = 0
    BY <1>11 DEF Counted
  <2>2. generators'[0] + generators'[1] + generators'[2] <= 6 * Len(entries')
    <3>1. generators'[0] + generators'[1] + generators'[2]
             = generators[0] + generators[1] + generators[2] + d
      <4>1. \A x, y, z \in Nat : /\ (x + d) + y + z = x + y + z + d
                                /\ x + (y + d) + z = x + y + z + d
        OBVIOUS
      <4>2. CASE c = 0
        BY <4>1, <4>2, <1>9, <1>11
      <4>3. CASE c = 1
        BY <4>1, <4>3, <1>9, <1>11
      <4>4. CASE c = 2
        BY <4>4, <1>9, <1>11
      <4> QED  BY <4>2, <4>3, <4>4, <1>2
    <3>2. generators[0] + generators[1] + generators[2] <= 6 * Len(entries)
      BY DEF Counted
    <3> QED  BY <3>1, <3>2, <1>7, <1>9
  <2>3. generators'[0] % 2 = 0 /\ generators'[1] % 3 = 0 /\ generators'[2] % 6 = 0
    BY <1>1, <1>2, <1>11 DEF Counted
  <2> QED  BY <2>1, <2>2, <2>3 DEF Counted
<1>13. \A m \in Mode :
          Generator(m) \in Nat /\ Generator(m)' \in Nat /\ Generator(m) <= Generator(m)'
  <2>1. \A i \in 0..3 : generators[i] \in Nat /\ generators'[i] \in Nat /\ generators[i] <= generators'[i]
    BY <1>5, <1>6
  <2>2. ASSUME NEW i \in {0, 1, 2}
        PROVE  /\ generators[i] + Word * generators[i + 1] \in Nat
               /\ generators'[i] + Word * generators'[i + 1] \in Nat
               /\ generators[i] + Word * generators[i + 1]
                     <= generators'[i] + Word * generators'[i + 1]
    <3>1. i \in 0..3 /\ i + 1 \in 0..3
      OBVIOUS
    <3>2. /\ generators'[i] \in Nat /\ generators'[i + 1] \in Nat
          /\ generators'[i] <= generators'[i] /\ generators'[i + 1] <= generators'[i + 1]
      BY <3>1, <2>1
    <3> QED  BY <3>1, <3>2, <2>1, GeneratorGrows
  <2>3. \A m \in Mode : Cell(m) \in {0, 1, 2}
    BY Cells DEF Mode
  <2> QED  BY <2>2, <2>3 DEF Generator
<1>14. (mode = "R" => Generator("R")' = NextFid(mode))
       /\ (mode = "W" => Generator("W")' = NextFid(mode))
       /\ (mode = "RW" => Generator("RW")' = NextFid(mode))
  <2>1. NextFid(mode) = generators[c] + Word * generators[c + 1] + d
    BY <1>1 DEF Generator, c
  <2>2. c \in 0..3 /\ c + 1 \in 0..3 /\ c + 1 # c
    BY <1>2
  <2>3. generators'[c] = generators[c] + d /\ generators'[c + 1] = generators[c + 1]
    BY <2>2, <1>6
  <2>4. generators'[c] + Word * generators'[c + 1] = NextFid(mode)
    <3> DEFINE x == Word * generators[c + 1]
    <3>1. x \in Nat /\ generators[c] \in Nat
      BY <1>5, <2>2, <1>7
    <3> HIDE DEF x
    <3>2. generators[c] + d + x = generators[c] + x + d
      BY <3>1
    <3> QED  BY <3>2, <2>1, <2>3 DEF x
  <2> QED  BY <2>4, <1>2, Cells DEF Generator
<1>15. NextFid(mode) \in 1..Word * Word - 1
  <2>1. Generator(mode) \in Nat
    BY <1>13 DEF Mode
  <2>2. Word * Word \in Int
    BY Words
  <2> QED  BY <1>1, <2>1, <2>2
<1>16. NextFid(mode) > Generator(mode)
  <2>1. Generator(mode) \in Nat
    BY <1>13 DEF Mode
  <2> QED  BY <1>1, <2>1
<1>17. ASSUME NEW fid \in Int, Issued(fid)
       PROVE  Issued(fid)' /\ fid # NextFid(mode)
  <2>0. \A m \in Mode : fid <= Generator(m) => fid <= Generator(m)'
    BY <1>13
  <2>1. Issued(fid)'
    BY <1>17, <2>0 DEF Issued, Mode
  <2>2. fid # NextFid(mode)
    <3>0. \A m \in Mode : mode = m => ~(NextFid(mode) <= Generator(m))
      BY <1>13, <1>15, <1>16, Words
    <3>1. CASE fid \in {0, -1}
      BY <3>1, <1>15
    <3>2. CASE fid % 6 \in {2, 4} /\ fid <= Generator("R")
      BY <3>0, <3>2, <1>1, Cells DEF Mode
    <3>3. CASE fid % 6 = 3 /\ fid <= Generator("W")
      BY <3>0, <3>3, <1>1, Cells DEF Mode
    <3>4. CASE fid % 6 = 0 /\ fid <= Generator("RW")
      BY <3>0, <3>4, <1>1, Cells DEF Mode
    <3> QED  BY <3>1, <3>2, <3>3, <3>4, <1>17 DEF Issued
  <2> QED  BY <2>1, <2>2
<1>18. ASSUME NEW fid \in Int, fid = NextFid(mode)
       PROVE  Issued(fid)'
  <2>1. fid % 6 \in Residues(mode)
    BY <1>18, <1>1
  <2> QED  BY <1>14, <1>18, <2>1, Cells DEF Issued, Mode
<1> QED  BY <1>10, <1>12, <1>15, <1>17, <1>18
-----------------------------------------------------------------------------
(* The table and the list. *)

(* What the invariant says of the table: every descriptor was issued, and   *)
(* no two entries have the same one, unless it is none.                     *)
AllIssued == \A n \in DOMAIN entries : Issued(entries[n].fid)
Unique ==
    \A m, n \in DOMAIN entries :
        entries[m].fid = entries[n].fid /\ entries[n].fid > 0 => m = n
SizesFit == \A n \in DOMAIN entries : entries[n].size <= MaxSize
LastAllocated == ft_ptr = Len(entries)

(* And of the list: it holds entries of the table, each once, and every     *)
(* open one that no close took off through a cache, as long as it holds the *)
(* entry the next one will hang off.                                        *)
ListOnce == \A i, j \in DOMAIN list : list[i] = list[j] => i = j
ListAllocated == \A i \in DOMAIN list : list[i] \in DOMAIN entries
OpenListed == ft_ptr = None \/ ft_ptr \in Range(list) => open \ taken \subseteq Range(list)
OpenPositive == \A n \in open : entries[n].fid > 0

(* And of the caches: ruf1 is filled first and for good, so it is the only  *)
(* one that descriptor 0 ever reaches.                                      *)
TakenFirst == taken \subseteq {ruf1} /\ (ruf1 = None => ruf2 = None)

IInv == /\ TypeOK /\ Counted
        /\ AllIssued /\ Unique /\ SizesFit /\ LastAllocated
        /\ ListOnce /\ ListAllocated /\ OpenListed /\ OpenPositive /\ TakenFirst

(* The fields of an entry.                                                  *)
LEMMA Fields ==
    /\ \A e \in Entry : /\ e.fid \in Int /\ e.slot \in Slot
                        /\ e.size \in Nat /\ e.fptr \in Nat
                        /\ e.size \in 0..Word * Word - 1 /\ e.fptr \in 0..Word * Word - 1
    /\ \A e \in Entry, p \in 0..Word * Word - 1 :
          /\ [e EXCEPT !.fptr = p] \in Entry
          /\ [e EXCEPT !.fptr = p].fid = e.fid /\ [e EXCEPT !.fptr = p].size = e.size
<1> DEFINE W2 == Word * Word
<1>1. W2 \in Nat
  BY Words
<1>2. Entry = [fid : -1..W2 - 1, slot : Slot, size : 0..W2 - 1, fptr : 0..W2 - 1]
  BY DEF Entry
<1> HIDE DEF W2
<1>3. \A e \in Entry : /\ e.fid \in Int /\ e.slot \in Slot
                       /\ e.size \in Nat /\ e.fptr \in Nat
                       /\ e.size \in 0..W2 - 1 /\ e.fptr \in 0..W2 - 1
  BY <1>1, <1>2
<1>4. \A e \in Entry, p \in 0..W2 - 1 :
          /\ [e EXCEPT !.fptr = p] \in Entry
          /\ [e EXCEPT !.fptr = p].fid = e.fid /\ [e EXCEPT !.fptr = p].size = e.size
  BY <1>2
<1> QED  BY <1>3, <1>4 DEF W2

(* An entry written: a new size and a new pointer.                          *)
LEMMA WrittenEntry ==
    ASSUME NEW e \in Entry, NEW z \in 0..Word * Word - 1, NEW p \in 0..Word * Word - 1
    PROVE  /\ [e EXCEPT !.size = z, !.fptr = p] \in Entry
           /\ [e EXCEPT !.size = z, !.fptr = p].fid = e.fid
           /\ [e EXCEPT !.size = z, !.fptr = p].size = z
<1> DEFINE W2 == Word * Word
<1>1. /\ e \in [fid : -1..W2 - 1, slot : Slot, size : 0..W2 - 1, fptr : 0..W2 - 1]
      /\ z \in 0..W2 - 1 /\ p \in 0..W2 - 1
  BY DEF Entry
<1> HIDE DEF W2
<1>2. /\ [e EXCEPT !.size = z, !.fptr = p]
            \in [fid : -1..W2 - 1, slot : Slot, size : 0..W2 - 1, fptr : 0..W2 - 1]
      /\ [e EXCEPT !.size = z, !.fptr = p].fid = e.fid
      /\ [e EXCEPT !.size = z, !.fptr = p].size = z
  BY <1>1
<1> QED  BY <1>2 DEF W2, Entry

(* The table by its numbers.                                                *)
LEMMA Table ==
    ASSUME NEW t \in Seq(Entry)
    PROVE  /\ Len(t) \in Nat /\ DOMAIN t = 1..Len(t)
           /\ \A n \in DOMAIN t : t[n] \in Entry
BY LenProperties, ElementOfSeq

(* An edited entry leaves the others as they are.                           *)
LEMMA Edited ==
    ASSUME NEW t \in Seq(Entry), NEW n \in DOMAIN t, NEW e \in Entry
    PROVE  /\ [t EXCEPT ![n] = e] \in Seq(Entry)
           /\ Len([t EXCEPT ![n] = e]) = Len(t)
           /\ DOMAIN [t EXCEPT ![n] = e] = DOMAIN t
           /\ \A m \in DOMAIN t : [t EXCEPT ![n] = e][m] = IF m = n THEN e ELSE t[m]
<1>1. n \in 1..Len(t)
  BY Table
<1> QED  BY <1>1, ExceptSeq, Table

(* A grown table keeps its entries.                                         *)
LEMMA Grown ==
    ASSUME NEW t \in Seq(Entry), NEW e \in Entry
    PROVE  /\ Append(t, e) \in Seq(Entry)
           /\ Len(Append(t, e)) = Len(t) + 1
           /\ DOMAIN Append(t, e) = DOMAIN t \cup {Len(t) + 1}
           /\ Len(t) + 1 \notin DOMAIN t
           /\ \A m \in DOMAIN t : Append(t, e)[m] = t[m]
           /\ Append(t, e)[Len(t) + 1] = e
<1>1. /\ Append(t, e) \in Seq(Entry) /\ Len(Append(t, e)) = Len(t) + 1
      /\ \A m \in 1..Len(t) : Append(t, e)[m] = t[m]
      /\ Append(t, e)[Len(t) + 1] = e
  BY AppendProperties
<1>2. Len(t) \in Nat /\ DOMAIN t = 1..Len(t)
  BY Table
<1>3. DOMAIN Append(t, e) = 1..Len(t) + 1
  BY <1>1, Table
<1> QED  BY <1>1, <1>2, <1>3

(* The list by its elements.                                                *)
LEMMA ListElements ==
    ASSUME NEW lst \in Seq(Nat)
    PROVE  /\ Len(lst) \in Nat /\ DOMAIN lst = 1..Len(lst)
           /\ \A i \in DOMAIN lst : lst[i] \in Nat
           /\ \A m : m \in Range(lst) <=> \E i \in DOMAIN lst : lst[i] = m
BY LenProperties, ElementOfSeq DEF Range

(* What a search returns: nothing, a cached entry, or one of the list.      *)
LEMMA FindRange ==
    ASSUME NEW lst \in Seq(Nat), NEW ent, NEW fid
    PROVE  Find(fid, lst, ent) \in {None, ruf1, ruf2} \cup Range(lst)
<1> DEFINE hits == {i \in DOMAIN lst : ent[lst[i]].fid = fid}
<1>1. hits # {} => lst[Min(hits)] \in Range(lst)
  <2>1. hits \subseteq Nat
    BY ListElements
  <2>2. hits # {} => Min(hits) \in hits
    BY <2>1, MinMember
  <2>3. Min(hits) \in hits => lst[Min(hits)] \in Range(lst)
    BY ListElements
  <2> QED  BY <2>2, <2>3
<1> HIDE DEF hits
<1>2. Find(fid, lst, ent) = IF fid = RufFid /\ ruf1 # None THEN ruf1
                            ELSE IF fid = RufFid /\ ruf2 # None THEN ruf2
                            ELSE IF hits # {} THEN lst[Min(hits)] ELSE None
  BY DEF Find, hits
<1> QED  BY <1>1, <1>2

(* The list takes in the new entry exactly if it has the one before.        *)
LEMMA LinkedList ==
    ASSUME TypeOK, ListOnce, ListAllocated, Len(entries) < MaxOpens
    PROVE  /\ list \in Seq(Nat) /\ Linked \in Seq(Nat) /\ Linked \in Seq(Node)
           /\ Len(entries) + 1 \notin Range(list)
           /\ \A i, j \in DOMAIN Linked : Linked[i] = Linked[j] => i = j
           /\ Range(Linked) = IF ft_ptr = None \/ ft_ptr \in Range(list)
                              THEN Range(list) \cup {Len(entries) + 1} ELSE Range(list)
<1> DEFINE k == Len(entries) + 1
<1>1. MaxOpens \in Nat /\ Len(entries) \in Nat /\ k \in Node /\ Node \subseteq Nat
  BY FilesAssumption, Table DEF TypeOK, Node
<1>2. list \in Seq(Node) /\ \A q \in Seq(Node) : q \in Seq(Nat)
  BY <1>1, SeqMonotonic DEF TypeOK
<1>3. k \notin Range(list)
  <2>1. k \notin DOMAIN entries
    BY <1>1, Table DEF TypeOK
  <2> HIDE DEF k
  <2> QED  BY <2>1, <1>2, ListElements DEF ListAllocated
<1> HIDE DEF k
<1>4. /\ Append(list, k) \in Seq(Node) /\ Len(Append(list, k)) = Len(list) + 1
      /\ \A i \in 1..Len(list) : Append(list, k)[i] = list[i]
      /\ Append(list, k)[Len(list) + 1] = k
  BY <1>1, <1>2, AppendProperties
<1>5. Len(list) \in Nat /\ DOMAIN list = 1..Len(list) /\ DOMAIN Append(list, k) = 1..Len(list) + 1
  BY <1>2, <1>4, LenProperties
<1>6. \A i, j \in DOMAIN Append(list, k) : Append(list, k)[i] = Append(list, k)[j] => i = j
  <2> SUFFICES ASSUME NEW i \in DOMAIN Append(list, k), NEW j \in DOMAIN Append(list, k),
                      Append(list, k)[i] = Append(list, k)[j]
               PROVE  i = j
    OBVIOUS
  <2>1. \A n \in DOMAIN list : list[n] \in Range(list)
    BY <1>2, ListElements
  <2>2. \A n \in DOMAIN Append(list, k) : n = Len(list) + 1 \/ n \in DOMAIN list
    BY <1>5
  <2> QED  BY <2>1, <2>2, <1>3, <1>4, <1>5 DEF ListOnce
<1>7. Range(Append(list, k)) = Range(list) \cup {k}
  <2>1. DOMAIN Append(list, k) = DOMAIN list \cup {Len(list) + 1}
    BY <1>5
  <2>2. \A i \in DOMAIN list : Append(list, k)[i] = list[i]
    BY <1>4, <1>5
  <2> QED  BY <2>1, <2>2, <1>4 DEF Range
<1>8. Linked = IF ft_ptr = None \/ ft_ptr \in Range(list) THEN Append(list, k) ELSE list
  BY DEF Linked, k
<1>9. /\ Linked \in Seq(Node)
      /\ \A i, j \in DOMAIN Linked : Linked[i] = Linked[j] => i = j
      /\ Range(Linked) = IF ft_ptr = None \/ ft_ptr \in Range(list)
                         THEN Range(list) \cup {k} ELSE Range(list)
  BY <1>2, <1>4, <1>6, <1>7, <1>8 DEF ListOnce
<1> QED  BY <1>2, <1>3, <1>9 DEF k

(* Closing takes one entry off the list and leaves the others.              *)
LEMMA Unlinked ==
    ASSUME TypeOK, ListOnce, NEW n, Unlink(n)
    PROVE  /\ list' \in Seq(Node)
           /\ \A i, j \in DOMAIN list' : list'[i] = list'[j] => i = j
           /\ Range(list') = Range(list) \ {n}
<1>0. MaxOpens \in Nat /\ Node \subseteq Nat /\ list \in Seq(Node)
  BY FilesAssumption DEF TypeOK, Node
<1>1. list \in Seq(Nat) /\ Len(list) \in Nat /\ DOMAIN list = 1..Len(list)
  BY <1>0, SeqMonotonic, LenProperties
<1>2. CASE n \notin Range(list)
  <2>1. list' = list
    BY <1>2 DEF Unlink
  <2> QED  BY <2>1, <1>0, <1>2 DEF ListOnce
<1>3. CASE n \in Range(list)
  <2> DEFINE at == {i \in DOMAIN list : list[i] = n}
             k == Min(at)
             before == SubSeq(list, 1, k - 1)
             after == SubSeq(list, k + 1, Len(list))
  <2>1. list' = before \o after
    BY <1>3 DEF Unlink
  <2>2. k \in 1..Len(list) /\ list[k] = n
    <3>1. at \subseteq Nat /\ at # {}
      BY <1>1, <1>3 DEF Range
    <3>2. k \in at
      BY <3>1, MinMember
    <3> QED  BY <3>2, <1>1
  <2> HIDE DEF k, at
  <2>3. /\ before \in Seq(Node) /\ Len(before) = k - 1
        /\ \A i \in 1..k - 1 : before[i] = list[i]
    <3>1. \A i \in 1..k - 1 : list[i] \in Node
      BY <1>0, <1>1, <2>2, ElementOfSeq
    <3>2. /\ before \in Seq(Node) /\ Len(before) = IF 1 <= k - 1 THEN (k - 1) - 1 + 1 ELSE 0
          /\ \A i \in 1..(k - 1) - 1 + 1 : before[i] = list[1 + i - 1]
      BY <3>1, <2>2, SubSeqProperties
    <3> QED  BY <3>2, <2>2, <1>1
  <2>4. /\ after \in Seq(Node) /\ Len(after) = Len(list) - k
        /\ \A i \in 1..Len(list) - k : after[i] = list[k + i]
    <3>1. \A i \in k + 1..Len(list) : list[i] \in Node
      BY <1>0, <1>1, <2>2, ElementOfSeq
    <3>2. /\ after \in Seq(Node)
          /\ Len(after) = IF k + 1 <= Len(list) THEN Len(list) - (k + 1) + 1 ELSE 0
          /\ \A i \in 1..Len(list) - (k + 1) + 1 : after[i] = list[(k + 1) + i - 1]
      BY <3>1, <2>2, <1>1, SubSeqProperties
    <3> HIDE DEF after
    <3>3. \A i \in 1..Len(list) - k : /\ i \in 1..Len(list) - (k + 1) + 1
                                     /\ (k + 1) + i - 1 = k + i
      BY <2>2, <1>1
    <3>4. Len(after) = Len(list) - k
      <4>1. \A x, y \in Nat : y <= x =>
               (IF y + 1 <= x THEN x - (y + 1) + 1 ELSE 0) = x - y
        OBVIOUS
      <4>2. k \in Nat /\ k <= Len(list)
        BY <2>2, <1>1
      <4>3. Len(after) = IF k + 1 <= Len(list) THEN Len(list) - (k + 1) + 1 ELSE 0
        BY <3>2
      <4> QED  BY <4>1, <4>2, <4>3, <1>1
    <3> QED  BY <3>2, <3>3, <3>4
  <2> HIDE DEF before, after
  <2>5. /\ list' \in Seq(Node) /\ Len(list') = Len(list) - 1
        /\ \A i \in 1..Len(list) - 1 : list'[i] = IF i < k THEN list[i] ELSE list[i + 1]
    <3>1. /\ list' \in Seq(Node) /\ Len(list') = (k - 1) + (Len(list) - k)
          /\ \A i \in 1..(k - 1) + (Len(list) - k) :
                list'[i] = IF i <= k - 1 THEN before[i] ELSE after[i - (k - 1)]
      BY <2>1, <2>3, <2>4, ConcatProperties
    <3>2. ASSUME NEW i \in 1..Len(list) - 1
          PROVE  list'[i] = IF i < k THEN list[i] ELSE list[i + 1]
      <4>1. CASE i < k
        BY <4>1, <3>1, <2>3, <2>2, <1>1
      <4>2. CASE i >= k
        <5>1. i - (k - 1) \in 1..Len(list) - k /\ k + (i - (k - 1)) = i + 1 /\ ~(i <= k - 1)
          BY <4>2, <2>2, <1>1
        <5>2. after[i - (k - 1)] = list[i + 1]
          BY <5>1, <2>4
        <5>3. i \in 1..(k - 1) + (Len(list) - k) /\ ~(i < k)
          BY <4>2, <2>2, <1>1
        <5>4. list'[i] = after[i - (k - 1)]
          BY <5>1, <5>3, <3>1
        <5> QED  BY <5>2, <5>3, <5>4
      <4> QED  BY <4>1, <4>2, <2>2
    <3> QED  BY <3>1, <3>2, <2>2, <1>1
  <2>6. DOMAIN list' = 1..Len(list) - 1
    BY <2>5, LenProperties
  <2> DEFINE old(i) == IF i < k THEN i ELSE i + 1
  <2>9. \A i \in DOMAIN list' : old(i) \in DOMAIN list /\ old(i) # k /\ list'[i] = list[old(i)]
    BY <2>2, <2>5, <2>6, <1>1
  <2>10. \A i, j \in DOMAIN list' : old(i) = old(j) => i = j
    BY <2>2, <2>6, <1>1
  <2> HIDE DEF old
  <2>7. \A i, j \in DOMAIN list' : list'[i] = list'[j] => i = j
    BY <2>9, <2>10 DEF ListOnce
  <2>8. Range(list') = Range(list) \ {n}
    <3>1. ASSUME NEW i \in DOMAIN list' PROVE list'[i] \in Range(list) \ {n}
      BY <2>2, <2>9, <1>1 DEF ListOnce, Range
    <3>2. ASSUME NEW j \in DOMAIN list, list[j] # n PROVE list[j] \in Range(list')
      <4>1. CASE j < k
        <5>1. j \in DOMAIN list' /\ list'[j] = list[j]
          BY <4>1, <2>2, <2>5, <2>6, <1>1
        <5> QED  BY <5>1 DEF Range
      <4>2. CASE j > k
        <5>1. j - 1 \in DOMAIN list' /\ list'[j - 1] = list[j]
          BY <4>2, <2>2, <2>5, <2>6, <1>1
        <5> QED  BY <5>1 DEF Range
      <4> QED  BY <4>1, <4>2, <2>2, <3>2, <1>1
    <3> QED  BY <3>1, <3>2 DEF Range
  <2> QED  BY <2>5, <2>7, <2>8
<1> QED  BY <1>2, <1>3
-----------------------------------------------------------------------------
(* What the invariant says of the calls. *)

(* Bounds and ranges that the steps share.                                  *)
LEMMA Ranges ==
    ASSUME TypeOK
    PROVE  /\ entries \in Seq(Entry) /\ Len(entries) \in Nat /\ DOMAIN entries = 1..Len(entries)
           /\ \A n \in DOMAIN entries : entries[n] \in Entry
           /\ Len(entries) <= MaxOpens /\ MaxOpens \in Nat
           /\ list \in Seq(Nat) /\ list \in Seq(Node)
           /\ ft_ptr \in 0..Len(entries) /\ ruf1 \in 0..Len(entries) /\ ruf2 \in 0..Len(entries)
           /\ open \subseteq DOMAIN entries /\ taken \subseteq DOMAIN entries
<1>1. Node \subseteq Nat /\ MaxOpens \in Nat
  BY FilesAssumption DEF Node
<1>2. list \in Seq(Nat)
  BY <1>1, SeqMonotonic DEF TypeOK
<1> QED  BY <1>1, <1>2, Table DEF TypeOK

(* An entry reached by a descriptor is in the table.                        *)
LEMMA LookupInTable ==
    ASSUME IInv, NEW fid, Lookup(fid) # None
    PROVE  Lookup(fid) \in DOMAIN entries
<1>1. Lookup(fid) \in {None, ruf1, ruf2} \cup Range(list)
  BY FindRange, Ranges DEF Lookup, IInv
<1>2. Range(list) \subseteq DOMAIN entries
  BY Ranges, ListElements DEF IInv, ListAllocated
<1> QED  BY <1>1, <1>2, Ranges DEF IInv, None

(* A descriptor in use reaches its own entry if that is on the list, and    *)
(* otherwise nothing.                                                       *)
LEMMA LookupOfOpen ==
    ASSUME IInv, NEW n \in open
    PROVE  /\ n \in Range(list) => Lookup(entries[n].fid) = n
           /\ n \notin Range(list) => Lookup(entries[n].fid) = None
<1> DEFINE fid == entries[n].fid
           hits == {i \in DOMAIN list : entries[list[i]].fid = fid}
<1>1. n \in DOMAIN entries /\ fid > 0
  BY Ranges DEF IInv, OpenPositive
<1>2. \A i \in hits : list[i] = n
  BY <1>1 DEF IInv, ListAllocated, Unique
<1>3. Lookup(fid) = IF hits # {} THEN list[Min(hits)] ELSE None
  <2>1. fid # RufFid
    <3>1. fid \in Int
      BY <1>1, Ranges, Fields DEF IInv
    <3> HIDE DEF fid
    <3> QED  BY <1>1, <3>1 DEF RufFid
  <2> QED  BY <2>1 DEF Lookup, Find
<1>4. hits # {} => Min(hits) \in hits
  <2>1. hits \subseteq Nat
    BY Ranges, ListElements DEF IInv
  <2> HIDE DEF hits
  <2> QED  BY <2>1, MinMember
<1>5. n \in Range(list) <=> hits # {}
  <2>1. n \in Range(list) => hits # {}
    BY DEF Range
  <2>2. hits # {} => n \in Range(list)
    BY <1>2 DEF Range
  <2> QED  BY <2>1, <2>2
<1> QED  BY <1>2, <1>3, <1>4, <1>5

(* An entry reached by another descriptor than its own is the first cache's.*)
LEMMA ReachedByCache ==
    ASSUME IInv, NEW fid, Lookup(fid) # None, entries[Lookup(fid)].fid # fid
    PROVE  Lookup(fid) = ruf1
<1> DEFINE hits == {i \in DOMAIN list : entries[list[i]].fid = fid}
<1>1. hits # {} => Min(hits) \in hits
  <2>1. hits \subseteq Nat
    BY Ranges, ListElements DEF IInv
  <2> HIDE DEF hits
  <2> QED  BY <2>1, MinMember
<1>2. hits # {} => entries[list[Min(hits)]].fid = fid
  BY <1>1
<1>3. Lookup(fid) = IF fid = RufFid /\ ruf1 # None THEN ruf1
                    ELSE IF fid = RufFid /\ ruf2 # None THEN ruf2
                    ELSE IF hits # {} THEN list[Min(hits)] ELSE None
  BY DEF Lookup, Find
<1> HIDE DEF hits
<1> QED  BY <1>2, <1>3 DEF IInv, TakenFirst

(* The invariant implies what the runs check.                               *)
LEMMA InvariantMeans ==
    ASSUME IInv
    PROVE  DescriptorsDistinct /\ OwnFile /\ ReachedUnlessTaken
<1>1. DescriptorsDistinct
  <2>1. \A n \in open : n \in DOMAIN entries /\ entries[n].fid > 0 /\ entries[n].fid # RufFid
    <3>1. \A n \in open : n \in DOMAIN entries /\ entries[n].fid > 0
      BY Ranges DEF IInv, OpenPositive
    <3>2. \A n \in DOMAIN entries : entries[n].fid \in Int
      BY Ranges, Fields DEF IInv
    <3>3. \A x \in Int : x > 0 => x # RufFid
      BY DEF RufFid
    <3> QED  BY <3>1, <3>2, <3>3
  <2> QED  BY <2>1 DEF DescriptorsDistinct, IInv, Unique
<1>2. OwnFile
  BY LookupOfOpen DEF OwnFile
<1>3. ReachedUnlessTaken
  BY LookupOfOpen DEF ReachedUnlessTaken, IInv, OpenListed, TakenFirst
<1> QED  BY <1>1, <1>2, <1>3

-----------------------------------------------------------------------------
(* The steps. *)

(* A new entry of a file in the directory.                                  *)
LEMMA NewEntryType ==
    ASSUME TypeOK, NEW f, SlotsOf(f) # {}, NEW fid \in -1..Word * Word - 1
    PROVE  /\ NewEntry(f, fid) \in Entry
           /\ NewEntry(f, fid).fid = fid /\ NewEntry(f, fid).size <= MaxSize
<1> DEFINE s == Min(SlotsOf(f))
           W2 == Word * Word
<1>1. s \in Slot
  <2>1. SlotsOf(f) \subseteq Nat
    BY FilesAssumption DEF SlotsOf, Slot
  <2> HIDE DEF s
  <2>2. s \in SlotsOf(f)
    BY <2>1, MinMember DEF s
  <2> QED  BY <2>2 DEF SlotsOf
<1> HIDE DEF s
<1>2. dir[s].size \in 0..MaxSize
  BY <1>1 DEF TypeOK
<1>3. W2 \in Nat /\ MaxSize < W2 /\ MaxSize \in Nat /\ W2 > 0
  BY Words, FilesAssumption
<1>4. NewEntry(f, fid) = [fid |-> fid, slot |-> s, size |-> dir[s].size, fptr |-> 0]
  BY DEF NewEntry, s
<1>5. Entry = [fid : -1..W2 - 1, slot : Slot, size : 0..W2 - 1, fptr : 0..W2 - 1]
  BY DEF Entry
<1>6. fid \in -1..W2 - 1
  OBVIOUS
<1> HIDE DEF W2
<1> QED  BY <1>1, <1>2, <1>3, <1>4, <1>5, <1>6

(* What every way of opening a file preserves.                              *)
LEMMA NewDescriptor ==
    ASSUME IInv, Len(entries) < MaxOpens,
           entries' \in Seq(Entry), Len(entries') = Len(entries) + 1,
           \A m \in DOMAIN entries : /\ entries'[m].fid = entries[m].fid
                                     /\ entries'[m].size = entries[m].size,
           NEW fid \in Int,
           entries'[Len(entries) + 1].fid = fid,
           entries'[Len(entries) + 1].size <= MaxSize,
           \/ UNCHANGED generators /\ fid \in {0, -1}
           \/ \E mode \in Mode : Generate(mode) /\ fid = NextFid(mode),
           list' = Linked, ft_ptr' = Len(entries) + 1,
           open' = open \/ (fid > 0 /\ open' = open \cup {Len(entries) + 1}),
           {ruf1', ruf2'} \subseteq 0..Len(entries) + 1,
           ruf1 # None => ruf1' = ruf1, ruf1' = None => ruf2' = None,
           UNCHANGED <<dir, taken>>
    PROVE  IInv'
<1> DEFINE k == Len(entries) + 1
<1>1. /\ Len(entries) \in Nat /\ DOMAIN entries = 1..Len(entries)
      /\ MaxOpens \in Nat /\ open \subseteq DOMAIN entries
  BY Ranges DEF IInv
<1>2. DOMAIN entries' = DOMAIN entries \cup {k} /\ k \notin DOMAIN entries
  BY <1>1, LenProperties
<1>3. \A n \in DOMAIN entries : entries[n].fid \in Int
  BY Ranges, Fields DEF IInv
<1>4. /\ generators' \in [0..3 -> 0..Word - 1]
      /\ Counted'
      /\ \A d \in Int : Issued(d) => Issued(d)'
      /\ Issued(fid)'
      /\ fid > 0 => \A d \in Int : Issued(d) => d # fid
  <2>1. CASE UNCHANGED generators /\ fid \in {0, -1}
    <3>1. Counted'
      <4>1. 6 * Len(entries) <= 6 * Len(entries')
        BY <1>1
      <4>2. generators[0] \in Nat /\ generators[1] \in Nat /\ generators[2] \in Nat
        BY Words DEF IInv, TypeOK
      <4>3. generators[0] + generators[1] + generators[2] <= 6 * Len(entries')
        BY <4>1, <4>2, <1>1 DEF IInv, Counted
      <4> QED  BY <2>1, <4>3 DEF IInv, Counted
    <3>2. \A d \in Int : Issued(d) => Issued(d)'
      BY <2>1 DEF Issued, Generator
    <3> QED  BY <2>1, <3>1, <3>2 DEF IInv, TypeOK, Issued
  <2>2. CASE \E mode \in Mode : Generate(mode) /\ fid = NextFid(mode)
    <3>1. PICK mode \in Mode : Generate(mode) /\ fid = NextFid(mode)
      BY <2>2
    <3> QED  BY <3>1, Generated DEF IInv
  <2> QED  BY <2>1, <2>2
<1>5. AllIssued' /\ Unique' /\ SizesFit' /\ LastAllocated'
  <2>1. AllIssued'
    BY <1>2, <1>3, <1>4 DEF AllIssued, IInv
  <2>2. Unique'
    <3> SUFFICES ASSUME NEW m \in DOMAIN entries', NEW n \in DOMAIN entries',
                        entries'[m].fid = entries'[n].fid, entries'[n].fid > 0
                 PROVE  m = n
      BY DEF Unique
    <3>1. CASE m \in DOMAIN entries /\ n \in DOMAIN entries
      BY <3>1 DEF IInv, Unique
    <3>2. CASE m = k /\ n \in DOMAIN entries
      BY <3>2, <1>3, <1>4 DEF IInv, AllIssued
    <3>3. CASE n = k /\ m \in DOMAIN entries
      BY <3>3, <1>3, <1>4 DEF IInv, AllIssued
    <3> QED  BY <3>1, <3>2, <3>3, <1>2
  <2>3. SizesFit'
    BY <1>2 DEF SizesFit, IInv
  <2>4. LastAllocated'
    BY DEF LastAllocated
  <2> QED  BY <2>1, <2>2, <2>3, <2>4
<1>6. /\ Linked \in Seq(Nat) /\ list' \in Seq(Node)
      /\ k \notin Range(list) /\ ListOnce'
      /\ Range(list') = IF ft_ptr = None \/ ft_ptr \in Range(list)
                        THEN Range(list) \cup {k} ELSE Range(list)
  BY LinkedList DEF IInv, ListOnce
<1>7. Range(list) \subseteq DOMAIN entries
  BY Ranges, ListElements DEF IInv, ListAllocated
<1>8. ListAllocated'
  <2>1. \A i \in DOMAIN list' : list'[i] \in Range(list')
    BY <1>6, ListElements
  <2> QED  BY <2>1, <1>2, <1>6, <1>7 DEF ListAllocated
<1>9. OpenListed'
  <2>1. ft_ptr' = k /\ ft_ptr' # None
    BY <1>1 DEF None
  <2>2. CASE ft_ptr = None \/ ft_ptr \in Range(list)
    BY <2>2, <1>6 DEF OpenListed, IInv
  <2>3. CASE ~(ft_ptr = None \/ ft_ptr \in Range(list))
    BY <2>1, <2>3, <1>6 DEF OpenListed
  <2> QED  BY <2>2, <2>3
<1>10. OpenPositive'
  BY <1>1 DEF OpenPositive, IInv
<1>11. TypeOK'
  <2>1. Len(entries') <= MaxOpens
    BY <1>1
  <2>2. {ft_ptr', ruf1', ruf2'} \subseteq 0..Len(entries')
    BY <1>1
  <2>3. open' \subseteq DOMAIN entries' /\ taken' \subseteq DOMAIN entries'
    BY <1>1, <1>2, Ranges DEF IInv
  <2> QED  BY <2>1, <2>2, <2>3, <1>4, <1>6 DEF IInv, TypeOK
<1>12. TakenFirst'
  <2>1. ruf1 = None => taken = {}
    BY <1>1, Ranges DEF IInv, TakenFirst, None
  <2> QED  BY <2>1 DEF IInv, TakenFirst
<1> QED  BY <1>4, <1>5, <1>6, <1>8, <1>9, <1>10, <1>11, <1>12 DEF IInv

(* What every call on a descriptor or a name preserves that opens and       *)
(* closes nothing.                                                          *)
LEMMA SameDescriptors ==
    ASSUME IInv, UNCHANGED <<generators, list, ft_ptr, open, taken>>,
           entries' \in Seq(Entry), Len(entries') = Len(entries),
           \A m \in DOMAIN entries : /\ entries'[m].fid = entries[m].fid
                                     /\ entries'[m].size <= MaxSize,
           {ruf1', ruf2'} \subseteq 0..Len(entries),
           ruf1 # None => ruf1' = ruf1, ruf1' = None => ruf2' = None,
           dir' \in [Slot -> [name : File \cup {Nothing}, size : 0..MaxSize]]
    PROVE  IInv'
<1>1. DOMAIN entries' = DOMAIN entries
  BY Ranges, LenProperties DEF IInv
<1>2. Counted'
  BY DEF IInv, Counted
<1>3. \A d : Issued(d) => Issued(d)'
  BY DEF Issued, Generator
<1>4. AllIssued' /\ Unique' /\ SizesFit' /\ LastAllocated'
  BY <1>1, <1>3 DEF IInv, AllIssued, Unique, SizesFit, LastAllocated
<1>5. ListOnce' /\ ListAllocated' /\ OpenListed' /\ OpenPositive'
  BY <1>1, Ranges DEF IInv, ListOnce, ListAllocated, OpenListed, OpenPositive
<1>6. TypeOK'
  BY <1>1 DEF IInv, TypeOK
<1>7. TakenFirst'
  <2>1. ruf1 = None => taken = {}
    BY Ranges DEF IInv, TakenFirst, None
  <2> QED  BY <2>1 DEF IInv, TakenFirst
<1> QED  BY <1>2, <1>4, <1>5, <1>6, <1>7 DEF IInv

(* An entry that is remembered is in the table, and so are those that were. *)
LEMMA Remembered ==
    ASSUME TypeOK, TakenFirst, NEW fid, NEW n \in DOMAIN entries, Remember(fid, n)
    PROVE  /\ {ruf1', ruf2'} \subseteq 0..Len(entries)
           /\ (ruf1 # None => ruf1' = ruf1) /\ (ruf1' = None => ruf2' = None)
BY Ranges DEF Remember, TakenFirst, None

(* A call that edits the entry it found.                                    *)
LEMMA EditedEntry ==
    ASSUME IInv, NEW n \in DOMAIN entries, NEW e \in Entry,
           e.fid = entries[n].fid, e.size <= MaxSize,
           entries' = [entries EXCEPT ![n] = e]
    PROVE  /\ entries' \in Seq(Entry) /\ Len(entries') = Len(entries)
           /\ \A m \in DOMAIN entries : /\ entries'[m].fid = entries[m].fid
                                        /\ entries'[m].size <= MaxSize
<1>1. entries \in Seq(Entry)
  BY Ranges DEF IInv
<1> QED  BY <1>1, Edited DEF IInv, SizesFit
(* At boot nothing is open.                                                 *)
LEMMA InitIInv == Init => IInv
<1> SUFFICES ASSUME Init PROVE IInv
  OBVIOUS
<1>1. /\ generators = [i \in 0..3 |-> 0] /\ entries = <<>> /\ list = <<>>
      /\ ft_ptr = None /\ ruf1 = None /\ ruf2 = None /\ open = {} /\ taken = {}
  BY DEF Init
<1>2. Len(entries) = 0 /\ DOMAIN entries = {} /\ DOMAIN list = {}
  BY <1>1
<1>3. TypeOK
  <2>1. generators \in [0..3 -> 0..Word - 1]
    BY <1>1, Words
  <2>2. entries \in Seq(Entry) /\ Len(entries) <= MaxOpens /\ list \in Seq(Node)
    BY <1>1, <1>2, EmptySeq, FilesAssumption
  <2>3. {ft_ptr, ruf1, ruf2} \subseteq 0..Len(entries)
    BY <1>1, <1>2 DEF None
  <2>4. dir \in [Slot -> [name : File \cup {Nothing}, size : 0..MaxSize]]
    <3>1. PICK content \in [Slot -> File \cup {Nothing}] :
             dir = [s \in Slot |-> IF content[s] = Nothing THEN UnusedSlot
                                   ELSE [name |-> content[s], size |-> MaxSize]]
      BY DEF Init
    <3>2. UnusedSlot \in [name : File \cup {Nothing}, size : 0..MaxSize]
      BY FilesAssumption DEF UnusedSlot
    <3>3. \A s \in Slot : [name |-> content[s], size |-> MaxSize]
                             \in [name : File \cup {Nothing}, size : 0..MaxSize]
      BY FilesAssumption
    <3> QED  BY <3>1, <3>2, <3>3
  <2>5. open \subseteq DOMAIN entries /\ taken \subseteq DOMAIN entries
    BY <1>1
  <2> QED  BY <2>1, <2>2, <2>3, <2>4, <2>5 DEF TypeOK
<1>4. Counted
  <2>1. 0 % 2 = 0 /\ 0 % 3 = 0 /\ 0 % 6 = 0
    BY Z3
  <2>2. generators[0] = 0 /\ generators[1] = 0 /\ generators[2] = 0 /\ generators[3] = 0
    BY <1>1
  <2> QED  BY <1>2, <2>1, <2>2 DEF Counted
<1>5. AllIssued /\ Unique /\ SizesFit /\ LastAllocated
  BY <1>1, <1>2 DEF AllIssued, Unique, SizesFit, LastAllocated, None
<1>6. ListOnce /\ ListAllocated /\ OpenListed /\ OpenPositive /\ TakenFirst
  BY <1>1, <1>2 DEF ListOnce, ListAllocated, OpenListed, OpenPositive, TakenFirst
<1> QED  BY <1>3, <1>4, <1>5, <1>6 DEF IInv

(* An open in a valid mode.                                                 *)
LEMMA OpenKeeps ==
    ASSUME IInv, NEW f \in File, NEW mode \in Mode, Open(f, mode)
    PROVE  IInv'
<1> DEFINE k == Len(entries) + 1
<1>1. /\ SlotsOf(f) # {} /\ Len(entries) < MaxOpens /\ Generate(mode)
      /\ entries' = Append(entries, NewEntry(f, NextFid(mode)))
      /\ list' = Linked /\ ft_ptr' = k
      /\ open' = open \cup {k} /\ UNCHANGED <<ruf1, ruf2, dir, taken>>
  BY DEF Open
<1>2. NextFid(mode) \in 0..Word * Word - 1
  BY <1>1, OneStep DEF IInv
<1>3. NextFid(mode) \in -1..Word * Word - 1
  BY <1>2, Words
<1>4. /\ NewEntry(f, NextFid(mode)) \in Entry
      /\ NewEntry(f, NextFid(mode)).fid = NextFid(mode)
      /\ NewEntry(f, NextFid(mode)).size <= MaxSize
  BY <1>1, <1>3, NewEntryType DEF IInv
<1>5. /\ entries' \in Seq(Entry) /\ Len(entries') = k
      /\ \A m \in DOMAIN entries : entries'[m] = entries[m]
      /\ entries'[k] = NewEntry(f, NextFid(mode))
  BY <1>1, <1>4, Grown, Ranges DEF IInv
<1>6. NextFid(mode) > 0 /\ NextFid(mode) \in Int
  <2>1. NextFid(mode) \in 1..Word * Word - 1
    BY <1>1, <1>5, Generated DEF IInv
  <2> QED  BY <2>1, Words
<1>7. /\ {ruf1', ruf2'} \subseteq 0..k
      /\ (ruf1 # None => ruf1' = ruf1) /\ (ruf1' = None => ruf2' = None)
  BY <1>1, Ranges DEF IInv, TakenFirst
<1> HIDE DEF k
<1>8. PICK fid \in Int : fid = NextFid(mode) /\ fid > 0
  BY <1>6
<1>9. entries'[k].fid = fid /\ entries'[k].size <= MaxSize
  BY <1>4, <1>5, <1>8
<1>10. \A m \in DOMAIN entries : /\ entries'[m].fid = entries[m].fid
                                 /\ entries'[m].size = entries[m].size
  BY <1>5
<1> QED  BY <1>1, <1>5, <1>7, <1>8, <1>9, <1>10, NewDescriptor DEF k

(* An open in an invalid mode.                                              *)
LEMMA OpenInvalidKeeps ==
    ASSUME IInv, NEW f \in File, OpenInvalid(f)
    PROVE  IInv'
<1> DEFINE k == Len(entries) + 1
<1>1. /\ SlotsOf(f) # {} /\ Len(entries) < MaxOpens
      /\ list' = Linked /\ ft_ptr' = k
      /\ UNCHANGED <<generators, ruf1, ruf2, dir, open, taken>>
  BY DEF OpenInvalid
<1>2. PICK fid \in {0, -1} : entries' = Append(entries, NewEntry(f, fid))
  BY DEF OpenInvalid
<1>3. fid \in -1..Word * Word - 1 /\ fid \in Int
  BY Words
<1>4. /\ NewEntry(f, fid) \in Entry
      /\ NewEntry(f, fid).fid = fid /\ NewEntry(f, fid).size <= MaxSize
  BY <1>1, <1>3, NewEntryType DEF IInv
<1>5. /\ entries' \in Seq(Entry) /\ Len(entries') = k
      /\ \A m \in DOMAIN entries : entries'[m] = entries[m]
      /\ entries'[k] = NewEntry(f, fid)
  BY <1>2, <1>4, Grown, Ranges DEF IInv
<1>6. /\ {ruf1', ruf2'} \subseteq 0..k
      /\ (ruf1 # None => ruf1' = ruf1) /\ (ruf1' = None => ruf2' = None)
  BY <1>1, Ranges DEF IInv, TakenFirst
<1> HIDE DEF k
<1>7. entries'[k].fid = fid /\ entries'[k].size <= MaxSize
  BY <1>4, <1>5
<1>8. \A m \in DOMAIN entries : /\ entries'[m].fid = entries[m].fid
                                /\ entries'[m].size = entries[m].size
  BY <1>5
<1> QED  BY <1>1, <1>3, <1>5, <1>6, <1>7, <1>8, NewDescriptor DEF k

(* The read of an executable: a new entry that no program has, and the      *)
(* pointer of the entry its narrowed descriptor reaches.                    *)
LEMMA ReadImageKeeps ==
    ASSUME IInv, NEW f \in File, ReadImage(f)
    PROVE  IInv'
<1> DEFINE k == Len(entries) + 1
           fid == NextFid("R") % Word
           table == Append(entries, NewEntry(f, NextFid("R")))
           found == Find(fid, Linked, table)
<1>1. /\ SlotsOf(f) # {} /\ k <= MaxOpens /\ Generate("R")
      /\ entries' = IF found = None THEN table
                    ELSE [table EXCEPT ![found].fptr = table[found].size]
      /\ list' = Linked /\ ft_ptr' = k
      /\ IF found = None \/ (fid = RufFid /\ (ruf1 # None \/ ruf2 # None))
         THEN UNCHANGED <<ruf1, ruf2>>
         ELSE /\ ruf1' = IF ruf1 = None THEN found ELSE ruf1
              /\ ruf2' = IF fid = RufFid THEN ruf2 ELSE found
      /\ UNCHANGED <<dir, open, taken>>
  BY DEF ReadImage
<1>2. "R" \in Mode /\ Len(entries) \in Nat /\ Len(entries) < MaxOpens /\ entries \in Seq(Entry)
  BY <1>1, Ranges DEF IInv, Mode
<1>3. NextFid("R") \in 0..Word * Word - 1
  BY <1>2, OneStep DEF IInv
<1>4. NextFid("R") \in -1..Word * Word - 1 /\ NextFid("R") \in Int
  BY <1>3, Words
<1>5. /\ NewEntry(f, NextFid("R")) \in Entry
      /\ NewEntry(f, NextFid("R")).fid = NextFid("R")
      /\ NewEntry(f, NextFid("R")).size <= MaxSize
  BY <1>1, <1>4, NewEntryType DEF IInv
<1>6. /\ table \in Seq(Entry) /\ Len(table) = k /\ DOMAIN table = DOMAIN entries \cup {k}
      /\ \A m \in DOMAIN entries : table[m] = entries[m]
      /\ table[k] = NewEntry(f, NextFid("R")) /\ k \notin DOMAIN entries
  BY <1>2, <1>5, Grown
<1> HIDE DEF k, table, fid
<1>7. found # None => found \in DOMAIN table
  <2>1. found \in {None, ruf1, ruf2} \cup Range(Linked)
    BY LinkedList, FindRange, <1>2 DEF IInv
  <2>2. Range(Linked) \subseteq Range(list) \cup {k}
    BY LinkedList, <1>2 DEF IInv, k
  <2>3. Range(list) \subseteq DOMAIN entries
    BY Ranges, ListElements DEF IInv, ListAllocated
  <2>4. {ruf1, ruf2} \subseteq DOMAIN entries \cup {None}
    BY Ranges DEF IInv, None
  <2> HIDE DEF found
  <2> QED  BY <2>1, <2>2, <2>3, <2>4, <1>6
<1> HIDE DEF found
<1>8. /\ entries' \in Seq(Entry) /\ Len(entries') = k
      /\ \A m \in DOMAIN table : entries'[m].fid = table[m].fid /\ entries'[m].size = table[m].size
  <2>1. CASE found = None
    BY <2>1, <1>1, <1>6
  <2>2. CASE found # None
    <3> DEFINE e == [table[found] EXCEPT !.fptr = table[found].size]
    <3>1. table[found] \in Entry
      BY <2>2, <1>6, <1>7, Table
    <3>2. table[found].size \in 0..Word * Word - 1
      BY <3>1, Fields
    <3>3. e \in Entry /\ e.fid = table[found].fid /\ e.size = table[found].size
      BY <3>1, <3>2, Fields
    <3>4. entries' = [table EXCEPT ![found] = e]
      BY <2>2, <1>1
    <3> HIDE DEF e
    <3> QED  BY <3>3, <3>4, <2>2, <1>6, <1>7, Edited
  <2> QED  BY <2>1, <2>2
<1>9. /\ \A m \in DOMAIN entries : /\ entries'[m].fid = entries[m].fid
                                   /\ entries'[m].size = entries[m].size
      /\ entries'[k].fid = NextFid("R") /\ entries'[k].size <= MaxSize
  BY <1>5, <1>6, <1>8
<1>10. {ruf1', ruf2'} \subseteq 0..k
  <2>1. {ruf1, ruf2} \subseteq 0..k
    BY <1>2, Ranges DEF IInv, k
  <2>2. found \in 0..k
    <3>1. DOMAIN table = 1..k /\ k \in Nat
      BY <1>6, Table
    <3> QED  BY <3>1, <1>7 DEF None
  <2> QED  BY <2>1, <2>2, <1>1
<1>11. PICK d \in Int : d = NextFid("R")
  BY <1>4
<1>12. \E mode \in Mode : Generate(mode) /\ d = NextFid(mode)
  BY <1>1, <1>2, <1>11
<1>13. (ruf1 # None => ruf1' = ruf1) /\ (ruf1' = None => ruf2' = None)
  BY <1>1 DEF IInv, TakenFirst
<1> QED  BY <1>1, <1>2, <1>8, <1>9, <1>10, <1>11, <1>12, <1>13, NewDescriptor DEF k
(* A close.                                                                 *)
LEMMA CloseKeeps ==
    ASSUME IInv, NEW fid \in Fid, Close(fid)
    PROVE  IInv'
<1> DEFINE n == Lookup(fid)
<1>1. /\ n \in DOMAIN entries /\ Unlink(n)
      /\ open' = {m \in open : entries[m].fid # fid}
      /\ taken' = IF entries[n].fid = fid THEN taken ELSE taken \cup {n}
      /\ UNCHANGED <<generators, entries, ft_ptr, ruf1, ruf2, dir>>
  BY LookupInTable DEF Close
<1>7. entries[n].fid # fid => n = ruf1
  BY <1>1, ReachedByCache DEF Close
<1> HIDE DEF n
<1>2. /\ list' \in Seq(Node) /\ ListOnce' /\ Range(list') = Range(list) \ {n}
  BY <1>1, Unlinked DEF IInv, ListOnce
<1>3. ListAllocated'
  <2>1. \A i \in DOMAIN list' : list'[i] \in Range(list')
    BY DEF Range
  <2>2. Range(list) \subseteq DOMAIN entries
    BY Ranges, ListElements DEF IInv, ListAllocated
  <2> QED  BY <2>1, <2>2, <1>1, <1>2 DEF ListAllocated
<1>4. OpenListed' /\ OpenPositive' /\ TakenFirst'
  <2>1. OpenListed'
    <3>1. open' \ taken' \subseteq (open \ taken) \ {n}
      BY <1>1
    <3> QED  BY <3>1, <1>1, <1>2 DEF IInv, OpenListed
  <2>2. OpenPositive'
    BY <1>1 DEF IInv, OpenPositive
  <2>3. TakenFirst'
    BY <1>1, <1>7 DEF IInv, TakenFirst
  <2> QED  BY <2>1, <2>2, <2>3
<1>5. AllIssued' /\ Counted' /\ Unique' /\ SizesFit' /\ LastAllocated'
  <2>1. \A d : Issued(d) => Issued(d)'
    BY <1>1 DEF Issued, Generator
  <2> QED  BY <2>1, <1>1 DEF IInv, AllIssued, Counted, Unique, SizesFit, LastAllocated
<1>6. TypeOK'
  BY <1>1, <1>2 DEF IInv, TypeOK
<1> QED  BY <1>2, <1>3, <1>4, <1>5, <1>6 DEF IInv

(* A call that moves the pointer of the entry it found.                     *)
LEMMA PointerMoved ==
    ASSUME IInv, NEW fid, NEW n \in DOMAIN entries, NEW p \in 0..Word * Word - 1,
           Remember(fid, n), entries' = [entries EXCEPT ![n].fptr = p],
           UNCHANGED <<generators, list, ft_ptr, dir, open, taken>>
    PROVE  IInv'
<1> DEFINE e == [entries[n] EXCEPT !.fptr = p]
<1>1. e \in Entry /\ e.fid = entries[n].fid /\ e.size = entries[n].size
  BY Ranges, Fields DEF IInv
<1>2. e.size <= MaxSize
  BY <1>1 DEF IInv, SizesFit
<1>3. entries' = [entries EXCEPT ![n] = e]
  OBVIOUS
<1> HIDE DEF e
<1>4. /\ entries' \in Seq(Entry) /\ Len(entries') = Len(entries)
      /\ \A m \in DOMAIN entries : /\ entries'[m].fid = entries[m].fid
                                   /\ entries'[m].size <= MaxSize
  BY <1>1, <1>2, <1>3, EditedEntry
<1>5. /\ {ruf1', ruf2'} \subseteq 0..Len(entries)
      /\ (ruf1 # None => ruf1' = ruf1) /\ (ruf1' = None => ruf2' = None)
  BY Remembered DEF IInv
<1>6. dir' \in [Slot -> [name : File \cup {Nothing}, size : 0..MaxSize]]
  BY DEF IInv, TypeOK
<1> QED  BY <1>4, <1>5, <1>6, SameDescriptors

(* A read.                                                                  *)
LEMMA ReadKeeps ==
    ASSUME IInv, NEW fid \in Fid, NEW count \in 1..MaxSize, Read(fid, count)
    PROVE  IInv'
<1> DEFINE n == Lookup(fid)
           e == entries[n]
           cut == IF U(e.fptr + count) > e.size THEN U(e.size - e.fptr) ELSE count
<1>1. n \in DOMAIN entries
  BY LookupInTable DEF Read
<1>2. /\ Remember(fid, n) /\ entries' = [entries EXCEPT ![n].fptr = U(e.fptr + cut)]
      /\ UNCHANGED <<generators, list, ft_ptr, dir, open, taken>>
  BY DEF Read
<1> HIDE DEF n
<1>3. e.fptr \in Int /\ e.size \in Int
  <2>1. e.fptr \in Nat /\ e.size \in Nat
    BY <1>1, Ranges, Fields DEF IInv
  <2> HIDE DEF e
  <2> QED  BY <2>1
<1>4. cut \in Int
  <2>1. U(e.size - e.fptr) \in Int
    BY <1>3, Unsigned, Words
  <2>2. count \in Int
    BY FilesAssumption
  <2> HIDE DEF e
  <2> QED  BY <2>1, <2>2
<1>5. U(e.fptr + cut) \in 0..Word * Word - 1
  <2> HIDE DEF e, cut
  <2>1. e.fptr + cut \in Int
    BY <1>3, <1>4
  <2> QED  BY <2>1, Unsigned
<1> HIDE DEF cut, e
<1> QED  BY <1>1, <1>2, <1>5, PointerMoved

(* A write of at least a byte within the file's bound.                      *)
LEMMA WriteKeeps ==
    ASSUME IInv, NEW fid \in Fid, NEW count \in 1..MaxSize, Write(fid, count)
    PROVE  IInv'
<1> DEFINE n == Lookup(fid)
           e == entries[n]
           size == Max({e.size, e.fptr + count})
           w == [e EXCEPT !.size = size, !.fptr = e.fptr + count]
<1>1. n \in DOMAIN entries
  BY LookupInTable DEF Write
<1>2. /\ e.fptr <= e.size /\ e.fptr + count <= MaxSize
      /\ Remember(fid, n)
      /\ entries' = [entries EXCEPT ![n].size = size, ![n].fptr = e.fptr + count]
      /\ dir' = IF entries[ft_ptr].slot <= SectorSlots
                THEN [dir EXCEPT ![entries[ft_ptr].slot].size = size] ELSE dir
      /\ UNCHANGED <<generators, list, ft_ptr, open, taken>>
  BY DEF Write
<1> HIDE DEF n
<1>3. e \in Entry /\ e.fptr \in Nat /\ e.size \in Nat /\ e.size <= MaxSize
  BY <1>1, Ranges, Fields DEF IInv, SizesFit
<1>4. count \in Nat /\ MaxSize \in Nat /\ MaxSize < Word * Word
  BY FilesAssumption
<1>5. size \in 0..MaxSize
  <2>1. size \in {e.size, e.fptr + count}
    <3>1. e.size \in Int /\ e.fptr + count \in Int
      BY <1>3, <1>4
    <3> HIDE DEF e
    <3> QED  BY <3>1, MaxOfTwo
  <2> HIDE DEF size, e
  <2> QED  BY <2>1, <1>2, <1>3, <1>4
<1>6. size \in 0..Word * Word - 1 /\ e.fptr + count \in 0..Word * Word - 1
  <2> DEFINE W2 == Word * Word
  <2>1. W2 \in Int /\ MaxSize < W2
    BY <1>4, Words
  <2> HIDE DEF W2, size, e
  <2>2. size \in 0..W2 - 1 /\ e.fptr + count \in 0..W2 - 1
    BY <2>1, <1>2, <1>3, <1>4, <1>5
  <2> QED  BY <2>2 DEF W2
<1>7. w \in Entry /\ w.fid = entries[n].fid /\ w.size = size
  <2> DEFINE p == e.fptr + count
  <2>1. e \in Entry /\ size \in 0..Word * Word - 1 /\ p \in 0..Word * Word - 1
    BY <1>3, <1>6
  <2> HIDE DEF size, p, e
  <2>2. /\ [e EXCEPT !.size = size, !.fptr = p] \in Entry
        /\ [e EXCEPT !.size = size, !.fptr = p].fid = e.fid
        /\ [e EXCEPT !.size = size, !.fptr = p].size = size
    BY <2>1, WrittenEntry, Zenon
  <2> QED  BY <2>2 DEF p, e
<1>8. entries' = [entries EXCEPT ![n] = w]
  <2> HIDE DEF size
  <2> QED  BY <1>2
<1>9. w.size <= MaxSize
  <2> HIDE DEF size, w
  <2> QED  BY <1>5, <1>7, <1>4
<1> HIDE DEF w
<1>10. /\ entries' \in Seq(Entry) /\ Len(entries') = Len(entries)
       /\ \A m \in DOMAIN entries : /\ entries'[m].fid = entries[m].fid
                                    /\ entries'[m].size <= MaxSize
  BY <1>1, <1>7, <1>8, <1>9, EditedEntry
<1>11. dir' \in [Slot -> [name : File \cup {Nothing}, size : 0..MaxSize]]
  <2> DEFINE s == entries[ft_ptr].slot
  <2>1. s \in Slot
    <3>1. ft_ptr \in DOMAIN entries
      BY <1>1, Ranges DEF IInv, LastAllocated
    <3> QED  BY <3>1, Ranges, Fields DEF IInv
  <2>2. dir \in [Slot -> [name : File \cup {Nothing}, size : 0..MaxSize]]
    BY DEF IInv, TypeOK
  <2>3. dir' = dir \/ dir' = [dir EXCEPT ![s].size = size]
    BY <1>2
  <2> HIDE DEF s, size
  <2> QED  BY <2>1, <2>2, <2>3, <1>5
<1>12. /\ {ruf1', ruf2'} \subseteq 0..Len(entries)
       /\ (ruf1 # None => ruf1' = ruf1) /\ (ruf1' = None => ruf2' = None)
  BY <1>1, <1>2, Remembered DEF IInv
<1> QED  BY <1>2, <1>10, <1>11, <1>12, SameDescriptors

(* A seek.                                                                  *)
LEMMA SeekKeeps ==
    ASSUME IInv, NEW fid \in Fid, NEW offset \in -MaxBack..1, NEW from \in 0..2,
           Seek(fid, offset, from)
    PROVE  IInv'
<1> DEFINE n == Lookup(fid)
           e == entries[n]
           W2 == Word * Word
<1>1. n \in DOMAIN entries
  BY LookupInTable DEF Seek
<1>2. /\ Remember(fid, n) /\ entries' = [entries EXCEPT ![n].fptr = Sought(e, offset, from)]
      /\ UNCHANGED <<generators, list, ft_ptr, dir, open, taken>>
  BY DEF Seek
<1> HIDE DEF n
<1>3. e.fptr \in 0..W2 - 1 /\ e.size \in 0..W2 - 1
  BY <1>1, Ranges, Fields DEF IInv
<1>4. offset \in Int /\ (offset >= 0 => offset \in 0..W2 - 1)
  <2>1. Word >= 4 /\ Word \in Nat
    BY Words
  <2>2. W2 \in Nat /\ W2 >= 2
    BY <2>1
  <2>3. offset \in Int /\ offset <= 1
    BY FilesAssumption
  <2> HIDE DEF W2
  <2> QED  BY <2>2, <2>3
<1>5. U(e.fptr + offset) \in 0..W2 - 1 /\ U(e.size + offset) \in 0..W2 - 1
  <2>1. e.fptr + offset \in Int /\ e.size + offset \in Int
    <3>1. W2 \in Int
      BY Words
    <3> HIDE DEF W2, e
    <3> QED  BY <3>1, <1>3, <1>4
  <2> QED  BY <2>1, Unsigned
<1>6. Sought(e, offset, from) \in 0..W2 - 1
  <2> HIDE DEF W2, e
  <2> QED  BY <1>3, <1>4, <1>5 DEF Sought
<1> HIDE DEF e
<1> QED  BY <1>1, <1>2, <1>6, PointerMoved

(* Create and delete: names change, descriptors do not.                     *)
LEMMA NamesKeep ==
    ASSUME IInv, NEW f \in File, Create(f) \/ Delete(f)
    PROVE  IInv'
<1>1. UNCHANGED <<generators, entries, list, ft_ptr, ruf1, ruf2, open, taken>>
  BY DEF Create, Delete
<1>2. dir \in [Slot -> [name : File \cup {Nothing}, size : 0..MaxSize]]
  BY DEF IInv, TypeOK
<1>3. dir' \in [Slot -> [name : File \cup {Nothing}, size : 0..MaxSize]]
  <2>1. CASE Create(f)
    <3> DEFINE unused == {s \in Slot : dir[s].name = Nothing}
               s0 == Min(unused)
    <3>1. unused # {} /\ dir' = [dir EXCEPT ![s0] = [name |-> f, size |-> 0]]
      BY <2>1 DEF Create
    <3>2. s0 \in Slot
      <4>1. unused \subseteq Nat /\ unused \subseteq Slot
        BY FilesAssumption DEF Slot
      <4> HIDE DEF unused
      <4> QED  BY <4>1, <3>1, MinMember
    <3>3. [name |-> f, size |-> 0] \in [name : File \cup {Nothing}, size : 0..MaxSize]
      BY FilesAssumption
    <3> HIDE DEF s0
    <3> QED  BY <3>1, <3>2, <3>3, <1>2
  <2>2. CASE Delete(f)
    <3> DEFINE s0 == Min(SlotsOf(f))
    <3>1. SlotsOf(f) # {} /\ dir' = [dir EXCEPT ![s0].name = Nothing]
      BY <2>2 DEF Delete
    <3>2. s0 \in Slot
      <4>1. SlotsOf(f) \subseteq Nat /\ SlotsOf(f) \subseteq Slot
        BY FilesAssumption DEF Slot, SlotsOf
      <4> QED  BY <4>1, <3>1, MinMember
    <3> HIDE DEF s0
    <3> QED  BY <3>1, <3>2, <1>2
  <2> QED  BY <2>1, <2>2
<1>4. \A m \in DOMAIN entries : entries[m].size <= MaxSize
  BY DEF IInv, SizesFit
<1> QED  BY <1>1, <1>3, <1>4, Ranges, SameDescriptors DEF IInv, TakenFirst

(* Every step keeps the invariant.                                          *)
LEMMA NextIInv == IInv /\ [Next]_vars => IInv'
<1> SUFFICES ASSUME IInv, [Next]_vars PROVE IInv'
  OBVIOUS
<1>1. ASSUME NEW f \in File, NameStep(f) PROVE IInv'
  <2>1. CASE \E mode \in Mode : Open(f, mode)
    BY <2>1, OpenKeeps
  <2>2. CASE OpenInvalid(f)
    BY <2>2, OpenInvalidKeeps
  <2>3. CASE ReadImage(f)
    BY <2>3, ReadImageKeeps
  <2>4. CASE Create(f) \/ Delete(f)
    BY <2>4, NamesKeep
  <2> QED  BY <1>1, <2>1, <2>2, <2>3, <2>4 DEF NameStep
<1>2. ASSUME NEW fid \in Fid, DescriptorStep(fid) PROVE IInv'
  <2>1. CASE Close(fid)
    BY <2>1, CloseKeeps
  <2>2. CASE \E count \in 1..MaxSize : Read(fid, count) \/ Write(fid, count)
    BY <2>2, ReadKeeps, WriteKeeps
  <2>3. CASE \E offset \in -MaxBack..1, from \in 0..2 : Seek(fid, offset, from)
    BY <2>3, SeekKeeps
  <2> QED  BY <1>2, <2>1, <2>2, <2>3 DEF DescriptorStep
<1>3. CASE UNCHANGED vars
  <2>1. UNCHANGED <<generators, entries, list, ft_ptr, ruf1, ruf2, dir, open, taken>>
    BY <1>3 DEF vars
  <2>2. \A m \in DOMAIN entries : entries[m].size <= MaxSize
    BY DEF IInv, SizesFit
  <2>3. dir \in [Slot -> [name : File \cup {Nothing}, size : 0..MaxSize]]
    BY DEF IInv, TypeOK
  <2> QED  BY <2>1, <2>2, <2>3, Ranges, SameDescriptors DEF IInv, TakenFirst
<1> QED  BY <1>1, <1>2, <1>3 DEF Next

-----------------------------------------------------------------------------
(* The inductive invariant: the generators keep to their residues, and      *)
(* every open entry hangs on the list as long as the last one does.         *)
THEOREM Invariant == Spec => []IInv
<1>1. Init => IInv
  BY InitIInv
<1>2. IInv /\ [Next]_vars => IInv'
  BY NextIInv
<1> QED  BY <1>1, <1>2, PTL DEF Spec

(* Types: every number fits the word or the two it is kept in.              *)
THEOREM TypeCorrect == Spec => []TypeOK
<1>1. IInv => TypeOK
  BY DEF IInv
<1> QED  BY <1>1, Invariant, PTL

(* No two files ever opened have the same descriptor, though three          *)
(* generators overlap in memory, and none has the caches' (filemanager.cpp  *)
(* open, main.cpp rid, wid and rwid).                                       *)
THEOREM DescriptorsNeverCollide == Spec => []DescriptorsDistinct
<1>1. IInv => DescriptorsDistinct
  BY InvariantMeans
<1> QED  BY <1>1, Invariant, PTL

(* A descriptor that has not been closed reaches its own file or none.      *)
THEOREM NeverAnotherFile == Spec => []OwnFile
<1>1. IInv => OwnFile
  BY InvariantMeans
<1> QED  BY <1>1, Invariant, PTL

(* It reaches its own as long as the file opened last is on the list, but   *)
(* for at most one file, the first ever used, which a close of descriptor 0 *)
(* takes off the list (filemanager.cpp close, filesystem.cpp fclose).       *)
THEOREM OpenFilesAreReached == Spec => []ReachedUnlessTaken
<1>1. IInv => ReachedUnlessTaken
  BY InvariantMeans
<1> QED  BY <1>1, Invariant, PTL
==============================================================================
