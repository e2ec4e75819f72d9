------------------------------ MODULE Memory_proofs ------------------------------
(***************************************************************************)
(* Memory keeps its types whatever happens, and as long as nothing has     *)
(* gone wrong (NeverFaults) blocks in use share no byte, lie on frames     *)
(* that are taken and that the kernel sees from everywhere, no frame has   *)
(* two uses, and no call puts another one under a block that stays: for    *)
(* any sizes of pages and tables, any number of spaces, frames and calls.  *)
(*                                                                         *)
(* The invariant is Sound: the page tables are a partial function without  *)
(* two pages on one frame (Held), the end of a heap is within a page that  *)
(* is there (Ends), and the blocks in use are apart, backed and below the  *)
(* end.  A call is a chain of steps on the memory, so each lemma is about  *)
(* an operator: from any sound memory it either makes a sound one, or      *)
(* leaves a fault.  The order below: folds and arithmetic; types; views    *)
(* (what an operator does to directories, frames and ends); soundness,     *)
(* from kdmalloc to the constructor of a process; kdfree; the actions.     *)
(***************************************************************************)
EXTENDS Memory, SequenceTheorems, WellFoundedInduction, TLAPS

-----------------------------------------------------------------------------
(* Numbers and recursive functions. *)

(* Min picks the least member of a nonempty set of naturals.                *)
LEMMA MinMember ==
    ASSUME NEW T, T \subseteq Nat, T # {}
    PROVE  Min(T) \in T
<1>1. PICK x \in T : \A y \in T : <<y, x>> \notin OpToRel(<, Nat)
  BY WFMin, NatLessThanWellFounded, Zenon
<1>2. \A y \in T : x <= y
  <2>1. SUFFICES ASSUME NEW y \in T PROVE ~(y < x)
    BY SMT
  <2>2. y \in Nat /\ x \in Nat /\ <<y, x>> \notin {ss \in Nat \X Nat : ss[1] < ss[2]}
    BY <1>1 DEF OpToRel
  <2> QED  BY <2>2
<1> QED  BY <1>1, <1>2 DEF Min

(* What holds of 0 and with every number of the next holds of all: a least  *)
(* number outside A would have one before it inside.                        *)
LEMMA Induction ==
    ASSUME NEW n \in Nat, NEW A, 0 \in A,
           \A i \in 1..n : i - 1 \in A => i \in A
    PROVE  \A i \in 0..n : i \in A
<1> DEFINE bad == {i \in 0..n : i \notin A}
<1>1. SUFFICES ASSUME bad # {} PROVE FALSE
  OBVIOUS
<1>2. bad \subseteq Nat
  OBVIOUS
<1>3. PICK m \in bad : \A y \in bad : <<y, m>> \notin OpToRel(<, Nat)
  BY <1>1, <1>2, WFMin, NatLessThanWellFounded, Zenon
<1>4. \A x \in bad : m <= x
  <2>1. SUFFICES ASSUME NEW y \in bad PROVE ~(y < m)
    BY SMT
  <2>2. y \in Nat /\ m \in Nat /\ <<y, m>> \notin {ss \in Nat \X Nat : ss[1] < ss[2]}
    BY <1>3 DEF OpToRel
  <2> QED  BY <2>2
<1>5. m \in 1..n /\ m - 1 \in 0..n
  OBVIOUS
<1>6. m - 1 \in A
  BY <1>4, <1>5
<1> QED  BY <1>5, <1>6

(* g begins with x and applies step, which takes the number too.            *)
Iterates(g, n, V, x, step) ==
    /\ g \in [0..n -> V]
    /\ \A i \in 0..n : g[i] = IF i = 0 THEN x ELSE step[<<i, g[i - 1]>>]

(* A function on 0..n is defined by its first value and a step.             *)
LEMMA Iteration ==
    ASSUME NEW n \in Nat, NEW V, NEW x \in V, NEW step \in [(1..n) \X V -> V]
    PROVE  \E g : Iterates(g, n, V, x, step)
<1> DEFINE A == {m \in 0..n : \E g : Iterates(g, m, V, x, step)}
<1>1. 0 \in A
  <2> DEFINE h == [i \in 0..0 |-> x]
  <2>1. h \in [0..0 -> V] /\ \A i \in 0..0 : h[i] = IF i = 0 THEN x ELSE step[<<i, h[i - 1]>>]
    OBVIOUS
  <2> HIDE DEF h
  <2> QED  BY <2>1 DEF Iterates
<1>2. ASSUME NEW m \in 1..n, m - 1 \in A PROVE m \in A
  <2>1. PICK g : Iterates(g, m - 1, V, x, step)
    BY <1>2
  <2> DEFINE h == [i \in 0..m |-> IF i < m THEN g[i] ELSE step[<<m, g[m - 1]>>]]
  <2>2. /\ g \in [0..m - 1 -> V]
        /\ \A i \in 0..m - 1 : g[i] = IF i = 0 THEN x ELSE step[<<i, g[i - 1]>>]
    BY <2>1 DEF Iterates
  <2>3. h \in [0..m -> V]
    BY <2>2
  <2>4. ASSUME NEW i \in 0..m
        PROVE  h[i] = IF i = 0 THEN x ELSE step[<<i, h[i - 1]>>]
    <3>1. CASE i < m
      <4>1. i \in 0..m - 1 /\ h[i] = g[i] /\ (i # 0 => h[i - 1] = g[i - 1])
        BY <3>1
      <4>2. g[i] = IF i = 0 THEN x ELSE step[<<i, g[i - 1]>>]
        BY <4>1, <2>2
      <4> HIDE DEF h
      <4> QED  BY <4>1, <4>2
    <3>2. CASE i = m
      <4>1. h[m - 1] = g[m - 1] /\ h[m] = step[<<m, g[m - 1]>>]
        OBVIOUS
      <4> QED  BY <4>1, <3>2
    <3> QED  BY <3>1, <3>2
  <2> HIDE DEF h
  <2> QED  BY <2>3, <2>4 DEF Iterates
<1> HIDE DEF A
<1>3. n \in A
  BY <1>1, <1>2, Induction
<1> QED  BY <1>3 DEF A

(* The numbers of the machine.                                              *)
LEMMA Machine ==
    /\ PAGE_SIZE \in Nat /\ PAGE_SIZE > 512 /\ PAGE_SIZE >= 512 /\ PAGE_SIZE % 512 = 0
    /\ TABLE \in Nat /\ TABLE > 0 /\ KTABLES \in Nat /\ KTABLES > 0
    /\ S \in Nat /\ S > 0 /\ MaxProcess \in Nat /\ MaxProcess > 0
    /\ MaxFrame \in Nat /\ MaxFrame > 0 /\ MaxTable \in Nat /\ MaxTable > 0
    /\ NoFrame = MaxFrame + 1 /\ NoTable = MaxTable + 1 /\ MaxCalls \in Nat
  BY MemoryAssumption DEF NoFrame, NoTable

(* Multiples of a number.                                                   *)
LEMMA Multiples ==
    ASSUME NEW s \in Nat, s > 0, NEW i \in Nat, NEW j \in Nat
    PROVE  /\ i * s \in Nat /\ (i + 1) * s = i * s + s /\ (i + j) * s = i * s + j * s
           /\ i <= j => i * s <= j * s
           /\ i < j => i * s + s <= j * s
<1>1. \A x, y, z \in Nat : x * z \in Nat /\ (x + y) * z = x * z + y * z
  OBVIOUS
<1>2. \A x \in Nat : 1 * x = x
  OBVIOUS
<1>3. (i + 1) * s = i * s + s
  BY <1>1, <1>2
<1>4. i <= j => i * s <= j * s
  <2>1. SUFFICES ASSUME i <= j PROVE i * s <= j * s
    OBVIOUS
  <2>2. j - i \in Nat /\ j = i + (j - i)
    BY <2>1
  <2>3. j * s = i * s + (j - i) * s /\ (j - i) * s \in Nat /\ i * s \in Nat
    BY <2>2, <1>1
  <2> QED  BY <2>3
<1>5. i < j => i * s + s <= j * s
  <2>1. SUFFICES ASSUME i < j PROVE i * s + s <= j * s
    OBVIOUS
  <2>2. j - i - 1 \in Nat /\ j = (i + 1) + (j - i - 1) /\ i + 1 \in Nat
    BY <2>1
  <2>3. j * s = (i + 1) * s + (j - i - 1) * s /\ (j - i - 1) * s \in Nat /\ i * s \in Nat
    BY <2>2, <1>1
  <2> QED  BY <2>3, <1>3
<1> QED  BY <1>1, <1>3, <1>4, <1>5

(* Quotient and remainder.                                                  *)
LEMMA Division ==
    ASSUME NEW s \in Nat, s > 0, NEW a \in Nat
    PROVE  /\ a \div s \in Nat /\ a % s \in Nat /\ a % s < s
           /\ a = (a \div s) * s + (a % s)
           /\ \A k \in Nat : k * s <= a <=> k <= a \div s
           /\ \A k, r \in Nat : a = k * s + r /\ r < s => a \div s = k /\ a % s = r
<1>1. a \div s \in Nat /\ a % s \in 0..s - 1 /\ a = s * (a \div s) + (a % s)
  BY Z3
<1> DEFINE q == a \div s  r == a % s
<1>2. q \in Nat /\ r \in Nat /\ r < s /\ a = s * q + r
  BY <1>1
<1>6. q = a \div s /\ r = a % s
  OBVIOUS
<1> HIDE DEF q, r
<1>3. q \in Nat /\ r \in Nat /\ r < s /\ a = q * s + r
  BY <1>2
<1>4. ASSUME NEW k \in Nat PROVE k * s <= a <=> k <= q
  <2>1. /\ k * s \in Nat /\ q * s \in Nat /\ (k <= q => k * s <= q * s)
        /\ (q < k => q * s + s <= k * s)
    BY <1>3, Multiples
  <2> QED  BY <2>1, <1>3
<1>5. ASSUME NEW k \in Nat, NEW t \in Nat, a = k * s + t, t < s PROVE q = k /\ r = t
  <2>1. /\ k * s \in Nat /\ q * s \in Nat /\ (k < q => k * s + s <= q * s)
        /\ (q < k => q * s + s <= k * s)
    BY <1>3, Multiples
  <2>2. q = k
    BY <2>1, <1>3, <1>5
  <2> QED  BY <2>1, <2>2, <1>3, <1>5
<1>7. (a \div s) * s = q * s
  BY <1>6
<1> QED  BY <1>3, <1>4, <1>5, <1>6, <1>7, Zenon

(* Pages and the addresses in them.                                         *)
LEMMA Addresses ==
    ASSUME NEW a \in Nat
    PROVE  /\ PageOf(a) \in Nat /\ a % PAGE_SIZE \in Nat /\ a % PAGE_SIZE < PAGE_SIZE
           /\ PageOf(a) * PAGE_SIZE \in Nat
           /\ a = PageOf(a) * PAGE_SIZE + (a % PAGE_SIZE)
           /\ (PageOf(a) + 1) * PAGE_SIZE = PageOf(a) * PAGE_SIZE + PAGE_SIZE
           /\ \A k \in Nat : k * PAGE_SIZE <= a <=> k <= PageOf(a)
           /\ \A k, r \in Nat : a = k * PAGE_SIZE + r /\ r < PAGE_SIZE =>
                 PageOf(a) = k /\ a % PAGE_SIZE = r
<1>1. PAGE_SIZE \in Nat /\ PAGE_SIZE > 0
  BY Machine
<1>2. /\ a \div PAGE_SIZE \in Nat /\ a % PAGE_SIZE \in Nat /\ a % PAGE_SIZE < PAGE_SIZE
      /\ a = (a \div PAGE_SIZE) * PAGE_SIZE + (a % PAGE_SIZE)
      /\ \A k \in Nat : k * PAGE_SIZE <= a <=> k <= a \div PAGE_SIZE
      /\ \A k, r \in Nat : a = k * PAGE_SIZE + r /\ r < PAGE_SIZE =>
            a \div PAGE_SIZE = k /\ a % PAGE_SIZE = r
  BY <1>1, Division, Zenon
<1>3. /\ (a \div PAGE_SIZE) * PAGE_SIZE \in Nat
      /\ ((a \div PAGE_SIZE) + 1) * PAGE_SIZE = (a \div PAGE_SIZE) * PAGE_SIZE + PAGE_SIZE
  BY <1>1, <1>2, Multiples
<1> QED  BY <1>2, <1>3, Zenon DEF PageOf

-----------------------------------------------------------------------------
(* The records of freed blocks stay records. *)

Record == [offset : Nat, size : Nat]
(* What check_heap carries from record to record, of n records.             *)
Joining(n) == {s \in [free : Seq(Record), vhp : Int, count : Int, the : 0..n, offset : Nat, size : Int] :
                  Len(s.free) = n /\ s.count <= n}

(* Removing a record and adding another keeps the number of them.           *)
LEMMA Replaced ==
    ASSUME NEW s \in Seq(Record), NEW i \in 1..Len(s), NEW r \in Record
    PROVE  Append(RemoveAt(s, i), r) \in Seq(Record) /\ Len(Append(RemoveAt(s, i), r)) = Len(s)
<1> DEFINE a == SubSeq(s, 1, i - 1)  b == SubSeq(s, i + 1, Len(s))
<1>1. Len(s) \in Nat /\ \A j \in 1..Len(s) : s[j] \in Record
  BY LenProperties
<1>2. a \in Seq(Record) /\ Len(a) = i - 1
  <2>1. \A j \in 1..i - 1 : s[j] \in Record
    BY <1>1
  <2>2. Len(a) = IF 1 <= i - 1 THEN (i - 1) - 1 + 1 ELSE 0
    BY <1>1, <2>1, SubSeqProperties
  <2>3. a \in Seq(Record)
    BY <1>1, <2>1, SubSeqProperties
  <2> QED  BY <2>2, <2>3, <1>1
<1>3. b \in Seq(Record) /\ Len(b) = Len(s) - i
  <2>1. \A j \in i + 1..Len(s) : s[j] \in Record
    BY <1>1
  <2>2. Len(b) = IF i + 1 <= Len(s) THEN Len(s) - (i + 1) + 1 ELSE 0
    BY <1>1, <2>1, SubSeqProperties
  <2>3. b \in Seq(Record)
    BY <1>1, <2>1, SubSeqProperties
  <2> QED  BY <2>2, <2>3, <1>1
<1>4. RemoveAt(s, i) = a \o b
  BY DEF RemoveAt
<1> HIDE DEF a, b
<1>5. a \o b \in Seq(Record) /\ Len(a \o b) = Len(s) - 1
  <2>1. a \o b \in Seq(Record) /\ Len(a \o b) = Len(a) + Len(b)
    BY <1>2, <1>3, ConcatProperties
  <2> QED  BY <2>1, <1>1, <1>2, <1>3
<1>6. Append(a \o b, r) \in Seq(Record) /\ Len(Append(a \o b, r)) = Len(s) - 1 + 1
  BY <1>5, AppendProperties
<1> QED  BY <1>1, <1>4, <1>6

(* One join keeps the form.                                                 *)
LEMMA JoinedTyped ==
    ASSUME NEW n \in Nat, NEW s \in Joining(n), NEW i \in 1..n
    PROVE  Joined(s, i) \in Joining(n)
<1> DEFINE e == s.free[i]
           before == e.offset + e.size = s.offset
           after == s.offset + s.size = e.offset
           block == [offset |-> IF before THEN e.offset ELSE s.offset, size |-> (s.size + e.size) % PAGE_SIZE]
           t == s.free[s.the]
           merged == [offset |-> e.offset, size |-> (t.size + e.size) % PAGE_SIZE]
           one == [s EXCEPT !.free[i] = block, !.the = i, !.offset = block.offset, !.size = block.size]
           two == [s EXCEPT !.free = Append(RemoveAt([s.free EXCEPT ![s.the] = merged], i),
                                            [offset |-> 0, size |-> 0]),
                            !.vhp = s.vhp + HeapEntry, !.count = s.count - 1]
<1>1. /\ s.free \in Seq(Record) /\ Len(s.free) = n /\ s.vhp \in Int /\ s.count \in Int
      /\ s.the \in 0..n /\ s.offset \in Nat /\ s.size \in Int /\ s.count <= n
      /\ s \in [free : Seq(Record), vhp : Int, count : Int, the : 0..n, offset : Nat, size : Int]
  BY DEF Joining
<1>2. e \in Record /\ e.offset \in Nat /\ e.size \in Nat
  <2>1. e \in Record
    BY <1>1, ElementOfSeq
  <2> QED  BY <2>1 DEF Record
<1>3. \A x \in Int : x % PAGE_SIZE \in Nat
  <2>1. PAGE_SIZE \in Nat /\ PAGE_SIZE > 0
    BY Machine
  <2> QED  BY <2>1, Z3
<1>4. block \in Record /\ block.offset \in Nat /\ block.size \in Nat
  <2>1. s.size + e.size \in Int
    BY <1>1, <1>2
  <2>2. (s.size + e.size) % PAGE_SIZE \in Nat
    BY <2>1, <1>3
  <2> HIDE DEF e, before
  <2> QED  BY <2>2, <1>1, <1>2 DEF Record
<1>5. one \in Joining(n)
  <2>1. [s.free EXCEPT ![i] = block] \in Seq(Record) /\ Len([s.free EXCEPT ![i] = block]) = n
    <3> HIDE DEF block
    <3> QED  BY <1>1, <1>4, ExceptSeq
  <2> DEFINE f == [s.free EXCEPT ![i] = block]  o == block.offset  z == block.size
  <2>2. one = [s EXCEPT !.free = f, !.the = i, !.offset = o, !.size = z]
    <3> HIDE DEF block
    <3> QED  BY <1>1
  <2>3. f \in Seq(Record) /\ Len(f) = n /\ o \in Nat /\ z \in Int
    BY <2>1, <1>4
  <2> HIDE DEF one, f, o, z, e, before, after, block, t, merged, two
  <2>4. one \in [free : Seq(Record), vhp : Int, count : Int, the : 0..n, offset : Nat, size : Int]
    <3>1. one = [free |-> f, vhp |-> s.vhp, count |-> s.count, the |-> i, offset |-> o, size |-> z]
      BY <1>1, <2>2
    <3>2. i \in 0..n
      OBVIOUS
    <3> QED  BY <1>1, <2>3, <3>1, <3>2
  <2>5. one.free = f /\ one.count = s.count
    BY <1>1, <2>2
  <2> QED  BY <1>1, <2>3, <2>4, <2>5 DEF Joining
<1>6. ASSUME s.the # 0 PROVE two \in Joining(n)
  <2>1. s.the \in 1..Len(s.free)
    BY <1>1, <1>6
  <2>2. t \in Record /\ t.size \in Nat
    <3>1. t \in Record
      BY <1>1, <2>1, ElementOfSeq
    <3> QED  BY <3>1 DEF Record
  <2>3. merged \in Record
    <3>1. t.size + e.size \in Int
      BY <1>2, <2>2
    <3>2. (t.size + e.size) % PAGE_SIZE \in Nat
      BY <3>1, <1>3
    <3> HIDE DEF e, t
    <3> QED  BY <3>2, <1>2 DEF Record
  <2> DEFINE f == [s.free EXCEPT ![s.the] = merged]  r == [offset |-> 0, size |-> 0]
  <2>4. f \in Seq(Record) /\ Len(f) = n /\ r \in Record
    <3>1. f \in Seq(Record) /\ Len(f) = Len(s.free)
      <4> HIDE DEF merged
      <4> QED  BY <1>1, <2>1, <2>3, ExceptSeq
    <3> QED  BY <1>1, <3>1 DEF Record
  <2> HIDE DEF f, r
  <2>5. Append(RemoveAt(f, i), r) \in Seq(Record) /\ Len(Append(RemoveAt(f, i), r)) = n
    BY <2>4, Replaced
  <2> DEFINE u == Append(RemoveAt(f, i), r)
  <2>6. two = [s EXCEPT !.free = u, !.vhp = s.vhp + HeapEntry, !.count = s.count - 1]
    BY DEF f, r
  <2> HIDE DEF u, two
  <2>7. u \in Seq(Record) /\ Len(u) = n
    BY <2>5 DEF u
  <2>8. s.vhp + HeapEntry \in Int /\ s.count - 1 \in Int /\ s.count - 1 <= n
    BY <1>1 DEF HeapEntry
  <2> QED  BY <1>1, <2>6, <2>7, <2>8 DEF Joining
<1>7. Joined(s, i) = CASE ~before /\ ~after -> s [] s.the = 0 -> one [] OTHER -> two
  BY Zenon DEF Joined
<1> HIDE DEF before, after, one, two
<1> QED  BY <1>5, <1>6, <1>7

(* check_heap makes records of the records of a page.                       *)
LEMMA CheckHeapTyped ==
    ASSUME NEW h \in Heaps, NEW o \in Nat, NEW n \in Int
    PROVE  CheckHeap(h, o, n) \in Heaps
<1> DEFINE k == Len(h.free)
           start == [free |-> h.free, vhp |-> h.vhp, count |-> Len(h.free),
                     the |-> 0, offset |-> o, size |-> n]
           done[i \in 0..Len(h.free)] == IF i = 0 THEN start ELSE Joined(done[i - 1], i)
           s == done[Len(h.free)]
           new == [offset |-> o, size |-> n % PAGE_SIZE]
           step == [x \in (1..k) \X Joining(k) |-> Joined(x[2], x[1])]
<1>1. h.free \in Seq(Record) /\ h.vhp \in Int /\ k \in Nat
  BY LenProperties DEF Heaps, Record
<1>2. start \in Joining(k)
  BY <1>1 DEF Joining
<1>3. step \in [(1..k) \X Joining(k) -> Joining(k)]
  BY <1>1, JoinedTyped
<1>4. PICK g : Iterates(g, k, Joining(k), start, step)
  <2> HIDE DEF k, start, step
  <2> QED  BY <1>1, <1>2, <1>3, Iteration
<1>5. g \in [0..k -> Joining(k)] /\ \A i \in 0..k : g[i] = IF i = 0 THEN start ELSE step[<<i, g[i - 1]>>]
  BY <1>4 DEF Iterates
<1>6. g = [i \in 0..k |-> IF i = 0 THEN start ELSE Joined(g[i - 1], i)]
  <2>1. ASSUME NEW i \in 0..k, i # 0 PROVE step[<<i, g[i - 1]>>] = Joined(g[i - 1], i)
    <3>1. i \in 1..k /\ i - 1 \in 0..k
      BY <1>1, <2>1
    <3>2. g[i - 1] \in Joining(k)
      BY <3>1, <1>5
    <3> QED  BY <3>1, <3>2
  <2> HIDE DEF start, step, k
  <2> QED  BY <1>5, <2>1
<1>7. done = [i \in 0..k |-> IF i = 0 THEN start ELSE Joined(done[i - 1], i)]
  <2> HIDE DEF start
  <2> QED  BY <1>6
<1> HIDE DEF done
<1>8. ASSUME NEW i \in 0..k PROVE done[i] \in Joining(k)
  <2> DEFINE A == {j \in 0..k : done[j] \in Joining(k)}
  <2>1. 0 \in A
    BY <1>1, <1>2, <1>7
  <2>2. ASSUME NEW j \in 1..k, j - 1 \in A PROVE j \in A
    <3>1. j \in 0..k /\ j # 0 /\ done[j - 1] \in Joining(k)
      BY <1>1, <2>2
    <3>2. done[j] = Joined(done[j - 1], j)
      <4> HIDE DEF start, k
      <4> QED  BY <3>1, <1>7
    <3> QED  BY <1>1, <3>1, <3>2, JoinedTyped
  <2> HIDE DEF A
  <2>3. i \in A
    <3> HIDE DEF k
    <3> QED  BY <1>1, <2>1, <2>2, Induction
  <2> QED  BY <2>3 DEF A
<1>9. s \in Joining(k)
  <2>1. k \in 0..k
    BY <1>1
  <2> QED  BY <2>1, <1>8
<1>10. s.free \in Seq(Record) /\ s.vhp \in Int /\ s.count \in Int /\ s.count <= Len(s.free)
  <2> HIDE DEF s
  <2> QED  BY <1>9 DEF Joining
<1>11. new \in Record
  <2>1. PAGE_SIZE \in Nat /\ PAGE_SIZE > 0
    BY Machine
  <2>2. n % PAGE_SIZE \in Nat
    BY <2>1, Z3
  <2> QED  BY <2>2 DEF Record
<1>12. Append(h.free, new) \in Seq(Record) /\ <<new>> \in Seq(Record)
  <2> HIDE DEF new
  <2> QED  BY <1>1, <1>11, AppendProperties
<1>13. SubSeq(s.free, 1, s.count) \in Seq(Record)
  <2> HIDE DEF s
  <2>1. Len(s.free) \in Nat /\ \A j \in 1..Len(s.free) : s.free[j] \in Record
    BY <1>10, LenProperties
  <2>2. \A j \in 1..s.count : s.free[j] \in Record
    BY <2>1, <1>10
  <2> QED  BY <2>2, <1>10, SubSeqProperties
<1>14. CheckHeap(h, o, n) =
          CASE h.free = <<>> -> [h EXCEPT !.free = <<new>>]
            [] s.the = 0 -> [vhp |-> h.vhp + HeapEntry, free |-> Append(h.free, new)]
            [] OTHER -> [vhp |-> s.vhp, free |-> SubSeq(s.free, 1, s.count)]
  BY DEF CheckHeap, done
<1> HIDE DEF s, new
<1>15. [h EXCEPT !.free = <<new>>] \in Heaps
  BY <1>12 DEF Heaps, Record
<1>16. [vhp |-> h.vhp + HeapEntry, free |-> Append(h.free, new)] \in Heaps
  BY <1>1, <1>12 DEF Heaps, Record, HeapEntry
<1>17. [vhp |-> s.vhp, free |-> SubSeq(s.free, 1, s.count)] \in Heaps
  BY <1>10, <1>13 DEF Heaps, Record
<1> QED  BY <1>14, <1>15, <1>16, <1>17

(* One entry rises.                                                         *)
LEMMA RisenTyped ==
    ASSUME NEW n \in Nat, NEW h \in [1..n -> Record], NEW i \in 1..n
    PROVE  Risen(h, i) \in [1..n -> Record]
<1> DEFINE path == {j \in 1..i : j = i \/ \E d \in 1..i : i \div 2^d = j}
           places == {j \in path : \A k \in path : j <= k /\ k < i => h[k].size < h[i].size}
           place == Min(places)
<1>1. i \in path
  OBVIOUS
<1>2. place \in 1..i
  <2>1. places \subseteq Nat /\ places \subseteq 1..i
    OBVIOUS
  <2>2. i \in places
    BY <1>1
  <2> HIDE DEF places
  <2>3. place \in places
    BY <2>1, <2>2, MinMember
  <2> QED  BY <2>1, <2>3
<1>3. Risen(h, i) = [j \in DOMAIN h |-> IF j = place THEN h[i]
                            ELSE IF j \in path /\ j > place THEN h[j \div 2] ELSE h[j]]
  BY DEF Risen
<1> HIDE DEF place
<1>4. ASSUME NEW j \in 1..n, j \in path, j > place PROVE h[j \div 2] \in Record
  <2>1. j \div 2 \in 1..n
    BY <1>2, <1>4
  <2> QED  BY <2>1
<1> HIDE DEF path
<1> QED  BY <1>3, <1>4

(* heapify permutes the records.                                            *)
LEMMA HeapifyTyped ==
    ASSUME NEW h \in Seq(Record)
    PROVE  Heapify(h) \in Seq(Record)
<1> DEFINE k == Len(h)
           V == [1..k -> Record]
           done[i \in 0..Len(h)] == IF i = 0 THEN h ELSE Risen(done[i - 1], i)
           step == [x \in (1..k) \X V |-> Risen(x[2], x[1])]
<1>1. k \in Nat /\ h \in V
  BY LenProperties
<1>2. step \in [(1..k) \X V -> V]
  BY <1>1, RisenTyped
<1>3. PICK g : Iterates(g, k, V, h, step)
  <2> HIDE DEF k, step, V
  <2> QED  BY <1>1, <1>2, Iteration
<1>4. g \in [0..k -> V] /\ \A i \in 0..k : g[i] = IF i = 0 THEN h ELSE step[<<i, g[i - 1]>>]
  BY <1>3 DEF Iterates
<1>5. g = [i \in 0..k |-> IF i = 0 THEN h ELSE Risen(g[i - 1], i)]
  <2>1. ASSUME NEW i \in 0..k, i # 0 PROVE step[<<i, g[i - 1]>>] = Risen(g[i - 1], i)
    <3>1. i \in 1..k /\ i - 1 \in 0..k
      BY <1>1, <2>1
    <3>2. g[i - 1] \in V
      BY <3>1, <1>4
    <3> QED  BY <3>1, <3>2
  <2> HIDE DEF step, k, V
  <2> QED  BY <1>4, <2>1
<1>6. done = [i \in 0..k |-> IF i = 0 THEN h ELSE Risen(done[i - 1], i)]
  BY <1>5
<1> HIDE DEF done
<1>7. \A i \in 0..k : done[i] \in V
  <2> DEFINE A == {j \in 0..k : done[j] \in V}
  <2>1. 0 \in A
    BY <1>1, <1>6
  <2>2. ASSUME NEW j \in 1..k, j - 1 \in A PROVE j \in A
    <3>1. j \in 0..k /\ j # 0 /\ done[j - 1] \in V
      BY <1>1, <2>2
    <3>2. done[j] = Risen(done[j - 1], j)
      <4> HIDE DEF k
      <4> QED  BY <3>1, <1>6
    <3>3. Risen(done[j - 1], j) \in V
      BY <1>1, <3>1, RisenTyped
    <3> HIDE DEF V, k
    <3> QED  BY <3>1, <3>2, <3>3
  <2> HIDE DEF A
  <2>3. \A i \in 0..k : i \in A
    <3> HIDE DEF k
    <3> QED  BY <1>1, <2>1, <2>2, Induction
  <2> QED  BY <2>3 DEF A
<1>8. Heapify(h) = done[k] /\ k \in 0..k
  BY <1>1 DEF Heapify, done
<1>9. done[k] \in V
  BY <1>7, <1>8
<1> HIDE DEF k
<1> QED  BY <1>1, <1>8, <1>9

-----------------------------------------------------------------------------
(* Every routine makes a memory of a memory, and none takes a fault away.   *)

Later(M, N) == N \in Memories /\ N.spaces = M.spaces /\ (N.fault = "none" => M.fault = "none")

(* What a memory is made of.                                                *)
LEMMA Fields ==
    ASSUME NEW M \in Memories
    PROVE  /\ M.dir \in [Space -> [Entry -> 0..NoTable]]
           /\ M.tab \in [1..NoTable -> [0..TABLE - 1 -> 0..NoFrame]]
           /\ M.end \in [Space -> Nat] /\ M.heap \in [1..MaxFrame -> Heaps]
           /\ M.frames \subseteq 1..MaxFrame /\ M.reserved \subseteq 1..MaxTable
           /\ M.spaces \in Space /\ M.fault \in Faults \cup {"none"}
  BY DEF Memories

(* The layout of an address space.                                          *)
LEMMA Layout ==
    /\ 0 \in Space /\ Space \subseteq Nat /\ Entry \subseteq Nat
    /\ ImageStart \in Nat /\ HeapStart \in Nat /\ StackPage \in Nat
    /\ ImageStart < HeapStart /\ HeapStart <= StackPage
    /\ HeapStart = ImageStart + TABLE /\ StackPage >= HeapStart + TABLE
    /\ \A m \in Space : Area(m) \subseteq Nat
    /\ \A m \in Space : \A p \in Area(m) :
          /\ p \div TABLE \in Entry /\ p % TABLE \in 0..TABLE - 1
          /\ (m = 0 <=> p \div TABLE < KTABLES)
<1>1. /\ TABLE \in Nat /\ TABLE > 0 /\ KTABLES \in Nat /\ KTABLES > 0 /\ MaxProcess \in Nat
  BY Machine
<1> DEFINE k == KTABLES * TABLE
<1>2. k \in Nat /\ k >= 0
  BY <1>1, Multiples
<1>3. (KTABLES + 1) * TABLE = k + TABLE /\ (KTABLES + 4) * TABLE = k + 4 * TABLE
  <2>1. 4 \in Nat /\ (KTABLES + 4) * TABLE = KTABLES * TABLE + 4 * TABLE
    BY <1>1, Multiples
  <2> QED  BY <2>1, <1>1, Multiples
<1>4. ImageStart = k /\ HeapStart = k + TABLE /\ StackPage = (k + 4 * TABLE) - 1
  BY <1>3, Zenon DEF ImageStart, HeapStart, StackPage
<1> HIDE DEF k
<1>5. ASSUME NEW m \in Space, NEW p \in Area(m)
      PROVE  /\ p \in Nat /\ p \div TABLE \in Entry /\ p % TABLE \in 0..TABLE - 1
             /\ (m = 0 <=> p \div TABLE < KTABLES)
  <2>1. p \in Nat /\ (m = 0 => p < k) /\ (m # 0 => k <= p /\ p < k + 4 * TABLE)
    BY <1>1, <1>2, <1>4 DEF Area
  <2>2. /\ p \div TABLE \in Nat /\ p % TABLE \in Nat /\ p % TABLE < TABLE
        /\ \A i \in Nat : i * TABLE <= p <=> i <= p \div TABLE
    BY <1>1, <2>1, Division
  <2>3. KTABLES * TABLE <= p <=> KTABLES <= p \div TABLE
    BY <1>1, <2>2
  <2>4. (KTABLES + 4) * TABLE <= p <=> KTABLES + 4 <= p \div TABLE
    <3>1. KTABLES + 4 \in Nat
      BY <1>1
    <3> QED  BY <2>2, <3>1
  <2> DEFINE q == p \div TABLE  r == p % TABLE
  <2>5. /\ q \in Nat /\ r \in Nat /\ r < TABLE /\ (k <= p <=> KTABLES <= q)
        /\ (k + 4 * TABLE <= p <=> KTABLES + 4 <= q)
    BY <2>2, <2>3, <2>4, <1>3 DEF k
  <2> HIDE DEF q, r
  <2>6. q \in Entry /\ r \in 0..TABLE - 1 /\ (m = 0 <=> q < KTABLES) /\ p \in Nat
    BY <1>1, <1>2, <2>1, <2>5 DEF Entry
  <2> QED  BY <2>6 DEF q, r
<1>6. Space \subseteq Nat /\ Entry \subseteq Nat /\ 0 \in Space
  BY <1>1 DEF Space, Entry
<1> QED  BY <1>1, <1>2, <1>4, <1>5, <1>6

(* Where a page is looked up.                                               *)
LEMMA LookedUp ==
    ASSUME NEW M \in Memories, NEW m \in Space, NEW p \in Nat
    PROVE  /\ Table(M, m, p) \in 0..NoTable /\ Physical(M, m, p) \in 0..NoFrame
           /\ p \div TABLE \in Nat /\ p % TABLE \in 0..TABLE - 1
<1>1. /\ TABLE \in Nat /\ TABLE > 0 /\ NoFrame \in Nat /\ NoTable \in Nat
  BY Machine
<1>2. p \div TABLE \in Nat /\ p % TABLE \in 0..TABLE - 1
  <2>1. p \div TABLE \in Nat /\ p % TABLE \in Nat /\ p % TABLE < TABLE
    BY <1>1, Division
  <2> QED  BY <1>1, <2>1
<1>3. Table(M, m, p) \in 0..NoTable
  BY <1>1, Fields DEF Table
<1>4. Table(M, m, p) # 0 => Table(M, m, p) \in 1..NoTable
  BY <1>1, <1>3
<1> DEFINE t == Table(M, m, p)  i == p % TABLE
<1>5. Physical(M, m, p) = IF t = 0 THEN NoFrame ELSE M.tab[t][i]
  BY DEF Physical
<1>6. i \in 0..TABLE - 1 /\ (t # 0 => t \in 1..NoTable)
  BY <1>2, <1>4
<1> HIDE DEF t, i
<1>7. Physical(M, m, p) \in 0..NoFrame
  BY <1>1, <1>5, <1>6, Fields
<1> QED  BY <1>2, <1>3, <1>7

(* A fault is one, and changes nothing else.                                *)
LEMMA Faulted ==
    ASSUME NEW M \in Memories, NEW w \in Faults
    PROVE  Later(M, Fault(M, w)) /\ Fault(M, w).fault # "none"
  BY DEF Memories, Fault, Faults, Later

(* One after the other.                                                     *)
LEMMA LaterTwice ==
    ASSUME NEW M, NEW N, NEW O, Later(M, N), Later(N, O)
    PROVE  Later(M, O)
  BY DEF Later

(* The heaps of new pages.                                                  *)
LEMMA HeapsTyped == NewHeap \in Heaps /\ NoHeap \in Heaps
<1>1. <<>> \in Seq([offset : Nat, size : Nat])
  BY EmptySeq
<1>2. PAGE_SIZE - Attribute - HeapEntry \in Int
  BY Machine DEF Attribute, HeapEntry
<1> QED  BY <1>1, <1>2 DEF NewHeap, NoHeap, Heaps

(* rallocate, and the page table map makes.                                 *)
LEMMA RallocateTyped ==
    ASSUME NEW M \in Memories
    PROVE  /\ Rallocated(M) \in 1..NoTable /\ Later(M, Rallocate(M))
           /\ Rallocate(M).dir = M.dir /\ Rallocate(M).end = M.end
           /\ Rallocate(M).fault = "none" => Rallocated(M) \in M.reserved
<1>1. NoTable = MaxTable + 1 /\ MaxTable \in Nat /\ NoFrame \in Nat /\ TABLE \in Nat
  BY Machine
<1>2. M.reserved # {} => Rallocated(M) \in M.reserved
  <2>1. M.reserved \subseteq Nat
    BY Fields, <1>1
  <2> QED  BY <2>1, MinMember DEF Rallocated
<1>3. Rallocated(M) \in 1..NoTable
  <2>1. M.reserved \subseteq 1..MaxTable
    BY Fields
  <2> QED  BY <1>1, <1>2, <2>1 DEF Rallocated
<1> DEFINE r == Rallocated(M)  z == [i \in 0..TABLE - 1 |-> 0]
<1>4. z \in [0..TABLE - 1 -> 0..NoFrame]
  BY <1>1
<1>5. Rallocate(M) = [M EXCEPT !.reserved = M.reserved \ {r}, !.tab = [M.tab EXCEPT ![r] = z],
                               !.fault = IF M.reserved = {} THEN "tables" ELSE M.fault]
  BY Fields DEF Rallocate
<1>6. [M.tab EXCEPT ![r] = z] \in [1..NoTable -> [0..TABLE - 1 -> 0..NoFrame]]
  <2> HIDE DEF z, r
  <2> QED  BY <1>4, Fields
<1>7. M.reserved \ {r} \subseteq 1..MaxTable /\ (IF M.reserved = {} THEN "tables" ELSE M.fault) \in Faults \cup {"none"}
  BY Fields DEF Faults
<1> DEFINE t == [M.tab EXCEPT ![r] = z]  rs == M.reserved \ {r}
           w == IF M.reserved = {} THEN "tables" ELSE M.fault
<1>8. Rallocate(M) = [M EXCEPT !.reserved = rs, !.tab = t, !.fault = w]
  BY <1>5
<1>9. (w = "none" => M.fault = "none" /\ M.reserved # {})
  OBVIOUS
<1> HIDE DEF t, rs, w
<1>10. /\ Rallocate(M) \in Memories /\ Rallocate(M).fault = w /\ Rallocate(M).spaces = M.spaces
       /\ Rallocate(M).dir = M.dir /\ Rallocate(M).end = M.end
  <2>1. /\ t \in [1..NoTable -> [0..TABLE - 1 -> 0..NoFrame]] /\ rs \subseteq 1..MaxTable
        /\ w \in Faults \cup {"none"}
    BY <1>6, <1>7 DEF t, rs, w
  <2> QED  BY <1>8, <2>1 DEF Memories
<1> QED  BY <1>2, <1>3, <1>9, <1>10 DEF Later

(* A page table for an entry.                                               *)
LEMMA WithTableTyped ==
    ASSUME NEW M \in Memories, NEW m \in Space, NEW e \in Entry
    PROVE  Later(M, WithTable(M, m, e))
<1>1. CASE M.dir[m][e] # 0
  BY <1>1 DEF WithTable, Later
<1>2. CASE M.dir[m][e] = 0
  <2> DEFINE R == Rallocate(M)  r == Rallocated(M)
  <2>1. WithTable(M, m, e) = [R EXCEPT !.dir[m][e] = r]
    BY <1>2 DEF WithTable
  <2>2. R \in Memories /\ r \in 0..NoTable /\ R.spaces = M.spaces
        /\ (R.fault = "none" => M.fault = "none")
    BY RallocateTyped, Machine DEF Later
  <2> HIDE DEF R, r
  <2>3. [R EXCEPT !.dir[m][e] = r] \in Memories
    BY <2>2 DEF Memories
  <2>4. [R EXCEPT !.dir[m][e] = r].fault = R.fault /\ [R EXCEPT !.dir[m][e] = r].spaces = R.spaces
    BY <2>2 DEF Memories
  <2> QED  BY <2>1, <2>2, <2>3, <2>4 DEF Later
<1> QED  BY <1>1, <1>2

(* map.                                                                     *)
LEMMA MapTyped ==
    ASSUME NEW M \in Memories, NEW m \in Space, NEW p \in Nat, NEW f \in 0..NoFrame
    PROVE  /\ Later(M, Map(M, m, p, f))
           /\ p \notin Area(m) => Map(M, m, p, f).fault # "none"
<1>1. CASE p \notin Area(m)
  <2>1. Map(M, m, p, f) = Fault(M, "space")
    BY <1>1 DEF Map
  <2> QED  BY <2>1, Faulted, <1>1 DEF Faults
<1>2. CASE p \in Area(m)
  <2> DEFINE N == WithTable(M, m, p \div TABLE)  t == Table(N, m, p)  i == p % TABLE
  <2>1. Map(M, m, p, f) = [N EXCEPT !.tab[t][i] = f]
    BY <1>2 DEF Map
  <2>2. Later(M, N)
    BY <1>2, Layout, WithTableTyped
  <2>3. N \in Memories /\ N.spaces = M.spaces /\ (N.fault = "none" => M.fault = "none")
    BY <2>2 DEF Later
  <2> HIDE DEF N, t, i
  <2>4. [N EXCEPT !.tab[t][i] = f] \in Memories
    BY <2>3 DEF Memories
  <2>5. [N EXCEPT !.tab[t][i] = f].fault = N.fault /\ [N EXCEPT !.tab[t][i] = f].spaces = N.spaces
    BY <2>3 DEF Memories
  <2> QED  BY <1>2, <2>1, <2>3, <2>4, <2>5 DEF Later
<1> QED  BY <1>1, <1>2

(* set_page_attribute.                                                      *)
LEMMA UnsetTyped ==
    ASSUME NEW M \in Memories, NEW m \in Space, NEW p \in Nat
    PROVE  Later(M, SetPageAttribute(M, m, p))
<1> DEFINE t == Table(M, m, p)  i == p % TABLE
<1>1. SetPageAttribute(M, m, p) = IF t = 0 THEN M ELSE [M EXCEPT !.tab[t][i] = 0]
  BY DEF SetPageAttribute
<1> HIDE DEF t, i
<1>2. [M EXCEPT !.tab[t][i] = 0] \in Memories
  <2>1. 0 \in 0..NoFrame
    BY Machine
  <2> QED  BY <2>1 DEF Memories
<1>3. [M EXCEPT !.tab[t][i] = 0].fault = M.fault /\ [M EXCEPT !.tab[t][i] = 0].spaces = M.spaces
  BY DEF Memories
<1> QED  BY <1>1, <1>2, <1>3 DEF Later

(* A frame from allocate, entered.                                          *)
LEMMA MapNewTyped ==
    ASSUME NEW M \in Memories, NEW m \in Space, NEW p \in Nat, NEW h \in Heaps
    PROVE  Later(M, MapNew(M, m, p, h))
<1>1. CASE M.frames = {}
  <2>1. MapNew(M, m, p, h) = Fault(M, "frames")
    BY <1>1 DEF MapNew
  <2> QED  BY <2>1, Faulted DEF Faults
<1>2. CASE M.frames # {}
  <2> DEFINE f == Min(M.frames)  N == Map(M, m, p, f)
  <2>1. MapNew(M, m, p, h) = [N EXCEPT !.frames = N.frames \ {f}, !.heap[f] = h]
    BY <1>2 DEF MapNew
  <2>2. f \in 0..NoFrame
    <3>1. M.frames \subseteq 1..MaxFrame /\ M.frames \subseteq Nat
      BY Fields, Machine
    <3>2. f \in M.frames
      BY <1>2, <3>1, MinMember
    <3> QED  BY <3>1, <3>2, Machine
  <2>3. Later(M, N)
    <3> HIDE DEF f
    <3> QED  BY <2>2, MapTyped
  <2>4. N \in Memories /\ N.spaces = M.spaces /\ (N.fault = "none" => M.fault = "none")
    BY <2>3 DEF Later
  <2> HIDE DEF N, f
  <2>5. [N EXCEPT !.frames = N.frames \ {f}, !.heap[f] = h] \in Memories
    BY <2>4 DEF Memories
  <2>6. /\ [N EXCEPT !.frames = N.frames \ {f}, !.heap[f] = h].fault = N.fault
        /\ [N EXCEPT !.frames = N.frames \ {f}, !.heap[f] = h].spaces = N.spaces
    BY <2>4 DEF Memories
  <2> QED  BY <2>1, <2>4, <2>5, <2>6 DEF Later
<1> QED  BY <1>1, <1>2

(* Frames for many pages are entered one by one.                            *)
Entered(g, M, m, p, n) ==
    /\ g \in [0..n -> Memories] /\ g[0] = M /\ g[n] = MapData(M, m, p, n)
    /\ \A i \in 1..n : g[i] = MapNew(g[i - 1], m, p + i - 1, NoHeap)

(* MapData does.                                                            *)
LEMMA MapDataSteps ==
    ASSUME NEW M \in Memories, NEW m \in Space, NEW p \in Nat, NEW n \in Nat
    PROVE  \E g : Entered(g, M, m, p, n)
<1> DEFINE done[i \in 0..n] == IF i = 0 THEN M ELSE MapNew(done[i - 1], m, p + i - 1, NoHeap)
           step == [x \in (1..n) \X Memories |-> MapNew(x[2], m, p + x[1] - 1, NoHeap)]
<1>1. step \in [(1..n) \X Memories -> Memories]
  <2>1. ASSUME NEW x \in (1..n) \X Memories
        PROVE  MapNew(x[2], m, p + x[1] - 1, NoHeap) \in Memories
    <3>1. x[2] \in Memories /\ p + x[1] - 1 \in Nat
      OBVIOUS
    <3> QED  BY <3>1, MapNewTyped, HeapsTyped DEF Later
  <2> QED  BY <2>1
<1>2. PICK g : Iterates(g, n, Memories, M, step)
  <2> HIDE DEF step
  <2> QED  BY <1>1, Iteration
<1>3. g \in [0..n -> Memories] /\ \A i \in 0..n : g[i] = IF i = 0 THEN M ELSE step[<<i, g[i - 1]>>]
  BY <1>2 DEF Iterates
<1>4. g = [i \in 0..n |-> IF i = 0 THEN M ELSE MapNew(g[i - 1], m, p + i - 1, NoHeap)]
  <2>1. ASSUME NEW i \in 0..n, i # 0
        PROVE  step[<<i, g[i - 1]>>] = MapNew(g[i - 1], m, p + i - 1, NoHeap)
    <3>1. i \in 1..n /\ i - 1 \in 0..n
      BY <2>1
    <3>2. g[i - 1] \in Memories
      BY <3>1, <1>3
    <3> QED  BY <3>1, <3>2
  <2> HIDE DEF step
  <2> QED  BY <1>3, <2>1
<1>5. done = [i \in 0..n |-> IF i = 0 THEN M ELSE MapNew(done[i - 1], m, p + i - 1, NoHeap)]
  BY <1>4
<1>6. MapData(M, m, p, n) = done[n]
  BY DEF MapData
<1> HIDE DEF done
<1>7. \A i \in 0..n : done[i] \in Memories
  <2> DEFINE A == {j \in 0..n : done[j] \in Memories}
  <2>1. 0 \in A
    BY <1>5
  <2>2. ASSUME NEW j \in 1..n, j - 1 \in A PROVE j \in A
    <3>1. j \in 0..n /\ j # 0 /\ done[j - 1] \in Memories /\ p + j - 1 \in Nat
      BY <2>2
    <3>2. done[j] = MapNew(done[j - 1], m, p + j - 1, NoHeap)
      BY <3>1, <1>5
    <3>3. done[j] \in Memories
      BY <3>1, <3>2, MapNewTyped, HeapsTyped DEF Later
    <3> QED  BY <3>1, <3>3
  <2> HIDE DEF A
  <2>3. \A i \in 0..n : i \in A
    BY <2>1, <2>2, Induction
  <2> QED  BY <2>3 DEF A
<1>8. done \in [0..n -> Memories]
  BY <1>5, <1>7
<1>9. done[0] = M /\ \A i \in 1..n : done[i] = MapNew(done[i - 1], m, p + i - 1, NoHeap)
  BY <1>5
<1>10. Entered(done, M, m, p, n)
  BY <1>6, <1>8, <1>9 DEF Entered
<1> QED  BY <1>10

(* An end moves; the record of a page is written.                           *)
LEMMA Written ==
    ASSUME NEW M \in Memories, NEW m \in Space
    PROVE  /\ \A a \in Nat : Later(M, [M EXCEPT !.end[m] = a])
           /\ \A f \in 1..MaxFrame : \A h \in Heaps : Later(M, [M EXCEPT !.heap[f] = h])
           /\ \A a \in Nat : \A f \in 1..MaxFrame : \A h \in Heaps :
                 Later(M, [M EXCEPT !.end[m] = a, !.heap[f] = h])
<1>1. ASSUME NEW a \in Nat PROVE Later(M, [M EXCEPT !.end[m] = a])
  <2>1. [M EXCEPT !.end[m] = a] \in Memories
    BY DEF Memories
  <2>2. [M EXCEPT !.end[m] = a].fault = M.fault /\ [M EXCEPT !.end[m] = a].spaces = M.spaces
    BY DEF Memories
  <2> QED  BY <2>1, <2>2 DEF Later
<1>2. ASSUME NEW f \in 1..MaxFrame, NEW h \in Heaps PROVE Later(M, [M EXCEPT !.heap[f] = h])
  <2>1. [M EXCEPT !.heap[f] = h] \in Memories
    BY DEF Memories
  <2>2. [M EXCEPT !.heap[f] = h].fault = M.fault /\ [M EXCEPT !.heap[f] = h].spaces = M.spaces
    BY DEF Memories
  <2> QED  BY <2>1, <2>2 DEF Later
<1>3. ASSUME NEW a \in Nat, NEW f \in 1..MaxFrame, NEW h \in Heaps
      PROVE  Later(M, [M EXCEPT !.end[m] = a, !.heap[f] = h])
  <2>1. [M EXCEPT !.end[m] = a, !.heap[f] = h] \in Memories
    BY DEF Memories
  <2>2. /\ [M EXCEPT !.end[m] = a, !.heap[f] = h].fault = M.fault
        /\ [M EXCEPT !.end[m] = a, !.heap[f] = h].spaces = M.spaces
    BY DEF Memories
  <2> QED  BY <2>1, <2>2 DEF Later
<1> QED  BY <1>1, <1>2, <1>3

(* The record of a page.                                                    *)
LEMMA HeapOfTyped ==
    ASSUME NEW M \in Memories, NEW m \in Space, NEW a \in Nat
    PROVE  /\ HeapOf(M, m, a) \in Heaps /\ HeapOf(M, m, a).vhp \in Int
           /\ HeapOf(M, m, a) # NoHeap =>
                 /\ Physical(M, m, PageOf(a)) \in 1..MaxFrame
                 /\ HeapOf(M, m, a) = M.heap[Physical(M, m, PageOf(a))]
<1>1. M.heap \in [1..MaxFrame -> Heaps]
  BY Fields
<1>2. HeapOf(M, m, a) \in Heaps
  BY <1>1, HeapsTyped DEF HeapOf
<1>3. HeapOf(M, m, a).vhp \in Int
  BY <1>2 DEF Heaps
<1> QED  BY <1>2, <1>3 DEF HeapOf

(* check_heap and heapify.                                                  *)
LEMMA AddFreeTyped ==
    ASSUME NEW M \in Memories, NEW m \in Space, NEW a \in Nat, NEW n \in Int
    PROVE  Later(M, AddFree(M, m, a, n))
<1>1. CASE HeapOf(M, m, a) = NoHeap
  BY <1>1, Faulted DEF AddFree, Faults
<1>2. CASE HeapOf(M, m, a) # NoHeap
  <2> DEFINE h == CheckHeap(HeapOf(M, m, a), a % PAGE_SIZE, n)
             g == [h EXCEPT !.free = Heapify(h.free)]  f == Physical(M, m, PageOf(a))
  <2>1. AddFree(M, m, a, n) = [M EXCEPT !.heap[f] = g]
    BY <1>2 DEF AddFree
  <2>2. h \in Heaps
    BY HeapOfTyped, CheckHeapTyped, Addresses
  <2>3. g \in Heaps
    <3> HIDE DEF h
    <3>1. Heapify(h.free) \in Seq(Record)
      BY <2>2, HeapifyTyped DEF Heaps, Record
    <3>2. Heapify(h.free) \in Seq([offset : Nat, size : Nat])
      BY <3>1 DEF Record
    <3> QED  BY <2>2, <3>2 DEF Heaps
  <2>4. f \in 1..MaxFrame
    BY <1>2, HeapOfTyped
  <2> HIDE DEF h, g, f
  <2>5. Later(M, [M EXCEPT !.heap[f] = g])
    BY <2>3, <2>4, Written
  <2> QED  BY <2>1, <2>5
<1> QED  BY <1>1, <1>2

(* Frames for many pages.                                                   *)
LEMMA MapDataTyped ==
    ASSUME NEW M \in Memories, NEW m \in Space, NEW p \in Nat, NEW n \in Nat
    PROVE  Later(M, MapData(M, m, p, n))
<1>6. PICK g : Entered(g, M, m, p, n)
  BY MapDataSteps
<1>1. /\ g \in [0..n -> Memories] /\ g[0] = M /\ g[n] = MapData(M, m, p, n)
      /\ \A i \in 1..n : g[i] = MapNew(g[i - 1], m, p + i - 1, NoHeap)
  BY <1>6 DEF Entered
<1> DEFINE A == {i \in 0..n : Later(M, g[i])}
<1>2. 0 \in A
  BY <1>1 DEF Later
<1>3. ASSUME NEW i \in 1..n, i - 1 \in A PROVE i \in A
  <2>1. g[i - 1] \in Memories /\ p + i - 1 \in Nat /\ i \in 0..n /\ i - 1 \in 0..n
    BY <1>1
  <2>2. Later(g[i - 1], g[i])
    BY <1>1, <2>1, MapNewTyped, HeapsTyped
  <2> QED  BY <1>3, <2>1, <2>2, LaterTwice
<1> HIDE DEF A
<1>4. n \in A
  BY <1>2, <1>3, Induction
<1> QED  BY <1>1, <1>4 DEF A

(* Sizes and where the next block begins.                                   *)
LEMMA NextPageTyped ==
    ASSUME NEW M \in Memories, NEW m \in Space, NEW n \in Nat
    PROVE  /\ M.end[m] \in Nat /\ NextPage(M, m) \in Nat
           /\ n \div PAGE_SIZE \in Nat /\ n % PAGE_SIZE \in Nat /\ n % PAGE_SIZE < PAGE_SIZE
           /\ n = (n \div PAGE_SIZE) * PAGE_SIZE + (n % PAGE_SIZE)
           /\ Block(M, m, n) \in Blocks /\ Block(M, m, n).addr \in Nat
<1>1. M.end[m] \in Nat
  BY Fields
<1>2. PageOf(M.end[m]) \in Nat
  BY <1>1, Addresses
<1>3. NextPage(M, m) \in Nat
  BY <1>2 DEF NextPage
<1>4. /\ NextPage(M, m) * PAGE_SIZE \in Nat /\ (PageOf(M.end[m]) + 1) * PAGE_SIZE \in Nat
  BY <1>2, <1>3, Machine, Multiples
<1>5. Block(M, m, n) \in Blocks /\ Block(M, m, n).addr \in Nat
  BY <1>1, <1>4 DEF Block, Blocks
<1>6. PAGE_SIZE \in Nat /\ PAGE_SIZE > 0
  BY Machine
<1> QED  BY <1>1, <1>3, <1>5, <1>6, Division

(* kdmalloc.                                                                *)
LEMMA KdmallocTyped ==
    ASSUME NEW M \in Memories, NEW m \in Space, NEW n \in Nat
    PROVE  Later(M, Kdmalloc(M, m, n))
<1> DEFINE e == M.end[m]  rest == n % PAGE_SIZE  p == NextPage(M, m)  k == n \div PAGE_SIZE
<1>1. /\ e \in Nat /\ p \in Nat /\ k \in Nat /\ rest \in Nat /\ PageOf(e) \in Nat
      /\ p + k \in Nat /\ PAGE_SIZE \in Nat /\ HeapOf(M, m, e).vhp \in Int
  <2>1. e \in Nat /\ p \in Nat /\ k \in Nat /\ rest \in Nat
    BY NextPageTyped
  <2> HIDE DEF e, p, k, rest
  <2>2. PageOf(e) \in Nat /\ HeapOf(M, m, e).vhp \in Int
    BY <2>1, Addresses, HeapOfTyped
  <2> QED  BY <2>1, <2>2, Machine
<1>2. /\ (p + k) * PAGE_SIZE \in Nat /\ (p + k + 1) * PAGE_SIZE \in Nat
      /\ (p + k) * PAGE_SIZE + rest \in Nat /\ (PageOf(e) + 1) * PAGE_SIZE + n \in Nat
      /\ e + n \in Nat /\ PageOf(e) + 1 \in Nat /\ (e % PAGE_SIZE) \in Nat
  <2>1. p + k + 1 \in Nat /\ PageOf(e) + 1 \in Nat /\ p + k \in Nat
    BY <1>1
  <2>2. (p + k) * PAGE_SIZE \in Nat /\ (p + k + 1) * PAGE_SIZE \in Nat /\ (PageOf(e) + 1) * PAGE_SIZE \in Nat
    <3> HIDE DEF p, k, e
    <3> QED  BY <2>1, Machine, Multiples
  <2>3. (e % PAGE_SIZE) \in Nat
    BY <1>1, Addresses
  <2> HIDE DEF e, p, k, rest
  <2> QED  BY <1>1, <2>1, <2>2, <2>3
<1>3. ASSUME NEW N, Later(M, N), NEW a \in Nat
      PROVE  Later(M, [N EXCEPT !.end[m] = a])
  <2>1. N \in Memories
    BY <1>3 DEF Later
  <2> QED  BY <1>3, <2>1, Written, LaterTwice
<1>4. Later(M, M)
  BY DEF Later
<1>5. ASSUME NEW N, Later(M, N), NEW h \in Heaps, NEW q \in Nat
      PROVE  Later(M, MapNew(N, m, q, h))
  <2>1. N \in Memories
    BY <1>5 DEF Later
  <2> QED  BY <1>5, <2>1, MapNewTyped, LaterTwice
<1> HIDE DEF e, rest, p, k
<1>6. CASE Whole(n)
  <2> DEFINE Left == IF Table(M, m, PageOf(e)) # 0 /\ Present(M, m, PageOf(e))
                     THEN AddFree(M, m, e, HeapOf(M, m, e).vhp - (e % PAGE_SIZE))
                     ELSE M
             N == MapData(Left, m, p, k)
  <2>1. Later(M, Left)
    <3>1. HeapOf(M, m, e).vhp - (e % PAGE_SIZE) \in Int
      BY <1>1, <1>2
    <3> QED  BY <1>1, <1>4, <3>1, AddFreeTyped
  <2>2. Kdmalloc(M, m, n) =
           CASE rest = 0 -> [N EXCEPT !.end[m] = (p + k) * PAGE_SIZE]
             [] Whole(rest) ->
                  [MapNew(N, m, p + k, NoHeap) EXCEPT !.end[m] = (p + k + 1) * PAGE_SIZE]
             [] OTHER ->
                  [MapNew(N, m, p + k, NewHeap) EXCEPT !.end[m] = (p + k) * PAGE_SIZE + rest]
    <3>1. Kdmalloc(M, m, n) = MallocPages(M, m, n)
      BY <1>6 DEF Kdmalloc
    <3>2. MallocPages(M, m, n) =
             LET WithRest(O) ==
                    CASE rest = 0 -> [O EXCEPT !.end[m] = (p + k) * PAGE_SIZE]
                      [] Whole(rest) ->
                           [MapNew(O, m, p + k, NoHeap) EXCEPT !.end[m] = (p + k + 1) * PAGE_SIZE]
                      [] OTHER ->
                           [MapNew(O, m, p + k, NewHeap) EXCEPT !.end[m] = (p + k) * PAGE_SIZE + rest]
             IN WithRest(N)
      BY DEF MallocPages, e, rest, p, k
    <3> HIDE DEF N, Left
    <3> QED  BY <3>1, <3>2
  <2> HIDE DEF Left
  <2>3. Later(M, N)
    <3>1. Left \in Memories
      BY <2>1 DEF Later
    <3> QED  BY <1>1, <2>1, <3>1, MapDataTyped, LaterTwice
  <2> HIDE DEF N
  <2>4. Later(M, MapNew(N, m, p + k, NoHeap)) /\ Later(M, MapNew(N, m, p + k, NewHeap))
    BY <1>1, <1>5, <2>3, HeapsTyped
  <2>5. CASE rest = 0
    <3>1. Kdmalloc(M, m, n) = [N EXCEPT !.end[m] = (p + k) * PAGE_SIZE]
      BY <2>2, <2>5, Machine DEF Whole
    <3> QED  BY <1>2, <1>3, <2>3, <3>1
  <2>6. CASE rest # 0 /\ Whole(rest)
    <3>1. Kdmalloc(M, m, n) = [MapNew(N, m, p + k, NoHeap) EXCEPT !.end[m] = (p + k + 1) * PAGE_SIZE]
      BY <2>2, <2>6
    <3> QED  BY <1>2, <1>3, <2>4, <3>1
  <2>7. CASE rest # 0 /\ ~Whole(rest)
    <3>1. Kdmalloc(M, m, n) = [MapNew(N, m, p + k, NewHeap) EXCEPT !.end[m] = (p + k) * PAGE_SIZE + rest]
      BY <2>2, <2>7
    <3> QED  BY <1>2, <1>3, <2>4, <3>1
  <2> QED  BY <2>5, <2>6, <2>7
<1>7. CASE ~Whole(n)
  <2> DEFINE x == Present(M, m, PageOf(e))  f == Physical(M, m, PageOf(e))
  <2>1. CASE ~x
    <3>1. Kdmalloc(M, m, n) = [MapNew(M, m, PageOf(e), NewHeap) EXCEPT !.end[m] = e + n]
      BY <1>7, <2>1 DEF Kdmalloc, MallocSmall, e
    <3>2. Later(M, MapNew(M, m, PageOf(e), NewHeap))
      BY <1>1, <1>4, <1>5, HeapsTyped
    <3> QED  BY <1>2, <1>3, <3>1, <3>2
  <2>2. CASE x /\ ~Recorded(M, m, e)
    <3>1. Kdmalloc(M, m, n) = Fault(M, "record")
      BY <1>7, <2>2 DEF Kdmalloc, MallocSmall, e
    <3> QED  BY <3>1, Faulted DEF Faults
  <2>3. CASE x /\ Recorded(M, m, e) /\ Fits(M, m, n)
    <3> DEFINE h == [M.heap[f] EXCEPT !.vhp = M.heap[f].vhp - HeapEntry]
    <3>1. Kdmalloc(M, m, n) = [M EXCEPT !.end[m] = e + n, !.heap[f] = h]
      <4>1. Kdmalloc(M, m, n) = [M EXCEPT !.end[m] = e + n, !.heap[f].vhp = @ - HeapEntry]
        BY <1>7, <2>3 DEF Kdmalloc, MallocSmall, e
      <4> QED  BY <4>1
    <3>2. f \in 1..MaxFrame
      BY <2>3, <1>1, HeapOfTyped DEF Recorded
    <3>3. M.heap[f] \in Heaps
      BY <3>2, Fields
    <3>4. h \in Heaps
      <4> DEFINE y == M.heap[f]
      <4>1. y \in Heaps /\ h = [y EXCEPT !.vhp = y.vhp - HeapEntry]
        BY <3>3
      <4> HIDE DEF y, h
      <4> QED  BY <4>1 DEF Heaps, HeapEntry
    <3> HIDE DEF h, f
    <3>5. Later(M, [M EXCEPT !.end[m] = e + n, !.heap[f] = h])
      BY <1>2, <3>2, <3>4, Written
    <3> QED  BY <3>1, <3>5
  <2>4. CASE x /\ Recorded(M, m, e) /\ ~Fits(M, m, n)
    <3>1. Kdmalloc(M, m, n) = [MapNew(M, m, PageOf(e) + 1, NewHeap) EXCEPT
                                  !.end[m] = (PageOf(e) + 1) * PAGE_SIZE + n]
      BY <1>7, <2>4 DEF Kdmalloc, MallocSmall, e
    <3>2. Later(M, MapNew(M, m, PageOf(e) + 1, NewHeap))
      BY <1>2, <1>4, <1>5, HeapsTyped
    <3> QED  BY <1>2, <1>3, <3>1, <3>2
  <2> QED  BY <2>1, <2>2, <2>3, <2>4
<1> QED  BY <1>6, <1>7

(* A page is handed over.                                                   *)
LEMMA HandedTyped ==
    ASSUME NEW M \in Memories, NEW m \in Space, NEW p \in Nat, NEW q \in Nat
    PROVE  Later(M, Handed(M, m, p, q))
<1> DEFINE f == Physical(M, 0, q)  N == Map(M, m, p, f)
<1>1. f \in 0..NoFrame /\ 0 \in Space
  BY LookedUp, Layout
<1>2. Handed(M, m, p, q) = SetPageAttribute(N, 0, q)
  BY DEF Handed
<1> HIDE DEF f
<1>3. Later(M, N) /\ N \in Memories
  BY <1>1, MapTyped DEF Later
<1> HIDE DEF N
<1>4. Later(N, SetPageAttribute(N, 0, q))
  BY <1>1, <1>3, UnsetTyped
<1> QED  BY <1>2, <1>3, <1>4, LaterTwice

(* g are the memories while MovePages moves n pages.                        *)
Moved(g, M, m, to, from, n) ==
    /\ g \in [0..n -> Memories] /\ g[0] = M /\ g[n] = MovePages(M, m, to, from, n)
    /\ \A i \in 1..n : g[i] = Handed(g[i - 1], m, to + i - 1, from + i - 1)

(* MovePages moves them one by one.                                         *)
LEMMA MovePagesSteps ==
    ASSUME NEW M \in Memories, NEW m \in Space, NEW to \in Nat, NEW from \in Nat, NEW n \in Nat
    PROVE  \E g : Moved(g, M, m, to, from, n)
<1> DEFINE done[i \in 0..n] == IF i = 0 THEN M ELSE Handed(done[i - 1], m, to + i - 1, from + i - 1)
           step == [x \in (1..n) \X Memories |-> Handed(x[2], m, to + x[1] - 1, from + x[1] - 1)]
<1>1. step \in [(1..n) \X Memories -> Memories]
  <2>1. ASSUME NEW x \in (1..n) \X Memories
        PROVE  Handed(x[2], m, to + x[1] - 1, from + x[1] - 1) \in Memories
    <3>1. x[2] \in Memories /\ to + x[1] - 1 \in Nat /\ from + x[1] - 1 \in Nat
      OBVIOUS
    <3> QED  BY <3>1, HandedTyped DEF Later
  <2> QED  BY <2>1
<1>2. PICK g : Iterates(g, n, Memories, M, step)
  <2> HIDE DEF step
  <2> QED  BY <1>1, Iteration
<1>3. g \in [0..n -> Memories] /\ \A i \in 0..n : g[i] = IF i = 0 THEN M ELSE step[<<i, g[i - 1]>>]
  BY <1>2 DEF Iterates
<1>4. g = [i \in 0..n |-> IF i = 0 THEN M ELSE Handed(g[i - 1], m, to + i - 1, from + i - 1)]
  <2>1. ASSUME NEW i \in 0..n, i # 0
        PROVE  step[<<i, g[i - 1]>>] = Handed(g[i - 1], m, to + i - 1, from + i - 1)
    <3>1. i \in 1..n /\ i - 1 \in 0..n
      BY <2>1
    <3>2. g[i - 1] \in Memories
      BY <3>1, <1>3
    <3> QED  BY <3>1, <3>2
  <2> HIDE DEF step
  <2> QED  BY <1>3, <2>1
<1>5. done = [i \in 0..n |-> IF i = 0 THEN M ELSE Handed(done[i - 1], m, to + i - 1, from + i - 1)]
  BY <1>4
<1>6. MovePages(M, m, to, from, n) = done[n]
  BY DEF MovePages
<1> HIDE DEF done
<1>7. \A i \in 0..n : done[i] \in Memories
  <2> DEFINE A == {j \in 0..n : done[j] \in Memories}
  <2>1. 0 \in A
    BY <1>5
  <2>2. ASSUME NEW j \in 1..n, j - 1 \in A PROVE j \in A
    <3>1. j \in 0..n /\ j # 0 /\ done[j - 1] \in Memories /\ to + j - 1 \in Nat /\ from + j - 1 \in Nat
      BY <2>2
    <3>2. done[j] = Handed(done[j - 1], m, to + j - 1, from + j - 1)
      BY <3>1, <1>5
    <3>3. done[j] \in Memories
      BY <3>1, <3>2, HandedTyped DEF Later
    <3> QED  BY <3>1, <3>3
  <2> HIDE DEF A
  <2>3. \A i \in 0..n : i \in A
    BY <2>1, <2>2, Induction
  <2> QED  BY <2>3 DEF A
<1>8. done \in [0..n -> Memories]
  BY <1>5, <1>7
<1>9. done[0] = M /\ \A i \in 1..n : done[i] = Handed(done[i - 1], m, to + i - 1, from + i - 1)
  BY <1>5
<1>10. Moved(done, M, m, to, from, n)
  BY <1>6, <1>8, <1>9 DEF Moved
<1> QED  BY <1>10

(* Many pages are moved.                                                    *)
LEMMA MovePagesTyped ==
    ASSUME NEW M \in Memories, NEW m \in Space, NEW to \in Nat, NEW from \in Nat, NEW n \in Nat
    PROVE  Later(M, MovePages(M, m, to, from, n))
<1>1. PICK g : Moved(g, M, m, to, from, n)
  BY MovePagesSteps
<1>2. /\ g \in [0..n -> Memories] /\ g[0] = M /\ g[n] = MovePages(M, m, to, from, n)
      /\ \A i \in 1..n : g[i] = Handed(g[i - 1], m, to + i - 1, from + i - 1)
  BY <1>1 DEF Moved
<1> DEFINE A == {i \in 0..n : Later(M, g[i])}
<1>3. 0 \in A
  BY <1>2 DEF Later
<1>4. ASSUME NEW i \in 1..n, i - 1 \in A PROVE i \in A
  <2>1. g[i - 1] \in Memories /\ to + i - 1 \in Nat /\ from + i - 1 \in Nat /\ i \in 0..n /\ i - 1 \in 0..n
    BY <1>2
  <2>2. Later(g[i - 1], g[i])
    BY <1>2, <2>1, HandedTyped
  <2> QED  BY <1>4, <2>1, <2>2, LaterTwice
<1> HIDE DEF A
<1>5. n \in A
  BY <1>3, <1>4, Induction
<1> QED  BY <1>2, <1>5 DEF A

(* The buffer fread makes.                                                  *)
LEMMA FreadTyped ==
    ASSUME NEW M \in Memories, NEW o \in Nat, NEW n \in Nat
    PROVE  /\ FreadSize(o, n) \in Nat
           /\ Later(M, Fread(M, o, n)) /\ FreadAt(M, o, n) \in Nat
<1>1. o \div 512 \in Nat /\ o % 512 \in 0..511
  BY Z3
<1> DEFINE sec == o \div 512 + (IF o % 512 = 0 THEN 0 ELSE 1)  first == 512 - (o % 512)
<1>2. sec \in Nat /\ first \in 1..512
  BY <1>1
<1> HIDE DEF sec, first
<1>3. sec \div S \in Nat /\ sec % S \in Nat
  BY <1>2, Machine, Division
<1>4. n > first => (n - first) \in Nat
  BY <1>2
<1>5. n > first => (n - first) \div 512 \in Nat
  BY <1>4, Z3
<1>6. n > first => ((sec % S) + (n - first) \div 512) \div S \in Nat
  <2>1. SUFFICES ASSUME n > first PROVE ((sec % S) + (n - first) \div 512) \div S \in Nat
    OBVIOUS
  <2> DEFINE x == (sec % S) + (n - first) \div 512
  <2>2. x \in Nat
    BY <1>3, <1>5, <2>1
  <2> HIDE DEF x
  <2>3. x \div S \in Nat
    BY <2>2, Machine, Division
  <2> QED  BY <2>3 DEF x
<1> DEFINE y == sec \div S  z == IF n > first THEN ((sec % S) + (n - first) \div 512) \div S ELSE 0
<1>7. NoOfClstrs(o, n) = y + z + 1
  BY DEF NoOfClstrs, sec, first
<1>8. y \in Nat /\ z \in Nat
  BY <1>3, <1>6
<1> HIDE DEF y, z
<1>9. NoOfClstrs(o, n) \in Nat
  BY <1>7, <1>8
<1>10. NoOfClstrs(o, n) * S \in Nat
  BY <1>9, Machine
<1>11. FreadSize(o, n) \in Nat
  BY <1>10 DEF FreadSize
<1>12. 0 \in Space
  BY Layout
<1>13. Later(M, Fread(M, o, n))
  BY <1>11, <1>12, KdmallocTyped DEF Fread
<1>14. FreadAt(M, o, n) \in Nat
  <2>1. Block(M, 0, FreadSize(o, n)).addr \in Nat
    BY <1>11, <1>12, NextPageTyped
  <2> QED  BY <2>1 DEF FreadAt
<1> QED  BY <1>11, <1>13, <1>14

(* filemanager::read.                                                       *)
LEMMA ReadFileTyped ==
    ASSUME NEW M \in Memories, NEW c \in Space, NEW o \in Nat, NEW n \in Nat
    PROVE  Later(M, ReadFile(M, c, o, n)) /\ ReadAt(M, c, o, n) \in Nat
<1> DEFINE F == Fread(M, o, n)  at == FreadAt(M, o, n)  K == Kdmalloc(F, c, n)
           to == PageOf(Block(F, c, n).addr)  k == n \div PAGE_SIZE
           P == MovePages(K, c, to, PageOf(at), k)
<1>1. Later(M, F) /\ F \in Memories /\ at \in Nat
  BY FreadTyped DEF Later
<1>2. Later(F, K) /\ K \in Memories /\ Block(F, c, n).addr \in Nat /\ k \in Nat
  <2> HIDE DEF F
  <2> QED  BY <1>1, KdmallocTyped, NextPageTyped DEF Later
<1>3. to \in Nat /\ PageOf(at) \in Nat
  <2> HIDE DEF at
  <2> QED  BY <1>1, <1>2, Addresses
<1>4. /\ ReadFile(M, c, o, n) = IF c = 0 THEN F ELSE IF n % PAGE_SIZE = 0 THEN P
                                ELSE CopyFrom(P, c, at + n - 1)
      /\ ReadAt(M, c, o, n) = IF c = 0 THEN at ELSE Block(F, c, n).addr
  BY DEF ReadFile, ReadAt
<1> HIDE DEF F, at, K, to, k
<1> DEFINE from == PageOf(at)
<1>9. Later(K, MovePages(K, c, to, from, k))
  <2>1. from \in Nat /\ k \in Nat /\ to \in Nat /\ K \in Memories
    BY <1>2, <1>3
  <2> HIDE DEF from
  <2> QED  BY <2>1, MovePagesTyped
<1>5. Later(K, P) /\ P \in Memories
  BY <1>9 DEF Later
<1>6. Later(M, P)
  BY <1>1, <1>2, <1>5, LaterTwice
<1> HIDE DEF P
<1>7. Later(P, CopyFrom(P, c, at + n - 1))
  <2>1. Later(P, P) /\ Later(P, Fault(P, "page"))
    BY <1>5, Faulted DEF Later, Faults
  <2> QED  BY <2>1 DEF CopyFrom
<1>8. Later(M, CopyFrom(P, c, at + n - 1))
  BY <1>6, <1>7, LaterTwice
<1> QED  BY <1>1, <1>2, <1>4, <1>6, <1>8

(* What initialize_memory enters first.                                     *)
Prepared(M, m) ==
    [Rallocate(M) EXCEPT !.end[m] = HeapStart * PAGE_SIZE, !.spaces = m,
         !.dir[m] = [e \in Entry |-> IF e < KTABLES THEN M.dir[0][e] ELSE 0]]

(* initialize_memory makes space m.                                         *)
LEMMA InitializeTyped ==
    ASSUME NEW M \in Memories, NEW m \in Space
    PROVE  /\ Prepared(M, m) \in Memories /\ Prepared(M, m).spaces = m
           /\ Prepared(M, m).fault = Rallocate(M).fault
           /\ Later(Prepared(M, m), Initialize(M, m))
           /\ Initialize(M, m).fault = "none" => M.fault = "none"
<1> DEFINE R == Rallocate(M)  d == [e \in Entry |-> IF e < KTABLES THEN M.dir[0][e] ELSE 0]
           a == HeapStart * PAGE_SIZE  N == [R EXCEPT !.end[m] = a, !.spaces = m, !.dir[m] = d]
           O == MapNew(N, m, StackPage, NoHeap)
<1>1. R \in Memories /\ (R.fault = "none" => M.fault = "none")
  BY RallocateTyped DEF Later
<1>2. d \in [Entry -> 0..NoTable]
  BY Fields, Layout, Machine
<1>3. a \in Nat
  BY Layout, Machine, Multiples
<1>4. Prepared(M, m) = N /\ Initialize(M, m) = WithTable(O, m, KTABLES + 1)
  BY DEF Prepared, Initialize
<1> HIDE DEF R, d, a
<1>5. N \in Memories /\ N.spaces = m /\ N.fault = R.fault
  <2>1. N \in Memories
    BY <1>1, <1>2, <1>3 DEF Memories
  <2>2. N.spaces = m /\ N.fault = R.fault
    BY <1>1 DEF Memories
  <2> QED  BY <2>1, <2>2
<1> HIDE DEF N
<1>6. Later(N, O) /\ O \in Memories
  <2>1. StackPage \in Nat
    BY Layout
  <2>2. Later(N, O)
    BY <1>5, <2>1, MapNewTyped, HeapsTyped
  <2> QED  BY <2>2 DEF Later
<1> HIDE DEF O
<1>7. Later(O, WithTable(O, m, KTABLES + 1))
  <2>1. KTABLES + 1 \in Entry
    BY Machine DEF Entry
  <2> QED  BY <1>6, <2>1, WithTableTyped
<1>8. Later(N, Initialize(M, m))
  BY <1>4, <1>6, <1>7, LaterTwice
<1>9. Initialize(M, m).fault = "none" => M.fault = "none"
  BY <1>1, <1>5, <1>8 DEF Later
<1>10. R = Rallocate(M)
  BY DEF R
<1> QED  BY <1>4, <1>5, <1>8, <1>9, <1>10

(* A page of an image.                                                      *)
LEMMA LoadPageTyped ==
    ASSUME NEW M \in Memories, NEW c \in Space, NEW m \in Space, NEW i \in Nat
    PROVE  /\ Later(M, LoadPage(M, c, m, i))
           /\ (4 + i * PAGE_SIZE) % (512 * S) \in 0..512 * S - 1
<1> DEFINE o == (4 + i * PAGE_SIZE) % (512 * S)
           N == ReadFile(M, c, o, PAGE_SIZE)  a == ReadAt(M, c, o, PAGE_SIZE)
<1>1. o \in 0..512 * S - 1
  <2> DEFINE x == 4 + i * PAGE_SIZE  y == 512 * S
  <2>1. i * PAGE_SIZE \in Nat
    BY Machine, Multiples
  <2>2. x \in Nat /\ y \in Nat /\ y > 0
    BY <2>1, Machine
  <2> HIDE DEF x, y
  <2>3. (x % y) \in Nat /\ (x % y) < y
    BY <2>2, Division
  <2>4. (x % y) \in 0..y - 1
    BY <2>2, <2>3
  <2> QED  BY <2>4 DEF x, y
<1>2. LoadPage(M, c, m, i) = Handed(N, m, ImageStart + i, PageOf(a))
  BY DEF LoadPage
<1>3. o \in Nat /\ PAGE_SIZE \in Nat
  BY <1>1, Machine
<1>4. (4 + i * PAGE_SIZE) % (512 * S) = o
  OBVIOUS
<1> HIDE DEF o
<1>5. Later(M, N) /\ N \in Memories /\ a \in Nat
  BY <1>3, ReadFileTyped DEF Later
<1> HIDE DEF N, a
<1>6. ImageStart + i \in Nat /\ PageOf(a) \in Nat
  <2>1. ImageStart \in Nat
    BY Layout
  <2> QED  BY <1>5, <2>1, Addresses
<1>7. Later(N, Handed(N, m, ImageStart + i, PageOf(a)))
  BY <1>5, <1>6, HandedTyped
<1> QED  BY <1>1, <1>2, <1>4, <1>5, <1>7, LaterTwice

(* The last part of an image.                                               *)
LEMMA LoadRestTyped ==
    ASSUME NEW M \in Memories, NEW c \in Space, NEW m \in Space, NEW i \in Nat, NEW n \in Nat
    PROVE  Later(M, LoadRest(M, c, m, i, n))
<1> DEFINE o == (4 + i * PAGE_SIZE) % (512 * S)
           N == ReadFile(M, c, o, n)  q == PageOf(Block(N, 0, PAGE_SIZE).addr)
           K == Kdmalloc(N, 0, PAGE_SIZE)  f == Physical(K, 0, q)
<1>1. LoadRest(M, c, m, i, n) = IF n = 0 THEN M ELSE Map(K, m, ImageStart + i, f)
  BY DEF LoadRest
<1>2. o \in Nat
  BY LoadPageTyped, Machine
<1> HIDE DEF o
<1>3. Later(M, N) /\ N \in Memories
  BY <1>2, ReadFileTyped DEF Later
<1> HIDE DEF N
<1>4. Later(N, K) /\ K \in Memories /\ Block(N, 0, PAGE_SIZE).addr \in Nat
  BY <1>3, Machine, Layout, KdmallocTyped, NextPageTyped DEF Later
<1>5. q \in Nat
  BY <1>4, Addresses
<1> HIDE DEF K, q
<1>6. f \in 0..NoFrame /\ ImageStart + i \in Nat
  <2>1. ImageStart \in Nat /\ 0 \in Space
    BY Layout
  <2>2. Physical(K, 0, q) \in 0..NoFrame
    BY <1>4, <1>5, <2>1, LookedUp
  <2> QED  BY <2>1, <2>2
<1> HIDE DEF f
<1>7. Later(K, Map(K, m, ImageStart + i, f))
  BY <1>4, <1>6, MapTyped
<1>8. Later(M, Map(K, m, ImageStart + i, f))
  BY <1>3, <1>4, <1>7, LaterTwice
<1>9. Later(M, M)
  BY DEF Later
<1> QED  BY <1>1, <1>8, <1>9

(* What the constructor of process does before the image is loaded.         *)
Start(M, c, m) == ReadFile(Initialize(Objects(M), m), c, 0, 4)

(* g are the memories while the pages of an image are loaded.               *)
Loading(g, M, c, m, image) ==
    LET k == image \div PAGE_SIZE
    IN  /\ g \in [0..k -> Memories] /\ g[0] = Start(M, c, m)
        /\ \A i \in 1..k : g[i] = LoadPage(g[i - 1], c, m, i - 1)
        /\ Loaded(M, c, m, image) = LoadRest(g[k], c, m, k, image % PAGE_SIZE)

(* The constructor of process loads them one by one.                        *)
LEMMA LoadedSteps ==
    ASSUME NEW M, NEW c \in Space, NEW m \in Space, NEW image \in Nat,
           Start(M, c, m) \in Memories
    PROVE  /\ image \div PAGE_SIZE \in Nat /\ image % PAGE_SIZE \in Nat
           /\ \E g : Loading(g, M, c, m, image)
<1> DEFINE k == image \div PAGE_SIZE  start == Start(M, c, m)
           done[i \in 0..k] == IF i = 0 THEN start ELSE LoadPage(done[i - 1], c, m, i - 1)
           step == [x \in (1..k) \X Memories |-> LoadPage(x[2], c, m, x[1] - 1)]
<1>1. k \in Nat /\ image % PAGE_SIZE \in Nat
  BY Machine, Division
<1>2. Loaded(M, c, m, image) = LoadRest(done[k], c, m, k, image % PAGE_SIZE)
  BY DEF Loaded, Start
<1>3. start \in Memories
  OBVIOUS
<1>4. k = image \div PAGE_SIZE /\ start = Start(M, c, m)
  OBVIOUS
<1> HIDE DEF k, start
<1>5. step \in [(1..k) \X Memories -> Memories]
  <2>1. ASSUME NEW x \in (1..k) \X Memories
        PROVE  LoadPage(x[2], c, m, x[1] - 1) \in Memories
    <3>1. x[2] \in Memories /\ x[1] - 1 \in Nat
      BY <1>1
    <3> QED  BY <3>1, LoadPageTyped DEF Later
  <2> QED  BY <2>1
<1>6. PICK g : Iterates(g, k, Memories, start, step)
  <2> HIDE DEF step
  <2> QED  BY <1>1, <1>3, <1>5, Iteration
<1>7. g \in [0..k -> Memories] /\ \A i \in 0..k : g[i] = IF i = 0 THEN start ELSE step[<<i, g[i - 1]>>]
  BY <1>6 DEF Iterates
<1>8. g = [i \in 0..k |-> IF i = 0 THEN start ELSE LoadPage(g[i - 1], c, m, i - 1)]
  <2>1. ASSUME NEW i \in 0..k, i # 0
        PROVE  step[<<i, g[i - 1]>>] = LoadPage(g[i - 1], c, m, i - 1)
    <3>1. i \in 1..k /\ i - 1 \in 0..k
      BY <1>1, <2>1
    <3>2. g[i - 1] \in Memories
      BY <3>1, <1>7
    <3> QED  BY <3>1, <3>2
  <2> HIDE DEF step
  <2> QED  BY <1>7, <2>1
<1>9. done = [i \in 0..k |-> IF i = 0 THEN start ELSE LoadPage(done[i - 1], c, m, i - 1)]
  BY <1>8
<1> HIDE DEF done
<1>10. \A i \in 0..k : done[i] \in Memories
  <2> DEFINE A == {j \in 0..k : done[j] \in Memories}
  <2>1. 0 \in A
    BY <1>1, <1>3, <1>9
  <2>2. ASSUME NEW j \in 1..k, j - 1 \in A PROVE j \in A
    <3>1. j \in 0..k /\ j # 0 /\ done[j - 1] \in Memories /\ j - 1 \in Nat
      BY <1>1, <2>2
    <3>2. done[j] = LoadPage(done[j - 1], c, m, j - 1)
      BY <3>1, <1>9
    <3>3. done[j] \in Memories
      <4>1. Later(done[j - 1], LoadPage(done[j - 1], c, m, j - 1))
        BY <3>1, LoadPageTyped
      <4> QED  BY <3>2, <4>1 DEF Later
    <3> QED  BY <3>1, <3>3
  <2> HIDE DEF A
  <2>3. \A i \in 0..k : i \in A
    BY <1>1, <2>1, <2>2, Induction
  <2> QED  BY <2>3 DEF A
<1>11. done \in [0..k -> Memories]
  BY <1>9, <1>10
<1>12. done[0] = start /\ \A i \in 1..k : done[i] = LoadPage(done[i - 1], c, m, i - 1)
  BY <1>1, <1>9
<1>13. Loading(done, M, c, m, image)
  BY <1>2, <1>4, <1>11, <1>12 DEF Loading
<1> QED  BY <1>1, <1>4, <1>13

(* Blocks of one size, one after the other.                                 *)
LEMMA ObjectsTyped ==
    ASSUME NEW M \in Memories
    PROVE  /\ Later(M, Objects(M))
           /\ Later(M, Kdmalloc(M, 0, StackSize)) /\ Later(M, Kdmalloc(M, 0, ElementSize))
<1>1. 1576 \in Nat /\ 4 \in Nat /\ 12 \in Nat /\ StackSize \in Nat /\ ElementSize \in Nat /\ 0 \in Space
  BY Layout, Machine DEF StackSize, ElementSize
<1> DEFINE A == Kdmalloc(M, 0, 1576)  B == Kdmalloc(A, 0, 4)  C == Kdmalloc(B, 0, 12)
<1>2. Objects(M) = C
  BY DEF Objects, ObjectSizes
<1>3. Later(M, A) /\ A \in Memories
  BY <1>1, KdmallocTyped DEF Later
<1> HIDE DEF A
<1>4. Later(A, B) /\ B \in Memories
  BY <1>1, <1>3, KdmallocTyped DEF Later
<1> HIDE DEF B
<1>5. Later(B, C)
  BY <1>1, <1>4, KdmallocTyped
<1>6. Later(M, C)
  BY <1>3, <1>4, <1>5, LaterTwice
<1> QED  BY <1>1, <1>2, <1>6, KdmallocTyped

(* The constructor of process up to the image.                              *)
LEMMA StartTyped ==
    ASSUME NEW M \in Memories, NEW c \in Space, NEW m \in Space
    PROVE  /\ Objects(M) \in Memories /\ Initialize(Objects(M), m) \in Memories
           /\ Later(Initialize(Objects(M), m), Start(M, c, m))
           /\ Start(M, c, m) \in Memories /\ Start(M, c, m).spaces = m
           /\ Start(M, c, m).fault = "none" => M.fault = "none"
<1> DEFINE O == Objects(M)  I == Initialize(O, m)
<1>1. O \in Memories /\ (O.fault = "none" => M.fault = "none")
  BY ObjectsTyped DEF Later
<1> HIDE DEF O
<1>2. I \in Memories /\ I.spaces = m /\ (I.fault = "none" => O.fault = "none")
  <2>1. I = Initialize(O, m)
    OBVIOUS
  <2> HIDE DEF I
  <2>2. /\ Prepared(O, m).spaces = m /\ Later(Prepared(O, m), I)
        /\ (I.fault = "none" => O.fault = "none")
    BY <1>1, <2>1, InitializeTyped
  <2> QED  BY <2>2 DEF Later
<1> HIDE DEF I
<1>3. Later(I, ReadFile(I, c, 0, 4))
  <2>1. 0 \in Nat /\ 4 \in Nat
    OBVIOUS
  <2> QED  BY <1>2, <2>1, ReadFileTyped
<1>4. Start(M, c, m) = ReadFile(I, c, 0, 4) /\ I = Initialize(Objects(M), m) /\ O = Objects(M)
  BY DEF Start, I, O
<1> QED  BY <1>1, <1>2, <1>3, <1>4 DEF Later

(* The constructor of process.                                              *)
LEMMA LoadedTyped ==
    ASSUME NEW M \in Memories, NEW c \in Space, NEW m \in Space, NEW image \in Nat
    PROVE  Later(Start(M, c, m), Loaded(M, c, m, image))
<1> DEFINE k == image \div PAGE_SIZE  start == Start(M, c, m)
<1>1. start \in Memories
  BY StartTyped
<1>2. k \in Nat /\ image % PAGE_SIZE \in Nat
  BY <1>1, LoadedSteps
<1>3. start = Start(M, c, m)
  OBVIOUS
<1>4. PICK g : Loading(g, M, c, m, image)
  BY <1>1, LoadedSteps
<1>5. /\ g \in [0..k -> Memories] /\ g[0] = start
      /\ \A i \in 1..k : g[i] = LoadPage(g[i - 1], c, m, i - 1)
      /\ Loaded(M, c, m, image) = LoadRest(g[k], c, m, k, image % PAGE_SIZE)
  BY <1>4 DEF Loading
<1> HIDE DEF k, start
<1> DEFINE A == {i \in 0..k : Later(start, g[i])}
<1>6. 0 \in A
  BY <1>1, <1>2, <1>5 DEF Later
<1>7. ASSUME NEW i \in 1..k, i - 1 \in A PROVE i \in A
  <2>1. g[i - 1] \in Memories /\ i - 1 \in Nat /\ i \in 0..k
    BY <1>2, <1>5
  <2>2. Later(g[i - 1], g[i])
    BY <1>5, <2>1, LoadPageTyped
  <2> QED  BY <1>7, <2>1, <2>2, LaterTwice
<1> HIDE DEF A
<1>8. k \in A
  BY <1>2, <1>6, <1>7, Induction
<1>9. Later(start, g[k]) /\ g[k] \in Memories
  BY <1>8 DEF A, Later
<1>10. Later(g[k], LoadRest(g[k], c, m, k, image % PAGE_SIZE))
  BY <1>2, <1>9, LoadRestTyped
<1> QED  BY <1>3, <1>5, <1>9, <1>10, LaterTwice

-----------------------------------------------------------------------------
(* What the memory looks like. *)

(* The frame under a page, 0 if there is none.                              *)
Frame(M, m, p) == IF Physical(M, m, p) \in 1..MaxFrame THEN Physical(M, m, p) ELSE 0

(* Page tables that are entered are taken, and shared only as the kernel's  *)
(* are: by every space that has been made.                                  *)
Tables(M) ==
    /\ M \in Memories
    /\ \A m \in Space, e \in Entry : M.dir[m][e] \notin M.reserved /\ M.dir[m][e] # NoTable
    /\ \A m, n \in Space, d, e \in Entry :
          M.dir[m][d] = M.dir[n][e] /\ M.dir[m][d] # 0 => d = e /\ (m = n \/ d < KTABLES)
    /\ \A e \in Entry : M.dir[0][e] # 0 <=> e < KTABLES
    /\ \A m \in 1..M.spaces, e \in Entry : e < KTABLES => M.dir[m][e] = M.dir[0][e]
    /\ \A m \in Space, e \in Entry : m > M.spaces => M.dir[m][e] = 0

(* No frame lies under two pages of the kernel, nor under two of programs.  *)
Unique(M) ==
    \A m, n \in Space : \A p \in Area(m), q \in Area(n) :
        /\ (m = 0) <=> (n = 0)
        /\ Frame(M, m, p) = Frame(M, n, q)
        /\ Frame(M, m, p) # 0
        => m = n /\ p = q

(* Frames under pages are in use.                                           *)
Taken(M) == \A m \in Space : \A p \in Area(m) : Frame(M, m, p) \notin M.frames

Held(M) == Tables(M) /\ Unique(M) /\ Taken(M)

(* A space whose last block ends within a page has that page.               *)
Ends(M) ==
    /\ \A m \in 0..M.spaces : M.end[m] % PAGE_SIZE # 0 =>
          PageOf(M.end[m]) \in Area(m) /\ Frame(M, m, PageOf(M.end[m])) # 0
    /\ \A m \in 1..M.spaces : M.end[m] >= HeapStart * PAGE_SIZE

Good(M) == Held(M) /\ Ends(M)

(* A kernel page and a program's page may have one frame: the last page of  *)
(* an image.                                                                *)
Shared(M, q, m, p) == Frame(M, 0, q) = Frame(M, m, p) /\ Frame(M, 0, q) # 0

(* The address behind a block, and behind what kdmalloc leaves unused.      *)
Top(b) == IF Whole(b.size % PAGE_SIZE) THEN (PageOf(b.addr + b.size) + 1) * PAGE_SIZE
          ELSE b.addr + b.size

(* A block as kdmalloc hands it out: whole pages begin at a page, and every *)
(* page is there.                                                           *)
Backed(M, b) ==
    /\ b \in Blocks /\ b.size > 0 /\ b.space <= M.spaces
    /\ b.space > 0 => b.addr >= HeapStart * PAGE_SIZE
    /\ Whole(b.size % PAGE_SIZE) => b.addr % PAGE_SIZE = 0
    /\ \A p \in Pages(b) : p \in Area(b.space) /\ Frame(M, b.space, p) # 0

(* The memory with the blocks L in use, all of them below the addresses E.  *)
Apart(L) == \A b, c \in L : b.space = c.space /\ b # c => Top(b) <= c.addr \/ Top(c) <= b.addr
Lent(M, L, E) ==
    \A q \in Area(0) : \A m \in Space \ {0} : \A p \in Area(m) : Shared(M, q, m, p) =>
        /\ (q + 1) * PAGE_SIZE <= E[0] /\ p < HeapStart
        /\ \A b \in L : b.space = 0 => q \notin Pages(b)
Sound(M, L, E) ==
    /\ Good(M)
    /\ E \in [Space -> Nat] /\ \A m \in Space : E[m] <= M.end[m]
    /\ \A b \in L : Backed(M, b) /\ Top(b) <= E[b.space]
    /\ Apart(L) /\ Lent(M, L, E)

Inv == TypeOK /\ (NeverFaults => Sound(mem, live, mem.end))

-----------------------------------------------------------------------------
(* How page tables and frames change. *)

(* The frame entered at index i of the table of entry d.                    *)
Under(M, n, d, i) ==
    IF M.dir[n][d] = 0 THEN 0
    ELSE IF M.tab[M.dir[n][d]][i] \in 1..MaxFrame THEN M.tab[M.dir[n][d]][i] ELSE 0

(* Where the frame of a page is entered.                                    *)
LEMMA FrameAt ==
    ASSUME NEW M \in Memories, NEW n \in Space, NEW q \in Area(n)
    PROVE  /\ q \in Nat /\ q \div TABLE \in Entry /\ q % TABLE \in 0..TABLE - 1
           /\ (n = 0 <=> q \div TABLE < KTABLES)
           /\ Table(M, n, q) = M.dir[n][q \div TABLE]
           /\ M.dir[n][q \div TABLE] \in 0..NoTable
           /\ M.dir[n][q \div TABLE] # 0 => M.dir[n][q \div TABLE] \in 1..NoTable
           /\ Physical(M, n, q) = IF M.dir[n][q \div TABLE] = 0 THEN NoFrame
                                  ELSE M.tab[M.dir[n][q \div TABLE]][q % TABLE]
           /\ Frame(M, n, q) = Under(M, n, q \div TABLE, q % TABLE)
<1> DEFINE e == q \div TABLE  i == q % TABLE  t == M.dir[n][e]
<1>1. q \in Nat /\ e \in Entry /\ i \in 0..TABLE - 1 /\ (n = 0 <=> e < KTABLES)
  BY Layout
<1>2. t \in 0..NoTable /\ (t # 0 => t \in 1..NoTable)
  <2>1. t \in 0..NoTable
    <3> HIDE DEF e
    <3> QED  BY <1>1, Fields
  <2> HIDE DEF t
  <2> QED  BY <2>1, Machine
<1>3. Table(M, n, q) = t
  BY <1>1 DEF Table
<1>4. Physical(M, n, q) = IF t = 0 THEN NoFrame ELSE M.tab[t][i]
  BY <1>3 DEF Physical
<1>5. NoFrame \notin 1..MaxFrame
  BY Machine
<1>6. Frame(M, n, q) = IF t = 0 THEN 0 ELSE IF M.tab[t][i] \in 1..MaxFrame THEN M.tab[t][i] ELSE 0
  BY <1>4, <1>5 DEF Frame
<1>7. Frame(M, n, q) = Under(M, n, e, i)
  BY <1>6 DEF Under
<1> QED  BY <1>1, <1>2, <1>3, <1>4, <1>7

(* Tables(M), in parts.                                                     *)
LEMMA TablesFacts ==
    ASSUME NEW M, Tables(M)
    PROVE  /\ M \in Memories
           /\ \A m \in Space, e \in Entry : M.dir[m][e] \notin M.reserved /\ M.dir[m][e] # NoTable
           /\ \A m, n \in Space, d, e \in Entry :
                 M.dir[m][d] = M.dir[n][e] /\ M.dir[m][d] # 0 => d = e /\ (m = n \/ d < KTABLES)
           /\ \A e \in Entry : M.dir[0][e] # 0 <=> e < KTABLES
           /\ \A m \in 1..M.spaces, e \in Entry : e < KTABLES => M.dir[m][e] = M.dir[0][e]
           /\ \A m \in Space, e \in Entry : m > M.spaces => M.dir[m][e] = 0
  BY DEF Tables

(* What does not touch tables keeps them and the frames under pages.        *)
LEMMA SameTables ==
    ASSUME NEW M, NEW N, Tables(M), N \in Memories, N.dir = M.dir, N.tab = M.tab,
           N.reserved = M.reserved, N.spaces = M.spaces
    PROVE  Tables(N) /\ \A n \in Space : \A q \in Area(n) : Frame(N, n, q) = Frame(M, n, q)
<1>1. Tables(N)
  BY DEF Tables
<1>2. ASSUME NEW n \in Space, NEW q \in Area(n) PROVE Frame(N, n, q) = Frame(M, n, q)
  BY DEF Frame, Physical, Table
<1> QED  BY <1>1, <1>2

(* A table made for an entry of a program's part of a directory is empty.   *)
LEMMA WithTableView ==
    ASSUME NEW M, Tables(M), NEW m \in Space, NEW e \in Entry, m <= M.spaces,
           m = 0 <=> e < KTABLES, WithTable(M, m, e).fault = "none"
    PROVE  LET N == WithTable(M, m, e)
           IN  /\ Tables(N) /\ N.dir[m][e] # 0
               /\ N.end = M.end /\ N.heap = M.heap /\ N.frames = M.frames /\ N.spaces = M.spaces
               /\ \A n \in Space : \A q \in Area(n) : Frame(N, n, q) = Frame(M, n, q)
<1> DEFINE r == Rallocated(M)  N == WithTable(M, m, e)  z == [i \in 0..TABLE - 1 |-> 0]
<1>1. /\ M \in Memories
      /\ \A a \in Space, d \in Entry : M.dir[a][d] \notin M.reserved /\ M.dir[a][d] # NoTable
      /\ \A a, b \in Space, d, f \in Entry :
            M.dir[a][d] = M.dir[b][f] /\ M.dir[a][d] # 0 => d = f /\ (a = b \/ d < KTABLES)
      /\ \A d \in Entry : M.dir[0][d] # 0 <=> d < KTABLES
      /\ \A a \in 1..M.spaces, d \in Entry : d < KTABLES => M.dir[a][d] = M.dir[0][d]
      /\ \A a \in Space, d \in Entry : a > M.spaces => M.dir[a][d] = 0
  BY TablesFacts
<1>2. CASE M.dir[m][e] # 0
  BY <1>2 DEF WithTable
<1>3. CASE M.dir[m][e] = 0
  <2> DEFINE D == [M.dir EXCEPT ![m] = [M.dir[m] EXCEPT ![e] = r]]  T == [M.tab EXCEPT ![r] = z]
             W == M.reserved \ {r}
  <2>1. N = [Rallocate(M) EXCEPT !.dir[m][e] = r]
    BY <1>3 DEF WithTable
  <2>2. Rallocate(M) \in Memories /\ r \in 1..NoTable
    BY <1>1, RallocateTyped DEF Later
  <2>3. N.fault = Rallocate(M).fault
    <3> HIDE DEF r, N
    <3> QED  BY <2>1, <2>2 DEF Memories
  <2>4. r \in M.reserved /\ M.reserved # {}
    <3>1. Rallocate(M).fault = "none"
      BY <2>3
    <3>2. r \in M.reserved
      BY <1>1, <3>1, RallocateTyped
    <3> QED  BY <3>2
  <2>5. Rallocate(M) = [M EXCEPT !.reserved = W, !.tab = T, !.fault = M.fault]
    BY <2>4 DEF Rallocate
  <2>6. N = [M EXCEPT !.reserved = W, !.tab = T, !.dir = D]
    <3> HIDE DEF r, T, W, N
    <3>1. N = [[M EXCEPT !.reserved = W, !.tab = T, !.fault = M.fault] EXCEPT !.dir[m][e] = r]
      BY <2>1, <2>5
    <3>2. DOMAIN M = {"dir", "tab", "end", "heap", "frames", "reserved", "spaces", "fault"}
      BY <1>1 DEF Memories
    <3> QED  BY <3>1, <3>2, <1>1 DEF Memories, D
  <2> HIDE DEF N
  <2>7. /\ N.dir = D /\ N.tab = T /\ N.reserved = W
        /\ N.end = M.end /\ N.heap = M.heap /\ N.frames = M.frames /\ N.spaces = M.spaces
    <3> HIDE DEF D, T, W
    <3> QED  BY <2>6, <1>1 DEF Memories
  <2>8. N \in Memories
    BY <1>1, WithTableTyped DEF Later, N
  <2>9. m # 0 /\ ~(e < KTABLES)
    BY <1>1, <1>3
  <2>10. r # 0 /\ r # NoTable
    <3>1. M.reserved \subseteq 1..MaxTable
      BY <1>1, Fields
    <3> HIDE DEF r
    <3> QED  BY <3>1, <2>4, Machine
  <2>11. \A a \in Space, d \in Entry : D[a][d] = IF a = m /\ d = e THEN r ELSE M.dir[a][d]
    <3>1. M.dir \in [Space -> [Entry -> 0..NoTable]]
      BY <1>1, Fields
    <3> HIDE DEF r
    <3> QED  BY <3>1
  <2> HIDE DEF D
  <2>12. \A a \in Space, d \in Entry : M.dir[a][d] # r
    BY <1>1, <2>4
  <2>13. Tables(N)
    <3>1. \A a \in Space, d \in Entry : N.dir[a][d] \notin N.reserved /\ N.dir[a][d] # NoTable
      <4> HIDE DEF r
      <4> QED  BY <1>1, <2>7, <2>10, <2>11 DEF W
    <3>2. \A a, b \in Space, d, f \in Entry :
            N.dir[a][d] = N.dir[b][f] /\ N.dir[a][d] # 0 => d = f /\ (a = b \/ d < KTABLES)
      <4> HIDE DEF r
      <4> QED  BY <1>1, <2>7, <2>11, <2>12
    <3>3. \A d \in Entry : N.dir[0][d] # 0 <=> d < KTABLES
      <4> HIDE DEF r
      <4>1. 0 \in Space
        BY Layout
      <4> QED  BY <4>1, <1>1, <2>7, <2>9, <2>11
    <3>4. \A a \in 1..N.spaces, d \in Entry : d < KTABLES => N.dir[a][d] = N.dir[0][d]
      <4> HIDE DEF r
      <4>1. 0 \in Space /\ \A a \in 1..M.spaces : a \in Space
        <5>1. M.spaces \in Space
          BY <1>1, Fields
        <5> QED  BY <5>1, Machine DEF Space
      <4> QED  BY <4>1, <1>1, <2>7, <2>9, <2>11
    <3>5. \A a \in Space, d \in Entry : a > N.spaces => N.dir[a][d] = 0
      <4>1. \A a \in Space : a > M.spaces => a # m
        <5>1. M.spaces \in Space
          BY <1>1, Fields
        <5>2. \A a \in Space : a \in Int
          BY Machine DEF Space
        <5> QED  BY <5>1, <5>2
      <4> HIDE DEF r
      <4> QED  BY <4>1, <1>1, <2>7, <2>11
    <3> QED  BY <2>8, <3>1, <3>2, <3>3, <3>4, <3>5 DEF Tables
  <2>14. N.dir[m][e] # 0
    <3> HIDE DEF r
    <3> QED  BY <2>7, <2>10, <2>11
  <2>15. ASSUME NEW n \in Space, NEW q \in Area(n) PROVE Frame(N, n, q) = Frame(M, n, q)
    <3> DEFINE d == q \div TABLE  i == q % TABLE
    <3>1. /\ d \in Entry /\ i \in 0..TABLE - 1
          /\ Frame(M, n, q) = Under(M, n, d, i) /\ Frame(N, n, q) = Under(N, n, d, i)
      BY <1>1, <2>8, FrameAt
    <3> HIDE DEF d, i
    <3>2. CASE n = m /\ d = e
      <4>1. N.dir[n][d] = r /\ M.dir[n][d] = 0
        BY <1>3, <2>7, <2>11, <3>1, <3>2
      <4>2. N.tab[r] = z
        <5>1. M.tab \in [1..NoTable -> [0..TABLE - 1 -> 0..NoFrame]]
          BY <1>1, Fields
        <5> HIDE DEF r, z
        <5> QED  BY <5>1, <2>2, <2>7 DEF T
      <4>3. N.tab[r][i] = 0
        BY <3>1, <4>2
      <4>4. 0 \notin 1..MaxFrame
        OBVIOUS
      <4> QED  BY <3>1, <4>1, <4>3, <4>4 DEF Under
    <3>3. CASE ~(n = m /\ d = e)
      <4>1. N.dir[n][d] = M.dir[n][d] /\ M.dir[n][d] # r
        BY <2>7, <2>11, <2>12, <3>1, <3>3
      <4>2. N.tab[M.dir[n][d]] = M.tab[M.dir[n][d]] \/ M.dir[n][d] = 0
        <5>1. M.tab \in [1..NoTable -> [0..TABLE - 1 -> 0..NoFrame]]
          BY <1>1, Fields
        <5>2. M.dir[n][d] # 0 => M.dir[n][d] \in 1..NoTable
          BY <1>1, FrameAt DEF d
        <5> HIDE DEF r, z
        <5> QED  BY <5>1, <5>2, <4>1, <2>7 DEF T
      <4> QED  BY <3>1, <4>1, <4>2 DEF Under
    <3> QED  BY <3>2, <3>3
  <2> QED  BY <2>7, <2>13, <2>14, <2>15 DEF N
<1> QED  BY <1>2, <1>3

(* Page p of space m lies on frame f now, and nothing else has changed.     *)
Repaged(M, N, m, p, f) ==
    /\ Tables(N) /\ N.end = M.end /\ N.heap = M.heap /\ N.frames = M.frames /\ N.spaces = M.spaces
    /\ \A n \in Space : \A q \in Area(n) :
          Frame(N, n, q) = IF n = m /\ q = p THEN f ELSE Frame(M, n, q)

(* A frame number as Frame shows it.                                        *)
Shown(f) == IF f \in 1..MaxFrame THEN f ELSE 0

(* A page has one place, and no other page has it.                          *)
LEMMA OnePlace ==
    ASSUME NEW M, Tables(M), NEW m \in Space, NEW p \in Area(m), NEW n \in Space, NEW q \in Area(n),
           M.dir[m][p \div TABLE] = M.dir[n][q \div TABLE], M.dir[m][p \div TABLE] # 0,
           p % TABLE = q % TABLE
    PROVE  m = n /\ p = q
<1> DEFINE d == p \div TABLE  e == q \div TABLE
<1>1. d \in Entry /\ e \in Entry /\ p \in Nat /\ q \in Nat
      /\ (m = 0 <=> d < KTABLES) /\ (n = 0 <=> e < KTABLES)
  BY Layout
<1>2. d = e /\ (m = n \/ d < KTABLES)
  <2> HIDE DEF d, e
  <2>1. M.dir[m][d] = M.dir[n][e] /\ M.dir[m][d] # 0
    BY DEF d, e
  <2> QED  BY <1>1, <2>1, TablesFacts
<1>3. m = n
  BY <1>1, <1>2
<1>4. p = d * TABLE + (p % TABLE) /\ q = e * TABLE + (q % TABLE)
  BY <1>1, Machine, Division
<1>5. p = q
  <2> DEFINE r == p % TABLE  s == q % TABLE
  <2>1. p = d * TABLE + r /\ q = e * TABLE + s /\ r = s /\ d = e
    BY <1>2, <1>4
  <2> HIDE DEF d, e, r, s
  <2> QED  BY <2>1
<1> QED  BY <1>3, <1>5

(* A frame is entered, or 0.                                                *)
LEMMA EnterView ==
    ASSUME NEW M, Tables(M), NEW m \in Space, NEW p \in Area(m), M.dir[m][p \div TABLE] # 0,
           NEW f \in 0..NoFrame
    PROVE  Repaged(M, [M EXCEPT !.tab[Table(M, m, p)][p % TABLE] = f], m, p, Shown(f))
<1> DEFINE t == Table(M, m, p)  i == p % TABLE  N == [M EXCEPT !.tab[t][i] = f]
           T == [M.tab EXCEPT ![t] = [M.tab[t] EXCEPT ![i] = f]]
<1>1. M \in Memories
  BY DEF Tables
<1>2. t = M.dir[m][p \div TABLE] /\ t \in 1..NoTable /\ i \in 0..TABLE - 1
  BY <1>1, FrameAt
<1>3. M.tab \in [1..NoTable -> [0..TABLE - 1 -> 0..NoFrame]]
  BY <1>1, Fields
<1> HIDE DEF t, i
<1>4. N = [M EXCEPT !.tab = T]
  BY <1>1 DEF Memories
<1>5. /\ N.dir = M.dir /\ N.tab = T /\ N.reserved = M.reserved /\ N.end = M.end
      /\ N.heap = M.heap /\ N.frames = M.frames /\ N.spaces = M.spaces
  <2> HIDE DEF N, T
  <2> QED  BY <1>1, <1>4 DEF Memories
<1>6. N \in Memories
  BY <1>1, <1>2 DEF Memories
<1> HIDE DEF N
<1>7. Tables(N)
  BY <1>5, <1>6 DEF Tables
<1>8. ASSUME NEW n \in Space, NEW q \in Area(n)
      PROVE  Frame(N, n, q) = IF n = m /\ q = p THEN Shown(f) ELSE Frame(M, n, q)
  <2> DEFINE d == q \div TABLE  j == q % TABLE
  <2>1. /\ d \in Entry /\ j \in 0..TABLE - 1
        /\ Frame(M, n, q) = Under(M, n, d, j) /\ Frame(N, n, q) = Under(N, n, d, j)
        /\ (M.dir[n][d] # 0 => M.dir[n][d] \in 1..NoTable)
    BY <1>1, <1>6, FrameAt
  <2>2. CASE n = m /\ q = p
    <3>1. N.dir[n][d] = t /\ j = i
      BY <1>2, <1>5, <2>2 DEF i
    <3>2. N.tab[t][i] = f
      <4> DEFINE x == M.tab[t]
      <4>1. x \in [0..TABLE - 1 -> 0..NoFrame] /\ N.tab[t] = [x EXCEPT ![i] = f]
        BY <1>2, <1>3, <1>5
      <4> HIDE DEF x
      <4> QED  BY <4>1, <1>2
    <3>3. 0 \notin 1..MaxFrame /\ t # 0
      BY <1>2
    <3> QED  BY <2>1, <2>2, <3>1, <3>2, <3>3 DEF Under, Shown
  <2>3. CASE ~(n = m /\ q = p)
    <3>1. ~(M.dir[n][d] = t /\ j = i)
      <4>1. SUFFICES ASSUME M.dir[n][d] = t, j = i PROVE FALSE
        OBVIOUS
      <4>2. M.dir[m][p \div TABLE] = M.dir[n][q \div TABLE] /\ p % TABLE = q % TABLE
        BY <1>2, <4>1 DEF i
      <4> QED  BY <4>2, <2>3, OnePlace
    <3> HIDE DEF d, j
    <3>2. CASE M.dir[n][d] = 0
      BY <1>5, <2>1, <2>3, <3>2 DEF Under
    <3>3. CASE M.dir[n][d] # 0
      <4>1. N.tab[M.dir[n][d]][j] = M.tab[M.dir[n][d]][j]
        BY <1>2, <1>3, <1>5, <2>1, <3>1, <3>3
      <4> QED  BY <1>5, <2>1, <2>3, <4>1 DEF Under
    <3> QED  BY <3>2, <3>3
  <2> QED  BY <2>2, <2>3
<1>9. Repaged(M, N, m, p, Shown(f))
  BY <1>5, <1>7, <1>8 DEF Repaged
<1> QED  BY <1>9 DEF N, t, i

(* map.                                                                     *)
LEMMA MapView ==
    ASSUME NEW M, Tables(M), NEW m \in Space, NEW p \in Nat, m <= M.spaces, NEW f \in 0..NoFrame,
           Map(M, m, p, f).fault = "none"
    PROVE  p \in Area(m) /\ Repaged(M, Map(M, m, p, f), m, p, Shown(f))
<1>1. M \in Memories
  BY DEF Tables
<1>2. p \in Area(m)
  BY <1>1, MapTyped
<1> DEFINE e == p \div TABLE  N == WithTable(M, m, e)  O == [N EXCEPT !.tab[Table(N, m, p)][p % TABLE] = f]
<1>3. e \in Entry /\ (m = 0 <=> e < KTABLES)
  BY <1>2, Layout
<1>4. Map(M, m, p, f) = O
  BY <1>2 DEF Map
<1>5. N \in Memories
  <2> HIDE DEF e
  <2> QED  BY <1>1, <1>3, WithTableTyped DEF Later
<1>6. N.fault = "none"
  <2> HIDE DEF N
  <2>1. O.fault = N.fault
    BY <1>5 DEF Memories
  <2> QED  BY <1>4, <2>1
<1>7. /\ Tables(N) /\ N.dir[m][e] # 0
      /\ N.end = M.end /\ N.heap = M.heap /\ N.frames = M.frames /\ N.spaces = M.spaces
      /\ \A n \in Space : \A q \in Area(n) : Frame(N, n, q) = Frame(M, n, q)
  <2> HIDE DEF e
  <2> QED  BY <1>3, <1>6, WithTableView
<1> HIDE DEF N
<1>8. Repaged(N, O, m, p, Shown(f))
  BY <1>2, <1>7, EnterView
<1> HIDE DEF O
<1>9. Repaged(M, O, m, p, Shown(f))
  BY <1>7, <1>8 DEF Repaged
<1> QED  BY <1>2, <1>4, <1>9

(* set_page_attribute with a page that is not there: nothing changes.       *)
LEMMA UnsetView ==
    ASSUME NEW M, Tables(M), NEW m \in Space, NEW p \in Nat
    PROVE  LET N == SetPageAttribute(M, m, p)
           IN  /\ p \in Area(m) => Repaged(M, N, m, p, 0)
               /\ m = 0 /\ p \notin Area(0) => N = M /\ Physical(M, 0, p) = NoFrame
               /\ N.fault = M.fault
<1>1. M \in Memories
  BY DEF Tables
<1> DEFINE N == SetPageAttribute(M, m, p)
<1>2. CASE Table(M, m, p) = 0
  <2>1. N = M
    BY <1>2 DEF SetPageAttribute
  <2>2. ASSUME p \in Area(m) PROVE Repaged(M, M, m, p, 0)
    <3>1. Frame(M, m, p) = 0
      <4>1. Physical(M, m, p) = NoFrame
        BY <1>2 DEF Physical
      <4> QED  BY <4>1, Machine DEF Frame
    <3> QED  BY <3>1 DEF Repaged
  <2>3. Physical(M, m, p) = NoFrame
    BY <1>2 DEF Physical
  <2> QED  BY <2>1, <2>2, <2>3
<1>3. CASE Table(M, m, p) # 0
  <2>1. N = [M EXCEPT !.tab[Table(M, m, p)][p % TABLE] = 0]
    BY <1>3 DEF SetPageAttribute
  <2>2. N.fault = M.fault
    <3> HIDE DEF N
    <3> QED  BY <2>1, <1>1 DEF Memories
  <2>3. ASSUME p \in Area(m) PROVE Repaged(M, N, m, p, 0)
    <3>1. M.dir[m][p \div TABLE] # 0
      BY <1>1, <1>3, <2>3, FrameAt
    <3>2. 0 \in 0..NoFrame /\ Shown(0) = 0
      BY Machine DEF Shown
    <3>3. Repaged(M, [M EXCEPT !.tab[Table(M, m, p)][p % TABLE] = 0], m, p, Shown(0))
      BY <2>3, <3>1, <3>2, EnterView
    <3> QED  BY <2>1, <3>2, <3>3
  <2>4. ASSUME m = 0, p \notin Area(0) PROVE FALSE
    <3> DEFINE e == p \div TABLE
    <3>1. e \in Entry /\ M.dir[0][e] # 0
      BY <1>3, <2>4 DEF Table
    <3>2. e < KTABLES
      <4> HIDE DEF e
      <4> QED  BY <3>1, TablesFacts
    <3>3. p < ImageStart
      <4>1. /\ e \in Nat /\ p % TABLE < TABLE /\ p % TABLE \in Nat
            /\ p = e * TABLE + (p % TABLE)
        BY Machine, Division
      <4>2. e * TABLE + TABLE <= KTABLES * TABLE
        <5> HIDE DEF e
        <5> QED  BY <3>2, <4>1, Machine, Multiples
      <4> DEFINE x == e * TABLE  y == KTABLES * TABLE  r == p % TABLE
      <4>3. x + TABLE <= y /\ p = x + r /\ r < TABLE /\ r \in Nat
        BY <4>1, <4>2
      <4>4. x \in Int /\ y \in Int /\ TABLE \in Nat /\ ImageStart = y
        <5>1. x \in Nat /\ y \in Nat
          <6> HIDE DEF e
          <6> QED  BY <4>1, Machine, Multiples
        <5> QED  BY <5>1, Machine DEF ImageStart
      <4> HIDE DEF x, y, r
      <4> QED  BY <4>3, <4>4
    <3> QED  BY <2>4, <3>3, Layout DEF Area
  <2> QED  BY <2>2, <2>3, <2>4
<1> QED  BY <1>2, <1>3

-----------------------------------------------------------------------------
(* A heap that grows. *)

(* Frames are only taken, for pages of space m that have none or lie above  *)
(* its end, and no page loses its frame.                                    *)
Grows(M, N, m) ==
    /\ N.spaces = M.spaces /\ N.frames \subseteq M.frames
    /\ \A n \in Space : n # m => N.end[n] = M.end[n]
    /\ N.end[m] >= M.end[m]
    /\ \A n \in Space : \A q \in Area(n) :
          \/ Frame(N, n, q) = Frame(M, n, q)
          \/ /\ n = m /\ Frame(N, n, q) \in M.frames
             /\ Frame(M, n, q) = 0 \/ M.end[m] <= q * PAGE_SIZE

(* Growing twice.                                                           *)
LEMMA GrowsTwice ==
    ASSUME NEW M \in Memories, NEW N \in Memories, NEW O \in Memories, NEW m \in Space,
           Grows(M, N, m), Grows(N, O, m)
    PROVE  Grows(M, O, m)
<1>1. M.end[m] \in Nat /\ N.end[m] \in Nat /\ O.end[m] \in Nat
  BY Fields
<1>2. /\ O.spaces = M.spaces /\ O.frames \subseteq M.frames
      /\ \A n \in Space : n # m => O.end[n] = M.end[n]
  BY DEF Grows
<1>3. O.end[m] >= M.end[m]
  BY <1>1 DEF Grows
<1>4. ASSUME NEW n \in Space, NEW q \in Area(n)
      PROVE  \/ Frame(O, n, q) = Frame(M, n, q)
             \/ /\ n = m /\ Frame(O, n, q) \in M.frames
                /\ Frame(M, n, q) = 0 \/ M.end[m] <= q * PAGE_SIZE
  <2> DEFINE x == q * PAGE_SIZE
  <2>1. x \in Nat
    BY Machine, Multiples, Layout
  <2>2. /\ N.frames \subseteq M.frames /\ N.end[m] >= M.end[m]
        /\ \/ Frame(N, n, q) = Frame(M, n, q)
           \/ /\ n = m /\ Frame(N, n, q) \in M.frames
              /\ Frame(M, n, q) = 0 \/ M.end[m] <= x
        /\ \/ Frame(O, n, q) = Frame(N, n, q)
           \/ /\ n = m /\ Frame(O, n, q) \in N.frames
              /\ Frame(N, n, q) = 0 \/ N.end[m] <= x
    BY DEF Grows
  <2> HIDE DEF x
  <2>3. N.end[m] <= x => M.end[m] <= x
    BY <1>1, <2>1, <2>2
  <2>4. \/ Frame(O, n, q) = Frame(M, n, q)
        \/ /\ n = m /\ Frame(O, n, q) \in M.frames
           /\ Frame(M, n, q) = 0 \/ M.end[m] <= x
    BY <2>2, <2>3
  <2> QED  BY <2>4 DEF x
<1> QED  BY <1>2, <1>3, <1>4 DEF Grows

(* A page that had a frame has one.                                         *)
LEMMA GrowsKeeps ==
    ASSUME NEW M \in Memories, NEW N, NEW m \in Space, Grows(M, N, m),
           NEW n \in Space, NEW q \in Area(n), Frame(M, n, q) # 0
    PROVE  Frame(N, n, q) # 0
<1>1. 0 \notin M.frames
  <2>1. M.frames \subseteq 1..MaxFrame
    BY Fields
  <2> QED  BY <2>1
<1> QED  BY <1>1 DEF Grows

(* What a frame is.                                                         *)
LEMMA FrameTyped ==
    ASSUME NEW M, NEW n, NEW q
    PROVE  Frame(M, n, q) \in 0..MaxFrame /\ Frame(M, n, q) = Shown(Physical(M, n, q))
  BY Machine DEF Frame, Shown

(* Records change: tables and frames do not.                                *)
Kept(M, N) ==
    /\ N \in Memories /\ N.dir = M.dir /\ N.tab = M.tab /\ N.reserved = M.reserved
    /\ N.frames = M.frames /\ N.spaces = M.spaces

(* Then everything that is known of them stays.                             *)
LEMMA KeptView ==
    ASSUME NEW M, NEW N, Held(M), Kept(M, N)
    PROVE  /\ Held(N) /\ \A n \in Space : \A q \in Area(n) : Frame(N, n, q) = Frame(M, n, q)
           /\ \A m \in Space : (\A n \in Space : N.end[n] = M.end[n]) => Grows(M, N, m)
<1>1. Tables(N) /\ \A n \in Space : \A q \in Area(n) : Frame(N, n, q) = Frame(M, n, q)
  BY SameTables DEF Held, Kept
<1>2. Unique(N)
  BY <1>1 DEF Held, Unique
<1>3. Taken(N)
  BY <1>1 DEF Held, Taken, Kept
<1>4. ASSUME NEW m \in Space, \A n \in Space : N.end[n] = M.end[n] PROVE Grows(M, N, m)
  <2>1. N.end[m] \in Nat
    BY Fields DEF Kept
  <2>2. N.end[m] >= M.end[m]
    BY <2>1, <1>4
  <2> QED  BY <1>1, <1>4, <2>2 DEF Grows, Kept
<1> QED  BY <1>1, <1>2, <1>3, <1>4 DEF Held

(* A frame from allocate: no page had it.                                   *)
LEMMA MapNewView ==
    ASSUME NEW M, Held(M), NEW m \in Space, NEW p \in Nat, m <= M.spaces, NEW h \in Heaps,
           MapNew(M, m, p, h).fault = "none"
    PROVE  LET N == MapNew(M, m, p, h)
           IN  /\ Held(N) /\ N.end = M.end /\ N.spaces = M.spaces
               /\ Frame(M, m, p) = 0 \/ M.end[m] <= p * PAGE_SIZE => Grows(M, N, m)
               /\ p \in Area(m) /\ Frame(N, m, p) # 0
               /\ \A n \in Space : \A q \in Area(n) : ~(n = m /\ q = p) => Frame(N, n, q) = Frame(M, n, q)
<1> DEFINE f == Min(M.frames)  K == Map(M, m, p, f)  N == MapNew(M, m, p, h)
           W == K.frames \ {f}  H == [K.heap EXCEPT ![f] = h]
<1>1. M \in Memories /\ Tables(M)
  BY DEF Held, Tables
<1>2. M.frames # {}
  <2>1. SUFFICES ASSUME M.frames = {} PROVE FALSE
    OBVIOUS
  <2>2. N = Fault(M, "frames")
    BY <2>1 DEF MapNew
  <2> QED  BY <1>1, <2>2, Faulted DEF Faults
<1>3. f \in M.frames /\ f \in 1..MaxFrame /\ f \in 0..NoFrame
  <2>1. M.frames \subseteq 1..MaxFrame /\ M.frames \subseteq Nat
    BY <1>1, Fields
  <2>2. f \in M.frames
    BY <1>2, <2>1, MinMember
  <2> HIDE DEF f
  <2> QED  BY <2>1, <2>2, Machine
<1>4. N = [K EXCEPT !.frames = W, !.heap = H]
  BY <1>2 DEF MapNew
<1> HIDE DEF f
<1>5. K \in Memories
  BY <1>1, <1>3, MapTyped DEF Later
<1>6. N \in Memories
  BY <1>1, MapNewTyped DEF Later
<1> HIDE DEF K, W, H, N
<1>7. /\ N.dir = K.dir /\ N.tab = K.tab /\ N.end = K.end /\ N.reserved = K.reserved
      /\ N.spaces = K.spaces /\ N.fault = K.fault /\ N.frames = W
  BY <1>4, <1>5 DEF Memories
<1>8. p \in Area(m) /\ Repaged(M, K, m, p, f)
  <2>1. K.fault = "none"
    BY <1>7 DEF N
  <2>2. p \in Area(m) /\ Repaged(M, K, m, p, Shown(f))
    BY <1>1, <1>3, <2>1, MapView DEF K
  <2>3. Shown(f) = f
    BY <1>3 DEF Shown
  <2> QED  BY <2>2, <2>3
<1>9. /\ Tables(K) /\ K.end = M.end /\ K.frames = M.frames /\ K.spaces = M.spaces
      /\ \A n \in Space : \A q \in Area(n) :
            Frame(K, n, q) = IF n = m /\ q = p THEN f ELSE Frame(M, n, q)
  BY <1>8 DEF Repaged
<1>10. Tables(N) /\ \A n \in Space : \A q \in Area(n) : Frame(N, n, q) = Frame(K, n, q)
  BY <1>6, <1>7, <1>9, SameTables
<1>11. \A n \in Space : \A q \in Area(n) :
            Frame(N, n, q) = IF n = m /\ q = p THEN f ELSE Frame(M, n, q)
  BY <1>9, <1>10
<1>12. N.frames = M.frames \ {f} /\ N.end = M.end /\ N.spaces = M.spaces
  BY <1>7, <1>9 DEF W
<1>13. \A n \in Space : \A q \in Area(n) : Frame(M, n, q) \notin M.frames
  BY DEF Held, Taken
<1>14. Taken(N)
  BY <1>11, <1>12, <1>13 DEF Taken
<1>15. Unique(N)
  <2>1. Unique(M)
    BY DEF Held
  <2>2. ASSUME NEW a \in Space, NEW b \in Space, NEW x \in Area(a), NEW y \in Area(b),
               (a = 0) <=> (b = 0), Frame(N, a, x) = Frame(N, b, y), Frame(N, a, x) # 0
        PROVE  a = b /\ x = y
    <3>1. CASE a = m /\ x = p
      BY <3>1, <2>2, <1>3, <1>11, <1>13
    <3>2. CASE b = m /\ y = p
      BY <3>2, <2>2, <1>3, <1>11, <1>13
    <3>3. CASE ~(a = m /\ x = p) /\ ~(b = m /\ y = p)
      BY <3>3, <2>1, <2>2, <1>11 DEF Unique
    <3> QED  BY <3>1, <3>2, <3>3
  <2> QED  BY <2>2 DEF Unique
<1>16. ASSUME Frame(M, m, p) = 0 \/ M.end[m] <= p * PAGE_SIZE PROVE Grows(M, N, m)
  <2>1. M.end[m] \in Nat
    BY <1>1, Fields
  <2>2. N.spaces = M.spaces /\ N.frames \subseteq M.frames /\ N.end = M.end /\ N.end[m] >= M.end[m]
    BY <2>1, <1>12
  <2>3. ASSUME NEW n \in Space, NEW q \in Area(n)
        PROVE  \/ Frame(N, n, q) = Frame(M, n, q)
               \/ /\ n = m /\ Frame(N, n, q) \in M.frames
                  /\ Frame(M, n, q) = 0 \/ M.end[m] <= q * PAGE_SIZE
    <3>1. CASE n = m /\ q = p
      BY <3>1, <1>3, <1>11, <1>16
    <3>2. CASE ~(n = m /\ q = p)
      BY <3>2, <1>11
    <3> QED  BY <3>1, <3>2
  <2> QED  BY <2>2, <2>3 DEF Grows
<1>17. Frame(N, m, p) # 0
  <2>1. Frame(N, m, p) = f
    BY <1>8, <1>11
  <2> QED  BY <2>1, <1>3
<1> QED  BY <1>8, <1>10, <1>11, <1>12, <1>14, <1>15, <1>16, <1>17 DEF Held, N

(* Frames for many pages.                                                   *)
LEMMA MapDataView ==
    ASSUME NEW M, Held(M), NEW m \in Space, NEW p \in Nat, m <= M.spaces, NEW n \in Nat,
           M.end[m] <= p * PAGE_SIZE, MapData(M, m, p, n).fault = "none"
    PROVE  LET N == MapData(M, m, p, n)
           IN  /\ N \in Memories /\ Held(N) /\ N.end = M.end /\ N.spaces = M.spaces /\ Grows(M, N, m)
               /\ \A q \in p..p + n - 1 : q \in Area(m) /\ Frame(N, m, q) # 0
<1>1. M \in Memories
  BY DEF Held, Tables
<1>2. PICK g : Entered(g, M, m, p, n)
  BY <1>1, MapDataSteps
<1>3. /\ g \in [0..n -> Memories] /\ g[0] = M /\ g[n] = MapData(M, m, p, n)
      /\ \A i \in 1..n : g[i] = MapNew(g[i - 1], m, p + i - 1, NoHeap)
  BY <1>2 DEF Entered
<1> DEFINE View(i) == /\ Held(g[i]) /\ g[i].end = M.end /\ g[i].spaces = M.spaces /\ Grows(M, g[i], m)
                      /\ \A q \in p..p + i - 1 : q \in Area(m) /\ Frame(g[i], m, q) # 0
           A == {i \in 0..n : g[i].fault = "none" => View(i)}
<1>4. 0 \in A
  <2>1. Kept(M, M)
    BY <1>1 DEF Kept
  <2>2. Grows(M, M, m)
    BY <2>1, KeptView
  <2>3. \A q \in p..p + 0 - 1 : FALSE
    OBVIOUS
  <2> QED  BY <1>3, <2>2, <2>3
<1>5. ASSUME NEW i \in 1..n, i - 1 \in A PROVE i \in A
  <2>1. SUFFICES ASSUME g[i].fault = "none" PROVE View(i)
    OBVIOUS
  <2> DEFINE P == g[i - 1]  N == g[i]  q == p + i - 1
  <2>2. P \in Memories /\ N \in Memories /\ q \in Nat /\ N = MapNew(P, m, q, NoHeap)
    BY <1>3
  <2>3. P.fault = "none"
    <3>1. Later(P, N)
      BY <2>2, MapNewTyped, HeapsTyped
    <3> QED  BY <2>1, <3>1 DEF Later
  <2>4. View(i - 1)
    BY <1>5, <2>3
  <2> HIDE DEF P, N, q
  <2>5. Held(P) /\ P.end = M.end /\ P.spaces = M.spaces /\ Grows(M, P, m)
        /\ \A x \in p..p + (i - 1) - 1 : x \in Area(m) /\ Frame(P, m, x) # 0
    BY <2>4 DEF P
  <2>6. MapNew(P, m, q, NoHeap).fault = "none"
    BY <2>1, <2>2 DEF N
  <2>10. P.end[m] <= q * PAGE_SIZE
    <3> DEFINE u == p * PAGE_SIZE  v == q * PAGE_SIZE
    <3>1. p \in Nat /\ q \in Nat /\ p <= q
      BY <2>2 DEF q
    <3>2. u \in Nat /\ v \in Nat /\ u <= v
      BY <3>1, Machine, Multiples
    <3>3. P.end[m] = M.end[m] /\ M.end[m] <= u /\ M.end[m] \in Nat
      BY <1>1, <2>5, Fields
    <3> HIDE DEF u, v
    <3>4. P.end[m] <= v
      BY <3>2, <3>3
    <3> QED  BY <3>4 DEF v
  <2>7. /\ Held(N) /\ N.end = P.end /\ N.spaces = P.spaces /\ Grows(P, N, m)
        /\ q \in Area(m) /\ Frame(N, m, q) # 0
    BY <2>2, <2>5, <2>6, <2>10, MapNewView, HeapsTyped
  <2>8. Grows(M, N, m)
    BY <1>1, <2>2, <2>5, <2>7, GrowsTwice
  <2>9. ASSUME NEW x \in p..p + i - 1 PROVE x \in Area(m) /\ Frame(N, m, x) # 0
    <3>1. CASE x = q
      BY <3>1, <2>7
    <3>2. CASE x # q
      <4>1. x \in p..p + (i - 1) - 1
        BY <3>2 DEF q
      <4> QED  BY <4>1, <2>2, <2>5, <2>7, GrowsKeeps
    <3> QED  BY <3>1, <3>2
  <2> QED  BY <2>5, <2>7, <2>8, <2>9 DEF N
<1> HIDE DEF A
<1>6. n \in A
  BY <1>4, <1>5, Induction
<1>7. View(n)
  <2>1. g[n].fault = "none"
    BY <1>3
  <2> QED  BY <1>6, <2>1 DEF A
<1>8. g[n] \in Memories
  BY <1>3
<1> QED  BY <1>3, <1>7, <1>8

(* A page beyond what a space maps is under no table.                       *)
LEMMA Beyond ==
    ASSUME NEW M, Tables(M), NEW m \in Space, NEW p \in Nat, p \notin Area(m), m # 0 => p >= ImageStart
    PROVE  Physical(M, m, p) = NoFrame
<1>1. CASE m = 0
  BY <1>1, UnsetView
<1>2. CASE m # 0
  <2>1. p > StackPage
    BY <1>2, Layout DEF Area
  <2> DEFINE e == p \div TABLE  x == (KTABLES + 4) * TABLE
  <2>2. x \in Nat /\ KTABLES + 4 \in Nat
    BY Machine, Multiples
  <2>3. (KTABLES + 4) * TABLE <= p => KTABLES + 4 <= e
    BY <2>2, Machine, Division
  <2>4. StackPage = x - 1
    BY DEF StackPage
  <2>5. x <= p
    <3> HIDE DEF x
    <3> QED  BY <2>1, <2>2, <2>4
  <2>6. e \notin Entry
    <3>1. KTABLES + 4 <= e
      BY <2>3, <2>5
    <3> HIDE DEF e
    <3> QED  BY <3>1, Machine DEF Entry
  <2> QED  BY <2>6 DEF Physical, Table
<1> QED  BY <1>1, <1>2

(* check_heap and heapify change a record only.                             *)
LEMMA AddFreeView ==
    ASSUME NEW M \in Memories, NEW m \in Space, NEW a \in Nat, NEW n \in Int,
           AddFree(M, m, a, n).fault = "none"
    PROVE  Kept(M, AddFree(M, m, a, n)) /\ AddFree(M, m, a, n).end = M.end
<1> DEFINE N == AddFree(M, m, a, n)
<1>1. N \in Memories
  BY AddFreeTyped DEF Later
<1>2. CASE HeapOf(M, m, a) = NoHeap
  <2>1. N = Fault(M, "record")
    BY <1>2 DEF AddFree
  <2> QED  BY <2>1, Faulted DEF Faults
<1>3. CASE HeapOf(M, m, a) # NoHeap
  <2>1. \E f, h : N = [M EXCEPT !.heap[f] = h]
    BY <1>3 DEF AddFree
  <2>2. PICK f, h : N = [M EXCEPT !.heap[f] = h]
    BY <2>1
  <2> DEFINE H == [M.heap EXCEPT ![f] = h]
  <2>3. N = [M EXCEPT !.heap = H]
    BY <2>2
  <2> HIDE DEF H, N
  <2>4. /\ N.dir = M.dir /\ N.tab = M.tab /\ N.reserved = M.reserved /\ N.frames = M.frames
        /\ N.spaces = M.spaces /\ N.end = M.end
    BY <2>3 DEF Memories
  <2> QED  BY <1>1, <2>4 DEF Kept, N
<1> QED  BY <1>2, <1>3

(* An end moves.                                                            *)
LEMMA EndedView ==
    ASSUME NEW M, NEW m \in Space, NEW a \in Nat, Held(M)
    PROVE  LET N == [M EXCEPT !.end[m] = a]
           IN  /\ N \in Memories /\ Held(N) /\ N.fault = M.fault /\ N.spaces = M.spaces
               /\ N.frames = M.frames /\ N.end[m] = a
               /\ \A n \in Space : n # m => N.end[n] = M.end[n]
               /\ \A n \in Space : \A q \in Area(n) : Frame(N, n, q) = Frame(M, n, q)
<1> DEFINE N == [M EXCEPT !.end[m] = a]  E == [M.end EXCEPT ![m] = a]
<1>1. M \in Memories
  BY DEF Held, Tables
<1>3. N = [M EXCEPT !.end = E]
  OBVIOUS
<1>4. E \in [Space -> Nat] /\ E[m] = a /\ \A n \in Space : n # m => E[n] = M.end[n]
  BY <1>1, Fields
<1> HIDE DEF N, E
<1>2. N \in Memories
  BY <1>1, <1>3, <1>4 DEF Memories
<1>5. /\ N.dir = M.dir /\ N.tab = M.tab /\ N.reserved = M.reserved /\ N.frames = M.frames
      /\ N.spaces = M.spaces /\ N.end = E /\ N.fault = M.fault
  BY <1>1, <1>3 DEF Memories
<1>6. Kept(M, N)
  BY <1>2, <1>5 DEF Kept
<1>7. Held(N) /\ \A n \in Space : \A q \in Area(n) : Frame(N, n, q) = Frame(M, n, q)
  BY <1>6, KeptView
<1> QED  BY <1>2, <1>4, <1>5, <1>7 DEF N

(* Ends, for the spaces that have been made.                                *)
LEMMA EndsFacts ==
    ASSUME NEW M, Ends(M)
    PROVE  /\ \A m \in 0..M.spaces : M.end[m] % PAGE_SIZE # 0 =>
                 PageOf(M.end[m]) \in Area(m) /\ Frame(M, m, PageOf(M.end[m])) # 0
           /\ \A m \in 1..M.spaces : M.end[m] >= HeapStart * PAGE_SIZE
  BY DEF Ends

(* A heap that has grown is good if its end lies in a page it has.          *)
LEMMA GoodGrown ==
    ASSUME NEW M, Good(M), NEW m \in Space, m <= M.spaces, NEW N \in Memories, Held(N), Grows(M, N, m),
           N.end[m] % PAGE_SIZE # 0 =>
              PageOf(N.end[m]) \in Area(m) /\ Frame(N, m, PageOf(N.end[m])) # 0
    PROVE  Good(N)
<1>1. M \in Memories /\ Ends(M)
  BY DEF Good, Held, Tables
<1>2. N.spaces = M.spaces /\ M.spaces \in Space
  BY <1>1, Fields DEF Grows
<1>3. \A n \in 0..M.spaces : n \in Space
  BY <1>2, Machine DEF Space
<1>4. ASSUME NEW n \in 0..N.spaces, N.end[n] % PAGE_SIZE # 0
      PROVE  PageOf(N.end[n]) \in Area(n) /\ Frame(N, n, PageOf(N.end[n])) # 0
  <2>1. CASE n = m
    BY <1>4, <2>1
  <2>2. CASE n # m
    <3>1. n \in 0..M.spaces /\ n \in Space /\ N.end[n] = M.end[n]
      BY <1>2, <1>3, <2>2 DEF Grows
    <3>2. PageOf(N.end[n]) \in Area(n) /\ Frame(M, n, PageOf(N.end[n])) # 0
      BY <1>1, <1>4, <3>1, EndsFacts
    <3> QED  BY <1>1, <3>1, <3>2, GrowsKeeps
  <2> QED  BY <2>1, <2>2
<1>5. ASSUME NEW n \in 1..N.spaces PROVE N.end[n] >= HeapStart * PAGE_SIZE
  <2>1. n \in 1..M.spaces /\ n \in Space
    BY <1>2, <1>3
  <2>2. M.end[n] >= HeapStart * PAGE_SIZE
    BY <1>1, <2>1, EndsFacts
  <2>3. M.end[n] \in Nat /\ N.end[n] \in Nat /\ N.end[n] >= M.end[n] /\ HeapStart * PAGE_SIZE \in Nat
    <3>1. M.end[n] \in Nat /\ N.end[n] \in Nat
      BY <1>1, <2>1, Fields
    <3>2. N.end[n] >= M.end[n]
      BY <2>1, <3>1 DEF Grows
    <3>3. HeapStart * PAGE_SIZE \in Nat
      BY Layout, Machine, Multiples
    <3> QED  BY <3>1, <3>2, <3>3
  <2> DEFINE x == HeapStart * PAGE_SIZE
  <2> HIDE DEF x
  <2>4. M.end[n] >= x /\ x \in Nat
    BY <2>2, <2>3 DEF x
  <2>5. N.end[n] >= x
    BY <2>3, <2>4
  <2> QED  BY <2>5 DEF x
<1>6. Ends(N)
  BY <1>4, <1>5 DEF Ends
<1> QED  BY <1>6 DEF Good

(* A block of n bytes is handed out.                                        *)
Handout(M, N, m, n) ==
    LET b == Block(M, m, n)
    IN  /\ Good(N) /\ Grows(M, N, m)
        /\ b.addr >= M.end[m] /\ Top(b) <= N.end[m] /\ Backed(N, b)
        /\ Whole(n) => b.addr % PAGE_SIZE = 0

(* It is, if the pages from its first byte on to page y have frames.        *)
LEMMA HandedOut ==
    ASSUME NEW M, Good(M), NEW m \in Space, m <= M.spaces, NEW n \in Nat, n > 0,
           NEW N \in Memories, Held(N), Grows(M, N, m),
           NEW a \in Nat, a >= M.end[m], Block(M, m, n) = [space |-> m, size |-> n, addr |-> a],
           NEW y \in Nat, a + n <= (y + 1) * PAGE_SIZE,
           \A q \in PageOf(a)..y : q \in Area(m) /\ Frame(N, m, q) # 0,
           Whole(n % PAGE_SIZE) \/ Whole(n) => a % PAGE_SIZE = 0,
           N.end[m] = IF Whole(n % PAGE_SIZE) THEN (PageOf(a + n) + 1) * PAGE_SIZE ELSE a + n
    PROVE  Handout(M, N, m, n)
<1> DEFINE b == Block(M, m, n)
<1>1. b = [space |-> m, size |-> n, addr |-> a] /\ b.space = m /\ b.size = n /\ b.addr = a
  OBVIOUS
<1> HIDE DEF b
<1>2. M \in Memories /\ Ends(M) /\ N.spaces = M.spaces /\ M.end[m] \in Nat
  BY Fields DEF Good, Held, Tables, Grows
<1>3. PageOf(a + n - 1) \in Nat /\ PageOf(a + n - 1) <= y
  <2> DEFINE x == a + n - 1  u == (y + 1) * PAGE_SIZE
  <2>1. x \in Nat /\ y + 1 \in Nat
    OBVIOUS
  <2>2. PageOf(x) \in Nat /\ ((y + 1) * PAGE_SIZE <= x <=> y + 1 <= PageOf(x))
    BY <2>1, Addresses
  <2>3. u \in Nat
    BY <2>1, Machine, Multiples
  <2>4. ~(u <= x)
    <3> HIDE DEF u
    <3>1. a + n <= u
      BY DEF u
    <3> QED  BY <2>3, <3>1
  <2>5. ~(y + 1 <= PageOf(x))
    BY <2>2, <2>4
  <2> HIDE DEF x, u
  <2> QED  BY <2>2, <2>5 DEF x
<1>4. Pages(b) \subseteq PageOf(a)..y
  BY <1>1, <1>3, Addresses DEF Pages
<1>5. Top(b) = N.end[m]
  BY <1>1 DEF Top
<1>6. Backed(N, b)
  <2>1. b \in Blocks
    BY <1>1 DEF Blocks
  <2>2. \A q \in Pages(b) : q \in Area(b.space) /\ Frame(N, b.space, q) # 0
    BY <1>1, <1>4
  <2>3. b.space > 0 => b.addr >= HeapStart * PAGE_SIZE
    <3>1. SUFFICES ASSUME m > 0 PROVE a >= HeapStart * PAGE_SIZE
      BY <1>1
    <3> DEFINE x == HeapStart * PAGE_SIZE
    <3>2. m \in 1..M.spaces
      <4>1. m \in Int /\ M.spaces \in Int
        BY <1>2, Fields, Machine DEF Space
      <4> QED  BY <3>1, <4>1
    <3>3. M.end[m] >= x /\ x \in Nat
      BY <1>2, <3>2, EndsFacts, Layout, Machine, Multiples
    <3> HIDE DEF x
    <3>4. a >= x
      BY <1>2, <3>3
    <3> QED  BY <3>4 DEF x
  <2> QED  BY <1>1, <1>2, <2>1, <2>2, <2>3 DEF Backed
<1>7. Good(N)
  <2>1. CASE Whole(n % PAGE_SIZE)
    <3> DEFINE x == PageOf(a + n) + 1
    <3>1. x \in Nat /\ N.end[m] = x * PAGE_SIZE
      <4>1. a + n \in Nat
        OBVIOUS
      <4>2. PageOf(a + n) \in Nat
        BY <4>1, Addresses
      <4>3. N.end[m] = x * PAGE_SIZE
        BY <2>1, Zenon
      <4> QED  BY <4>2, <4>3
    <3> HIDE DEF x
    <3>2. (x * PAGE_SIZE) % PAGE_SIZE = 0
      <4>1. x * PAGE_SIZE \in Nat /\ 0 \in Nat
        BY <3>1, Machine, Multiples
      <4> DEFINE z == x * PAGE_SIZE
      <4>2. z = x * PAGE_SIZE + 0 /\ 0 < PAGE_SIZE
        BY <4>1, Machine
      <4>3. z % PAGE_SIZE = 0
        <5> HIDE DEF z
        <5> QED  BY <3>1, <4>1, <4>2, Addresses DEF z
      <4> QED  BY <4>3
    <3>3. N.end[m] % PAGE_SIZE = 0
      BY <3>1, <3>2
    <3> QED  BY <3>3, GoodGrown
  <2>2. CASE ~Whole(n % PAGE_SIZE)
    <3>1. N.end[m] = a + n
      BY <2>2
    <3> DEFINE x == a + n - 1
    <3>2. ASSUME (a + n) % PAGE_SIZE # 0 PROVE PageOf(a + n) = PageOf(x) /\ PageOf(a) <= PageOf(x)
      <4>1. x \in Nat /\ a + n \in Nat /\ x + 1 = a + n /\ a <= x
        OBVIOUS
      <4>2. /\ PageOf(a) \in Nat /\ PageOf(a) * PAGE_SIZE <= a
            /\ PageOf(a) * PAGE_SIZE \in Nat
            /\ (PageOf(a) * PAGE_SIZE <= x <=> PageOf(a) <= PageOf(x))
        <5>1. PageOf(a) \in Nat /\ PageOf(a) * PAGE_SIZE \in Nat /\ PageOf(a) * PAGE_SIZE <= a
          BY Addresses
        <5> QED  BY <4>1, <5>1, Addresses
      <4>3. PageOf(a) <= PageOf(x)
        <5> DEFINE z == PageOf(a) * PAGE_SIZE
        <5>1. z <= a /\ z \in Nat
          BY <4>2
        <5> HIDE DEF z
        <5>2. z <= x
          BY <4>1, <5>1
        <5> QED  BY <4>2, <5>2 DEF z
      <4> DEFINE k == PageOf(a + n)  r == (a + n) % PAGE_SIZE
      <4>4. /\ k \in Nat /\ r \in Nat /\ r < PAGE_SIZE /\ a + n = k * PAGE_SIZE + r /\ r # 0
            /\ k * PAGE_SIZE \in Nat
        BY <3>2, <4>1, Addresses
      <4> HIDE DEF k, r
      <4>5. r - 1 \in Nat /\ x = k * PAGE_SIZE + (r - 1) /\ r - 1 < PAGE_SIZE
        <5> DEFINE z == k * PAGE_SIZE
        <5>1. z \in Nat /\ a + n = z + r
          BY <4>4
        <5> HIDE DEF z
        <5>2. x = z + (r - 1) /\ r - 1 \in Nat /\ r - 1 < PAGE_SIZE
          BY <5>1, <4>4, Machine
        <5> QED  BY <5>2 DEF z
      <4>6. PageOf(x) = k
        <5> HIDE DEF x
        <5> QED  BY <4>1, <4>4, <4>5, Addresses
      <4> QED  BY <4>3, <4>6 DEF k
    <3>3. (a + n) % PAGE_SIZE # 0 => PageOf(a + n) \in Area(m) /\ Frame(N, m, PageOf(a + n)) # 0
      <4>1. (a + n) % PAGE_SIZE # 0 => PageOf(a + n) \in PageOf(a)..y
        BY <1>3, <3>2, Addresses
      <4> QED  BY <4>1
    <3> QED  BY <3>1, <3>3, GoodGrown
  <2> QED  BY <2>1, <2>2
<1>8. b.addr >= M.end[m] /\ Top(b) <= N.end[m]
  <2>1. N.end[m] \in Nat
    BY Fields
  <2> QED  BY <1>1, <1>5, <2>1
<1>9. Whole(n) => b.addr % PAGE_SIZE = 0
  BY <1>1
<1> QED  BY <1>6, <1>7, <1>8, <1>9 DEF Handout, b

(* Frames for pages p up to y, and the end moves to t.                      *)
LEMMA MappedEnd ==
    ASSUME NEW M, Good(M), NEW m \in Space, m <= M.spaces, NEW O \in Memories, Held(O), O.end = M.end,
           Grows(M, O, m), NEW t \in Nat, t >= M.end[m]
    PROVE  LET N == [O EXCEPT !.end[m] = t]
           IN  /\ N \in Memories /\ Held(N) /\ Grows(M, N, m) /\ N.end[m] = t /\ N.fault = O.fault
               /\ \A n \in Space : \A q \in Area(n) : Frame(N, n, q) = Frame(O, n, q)
<1> DEFINE N == [O EXCEPT !.end[m] = t]
<1>1. /\ N \in Memories /\ Held(N) /\ N.fault = O.fault /\ N.spaces = O.spaces
      /\ N.frames = O.frames /\ N.end[m] = t
      /\ \A n \in Space : n # m => N.end[n] = O.end[n]
      /\ \A n \in Space : \A q \in Area(n) : Frame(N, n, q) = Frame(O, n, q)
  BY EndedView
<1> HIDE DEF N
<1>2. Grows(M, N, m)
  BY <1>1 DEF Grows
<1> QED  BY <1>1, <1>2 DEF N

(* Pages of its own.                                                        *)
LEMMA MallocPagesView ==
    ASSUME NEW M, Good(M), NEW m \in Space, m <= M.spaces, NEW n \in Nat, Whole(n),
           Kdmalloc(M, m, n).fault = "none"
    PROVE  Handout(M, Kdmalloc(M, m, n), m, n)
<1> DEFINE e == M.end[m]  rest == n % PAGE_SIZE  p == NextPage(M, m)  k == n \div PAGE_SIZE
           a == p * PAGE_SIZE  N == Kdmalloc(M, m, n)
<1>1. M \in Memories /\ Held(M)
  BY DEF Good, Held, Tables
<1>2. /\ e \in Nat /\ p \in Nat /\ k \in Nat /\ rest \in Nat /\ rest < PAGE_SIZE /\ n > 0
      /\ n = k * PAGE_SIZE + rest /\ PAGE_SIZE \in Nat /\ PAGE_SIZE >= 512
  <2>1. n > 0 /\ PAGE_SIZE \in Nat /\ PAGE_SIZE >= 512
    BY Machine DEF Whole
  <2> QED  BY <1>1, <2>1, NextPageTyped
<1>3. a \in Nat /\ a >= e /\ a % PAGE_SIZE = 0 /\ PageOf(a) = p
  <2>1. a \in Nat
    <3> HIDE DEF p
    <3> QED  BY <1>2, Multiples
  <2>2. a % PAGE_SIZE = 0 /\ PageOf(a) = p
    <3>1. a = p * PAGE_SIZE + 0
      BY <2>1
    <3>2. p \in Nat /\ 0 \in Nat /\ 0 < PAGE_SIZE
      BY <1>2
    <3> HIDE DEF a, p
    <3> QED  BY <2>1, <3>1, <3>2, Addresses
  <2>3. a >= e
    <3> DEFINE q == PageOf(e)  r == e % PAGE_SIZE  z == q * PAGE_SIZE
    <3>1. /\ q \in Nat /\ r \in Nat /\ r < PAGE_SIZE /\ e = q * PAGE_SIZE + r /\ z \in Nat
          /\ (q + 1) * PAGE_SIZE = q * PAGE_SIZE + PAGE_SIZE
      BY <1>2, Addresses
    <3>2. p = IF r = 0 THEN q ELSE q + 1
      <4> HIDE DEF q
      <4> QED  BY <3>1 DEF NextPage, q
    <3>3. a = IF r = 0 THEN z ELSE z + PAGE_SIZE
      BY <3>1, <3>2
    <3>4. e = z + r
      BY <3>1
    <3> HIDE DEF z, q, r, a, e, p
    <3> QED  BY <3>1, <3>3, <3>4, <1>2
  <2> QED  BY <2>1, <2>2, <2>3
<1>4. Block(M, m, n) = [space |-> m, size |-> n, addr |-> a]
  BY DEF Block
<1>5. /\ (p + k) * PAGE_SIZE = a + k * PAGE_SIZE /\ (p + k + 1) * PAGE_SIZE = a + k * PAGE_SIZE + PAGE_SIZE
      /\ k * PAGE_SIZE \in Nat /\ p + k \in Nat
  <2> HIDE DEF p, k
  <2>1. p + k \in Nat
    BY <1>2
  <2>2. (p + k) * PAGE_SIZE = a + k * PAGE_SIZE /\ k * PAGE_SIZE \in Nat
    BY <1>2, Multiples
  <2>3. (p + k + 1) * PAGE_SIZE = (p + k) * PAGE_SIZE + PAGE_SIZE
    BY <1>2, <2>1, Multiples
  <2> QED  BY <2>1, <2>2, <2>3
<1> DEFINE z == k * PAGE_SIZE
           Left == IF Table(M, m, PageOf(e)) # 0 /\ Present(M, m, PageOf(e))
                   THEN AddFree(M, m, e, HeapOf(M, m, e).vhp - (e % PAGE_SIZE))
                   ELSE M
           D == MapData(Left, m, p, k)
<1>6. N = CASE rest = 0 -> [D EXCEPT !.end[m] = (p + k) * PAGE_SIZE]
            [] Whole(rest) ->
                 [MapNew(D, m, p + k, NoHeap) EXCEPT !.end[m] = (p + k + 1) * PAGE_SIZE]
            [] OTHER ->
                 [MapNew(D, m, p + k, NewHeap) EXCEPT !.end[m] = (p + k) * PAGE_SIZE + rest]
  <2>1. Kdmalloc(M, m, n) = MallocPages(M, m, n)
    BY DEF Kdmalloc
  <2>2. MallocPages(M, m, n) =
           LET WithRest(O) ==
                  CASE rest = 0 -> [O EXCEPT !.end[m] = (p + k) * PAGE_SIZE]
                    [] Whole(rest) ->
                         [MapNew(O, m, p + k, NoHeap) EXCEPT !.end[m] = (p + k + 1) * PAGE_SIZE]
                    [] OTHER ->
                         [MapNew(O, m, p + k, NewHeap) EXCEPT !.end[m] = (p + k) * PAGE_SIZE + rest]
           IN WithRest(D)
    BY DEF MallocPages, e, rest, p, k
  <2> HIDE DEF D, Left
  <2> QED  BY <2>1, <2>2
<1>7. N.fault = "none"
  OBVIOUS
<1>8. N = Kdmalloc(M, m, n)
  OBVIOUS
<1>9. e = M.end[m] /\ rest = n % PAGE_SIZE /\ a + n = a + z + rest
      /\ HeapOf(M, m, e).vhp - (e % PAGE_SIZE) \in Int
  <2>1. a + n = a + z + rest
    <3> HIDE DEF a, k
    <3>1. z \in Nat /\ n = z + rest
      BY <1>2, <1>5
    <3> HIDE DEF z
    <3> QED  BY <1>2, <1>3, <3>1
  <2>2. HeapOf(M, m, e).vhp \in Int /\ (e % PAGE_SIZE) \in Nat
    <3> HIDE DEF e
    <3> QED  BY <1>1, <1>2, HeapOfTyped, Addresses
  <2> QED  BY <2>1, <2>2
<1> HIDE DEF e, N
<1>10. Left \in Memories /\ (Left.fault = "none" =>
           Kept(M, Left) /\ Left.end = M.end)
  <2>1. Kept(M, M)
    BY <1>1 DEF Kept
  <2> DEFINE v == HeapOf(M, m, e).vhp - (e % PAGE_SIZE)  K == AddFree(M, m, e, v)
  <2>2. v \in Int
    BY <1>9
  <2>3. Left = K \/ Left = M
    OBVIOUS
  <2> HIDE DEF v, Left
  <2>4. K \in Memories
    BY <1>1, <1>2, <1>9, <2>2, AddFreeTyped DEF Later
  <2>5. K.fault = "none" => Kept(M, K) /\ K.end = M.end
    BY <1>1, <1>2, <1>9, <2>2, AddFreeView
  <2> HIDE DEF K
  <2> QED  BY <1>1, <2>1, <2>3, <2>4, <2>5
<1> HIDE DEF Left
<1>11. D \in Memories /\ (D.fault = "none" => Left.fault = "none")
  <2> HIDE DEF p, k
  <2> QED  BY <1>2, <1>10, MapDataTyped DEF Later
<1>12. ASSUME D.fault = "none"
       PROVE  /\ Held(D) /\ D.end = M.end /\ D.spaces = M.spaces /\ Grows(M, D, m)
              /\ \A q \in p..p + k - 1 : q \in Area(m) /\ Frame(D, m, q) # 0
  <2>1. Kept(M, Left) /\ Left.end = M.end /\ Left.spaces = M.spaces /\ Left \in Memories
    BY <1>10, <1>11, <1>12 DEF Kept
  <2>2. Held(Left) /\ Grows(M, Left, m)
    BY <1>1, <2>1, KeptView
  <2>3. /\ Held(D) /\ D.end = Left.end /\ D.spaces = Left.spaces /\ Grows(Left, D, m)
        /\ \A q \in p..p + k - 1 : q \in Area(m) /\ Frame(D, m, q) # 0
    <3>1. MapData(Left, m, p, k).fault = "none"
      BY <1>12
    <3>2. m <= Left.spaces
      BY <2>1
    <3>3. Left.end[m] <= p * PAGE_SIZE
      <4>1. Left.end[m] = e /\ a = p * PAGE_SIZE
        BY <1>9, <2>1
      <4> HIDE DEF a, p
      <4>2. e <= a
        BY <1>2, <1>3
      <4> QED  BY <4>1, <4>2
    <3> HIDE DEF p, k
    <3> QED  BY <1>2, <2>2, <3>1, <3>2, <3>3, MapDataView
  <2> QED  BY <1>1, <1>11, <2>1, <2>2, <2>3, GrowsTwice
<1> HIDE DEF D
<1>13. CASE rest = 0
  <2>1. N = [D EXCEPT !.end[m] = (p + k) * PAGE_SIZE]
    BY <1>2, <1>6, <1>13 DEF Whole
  <2>2. N = [D EXCEPT !.end[m] = a + n] /\ a + n \in Nat /\ a + n >= M.end[m]
    <3>1. (p + k) * PAGE_SIZE = a + n
      <4>1. (p + k) * PAGE_SIZE = a + z
        BY <1>5
      <4> HIDE DEF z, a, p, k, rest
      <4>2. z \in Nat
        BY <1>5 DEF z
      <4> QED  BY <4>1, <4>2, <1>3, <1>9, <1>13
    <3> HIDE DEF a, p, k
    <3> QED  BY <2>1, <3>1, <1>2, <1>3, <1>9
  <2>3. D.fault = "none"
    <3>1. [D EXCEPT !.end[m] = a + n].fault = D.fault
      BY <1>11 DEF Memories
    <3> QED  BY <1>7, <2>2, <3>1
  <2>4. /\ N \in Memories /\ Held(N) /\ Grows(M, N, m) /\ N.end[m] = a + n
        /\ \A b \in Space : \A q \in Area(b) : Frame(N, b, q) = Frame(D, b, q)
    <3> HIDE DEF a
    <3> QED  BY <1>11, <1>12, <2>2, <2>3, MappedEnd
  <2>5. k >= 1
    <3>1. k = 0 => z = 0
      BY <1>2
    <3> HIDE DEF z, k, rest, a
    <3>2. z \in Nat /\ n = z + rest
      BY <1>2, <1>5 DEF z
    <3> QED  BY <1>2, <1>13, <3>1, <3>2
  <2> DEFINE y == p + k - 1
  <2>6. y \in Nat /\ y + 1 = p + k /\ a + n <= (y + 1) * PAGE_SIZE
    <3>1. y \in Nat /\ y + 1 = p + k
      BY <1>2, <2>5
    <3>2. (y + 1) * PAGE_SIZE = a + n
      <4>1. (p + k) * PAGE_SIZE = a + z
        BY <1>5
      <4> HIDE DEF z, a, p, k, rest, y
      <4>2. z \in Nat
        BY <1>5 DEF z
      <4> QED  BY <3>1, <4>1, <4>2, <1>3, <1>9, <1>13
    <3> QED  BY <3>1, <3>2, <2>2
  <2>7. \A q \in PageOf(a)..y : q \in Area(m) /\ Frame(N, m, q) # 0
    BY <1>3, <1>12, <2>3, <2>4
  <2>8. ~Whole(n % PAGE_SIZE)
    BY <1>2, <1>13 DEF Whole
  <2> HIDE DEF a, y, p, k, rest
  <2>9. N.end[m] = IF Whole(n % PAGE_SIZE) THEN (PageOf(a + n) + 1) * PAGE_SIZE ELSE a + n
    BY <2>4, <2>8, Zenon
  <2>10. Whole(n % PAGE_SIZE) \/ Whole(n) => a % PAGE_SIZE = 0
    BY <1>3
  <2>11. a \in Nat /\ a >= M.end[m] /\ n > 0
    BY <1>2, <1>3, <1>9
  <2>12. y \in Nat /\ a + n <= (y + 1) * PAGE_SIZE
    BY <2>6
  <2>13. N \in Memories /\ Held(N) /\ Grows(M, N, m)
    BY <2>4
  <2>14. Handout(M, N, m, n)
    BY <1>4, <2>7, <2>9, <2>10, <2>11, <2>12, <2>13, HandedOut
  <2> QED  BY <1>8, <2>14
<1>14. CASE rest # 0
  <2> DEFINE h == IF Whole(rest) THEN NoHeap ELSE NewHeap
             t == IF Whole(rest) THEN (p + k + 1) * PAGE_SIZE ELSE (p + k) * PAGE_SIZE + rest
             O == MapNew(D, m, p + k, h)
  <2>1. N = [O EXCEPT !.end[m] = t]
    BY <1>6, <1>14
  <2>2. h \in Heaps
    BY HeapsTyped
  <2>3. (p + k + 1) * PAGE_SIZE = a + z + PAGE_SIZE /\ (p + k) * PAGE_SIZE = a + z
    BY <1>5
  <2>4. t = IF Whole(rest) THEN a + z + PAGE_SIZE ELSE a + n
    <3>1. t = IF Whole(rest) THEN a + z + PAGE_SIZE ELSE a + z + rest
      BY <2>3, Zenon
    <3> HIDE DEF t, a, z, rest
    <3> QED  BY <1>9, <3>1
  <2>5. t \in Nat /\ t >= M.end[m] /\ a + z \in Nat
    <3>1. z \in Nat
      BY <1>5
    <3> HIDE DEF t, a, z, rest
    <3> QED  BY <1>2, <1>3, <1>9, <2>4, <3>1
  <2>6. O \in Memories /\ (O.fault = "none" => D.fault = "none")
    <3>1. p + k \in Nat
      BY <1>2
    <3> HIDE DEF p, k, h
    <3> QED  BY <1>11, <2>2, <3>1, MapNewTyped DEF Later
  <2> HIDE DEF h, t
  <2>7. MapNew(D, m, p + k, h).fault = "none" /\ D.fault = "none" /\ p + k \in Nat
    <3>1. [O EXCEPT !.end[m] = t].fault = O.fault
      <4> HIDE DEF O
      <4> QED  BY <2>6 DEF Memories
    <3> QED  BY <1>2, <1>7, <2>1, <2>6, <3>1
  <2>8. /\ Held(O) /\ O.end = D.end /\ Grows(D, O, m)
        /\ p + k \in Area(m) /\ Frame(O, m, p + k) # 0
    <3>1. m <= D.spaces /\ Held(D)
      BY <1>12, <2>7
    <3>2. D.end[m] <= (p + k) * PAGE_SIZE
      <4>1. (p + k) * PAGE_SIZE = a + z /\ D.end[m] = e
        BY <1>9, <1>12, <2>3, <2>7
      <4>2. z \in Nat
        BY <1>5
      <4> HIDE DEF a, z
      <4>3. e <= a + z
        BY <1>2, <1>3, <4>2
      <4> QED  BY <4>1, <4>3
    <3> HIDE DEF p, k
    <3> QED  BY <2>2, <2>7, <3>1, <3>2, MapNewView
  <2> HIDE DEF O
  <2>9. Grows(M, O, m) /\ O.end = M.end
    BY <1>1, <1>11, <1>12, <2>6, <2>7, <2>8, GrowsTwice
  <2>10. /\ N \in Memories /\ Held(N) /\ Grows(M, N, m) /\ N.end[m] = t
         /\ \A b \in Space : \A q \in Area(b) : Frame(N, b, q) = Frame(O, b, q)
    BY <2>1, <2>5, <2>6, <2>8, <2>9, MappedEnd
  <2> DEFINE y == p + k
  <2>11. y \in Nat /\ a + n <= (y + 1) * PAGE_SIZE
    <3>1. (y + 1) * PAGE_SIZE = a + z + PAGE_SIZE
      BY <2>3
    <3> DEFINE u == (y + 1) * PAGE_SIZE
    <3>2. y \in Nat
      BY <1>2
    <3>3. u = a + z + PAGE_SIZE
      BY <3>1
    <3> HIDE DEF u, y, z, a, rest
    <3>4. a + n <= u
      BY <1>2, <1>3, <1>9, <2>5, <3>3
    <3> QED  BY <3>2, <3>4 DEF u
  <2>12. \A q \in PageOf(a)..y : q \in Area(m) /\ Frame(N, m, q) # 0
    <3>1. ASSUME NEW q \in p..p + k PROVE q \in Area(m) /\ Frame(O, m, q) # 0
      <4>1. CASE q = p + k
        BY <4>1, <2>8
      <4>2. CASE q # p + k
        <5>1. q \in p..p + k - 1
          BY <1>2, <4>2
        <5>2. q \in Area(m) /\ Frame(D, m, q) # 0
          BY <5>1, <1>12, <2>7
        <5> QED  BY <5>2, <1>11, <2>8, GrowsKeeps
      <4> QED  BY <4>1, <4>2
    <3> QED  BY <1>3, <2>10, <3>1
  <2>13. t = IF Whole(n % PAGE_SIZE) THEN (PageOf(a + n) + 1) * PAGE_SIZE ELSE a + n
    <3>1. PageOf(a + n) = p + k
      <4>1. a + n = (p + k) * PAGE_SIZE + rest /\ a + n \in Nat
        <5>1. (p + k) * PAGE_SIZE = a + z
          BY <2>3
        <5> DEFINE u == (p + k) * PAGE_SIZE
        <5>2. u = a + z
          BY <5>1
        <5> HIDE DEF u, a, z, rest
        <5>3. a + n = u + rest /\ a + n \in Nat
          BY <5>2, <1>2, <1>3, <1>9
        <5> QED  BY <5>3 DEF u
      <4> HIDE DEF a, p, k, rest
      <4> QED  BY <4>1, <1>2, <2>7, Addresses
    <3>2. (PageOf(a + n) + 1) * PAGE_SIZE = a + z + PAGE_SIZE
      <4> HIDE DEF a, z
      <4> QED  BY <3>1, <2>3
    <3> HIDE DEF a, z, p, k
    <3> QED  BY <3>2, <2>4, <1>9
  <2> HIDE DEF a, y, p, k, rest
  <2>15. N.end[m] = IF Whole(n % PAGE_SIZE) THEN (PageOf(a + n) + 1) * PAGE_SIZE ELSE a + n
    BY <2>10, <2>13, Zenon
  <2>16. Whole(n % PAGE_SIZE) \/ Whole(n) => a % PAGE_SIZE = 0
    BY <1>3
  <2>17. a \in Nat /\ a >= M.end[m] /\ n > 0
    BY <1>2, <1>3, <1>9
  <2>18. N \in Memories /\ Held(N) /\ Grows(M, N, m)
    BY <2>10
  <2>14. Handout(M, N, m, n)
    BY <1>4, <2>11, <2>12, <2>15, <2>16, <2>17, <2>18, HandedOut
  <2> QED  BY <1>8, <2>14
<1> QED  BY <1>13, <1>14

(* A block within a page.                                                   *)
LEMMA MallocSmallView ==
    ASSUME NEW M, Good(M), NEW m \in Space, m <= M.spaces, NEW n \in Nat, n > 0, ~Whole(n),
           Kdmalloc(M, m, n).fault = "none"
    PROVE  Handout(M, Kdmalloc(M, m, n), m, n)
<1> DEFINE e == M.end[m]  q == PageOf(e)  r == e % PAGE_SIZE  N == Kdmalloc(M, m, n)
           there == Present(M, m, q)
<1>1. M \in Memories /\ Held(M) /\ Tables(M) /\ Ends(M)
  BY DEF Good, Held, Tables
<1>2. /\ e \in Nat /\ q \in Nat /\ r \in Nat /\ r < PAGE_SIZE /\ PAGE_SIZE \in Nat
      /\ e = q * PAGE_SIZE + r /\ q * PAGE_SIZE \in Nat
      /\ (q + 1) * PAGE_SIZE = q * PAGE_SIZE + PAGE_SIZE
      /\ n <= PAGE_SIZE - 10
  <2>1. e \in Nat
    BY <1>1, Fields
  <2>2. PAGE_SIZE \in Nat /\ n <= PAGE_SIZE - 10
    BY Machine DEF Whole
  <2> HIDE DEF e
  <2> QED  BY <2>1, <2>2, Addresses
<1>3. n % PAGE_SIZE = n /\ ~Whole(n % PAGE_SIZE)
  <2>1. n = 0 * PAGE_SIZE + n /\ n < PAGE_SIZE /\ 0 \in Nat
    BY <1>2
  <2>2. n % PAGE_SIZE = n
    BY <2>1, Addresses
  <2> QED  BY <2>2
<1>4. Block(M, m, n) = [space |-> m, size |-> n,
                        addr |-> IF ~there \/ Fits(M, m, n) THEN e ELSE (q + 1) * PAGE_SIZE]
  BY DEF Block, Follows
<1>5. N = MallocSmall(M, m, n) /\ N = Kdmalloc(M, m, n) /\ N.fault = "none"
  BY DEF Kdmalloc
<1>6. e = M.end[m] /\ q = PageOf(e)
  OBVIOUS
<1>7. \A x \in Nat : \A y \in Nat : x >= e /\ y + n - PAGE_SIZE <= 0 /\ x = PageOf(x) * PAGE_SIZE + y =>
         x + n \in Nat /\ x + n <= (PageOf(x) + 1) * PAGE_SIZE
  <2>1. SUFFICES ASSUME NEW x \in Nat, NEW y \in Nat, y + n - PAGE_SIZE <= 0, x = PageOf(x) * PAGE_SIZE + y
                 PROVE  x + n <= (PageOf(x) + 1) * PAGE_SIZE
    OBVIOUS
  <2> DEFINE z == PageOf(x) * PAGE_SIZE
  <2>2. z \in Nat /\ (PageOf(x) + 1) * PAGE_SIZE = z + PAGE_SIZE
    BY Addresses
  <2>3. x = z + y
    BY <2>1
  <2> HIDE DEF z
  <2>4. x + n <= z + PAGE_SIZE
    BY <1>2, <2>1, <2>2, <2>3
  <2> QED  BY <2>2, <2>4
<1> HIDE DEF N
<1>8. ASSUME NEW a \in Nat, a >= e, NEW O \in Memories, Held(O), Grows(M, O, m), NEW y \in Nat,
             a = PageOf(a) * PAGE_SIZE + y, y + n <= PAGE_SIZE,
             Block(M, m, n) = [space |-> m, size |-> n, addr |-> a],
             PageOf(a) \in Area(m), Frame(O, m, PageOf(a)) # 0, O.end[m] = a + n
      PROVE  Handout(M, O, m, n)
  <2>1. PageOf(a) \in Nat /\ a + n <= (PageOf(a) + 1) * PAGE_SIZE
    <3>1. PageOf(a) \in Nat
      BY Addresses
    <3>2. y + n - PAGE_SIZE <= 0
      BY <1>2, <1>8
    <3> QED  BY <1>7, <1>8, <3>1, <3>2
  <2>2. \A x \in PageOf(a)..PageOf(a) : x \in Area(m) /\ Frame(O, m, x) # 0
    <3>1. \A x \in PageOf(a)..PageOf(a) : x = PageOf(a)
      BY <2>1
    <3> QED  BY <3>1, <1>8
  <2>3. O.end[m] = IF Whole(n % PAGE_SIZE) THEN (PageOf(a + n) + 1) * PAGE_SIZE ELSE a + n
    BY <1>3, <1>8, Zenon
  <2>4. Whole(n % PAGE_SIZE) \/ Whole(n) => a % PAGE_SIZE = 0
    BY <1>3
  <2>5. a >= M.end[m]
    BY <1>8
  <2> HIDE DEF e
  <2> QED  BY <1>8, <2>1, <2>2, <2>3, <2>4, <2>5, HandedOut
<1> HIDE DEF e, q
<1>9. CASE ~there
  <2> DEFINE O == MapNew(M, m, q, NewHeap)
  <2>1. N = [O EXCEPT !.end[m] = e + n]
    BY <1>5, <1>9 DEF MallocSmall, e, q
  <2>2. O \in Memories
    BY <1>1, <1>2, MapNewTyped, HeapsTyped DEF Later
  <2>3. MapNew(M, m, q, NewHeap).fault = "none"
    <3>1. [O EXCEPT !.end[m] = e + n].fault = O.fault
      <4> HIDE DEF O
      <4> QED  BY <2>2 DEF Memories
    <3> QED  BY <1>5, <2>1, <3>1
  <2>10. Frame(M, m, q) = 0
    BY <1>9 DEF Present, Frame
  <2>4. /\ Held(O) /\ O.end = M.end /\ Grows(M, O, m) /\ q \in Area(m) /\ Frame(O, m, q) # 0
    BY <1>1, <1>2, <2>3, <2>10, MapNewView, HeapsTyped
  <2> HIDE DEF O
  <2>5. e + n \in Nat /\ e + n >= M.end[m]
    BY <1>2, <1>6
  <2>6. /\ N \in Memories /\ Held(N) /\ Grows(M, N, m) /\ N.end[m] = e + n
        /\ Frame(N, m, q) # 0
    BY <2>1, <2>2, <2>4, <2>5, MappedEnd
  <2>7. r = 0
    <3>1. SUFFICES ASSUME r # 0 PROVE FALSE
      OBVIOUS
    <3>2. m \in 0..M.spaces
      <4>1. m \in Nat /\ M.spaces \in Nat
        BY <1>1, Fields, Layout
      <4> QED  BY <4>1
    <3>3. Frame(M, m, q) # 0
      BY <1>1, <1>6, <3>1, <3>2, EndsFacts
    <3>4. Physical(M, m, q) = 0
      BY <1>9 DEF Present
    <3> QED  BY <3>3, <3>4 DEF Frame
  <2>8. Block(M, m, n) = [space |-> m, size |-> n, addr |-> e]
    BY <1>4, <1>9
  <2>9. e = PageOf(e) * PAGE_SIZE + r /\ r + n <= PAGE_SIZE
    <3> HIDE DEF r
    <3>1. r + n <= PAGE_SIZE
      BY <1>2, <2>7
    <3> QED  BY <1>2, <1>6, <3>1
  <2> HIDE DEF r
  <2> QED  BY <1>2, <1>5, <1>6, <1>8, <2>4, <2>6, <2>8, <2>9
<1>10. CASE there /\ ~Recorded(M, m, e)
  <2>1. N = Fault(M, "record")
    BY <1>5, <1>10 DEF MallocSmall, e, q
  <2> QED  BY <1>1, <1>5, <2>1, Faulted DEF Faults
<1>11. CASE there /\ Recorded(M, m, e) /\ Fits(M, m, n)
  <2> DEFINE f == Physical(M, m, q)  v == HeapOf(M, m, e).vhp
  <2>1. N = [M EXCEPT !.end[m] = e + n, !.heap[f].vhp = @ - HeapEntry]
    BY <1>5, <1>11 DEF MallocSmall, e, q
  <2>2. HeapOf(M, m, e) # NoHeap /\ v <= PAGE_SIZE /\ v \in Int /\ r + n < v - 3
    <3>1. v \in Int
      BY <1>1, <1>2, HeapOfTyped
    <3> QED  BY <1>11, <3>1 DEF Recorded, Fits, e
  <2>3. f \in 1..MaxFrame
    BY <1>1, <1>2, <1>6, <2>2, HeapOfTyped
  <2>4. q \in Area(m) /\ Frame(M, m, q) # 0
    <3>1. Frame(M, m, q) # 0
      BY <2>3 DEF Frame
    <3>2. m # 0 => q >= ImageStart
      <4>1. SUFFICES ASSUME m # 0 PROVE q >= ImageStart
        OBVIOUS
      <4>2. m \in 1..M.spaces
        <5>1. m \in Nat /\ M.spaces \in Nat
          BY <1>1, Fields, Layout
        <5> QED  BY <4>1, <5>1
      <4>3. HeapStart * PAGE_SIZE <= e
        <5> DEFINE x == HeapStart * PAGE_SIZE
        <5>1. e >= x /\ x \in Nat
          BY <1>1, <1>6, <4>2, EndsFacts, Layout, Machine, Multiples
        <5> HIDE DEF x
        <5>2. x <= e
          BY <1>2, <5>1
        <5> QED  BY <5>2 DEF x
      <4>4. HeapStart \in Nat /\ ImageStart \in Nat /\ ImageStart < HeapStart
        BY Layout
      <4>5. HeapStart <= q
        BY <1>2, <1>6, <4>3, <4>4, Addresses
      <4> QED  BY <1>2, <4>4, <4>5
    <3>3. f # NoFrame
      BY <2>3, Machine
    <3> QED  BY <1>1, <1>2, <3>1, <3>2, <3>3, Beyond
  <2> DEFINE K == [M EXCEPT !.end[m] = e + n]  H == [K.heap EXCEPT ![f] = [K.heap[f] EXCEPT !.vhp = @ - HeapEntry]]
  <2>5. /\ K \in Memories /\ Held(K) /\ K.fault = M.fault /\ Grows(M, K, m) /\ K.end[m] = e + n
        /\ Frame(K, m, q) # 0 /\ K.heap = M.heap
    <3>1. e + n \in Nat /\ e + n >= M.end[m]
      BY <1>2, <1>6
    <3>2. Grows(M, M, m)
      <4>1. Kept(M, M)
        BY <1>1 DEF Kept
      <4> QED  BY <1>1, <4>1, KeptView
    <3>3. /\ K \in Memories /\ Held(K) /\ K.fault = M.fault /\ Grows(M, K, m) /\ K.end[m] = e + n
          /\ \A a \in Space : \A b \in Area(a) : Frame(K, a, b) = Frame(M, a, b)
      <4> DEFINE t == e + n
      <4>1. t \in Nat /\ t >= M.end[m]
        BY <3>1
      <4>2. K = [M EXCEPT !.end[m] = t]
        OBVIOUS
      <4>3. M.end = M.end
        OBVIOUS
      <4>4. t = e + n
        OBVIOUS
      <4> HIDE DEF t, K
      <4>5. LET Q == [M EXCEPT !.end[m] = t]
            IN  /\ Q \in Memories /\ Held(Q) /\ Grows(M, Q, m) /\ Q.end[m] = t /\ Q.fault = M.fault
                /\ \A a \in Space : \A b \in Area(a) : Frame(Q, a, b) = Frame(M, a, b)
        BY <1>1, <3>2, <4>1, <4>3, MappedEnd
      <4> QED  BY <4>2, <4>4, <4>5
    <3>4. K.heap = M.heap
      BY <1>1 DEF Memories
    <3> HIDE DEF K
    <3> QED  BY <2>4, <3>3, <3>4
  <2>6. N = [K EXCEPT !.heap = H]
    BY <2>1
  <2>7. N \in Memories
    BY <1>1, <1>5, KdmallocTyped DEF Later
  <2> HIDE DEF K, H
  <2>8. /\ N.dir = K.dir /\ N.tab = K.tab /\ N.reserved = K.reserved /\ N.frames = K.frames
        /\ N.spaces = K.spaces /\ N.end = K.end
    BY <2>5, <2>6 DEF Memories
  <2>9. Held(N) /\ Grows(K, N, m) /\ Frame(N, m, q) # 0 /\ N.end[m] = e + n
    <3>1. Kept(K, N)
      BY <2>7, <2>8 DEF Kept
    <3> QED  BY <2>4, <2>5, <2>8, <3>1, KeptView
  <2>10. Grows(M, N, m)
    BY <1>1, <2>5, <2>7, <2>9, GrowsTwice
  <2>11. Block(M, m, n) = [space |-> m, size |-> n, addr |-> e]
    BY <1>4, <1>11
  <2>12. e = PageOf(e) * PAGE_SIZE + r /\ r + n <= PAGE_SIZE
    <3> HIDE DEF r, v
    <3>1. r + n <= PAGE_SIZE
      BY <1>2, <2>2
    <3> QED  BY <1>2, <1>6, <3>1
  <2> HIDE DEF r
  <2> QED  BY <1>2, <1>5, <1>6, <1>8, <2>4, <2>7, <2>9, <2>10, <2>11, <2>12
<1>12. CASE there /\ Recorded(M, m, e) /\ ~Fits(M, m, n)
  <2> DEFINE O == MapNew(M, m, q + 1, NewHeap)  a == (q + 1) * PAGE_SIZE
  <2>1. N = [O EXCEPT !.end[m] = a + n]
    BY <1>5, <1>12 DEF MallocSmall, e, q
  <2>2. a \in Nat /\ a >= e /\ q + 1 \in Nat /\ PageOf(a) = q + 1 /\ a = (q + 1) * PAGE_SIZE + 0
    <3>1. q + 1 \in Nat /\ a \in Nat /\ a = (q + 1) * PAGE_SIZE + 0
      BY <1>2
    <3>2. a >= e
      <4> DEFINE z == q * PAGE_SIZE
      <4>1. a = z + PAGE_SIZE /\ e = z + r /\ z \in Nat
        BY <1>2
      <4> HIDE DEF z, a, r
      <4> QED  BY <1>2, <4>1
    <3>3. PageOf(a) = q + 1
      <4>1. 0 \in Nat /\ 0 < PAGE_SIZE
        BY Machine
      <4> HIDE DEF a
      <4> QED  BY <3>1, <4>1, Addresses
    <3> QED  BY <3>1, <3>2, <3>3
  <2>3. O \in Memories
    BY <1>1, <2>2, MapNewTyped, HeapsTyped DEF Later
  <2> HIDE DEF a
  <2>4. MapNew(M, m, q + 1, NewHeap).fault = "none"
    <3>1. [O EXCEPT !.end[m] = a + n].fault = O.fault
      <4> HIDE DEF O
      <4> QED  BY <2>3 DEF Memories
    <3> QED  BY <1>5, <2>1, <3>1
  <2>10. M.end[m] <= (q + 1) * PAGE_SIZE
    <3>1. e <= a
      BY <1>2, <2>2
    <3> QED  BY <1>6, <3>1 DEF a
  <2>5. /\ Held(O) /\ O.end = M.end /\ Grows(M, O, m) /\ q + 1 \in Area(m) /\ Frame(O, m, q + 1) # 0
    BY <1>1, <2>2, <2>4, <2>10, MapNewView, HeapsTyped
  <2> HIDE DEF O
  <2>6. a + n \in Nat /\ a + n >= M.end[m]
    BY <1>2, <1>6, <2>2
  <2>7. /\ N \in Memories /\ Held(N) /\ Grows(M, N, m) /\ N.end[m] = a + n
        /\ Frame(N, m, q + 1) # 0
    BY <2>1, <2>3, <2>5, <2>6, MappedEnd
  <2>8. Block(M, m, n) = [space |-> m, size |-> n, addr |-> a]
    BY <1>4, <1>12 DEF a
  <2>9. 0 + n <= PAGE_SIZE /\ 0 \in Nat
    BY <1>2
  <2> QED  BY <1>5, <1>8, <2>2, <2>5, <2>7, <2>8, <2>9
<1> QED  BY <1>9, <1>10, <1>11, <1>12

(* kdmalloc hands out a block.                                              *)
LEMMA KdmallocView ==
    ASSUME NEW M, Good(M), NEW m \in Space, m <= M.spaces, NEW n \in Nat, n > 0,
           Kdmalloc(M, m, n).fault = "none"
    PROVE  Handout(M, Kdmalloc(M, m, n), m, n)
  BY MallocPagesView, MallocSmallView

-----------------------------------------------------------------------------
(* Blocks in a memory. *)

(* Where the pages of a block lie.                                          *)
LEMMA BlockFacts ==
    ASSUME NEW b \in Blocks, b.size > 0
    PROVE  /\ b.space \in Space /\ b.addr \in Nat /\ b.size \in Nat /\ b.addr + b.size \in Nat
           /\ Top(b) \in Nat /\ b.addr + b.size <= Top(b)
           /\ PageOf(b.addr) \in Pages(b) /\ Pages(b) \subseteq Nat
           /\ \A q \in Pages(b) : q * PAGE_SIZE \in Nat /\ q * PAGE_SIZE < b.addr + b.size
           /\ \A q \in Pages(b) : (q + 1) * PAGE_SIZE \in Nat /\ b.addr < (q + 1) * PAGE_SIZE
<1> DEFINE a == b.addr  n == b.size  x == a + n - 1
<1>1. b.space \in Space /\ a \in Nat /\ n \in Nat /\ a + n \in Nat /\ x \in Nat /\ a <= x
      /\ PageOf(a) \in Nat /\ PageOf(x) \in Nat
  <2>1. a \in Nat /\ n \in Nat /\ b.space \in Space /\ n > 0
    BY DEF Blocks
  <2> HIDE DEF a, n
  <2>2. x \in Nat /\ a <= x /\ a + n \in Nat
    BY <2>1
  <2> HIDE DEF x
  <2> QED  BY <2>1, <2>2, Addresses
<1>2. Pages(b) = PageOf(a)..PageOf(x)
  BY DEF Pages
<1>3. Top(b) \in Nat /\ a + n <= Top(b)
  <2> DEFINE y == a + n  k == PageOf(y) * PAGE_SIZE
  <2>1. /\ PageOf(y) \in Nat /\ y = k + (y % PAGE_SIZE) /\ (y % PAGE_SIZE) \in Nat
        /\ (y % PAGE_SIZE) < PAGE_SIZE /\ k \in Nat /\ (PageOf(y) + 1) * PAGE_SIZE = k + PAGE_SIZE
    <3>1. y \in Nat
      BY <1>1
    <3> HIDE DEF y
    <3> QED  BY <3>1, Addresses
  <2>2. Top(b) = IF Whole(n % PAGE_SIZE) THEN k + PAGE_SIZE ELSE y
    <3>1. Top(b) = IF Whole(n % PAGE_SIZE) THEN (PageOf(y) + 1) * PAGE_SIZE ELSE y
      BY DEF Top
    <3> QED  BY <2>1, <3>1, Zenon
  <2>3. y \in Nat /\ y = a + n
    BY <1>1
  <2> DEFINE r == y % PAGE_SIZE
  <2>4. y = k + r /\ r \in Nat /\ r < PAGE_SIZE /\ k \in Nat /\ PAGE_SIZE \in Nat
    BY <2>1, Machine
  <2> HIDE DEF y, k, r
  <2>5. Top(b) \in Nat /\ y <= Top(b)
    BY <2>2, <2>3, <2>4
  <2> QED  BY <2>3, <2>5
<1> HIDE DEF a, n, x
<1>4. PageOf(a) <= PageOf(x)
  <2> DEFINE z == PageOf(a) * PAGE_SIZE
  <2>1. z \in Nat /\ z <= a
    BY <1>1, Addresses
  <2>2. z <= x
    <3> HIDE DEF z
    <3> QED  BY <1>1, <2>1
  <2> QED  BY <1>1, <2>2, Addresses
<1>5. ASSUME NEW q \in PageOf(a)..PageOf(x)
      PROVE  /\ q * PAGE_SIZE \in Nat /\ q * PAGE_SIZE < a + n
             /\ (q + 1) * PAGE_SIZE \in Nat /\ a < (q + 1) * PAGE_SIZE
  <2>1. q \in Nat /\ q + 1 \in Nat /\ q <= PageOf(x) /\ ~(q + 1 <= PageOf(a))
    BY <1>1
  <2>2. q * PAGE_SIZE <= x /\ ~((q + 1) * PAGE_SIZE <= a)
    BY <1>1, <2>1, Addresses
  <2>3. q * PAGE_SIZE \in Nat /\ (q + 1) * PAGE_SIZE \in Nat
    BY <2>1, Machine, Multiples
  <2> DEFINE u == q * PAGE_SIZE  v == (q + 1) * PAGE_SIZE
  <2>4. u \in Nat /\ v \in Nat /\ u <= x /\ ~(v <= a)
    BY <2>2, <2>3
  <2> HIDE DEF u, v
  <2>5. u < a + n /\ a < v
    BY <2>4, <1>1 DEF x
  <2> QED  BY <2>3, <2>5 DEF u, v
<1> QED  BY <1>1, <1>2, <1>3, <1>4, <1>5 DEF a, n

(* Sound(M, L, E), in parts.                                                *)
LEMMA SoundFacts ==
    ASSUME NEW M, NEW L, NEW E, Sound(M, L, E)
    PROVE  /\ Good(M) /\ Held(M) /\ Ends(M) /\ Tables(M) /\ Unique(M) /\ Taken(M) /\ M \in Memories
           /\ E \in [Space -> Nat] /\ (\A m \in Space : E[m] \in Nat /\ E[m] <= M.end[m] /\ M.end[m] \in Nat)
           /\ \A b \in L : /\ Backed(M, b) /\ Top(b) <= E[b.space]
                           /\ b \in Blocks /\ b.size > 0 /\ b.space <= M.spaces
           /\ Apart(L) /\ Lent(M, L, E) /\ 0 \in Space /\ E[0] \in Nat /\ M.spaces \in Space
<1>1. Good(M) /\ Held(M) /\ Ends(M) /\ Tables(M) /\ Unique(M) /\ Taken(M) /\ M \in Memories
  BY DEF Sound, Good, Held, Tables
<1>2. M.end \in [Space -> Nat] /\ M.spaces \in Space /\ 0 \in Space
  BY <1>1, Fields, Layout
<1>3. E \in [Space -> Nat] /\ (\A m \in Space : E[m] <= M.end[m])
  BY DEF Sound
<1>4. Apart(L) /\ Lent(M, L, E) /\ \A b \in L : Backed(M, b) /\ Top(b) <= E[b.space]
  BY DEF Sound
<1>5. \A b \in L : b \in Blocks /\ b.size > 0 /\ b.space <= M.spaces
  BY <1>4 DEF Backed
<1> QED  BY <1>1, <1>2, <1>3, <1>4, <1>5

(* Fewer blocks.                                                            *)
LEMMA SoundLess ==
    ASSUME NEW M, NEW L, NEW E, Sound(M, L, E), NEW K, K \subseteq L
    PROVE  Sound(M, K, E)
<1>1. Apart(K) /\ Lent(M, K, E)
  BY SoundFacts DEF Apart, Lent
<1> QED  BY <1>1 DEF Sound

(* Higher bounds.                                                           *)
LEMMA SoundRaise ==
    ASSUME NEW M, NEW L, NEW E, Sound(M, L, E), NEW F \in [Space -> Nat],
           \A m \in Space : E[m] <= F[m] /\ F[m] <= M.end[m]
    PROVE  Sound(M, L, F)
<1>1. /\ \A b \in L : Backed(M, b) /\ Top(b) <= E[b.space] /\ b \in Blocks /\ b.size > 0
      /\ \A m \in Space : E[m] \in Nat /\ F[m] \in Nat
      /\ Apart(L) /\ Lent(M, L, E) /\ 0 \in Space
  BY SoundFacts
<1>2. ASSUME NEW b \in L PROVE Top(b) <= F[b.space]
  <2>1. Top(b) \in Nat /\ b.space \in Space
    BY <1>1, BlockFacts
  <2>2. Top(b) <= E[b.space] /\ E[b.space] <= F[b.space] /\ E[b.space] \in Nat /\ F[b.space] \in Nat
    BY <1>1, <2>1
  <2> QED  BY <2>1, <2>2
<1>3. Lent(M, L, F)
  <2>1. ASSUME NEW q \in Area(0), NEW m \in Space \ {0}, NEW p \in Area(m), Shared(M, q, m, p)
        PROVE  (q + 1) * PAGE_SIZE <= F[0]
    <3> DEFINE x == (q + 1) * PAGE_SIZE
    <3>1. x <= E[0] /\ E[0] <= F[0] /\ E[0] \in Nat /\ F[0] \in Nat
      BY <1>1, <2>1 DEF Lent
    <3>2. x \in Nat
      <4>1. q + 1 \in Nat
        BY <1>1, Layout
      <4> QED  BY <4>1, Machine, Multiples
    <3> HIDE DEF x
    <3>3. x <= F[0]
      BY <3>1, <3>2
    <3> QED  BY <3>3 DEF x
  <2> QED  BY <1>1, <2>1 DEF Lent
<1> QED  BY <1>1, <1>2, <1>3 DEF Sound

(* A heap grows under blocks.                                               *)
LEMMA SoundGrows ==
    ASSUME NEW M, NEW L, NEW E, Sound(M, L, E), NEW N, Good(N), NEW m \in Space, Grows(M, N, m)
    PROVE  Sound(N, L, E)
<1>1. /\ Good(M) /\ Taken(M) /\ M \in Memories /\ E \in [Space -> Nat]
      /\ (\A n \in Space : E[n] \in Nat /\ E[n] <= M.end[n] /\ M.end[n] \in Nat)
      /\ \A b \in L : Backed(M, b) /\ Top(b) <= E[b.space] /\ b \in Blocks /\ b.size > 0
      /\ Apart(L) /\ Lent(M, L, E) /\ 0 \in Space
  BY SoundFacts
<1>2. N \in Memories /\ N.spaces = M.spaces /\ N.frames \subseteq M.frames
  BY DEF Good, Held, Tables, Grows
<1>3. ASSUME NEW n \in Space PROVE E[n] <= N.end[n]
  <2>1. N.end[n] \in Nat /\ N.end[m] \in Nat
    BY <1>2, Fields
  <2>2. n # m => N.end[n] = M.end[n]
    BY DEF Grows
  <2>3. N.end[m] >= M.end[m]
    BY DEF Grows
  <2> QED  BY <1>1, <2>1, <2>2, <2>3
<1>4. ASSUME NEW b \in L PROVE Backed(N, b)
  <2>1. Backed(M, b) /\ b.space \in Space
    BY <1>1, BlockFacts
  <2>2. \A p \in Pages(b) : p \in Area(b.space) /\ Frame(N, b.space, p) # 0
    BY <1>1, <2>1, GrowsKeeps DEF Backed
  <2> QED  BY <1>2, <2>1, <2>2 DEF Backed
<1>5. Lent(N, L, E)
  <2>1. ASSUME NEW q \in Area(0), NEW n \in Space \ {0}, NEW p \in Area(n), Shared(N, q, n, p)
        PROVE  Shared(M, q, n, p)
    <3>1. Frame(N, 0, q) = Frame(N, n, p) /\ Frame(N, 0, q) # 0
      BY <2>1 DEF Shared
    <3>2. Frame(N, 0, q) = Frame(M, 0, q) \/ (0 = m /\ Frame(N, 0, q) \in M.frames)
      BY <1>1 DEF Grows
    <3>3. Frame(N, n, p) = Frame(M, n, p) \/ (n = m /\ Frame(N, n, p) \in M.frames)
      BY DEF Grows
    <3>4. Frame(M, 0, q) \notin M.frames /\ Frame(M, n, p) \notin M.frames
      BY <1>1 DEF Taken
    <3> QED  BY <3>1, <3>2, <3>3, <3>4 DEF Shared
  <2> QED  BY <1>1, <2>1 DEF Lent
<1> QED  BY <1>1, <1>3, <1>4, <1>5 DEF Sound

(* A block above all others.                                                *)
LEMMA SoundAdd ==
    ASSUME NEW M, NEW L, NEW E, Sound(M, L, E), NEW b, Backed(M, b), b.addr >= E[b.space],
           NEW F \in [Space -> Nat], Top(b) <= F[b.space],
           \A m \in Space : E[m] <= F[m] /\ F[m] <= M.end[m]
    PROVE  Sound(M, L \cup {b}, F)
<1>1. Sound(M, L, F)
  BY SoundRaise
<1>2. /\ \A c \in L : Backed(M, c) /\ Top(c) <= E[c.space] /\ c \in Blocks /\ c.size > 0
      /\ \A m \in Space : E[m] \in Nat
      /\ Apart(L) /\ Lent(M, L, E) /\ 0 \in Space /\ E[0] \in Nat
  BY SoundFacts
<1>3. b \in Blocks /\ b.size > 0
  BY DEF Backed
<1>4. /\ b.space \in Space /\ b.addr \in Nat /\ Pages(b) \subseteq Nat
      /\ \A q \in Pages(b) : (q + 1) * PAGE_SIZE \in Nat /\ b.addr < (q + 1) * PAGE_SIZE
  BY <1>3, BlockFacts
<1>5. Apart(L \cup {b})
  <2>1. ASSUME NEW c \in L, c.space = b.space PROVE Top(c) <= b.addr
    <3>1. Top(c) \in Nat /\ Top(c) <= E[b.space] /\ E[b.space] \in Nat
      BY <1>2, <1>4, <2>1, BlockFacts
    <3> QED  BY <1>4, <3>1
  <2> QED  BY <1>2, <2>1 DEF Apart
<1>6. Lent(M, L \cup {b}, F)
  <2>1. Lent(M, L, F)
    BY <1>1, SoundFacts
  <2>2. ASSUME NEW q \in Area(0), NEW m \in Space \ {0}, NEW p \in Area(m), Shared(M, q, m, p), b.space = 0
        PROVE  q \notin Pages(b)
    <3>1. SUFFICES ASSUME q \in Pages(b) PROVE FALSE
      OBVIOUS
    <3> DEFINE x == (q + 1) * PAGE_SIZE
    <3>2. x \in Nat /\ b.addr < x
      BY <1>4, <3>1
    <3>3. x <= E[0] /\ b.addr >= E[0]
      BY <1>2, <2>2 DEF Lent
    <3> HIDE DEF x
    <3> QED  BY <1>2, <1>4, <3>2, <3>3
  <2> QED  BY <2>1, <2>2 DEF Lent
<1>7. \A c \in L \cup {b} : Backed(M, c) /\ Top(c) <= F[c.space]
  BY <1>1, SoundFacts
<1> QED  BY <1>1, <1>5, <1>6, <1>7 DEF Sound

(* The frames under the blocks L stay.                                      *)
Stays(M, N, L) ==
    \A b \in L : \A x \in Pages(b) : Frame(N, b.space, x) = Frame(M, b.space, x)

(* In one step and in the next.                                             *)
LEMMA StaysTwice ==
    ASSUME NEW M, NEW N, NEW O, NEW L, Stays(M, N, L), Stays(N, O, L)
    PROVE  Stays(M, O, L)
  BY DEF Stays

(* Where the pages of blocks in use are.                                    *)
LEMMA PageFacts ==
    ASSUME NEW M, NEW L, NEW E, Sound(M, L, E), NEW b \in L, NEW x \in Pages(b)
    PROVE  /\ b.space \in Space /\ x \in Area(b.space) /\ Frame(M, b.space, x) # 0
           /\ x \in Nat /\ x * PAGE_SIZE \in Nat /\ x * PAGE_SIZE < E[b.space]
           /\ b.space # 0 => HeapStart <= x
<1>1. /\ Backed(M, b) /\ Top(b) <= E[b.space] /\ b \in Blocks /\ b.size > 0
      /\ \A m \in Space : E[m] \in Nat
  BY SoundFacts
<1>2. /\ b.space \in Space /\ b.addr \in Nat /\ b.addr + b.size \in Nat
      /\ Top(b) \in Nat /\ b.addr + b.size <= Top(b)
      /\ x \in Nat /\ x * PAGE_SIZE \in Nat /\ x * PAGE_SIZE < b.addr + b.size
  BY <1>1, BlockFacts
<1>3. x \in Area(b.space) /\ Frame(M, b.space, x) # 0 /\ (b.space > 0 => b.addr >= HeapStart * PAGE_SIZE)
  BY <1>1 DEF Backed
<1>4. x * PAGE_SIZE < E[b.space]
  <2> DEFINE y == x * PAGE_SIZE
  <2>1. y \in Nat /\ y < b.addr + b.size /\ E[b.space] \in Nat
    BY <1>1, <1>2
  <2> HIDE DEF y
  <2>2. y < E[b.space]
    BY <1>1, <1>2, <2>1
  <2> QED  BY <2>2 DEF y
<1>5. ASSUME b.space # 0 PROVE HeapStart <= x
  <2> DEFINE y == HeapStart * PAGE_SIZE
  <2>1. b.space > 0 /\ HeapStart \in Nat
    <3>1. b.space \in Nat /\ HeapStart \in Nat
      BY <1>2, Layout
    <3> DEFINE n == b.space
    <3>2. n \in Nat /\ n # 0
      BY <1>5, <3>1
    <3> HIDE DEF n
    <3>3. n > 0
      BY <3>2
    <3> QED  BY <3>1, <3>3 DEF n
  <2>2. b.addr >= y
    BY <1>3, <2>1
  <2>3. y \in Nat
    BY <2>1, Machine, Multiples
  <2> HIDE DEF y
  <2>4. y <= b.addr
    BY <1>2, <2>2, <2>3
  <2>5. HeapStart <= PageOf(b.addr) /\ PageOf(b.addr) \in Nat
    BY <1>2, <2>1, <2>4, Addresses DEF y
  <2>6. PageOf(b.addr) <= x
    BY DEF Pages
  <2> QED  BY <1>2, <2>1, <2>5, <2>6
<1> QED  BY <1>2, <1>3, <1>4, <1>5

(* A heap that grows leaves what lies under its end.                        *)
LEMMA GrowsStays ==
    ASSUME NEW M, NEW L, NEW E, Sound(M, L, E), NEW N, NEW m \in Space, Grows(M, N, m)
    PROVE  Stays(M, N, L)
<1>1. ASSUME NEW b \in L, NEW x \in Pages(b)
      PROVE  Frame(N, b.space, x) = Frame(M, b.space, x)
  <2> DEFINE y == x * PAGE_SIZE
  <2>1. /\ b.space \in Space /\ x \in Area(b.space) /\ Frame(M, b.space, x) # 0
        /\ y \in Nat /\ y < E[b.space]
    BY PageFacts
  <2>2. E[b.space] \in Nat /\ E[b.space] <= M.end[b.space] /\ M.end[b.space] \in Nat
    BY <2>1, SoundFacts
  <2>3. \/ Frame(N, b.space, x) = Frame(M, b.space, x)
        \/ b.space = m /\ (Frame(M, b.space, x) = 0 \/ M.end[m] <= y)
    BY <2>1 DEF Grows
  <2> HIDE DEF y
  <2>4. ~(M.end[b.space] <= y)
    BY <2>1, <2>2
  <2> QED  BY <2>1, <2>3, <2>4
<1> QED  BY <1>1 DEF Stays

(* The memory with the blocks L in use, between two calls.                  *)
Safe(M, L) == Sound(M, L, M.end)

(* kdmalloc: its block is one more.                                         *)
LEMMA KdmallocSafe ==
    ASSUME NEW M, NEW L, Safe(M, L), NEW m \in Space, m <= M.spaces, NEW n \in Nat, n > 0,
           Kdmalloc(M, m, n).fault = "none"
    PROVE  LET N == Kdmalloc(M, m, n)
           IN  /\ Safe(N, L \cup {Block(M, m, n)}) /\ Safe(N, L) /\ Sound(N, L, M.end)
               /\ Stays(M, N, L)
               /\ N.spaces = M.spaces /\ \A k \in Space : N.end[k] \in Nat /\ N.end[k] >= M.end[k]
<1> DEFINE N == Kdmalloc(M, m, n)  b == Block(M, m, n)
<1>1. Good(M) /\ M \in Memories /\ M.end \in [Space -> Nat]
  BY SoundFacts, Fields DEF Safe
<1>2. Handout(M, N, m, n)
  BY <1>1, KdmallocView
<1>3. b.space = m
  BY DEF Block
<1> HIDE DEF N, b
<1>4. /\ Good(N) /\ Grows(M, N, m) /\ b.addr >= M.end[m] /\ Top(b) <= N.end[m] /\ Backed(N, b)
  BY <1>2 DEF Handout, b
<1>5. Sound(N, L, M.end)
  BY <1>4, SoundGrows DEF Safe
<1>6. N.end \in [Space -> Nat] /\ M.end \in [Space -> Nat]
  BY <1>5, <1>1, Fields, SoundFacts
<1>7. \A k \in Space : M.end[k] <= N.end[k] /\ N.end[k] <= N.end[k]
  <2>1. \A k \in Space : N.end[k] \in Nat
    BY <1>6
  <2> QED  BY <1>5, <2>1, SoundFacts
<1>8. Safe(N, L \cup {b})
  BY <1>3, <1>4, <1>5, <1>6, <1>7, SoundAdd DEF Safe
<1>9. Safe(N, L)
  BY <1>8, SoundLess DEF Safe
<1>10. N.spaces = M.spaces
  BY <1>4 DEF Grows
<1>11. Stays(M, N, L)
  BY <1>4, GrowsStays DEF Safe
<1> QED  BY <1>5, <1>6, <1>7, <1>8, <1>9, <1>10, <1>11 DEF N, b

(* Pages that lose their frames are none of blocks, and do not hold an end. *)
LEMMA SoundChanged ==
    ASSUME NEW M, NEW L, NEW E, Sound(M, L, E), NEW N, Tables(N), Unique(N), Taken(N),
           N.end = M.end, N.spaces = M.spaces, Lent(N, L, E),
           \A n \in Space : \A x \in Area(n) : Frame(M, n, x) # 0 /\ Frame(N, n, x) = 0 =>
              IF n = 0 THEN E[0] <= x * PAGE_SIZE /\ (x + 1) * PAGE_SIZE <= M.end[0] ELSE x < HeapStart
    PROVE  Sound(N, L, E)
<1>1. /\ M \in Memories /\ Ends(M) /\ E \in [Space -> Nat]
      /\ (\A m \in Space : E[m] \in Nat /\ E[m] <= M.end[m] /\ M.end[m] \in Nat)
      /\ \A b \in L : Backed(M, b) /\ Top(b) <= E[b.space] /\ b \in Blocks /\ b.size > 0 /\ b.space <= M.spaces
      /\ Apart(L) /\ 0 \in Space /\ M.spaces \in Space
  BY SoundFacts
<1>2. HeapStart \in Nat /\ \A m \in Space : m \in Nat
  BY Layout
<1>3. ASSUME NEW m \in 0..M.spaces, M.end[m] % PAGE_SIZE # 0
      PROVE  PageOf(M.end[m]) \in Area(m) /\ Frame(N, m, PageOf(M.end[m])) # 0
  <2> DEFINE e == M.end[m]  x == PageOf(e)
  <2>1. m \in Space
    BY <1>1, Machine DEF Space
  <2>2. e \in Nat /\ x \in Nat /\ \A k \in Nat : k * PAGE_SIZE <= e <=> k <= x
    <3>1. e \in Nat
      BY <1>1, <2>1
    <3> HIDE DEF e
    <3> QED  BY <3>1, Addresses
  <2>3. x \in Area(m) /\ Frame(M, m, x) # 0
    BY <1>1, <1>3, EndsFacts
  <2> HIDE DEF x
  <2>4. SUFFICES ASSUME Frame(N, m, x) = 0 PROVE FALSE
    BY <2>3 DEF x
  <2>5. IF m = 0 THEN (x + 1) * PAGE_SIZE <= M.end[0] ELSE x < HeapStart
    BY <2>1, <2>3, <2>4
  <2>6. CASE m = 0
    <3>1. (x + 1) * PAGE_SIZE <= e /\ x + 1 \in Nat
      BY <2>2, <2>5, <2>6
    <3>2. x + 1 <= x
      <4> HIDE DEF e
      <4> QED  BY <2>2, <3>1
    <3> QED  BY <2>2, <3>2
  <2>7. CASE m # 0
    <3>1. m \in 1..M.spaces
      BY <2>7
    <3>2. HeapStart * PAGE_SIZE <= e
      <4> DEFINE y == HeapStart * PAGE_SIZE
      <4>1. e >= y /\ y \in Nat
        BY <1>1, <3>1, EndsFacts, <1>2, Machine, Multiples
      <4> HIDE DEF y, e
      <4>2. y <= e
        BY <4>1, <2>2
      <4> QED  BY <4>2 DEF y
    <3>3. HeapStart <= x
      <4> HIDE DEF e
      <4> QED  BY <1>2, <2>2, <3>2
    <3> QED  BY <1>2, <2>2, <2>5, <2>7, <3>3
  <2> QED  BY <2>6, <2>7
<1>4. Ends(N)
  BY <1>1, <1>3 DEF Ends
<1>5. ASSUME NEW b \in L PROVE Backed(N, b)
  <2>1. /\ Backed(M, b) /\ b.space \in Space /\ Top(b) <= E[b.space] /\ E[b.space] \in Nat
        /\ Top(b) \in Nat /\ b.addr \in Nat /\ b.addr + b.size <= Top(b) /\ b.addr + b.size \in Nat
    BY <1>1, BlockFacts
  <2>2. ASSUME NEW x \in Pages(b) PROVE Frame(N, b.space, x) # 0
    <3>1. SUFFICES ASSUME Frame(N, b.space, x) = 0 PROVE FALSE
      OBVIOUS
    <3>2. x \in Area(b.space) /\ Frame(M, b.space, x) # 0
      BY <2>1 DEF Backed
    <3>3. IF b.space = 0 THEN E[0] <= x * PAGE_SIZE ELSE x < HeapStart
      BY <2>1, <3>1, <3>2
    <3>4. x \in Nat /\ x * PAGE_SIZE \in Nat /\ x * PAGE_SIZE < b.addr + b.size
          /\ PageOf(b.addr) <= x
      <4>1. x \in Nat /\ x * PAGE_SIZE \in Nat /\ x * PAGE_SIZE < b.addr + b.size
        BY <1>1, BlockFacts
      <4>2. PageOf(b.addr) <= x
        BY DEF Pages
      <4> QED  BY <4>1, <4>2
    <3>5. CASE b.space = 0
      <4> DEFINE y == x * PAGE_SIZE
      <4>1. y \in Nat /\ y < b.addr + b.size /\ E[0] <= y
        BY <3>3, <3>4, <3>5
      <4> HIDE DEF y
      <4> QED  BY <2>1, <3>5, <4>1
    <3>6. CASE b.space # 0
      <4>1. HeapStart * PAGE_SIZE <= b.addr
        <5> DEFINE y == HeapStart * PAGE_SIZE
        <5>1. b.space > 0
          BY <1>2, <2>1, <3>6
        <5>2. b.addr >= y
          BY <2>1, <5>1 DEF Backed
        <5>3. y \in Nat
          BY <1>2, Machine, Multiples
        <5> HIDE DEF y
        <5>4. y <= b.addr
          BY <2>1, <5>2, <5>3
        <5> QED  BY <5>4 DEF y
      <4>2. HeapStart <= PageOf(b.addr) /\ PageOf(b.addr) \in Nat
        BY <1>2, <2>1, <4>1, Addresses
      <4> QED  BY <1>2, <3>3, <3>4, <3>6, <4>2
    <3> QED  BY <3>5, <3>6
  <2> QED  BY <2>1, <2>2 DEF Backed
<1> QED  BY <1>1, <1>4, <1>5 DEF Sound, Good, Held

(* A page that is handed over is one of no block: it is the program's then, *)
(* and nobody else's.                                                       *)
LEMMA HandedSound ==
    ASSUME NEW M, NEW L, NEW E, Sound(M, L, E), NEW m \in Space, m # 0, m <= M.spaces,
           NEW p \in Nat, NEW q \in Area(0), E[0] <= q * PAGE_SIZE, (q + 1) * PAGE_SIZE <= M.end[0],
           Frame(M, 0, q) # 0, Handed(M, m, p, q).fault = "none"
    PROVE  LET N == Handed(M, m, p, q)
           IN  /\ Sound(N, L, E) /\ N.end = M.end /\ N.spaces = M.spaces
               /\ \A x \in Area(0) : x # q => Frame(N, 0, x) = Frame(M, 0, x)
               /\ E[m] <= p * PAGE_SIZE \/ p < HeapStart => Stays(M, N, L)
<1> DEFINE f == Physical(M, 0, q)  K == Map(M, m, p, f)  N == Handed(M, m, p, q)
<1>1. /\ M \in Memories /\ Tables(M) /\ Unique(M) /\ Taken(M) /\ Lent(M, L, E) /\ 0 \in Space
      /\ E[0] \in Nat
  BY SoundFacts
<1>2. q \in Nat
  BY <1>1, Layout
<1>3. f \in 0..NoFrame /\ Shown(f) = Frame(M, 0, q)
  BY <1>1, <1>2, LookedUp, FrameTyped
<1>4. N = SetPageAttribute(K, 0, q) /\ N = Handed(M, m, p, q) /\ N.fault = "none"
  BY DEF Handed
<1> DEFINE g == Frame(M, 0, q)
<1> HIDE DEF f
<1>5. K \in Memories
  BY <1>1, <1>3, MapTyped DEF Later
<1>6. Map(M, m, p, f).fault = "none"
  <2>1. Later(K, SetPageAttribute(K, 0, q))
    <3> HIDE DEF K
    <3> QED  BY <1>1, <1>2, <1>5, UnsetTyped
  <2> HIDE DEF N
  <2> QED  BY <1>4, <2>1 DEF Later
<1>7. p \in Area(m) /\ Repaged(M, K, m, p, Shown(f))
  BY <1>1, <1>3, <1>6, MapView
<1> HIDE DEF K, N
<1>8. Tables(K)
  BY <1>7 DEF Repaged
<1>9. Repaged(K, N, 0, q, 0)
  BY <1>1, <1>2, <1>4, <1>8, UnsetView
<1>10. /\ Tables(N) /\ N.end = M.end /\ N.frames = M.frames /\ N.spaces = M.spaces
       /\ \A n \in Space : \A x \in Area(n) :
             Frame(N, n, x) = IF n = 0 /\ x = q THEN 0 ELSE IF n = m /\ x = p THEN g ELSE Frame(M, n, x)
  BY <1>3, <1>7, <1>9 DEF Repaged
<1>11. ASSUME NEW n \in Space \ {0}, NEW x \in Area(n) PROVE Frame(M, n, x) # g
  <2>1. SUFFICES ASSUME Frame(M, n, x) = g PROVE FALSE
    OBVIOUS
  <2>2. Shared(M, q, n, x)
    BY <2>1 DEF Shared
  <2>3. (q + 1) * PAGE_SIZE <= E[0]
    BY <1>1, <2>2 DEF Lent
  <2> DEFINE u == q * PAGE_SIZE
  <2>4. u \in Nat /\ (q + 1) * PAGE_SIZE = u + PAGE_SIZE /\ PAGE_SIZE \in Nat /\ PAGE_SIZE > 0
    BY <1>2, Machine, Multiples
  <2>5. u + PAGE_SIZE <= E[0] /\ E[0] <= u
    BY <2>3, <2>4
  <2> HIDE DEF u
  <2> QED  BY <1>1, <2>4, <2>5
<1>12. ASSUME NEW x \in Area(0), Frame(M, 0, x) = g PROVE x = q
  BY <1>1, <1>12 DEF Unique
<1> HIDE DEF g
<1>13. g # 0 /\ g = Frame(M, 0, q)
  BY DEF g
<1>14. Unique(N)
  <2>1. ASSUME NEW a \in Space, NEW b \in Space, NEW x \in Area(a), NEW y \in Area(b),
               (a = 0) <=> (b = 0), Frame(N, a, x) = Frame(N, b, y), Frame(N, a, x) # 0
        PROVE  a = b /\ x = y
    <3>1. CASE a = 0
      <4>1. Frame(N, a, x) = Frame(M, a, x) /\ Frame(N, b, y) = Frame(M, b, y)
        BY <1>10, <2>1, <3>1
      <4>2. Frame(M, a, x) = Frame(M, b, y) /\ Frame(M, a, x) # 0 /\ ((a = 0) <=> (b = 0))
        BY <2>1, <4>1
      <4>3. Unique(M)
        BY <1>1
      <4> QED  BY <4>2, <4>3, Zenon DEF Unique
    <3>2. CASE a # 0 /\ a = m /\ x = p
      BY <3>2, <1>10, <1>11, <2>1
    <3>3. CASE a # 0 /\ b = m /\ y = p
      BY <3>3, <1>10, <1>11, <2>1
    <3>4. CASE a # 0 /\ ~(a = m /\ x = p) /\ ~(b = m /\ y = p)
      <4>1. Frame(N, a, x) = Frame(M, a, x) /\ Frame(N, b, y) = Frame(M, b, y)
        BY <1>10, <2>1, <3>4
      <4>2. Frame(M, a, x) = Frame(M, b, y) /\ Frame(M, a, x) # 0 /\ ((a = 0) <=> (b = 0))
        BY <2>1, <4>1
      <4>3. Unique(M)
        BY <1>1
      <4> QED  BY <4>2, <4>3, Zenon DEF Unique
    <3> QED  BY <3>1, <3>2, <3>3, <3>4
  <2> QED  BY <2>1 DEF Unique
<1>15. Taken(N)
  <2>1. 0 \notin M.frames /\ g \notin M.frames
    <3>1. M.frames \subseteq 1..MaxFrame
      BY <1>1, Fields
    <3> QED  BY <3>1, <1>1, <1>13 DEF Taken
  <2> QED  BY <1>1, <1>10, <2>1 DEF Taken
<1>16. Lent(N, L, E)
  <2>1. ASSUME NEW x \in Area(0), NEW n \in Space \ {0}, NEW y \in Area(n), Shared(N, x, n, y)
        PROVE  Shared(M, x, n, y)
    <3>1. x # q /\ Frame(N, 0, x) = Frame(M, 0, x) /\ Frame(M, 0, x) # 0
      BY <1>1, <1>10, <2>1 DEF Shared
    <3>2. ~(n = m /\ y = p)
      <4>1. SUFFICES ASSUME n = m, y = p PROVE FALSE
        OBVIOUS
      <4>2. Frame(N, n, y) = g
        BY <1>10, <4>1
      <4> QED  BY <1>12, <2>1, <3>1, <4>2 DEF Shared
    <3>3. Frame(N, n, y) = Frame(M, n, y)
      BY <1>10, <3>2
    <3> QED  BY <2>1, <3>1, <3>3 DEF Shared
  <2> QED  BY <1>1, <2>1 DEF Lent
<1>17. ASSUME NEW n \in Space, NEW x \in Area(n), Frame(M, n, x) # 0, Frame(N, n, x) = 0
       PROVE  n = 0 /\ x = q
  BY <1>10, <1>13, <1>17
<1>18. Sound(N, L, E)
  <2>1. \A n \in Space : \A x \in Area(n) : Frame(M, n, x) # 0 /\ Frame(N, n, x) = 0 =>
           IF n = 0 THEN E[0] <= x * PAGE_SIZE /\ (x + 1) * PAGE_SIZE <= M.end[0] ELSE x < HeapStart
    BY <1>17
  <2> QED  BY <1>10, <1>14, <1>15, <1>16, <2>1, SoundChanged
<1>19. \A x \in Area(0) : x # q => Frame(N, 0, x) = Frame(M, 0, x)
  BY <1>1, <1>10
<1>20. ASSUME E[m] <= p * PAGE_SIZE \/ p < HeapStart, NEW b \in L, NEW x \in Pages(b)
       PROVE  Frame(N, b.space, x) = Frame(M, b.space, x)
  <2>1. /\ b.space \in Space /\ x \in Area(b.space)
        /\ x \in Nat /\ x * PAGE_SIZE \in Nat /\ x * PAGE_SIZE < E[b.space]
        /\ b.space # 0 => HeapStart <= x
    BY PageFacts
  <2>2. ~(b.space = 0 /\ x = q)
    <3>1. SUFFICES ASSUME b.space = 0, x = q PROVE FALSE
      OBVIOUS
    <3> DEFINE u == q * PAGE_SIZE
    <3>2. u \in Nat /\ u < E[0] /\ E[0] <= u
      BY <2>1, <3>1
    <3> HIDE DEF u
    <3> QED  BY <1>1, <3>2
  <2>3. ~(b.space = m /\ x = p)
    <3>1. SUFFICES ASSUME b.space = m, x = p PROVE FALSE
      OBVIOUS
    <3> DEFINE u == p * PAGE_SIZE
    <3>2. u \in Nat /\ u < E[m] /\ HeapStart <= p /\ (E[m] <= u \/ p < HeapStart) /\ E[m] \in Nat
      BY <1>20, <2>1, <3>1, SoundFacts
    <3>3. HeapStart \in Nat
      BY Layout
    <3> HIDE DEF u
    <3> QED  BY <3>2, <3>3
  <2> QED  BY <1>10, <2>1, <2>2, <2>3
<1>21. E[m] <= p * PAGE_SIZE \/ p < HeapStart => Stays(M, N, L)
  BY <1>20 DEF Stays
<1> QED  BY <1>4, <1>10, <1>18, <1>19, <1>21

(* Below a bound that a page lies above, the page is lent to nobody.        *)
LEMMA NotLent ==
    ASSUME NEW M, NEW L, NEW E, Sound(M, L, E), NEW q \in Area(0), E[0] <= q * PAGE_SIZE,
           Frame(M, 0, q) # 0
    PROVE  /\ q \in Nat /\ q * PAGE_SIZE \in Nat /\ (q + 1) * PAGE_SIZE \in Nat
           /\ \A n \in Space \ {0} : \A x \in Area(n) : Frame(M, n, x) # Frame(M, 0, q)
           /\ \A x \in Area(0) : Frame(M, 0, x) = Frame(M, 0, q) => x = q
           /\ \A b \in L : b.space = 0 => q \notin Pages(b)
<1>1. /\ Lent(M, L, E) /\ Unique(M) /\ 0 \in Space /\ E[0] \in Nat
      /\ \A b \in L : Top(b) <= E[b.space] /\ b \in Blocks /\ b.size > 0
  BY SoundFacts
<1> DEFINE u == q * PAGE_SIZE
<1>2. q \in Nat /\ u \in Nat /\ (q + 1) * PAGE_SIZE = u + PAGE_SIZE /\ PAGE_SIZE \in Nat /\ PAGE_SIZE > 0
  <2>1. q \in Nat
    BY <1>1, Layout
  <2> QED  BY <2>1, Machine, Multiples
<1>3. ASSUME NEW n \in Space \ {0}, NEW x \in Area(n), Frame(M, n, x) = Frame(M, 0, q) PROVE FALSE
  <2>1. Shared(M, q, n, x)
    BY <1>3 DEF Shared
  <2>2. (q + 1) * PAGE_SIZE <= E[0]
    BY <1>1, <2>1 DEF Lent
  <2>3. u + PAGE_SIZE <= E[0] /\ E[0] <= u
    BY <1>2, <2>2
  <2> HIDE DEF u
  <2> QED  BY <1>1, <1>2, <2>3
<1>4. ASSUME NEW x \in Area(0), Frame(M, 0, x) = Frame(M, 0, q) PROVE x = q
  BY <1>1, <1>4 DEF Unique
<1>5. ASSUME NEW b \in L, b.space = 0, q \in Pages(b) PROVE FALSE
  <2>1. /\ u < b.addr + b.size /\ b.addr + b.size <= Top(b) /\ Top(b) <= E[0]
        /\ b.addr + b.size \in Nat /\ Top(b) \in Nat
    BY <1>1, <1>5, BlockFacts
  <2>2. E[0] <= u
    OBVIOUS
  <2> HIDE DEF u
  <2> QED  BY <1>1, <1>2, <2>1, <2>2
<1>6. (q + 1) * PAGE_SIZE \in Nat
  <2> HIDE DEF u
  <2> QED  BY <1>2
<1> QED  BY <1>2, <1>3, <1>4, <1>5, <1>6

(* A page that klm does not have is handed over: an image loses a page.     *)
LEMMA HandedNothing ==
    ASSUME NEW M, NEW L, NEW E, Sound(M, L, E), NEW m \in Space, m # 0, m <= M.spaces,
           NEW p \in Nat, p < HeapStart, NEW q \in Nat, q \notin Area(0),
           Handed(M, m, p, q).fault = "none"
    PROVE  LET N == Handed(M, m, p, q)
           IN  Sound(N, L, E) /\ N.end = M.end /\ N.spaces = M.spaces /\ Stays(M, N, L)
<1> DEFINE K == Map(M, m, p, NoFrame)  N == Handed(M, m, p, q)
<1>1. /\ M \in Memories /\ Tables(M) /\ Unique(M) /\ Taken(M) /\ Lent(M, L, E) /\ 0 \in Space
  BY SoundFacts
<1>2. Physical(M, 0, q) = NoFrame
  BY <1>1, UnsetView
<1>3. N = SetPageAttribute(K, 0, q)
  BY <1>2 DEF Handed
<1>4. NoFrame \in 0..NoFrame /\ Shown(NoFrame) = 0
  BY Machine DEF Shown
<1>5. K \in Memories
  BY <1>1, <1>4, MapTyped DEF Later
<1>6. Map(M, m, p, NoFrame).fault = "none"
  <2>1. Later(K, SetPageAttribute(K, 0, q))
    <3> HIDE DEF K
    <3> QED  BY <1>1, <1>5, UnsetTyped
  <2>2. N.fault = "none"
    OBVIOUS
  <2> HIDE DEF N
  <2> QED  BY <1>3, <2>1, <2>2 DEF Later
<1>7. p \in Area(m) /\ Repaged(M, K, m, p, 0)
  BY <1>1, <1>4, <1>6, MapView
<1> HIDE DEF K
<1>8. Tables(K)
  BY <1>7 DEF Repaged
<1>9. N = K
  BY <1>1, <1>3, <1>8, UnsetView
<1>10. /\ Tables(N) /\ N.end = M.end /\ N.frames = M.frames /\ N.spaces = M.spaces
       /\ \A n \in Space : \A x \in Area(n) :
             Frame(N, n, x) = IF n = m /\ x = p THEN 0 ELSE Frame(M, n, x)
  BY <1>7, <1>9 DEF Repaged
<1> HIDE DEF N
<1>11. ASSUME NEW n \in Space, NEW x \in Area(n), Frame(N, n, x) # 0 PROVE Frame(N, n, x) = Frame(M, n, x)
  BY <1>10, <1>11
<1>12. Unique(N)
  <2>1. Unique(M)
    BY <1>1
  <2>2. ASSUME NEW a \in Space, NEW b \in Space, NEW x \in Area(a), NEW y \in Area(b),
               (a = 0) <=> (b = 0), Frame(N, a, x) = Frame(N, b, y), Frame(N, a, x) # 0
        PROVE  a = b /\ x = y
    <3>1. Frame(M, a, x) = Frame(M, b, y) /\ Frame(M, a, x) # 0
      BY <1>11, <2>2
    <3> QED  BY <2>1, <2>2, <3>1, Zenon DEF Unique
  <2> QED  BY <2>2 DEF Unique
<1>13. Taken(N)
  <2>1. 0 \notin M.frames
    <3>1. M.frames \subseteq 1..MaxFrame
      BY <1>1, Fields
    <3> QED  BY <3>1
  <2> QED  BY <1>1, <1>10, <2>1 DEF Taken
<1>14. Lent(N, L, E)
  <2>1. ASSUME NEW x \in Area(0), NEW n \in Space \ {0}, NEW y \in Area(n), Shared(N, x, n, y)
        PROVE  Shared(M, x, n, y)
    BY <1>1, <1>11, <2>1 DEF Shared
  <2> QED  BY <1>1, <2>1 DEF Lent
<1>15. \A n \in Space : \A x \in Area(n) : Frame(M, n, x) # 0 /\ Frame(N, n, x) = 0 =>
           IF n = 0 THEN E[0] <= x * PAGE_SIZE /\ (x + 1) * PAGE_SIZE <= M.end[0] ELSE x < HeapStart
  BY <1>10
<1>16. Sound(N, L, E)
  BY <1>10, <1>12, <1>13, <1>14, <1>15, SoundChanged
<1>17. Stays(M, N, L)
  <2>1. ASSUME NEW b \in L, NEW x \in Pages(b) PROVE Frame(N, b.space, x) = Frame(M, b.space, x)
    <3>1. b.space \in Space /\ x \in Area(b.space) /\ x \in Nat /\ (b.space # 0 => HeapStart <= x)
      BY PageFacts
    <3>2. ~(b.space = m /\ x = p)
      BY <3>1, Layout
    <3> QED  BY <1>10, <3>1, <3>2
  <2> QED  BY <2>1 DEF Stays
<1> QED  BY <1>10, <1>16, <1>17 DEF N

(* A page of the kernel's becomes one of a program's image as well.         *)
LEMMA LentSound ==
    ASSUME NEW M, NEW L, NEW E, Sound(M, L, E), NEW m \in Space, m # 0, m <= M.spaces,
           NEW p \in Nat, p < HeapStart, NEW q \in Area(0), E[0] <= q * PAGE_SIZE,
           (q + 1) * PAGE_SIZE <= M.end[0], Frame(M, 0, q) # 0,
           Map(M, m, p, Physical(M, 0, q)).fault = "none"
    PROVE  LET N == Map(M, m, p, Physical(M, 0, q)) IN Safe(N, L) /\ N.spaces = M.spaces /\ Stays(M, N, L)
<1> DEFINE f == Physical(M, 0, q)  N == Map(M, m, p, f)  g == Frame(M, 0, q)
<1>1. /\ M \in Memories /\ Tables(M) /\ Unique(M) /\ Taken(M) /\ 0 \in Space
      /\ M.end \in [Space -> Nat] /\ \A n \in Space : E[n] <= M.end[n] /\ M.end[n] \in Nat
  BY SoundFacts, Fields
<1>2. /\ q \in Nat
      /\ \A n \in Space \ {0} : \A x \in Area(n) : Frame(M, n, x) # g
      /\ \A x \in Area(0) : Frame(M, 0, x) = g => x = q
      /\ \A b \in L : b.space = 0 => q \notin Pages(b)
  BY NotLent
<1>3. Sound(M, L, M.end)
  <2>1. \A n \in Space : E[n] <= M.end[n] /\ M.end[n] <= M.end[n]
    BY <1>1
  <2> QED  BY <1>1, <2>1, SoundRaise
<1>4. Lent(M, L, M.end)
  BY <1>3, SoundFacts
<1>5. f \in 0..NoFrame /\ Shown(f) = g
  BY <1>1, <1>2, LookedUp, FrameTyped
<1>6. p \in Area(m) /\ Repaged(M, N, m, p, g)
  BY <1>1, <1>5, MapView
<1>7. g = Frame(M, 0, q) /\ g # 0 /\ N = Map(M, m, p, Physical(M, 0, q))
  OBVIOUS
<1> HIDE DEF N, g
<1>8. /\ Tables(N) /\ N.end = M.end /\ N.frames = M.frames /\ N.spaces = M.spaces
      /\ \A n \in Space : \A x \in Area(n) :
            Frame(N, n, x) = IF n = m /\ x = p THEN g ELSE Frame(M, n, x)
  BY <1>6 DEF Repaged
<1>9. Unique(N)
  <2>1. Unique(M)
    BY <1>1
  <2>2. ASSUME NEW a \in Space, NEW b \in Space, NEW x \in Area(a), NEW y \in Area(b),
               (a = 0) <=> (b = 0), Frame(N, a, x) = Frame(N, b, y), Frame(N, a, x) # 0
        PROVE  a = b /\ x = y
    <3>1. CASE a = m /\ x = p
      BY <3>1, <1>2, <1>8, <2>2
    <3>2. CASE b = m /\ y = p
      BY <3>2, <1>2, <1>8, <2>2
    <3>3. CASE ~(a = m /\ x = p) /\ ~(b = m /\ y = p)
      <4>1. Frame(M, a, x) = Frame(M, b, y) /\ Frame(M, a, x) # 0 /\ ((a = 0) <=> (b = 0))
        BY <1>8, <2>2, <3>3
      <4> QED  BY <2>1, <4>1, Zenon DEF Unique
    <3> QED  BY <3>1, <3>2, <3>3
  <2> QED  BY <2>2 DEF Unique
<1>10. Taken(N)
  <2>1. g \notin M.frames
    BY <1>1, <1>7 DEF Taken
  <2> QED  BY <1>1, <1>8, <2>1 DEF Taken
<1>11. Lent(N, L, M.end)
  <2>1. ASSUME NEW x \in Area(0), NEW n \in Space \ {0}, NEW y \in Area(n), Shared(N, x, n, y)
        PROVE  /\ (x + 1) * PAGE_SIZE <= M.end[0] /\ y < HeapStart
               /\ \A b \in L : b.space = 0 => x \notin Pages(b)
    <3>1. Frame(N, 0, x) = Frame(M, 0, x)
      BY <1>1, <1>8
    <3>2. CASE n = m /\ y = p
      <4>1. x = q
        BY <1>2, <1>8, <2>1, <3>1, <3>2 DEF Shared
      <4> QED  BY <1>2, <3>2, <4>1
    <3>3. CASE ~(n = m /\ y = p)
      <4>1. Shared(M, x, n, y)
        BY <1>8, <2>1, <3>1, <3>3 DEF Shared
      <4> QED  BY <1>4, <4>1 DEF Lent
    <3> QED  BY <3>2, <3>3
  <2> QED  BY <2>1 DEF Lent
<1>12. \A n \in Space : \A x \in Area(n) : Frame(M, n, x) # 0 /\ Frame(N, n, x) = 0 =>
           IF n = 0 THEN M.end[0] <= x * PAGE_SIZE /\ (x + 1) * PAGE_SIZE <= M.end[0] ELSE x < HeapStart
  BY <1>7, <1>8
<1>13. Sound(N, L, M.end)
  BY <1>3, <1>8, <1>9, <1>10, <1>11, <1>12, SoundChanged
<1>14. Stays(M, N, L)
  <2>1. ASSUME NEW b \in L, NEW x \in Pages(b) PROVE Frame(N, b.space, x) = Frame(M, b.space, x)
    <3>1. b.space \in Space /\ x \in Area(b.space) /\ x \in Nat /\ (b.space # 0 => HeapStart <= x)
      BY PageFacts
    <3>2. ~(b.space = m /\ x = p)
      BY <3>1, Layout
    <3> QED  BY <1>8, <3>1, <3>2
  <2> QED  BY <2>1 DEF Stays
<1> QED  BY <1>7, <1>8, <1>13, <1>14 DEF Safe

-----------------------------------------------------------------------------
(* Files are read into memory and handed over. *)

(* The clusters fread reads hold what is asked for, up to whole sectors.    *)
LEMMA FreadCovers ==
    ASSUME NEW o \in Nat, NEW n \in Nat, NEW v \in Nat, 512 * v <= n
    PROVE  FreadSize(o, n) \in Nat /\ FreadSize(o, n) > 0 /\ o + 512 * v <= FreadSize(o, n)
<1> DEFINE r == o % 512  sec == (o \div 512) + (IF r = 0 THEN 0 ELSE 1)  first == 512 - r
           nsec == IF n > first THEN (n - first) \div 512 ELSE 0
           d == sec \div S  t == sec % S  e == (t + nsec) \div S
<1>1. r \in 0..511 /\ sec \in Nat /\ o <= 512 * sec /\ first \in 1..512
  <2>1. o \div 512 \in Nat /\ r \in 0..511 /\ o = 512 * (o \div 512) + r
    BY Z3
  <2> HIDE DEF r
  <2> QED  BY <2>1
<1>2. nsec \in Nat /\ v <= nsec + 1
  <2>1. CASE n > first
    <3> DEFINE x == n - first
    <3>1. x \in Nat
      BY <1>1, <2>1
    <3>2. n <= x + 512 /\ nsec = x \div 512
      BY <1>1, <2>1
    <3> HIDE DEF x, nsec
    <3>3. x \div 512 \in Nat /\ x < 512 * (x \div 512) + 512
      BY <3>1, Z3
    <3> QED  BY <3>1, <3>2, <3>3
  <2>2. CASE ~(n > first)
    <3>1. n <= 512 /\ nsec = 0
      BY <1>1, <2>2
    <3> QED  BY <3>1
  <2> QED  BY <2>1, <2>2
<1>3. NoOfClstrs(o, n) = d + (IF n > first THEN e ELSE 0) + 1
  BY DEF NoOfClstrs
<1>4. n > first \/ nsec = 0
  OBVIOUS
<1> HIDE DEF r, sec, first, nsec
<1>5. S \in Nat /\ S > 0 /\ d \in Nat /\ t \in Nat /\ t < S /\ sec = d * S + t
  BY <1>1, Machine, Division
<1>6. d = sec \div S /\ t = sec % S
  OBVIOUS
<1> HIDE DEF d, t
<1>7. e \in Nat /\ (t + nsec) % S \in Nat /\ (t + nsec) % S < S /\ t + nsec = e * S + ((t + nsec) % S)
  <2>1. t + nsec \in Nat
    BY <1>2, <1>5
  <2> DEFINE x == t + nsec
  <2> HIDE DEF x
  <2>2. x \div S \in Nat /\ (x % S) \in Nat /\ (x % S) < S /\ x = (x \div S) * S + (x % S)
    <3>1. x \in Nat
      BY <2>1 DEF x
    <3> QED  BY <1>5, <3>1, Division
  <2> QED  BY <2>2 DEF x
<1>8. e = 0 \/ n > first
  <2>1. SUFFICES ASSUME nsec = 0 PROVE e = 0
    BY <1>4
  <2>2. t + nsec = 0 * S + t /\ 0 \in Nat
    BY <1>5, <2>1
  <2>3. \A k, y \in Nat : t = k * S + y /\ y < S => t \div S = k
    BY <1>5, Division
  <2>4. t + nsec = t
    BY <1>5, <2>1
  <2>5. t \div S = 0
    BY <1>5, <2>2, <2>3, <2>4
  <2> QED  BY <2>4, <2>5
<1> DEFINE c == NoOfClstrs(o, n)
<1>9. c = d + e + 1
  <2> HIDE DEF e
  <2> QED  BY <1>3, <1>5, <1>7, <1>8
<1> DEFINE y == (t + nsec) % S
<1>10. e \in Nat /\ y \in Nat /\ y < S /\ t + nsec = e * S + y
  BY <1>7
<1> HIDE DEF e, c, y
<1>11. /\ d * S \in Nat /\ e * S \in Nat /\ (d + e) * S = d * S + e * S
       /\ (d + e + 1) * S = (d + e) * S + S
  <2>1. /\ d * S \in Nat /\ e * S \in Nat /\ (d + e) * S = d * S + e * S
    BY <1>5, <1>10, Multiples
  <2>2. d + e \in Nat
    BY <1>5, <1>10
  <2>3. ((d + e) + 1) * S = (d + e) * S + S
    BY <1>5, <2>2, Multiples
  <2> QED  BY <2>1, <2>3
<1> DEFINE w == c * S  ds == d * S  es == e * S
<1>12. w = ds + es + S /\ ds \in Nat /\ es \in Nat
  BY <1>9, <1>11
<1>13. sec = ds + t /\ t + nsec = es + y
  BY <1>5, <1>10
<1>14. FreadSize(o, n) = w * 512
  BY DEF FreadSize, c
<1> HIDE DEF w, ds, es
<1>15. w \in Nat /\ sec + nsec + 1 <= w
  BY <1>1, <1>2, <1>5, <1>10, <1>12, <1>13
<1> QED  BY <1>1, <1>2, <1>14, <1>15

(* A page is a number of sectors.                                           *)
LEMMA Sectors ==
    ASSUME NEW n \in Nat
    PROVE  /\ PageOf(n) \in Nat /\ PageOf(n) * PAGE_SIZE \in Nat /\ PageOf(n) * PAGE_SIZE <= n
           /\ \E v \in Nat : PageOf(n) * PAGE_SIZE = 512 * v
<1>1. /\ PageOf(n) \in Nat /\ PageOf(n) * PAGE_SIZE \in Nat /\ PageOf(n) * PAGE_SIZE <= n
  BY Addresses
<1> DEFINE h == PAGE_SIZE \div 512  k == PageOf(n)
<1>2. h \in Nat /\ PAGE_SIZE = 512 * h
  <2>1. PAGE_SIZE \in Nat /\ PAGE_SIZE % 512 = 0
    BY Machine
  <2> QED  BY <2>1, Z3
<1>3. k \in Nat
  BY <1>1
<1> HIDE DEF h, k
<1>4. k * h \in Nat /\ k * (512 * h) = 512 * (k * h)
  BY <1>2, <1>3, Z3
<1>5. k * PAGE_SIZE = 512 * (k * h)
  BY <1>2, <1>4
<1> QED  BY <1>1, <1>4, <1>5 DEF k

(* fread: the pages that hold what is asked for are fresh ones.             *)
LEMMA FreadSafe ==
    ASSUME NEW M, NEW L, Safe(M, L), NEW o \in Nat, NEW n \in Nat, n > 0,
           Fread(M, o, n).fault = "none"
    PROVE  LET N == Fread(M, o, n)
               from == PageOf(FreadAt(M, o, n))
           IN  /\ Safe(N, L) /\ Sound(N, L, M.end) /\ N.spaces = M.spaces /\ Stays(M, N, L)
               /\ \A k \in Space : N.end[k] \in Nat /\ N.end[k] >= M.end[k]
               /\ FreadAt(M, o, n) \in Nat /\ from \in Nat
               /\ \A q \in Nat : from <= q /\ q < from + PageOf(n) =>
                     /\ q \in Area(0) /\ Frame(N, 0, q) # 0
                     /\ M.end[0] <= q * PAGE_SIZE /\ (q + 1) * PAGE_SIZE <= N.end[0]
<1> DEFINE z == FreadSize(o, n)  N == Fread(M, o, n)  b == Block(M, 0, z)  a == b.addr
           at == FreadAt(M, o, n)  from == PageOf(at)  k == PageOf(n)
<1>1. M \in Memories /\ Good(M) /\ 0 \in Space /\ 0 <= M.spaces /\ M.end[0] \in Nat
  <2>1. M \in Memories /\ Good(M) /\ 0 \in Space /\ M.spaces \in Space /\ M.end[0] \in Nat
    BY SoundFacts DEF Safe
  <2> QED  BY <2>1, Layout
<1>2. z \in Nat /\ z > 0 /\ o + k * PAGE_SIZE <= z /\ k \in Nat /\ k * PAGE_SIZE \in Nat
  <2>1. /\ k \in Nat /\ k * PAGE_SIZE \in Nat /\ k * PAGE_SIZE <= n
        /\ \E v \in Nat : k * PAGE_SIZE = 512 * v
    BY Sectors
  <2>2. PICK v \in Nat : k * PAGE_SIZE = 512 * v
    BY <2>1
  <2>3. 512 * v <= n
    BY <2>1, <2>2
  <2>4. z \in Nat /\ z > 0 /\ o + 512 * v <= z
    BY <2>3, FreadCovers
  <2> QED  BY <2>1, <2>2, <2>4
<1>3. N = Kdmalloc(M, 0, z) /\ N = Fread(M, o, n) /\ at = a + o /\ at = FreadAt(M, o, n)
      /\ N.fault = "none" /\ a = b.addr /\ b = Block(M, 0, z) /\ k = PageOf(n) /\ b.size = z /\ b.space = 0
  BY DEF Fread, FreadAt, Block
<1> HIDE DEF z, N, b, at, k
<1>4. Handout(M, N, 0, z)
  BY <1>1, <1>2, <1>3, KdmallocView
<1>5. /\ Good(N) /\ Grows(M, N, 0) /\ a >= M.end[0] /\ Top(b) <= N.end[0] /\ Backed(N, b)
      /\ (Whole(z) => a % PAGE_SIZE = 0)
  BY <1>3, <1>4 DEF Handout
<1>6. /\ Safe(N, L) /\ Sound(N, L, M.end) /\ N.spaces = M.spaces /\ Stays(M, N, L)
      /\ \A m \in Space : N.end[m] \in Nat /\ N.end[m] >= M.end[m]
  <2> DEFINE K == Kdmalloc(M, 0, z)
  <2>1. Kdmalloc(M, 0, z).fault = "none"
    BY <1>3
  <2>2. /\ Safe(K, L) /\ Sound(K, L, M.end) /\ K.spaces = M.spaces /\ Stays(M, K, L)
        /\ \A m \in Space : K.end[m] \in Nat /\ K.end[m] >= M.end[m]
    BY <1>1, <1>2, <2>1, KdmallocSafe
  <2>3. N = K
    BY <1>3
  <2> HIDE DEF K
  <2> QED  BY <2>2, <2>3
<1>7. b \in Blocks /\ b.size > 0 /\ Pages(b) \subseteq Area(0) /\ \A x \in Pages(b) : Frame(N, 0, x) # 0
  BY <1>3, <1>5 DEF Backed
<1>8. a \in Nat /\ a + z \in Nat /\ Top(b) \in Nat /\ a + z <= Top(b)
  BY <1>3, <1>7, BlockFacts
<1> HIDE DEF a
<1>9. at \in Nat /\ from \in Nat
  <2>1. at \in Nat
    BY <1>3, <1>8
  <2> QED  BY <2>1, Addresses
<1>10. ASSUME NEW q \in Nat, from <= q, q < from + k
       PROVE  /\ q \in Area(0) /\ Frame(N, 0, q) # 0
              /\ M.end[0] <= q * PAGE_SIZE /\ (q + 1) * PAGE_SIZE <= N.end[0]
  <2> DEFINE kp == k * PAGE_SIZE  fp == from * PAGE_SIZE  qp == q * PAGE_SIZE  x == a + z - 1
  <2>1. /\ PAGE_SIZE \in Nat /\ PAGE_SIZE >= 512 /\ k > 0
        /\ kp \in Nat /\ fp \in Nat /\ qp \in Nat /\ fp <= qp /\ qp + PAGE_SIZE <= fp + kp
        /\ (q + 1) * PAGE_SIZE = qp + PAGE_SIZE /\ PAGE_SIZE <= kp
    <3>1. PAGE_SIZE \in Nat /\ PAGE_SIZE >= 512 /\ k > 0
      BY <1>2, <1>9, <1>10, Machine
    <3>2. kp \in Nat /\ fp \in Nat /\ (from + k) * PAGE_SIZE = fp + kp
      BY <1>2, <1>9, <3>1, Multiples
    <3>3. qp \in Nat /\ (q + 1) * PAGE_SIZE = qp + PAGE_SIZE /\ fp <= qp
      BY <1>9, <1>10, <3>1, Multiples
    <3>4. qp + PAGE_SIZE <= (from + k) * PAGE_SIZE
      <4>1. from + k \in Nat
        BY <1>2, <1>9
      <4> QED  BY <1>10, <3>1, <4>1, Multiples
    <3>5. PAGE_SIZE <= kp
      <4>1. 0 * PAGE_SIZE + PAGE_SIZE <= k * PAGE_SIZE
        BY <1>2, <3>1, Multiples
      <4>2. 0 * PAGE_SIZE = 0
        BY <3>1
      <4> QED  BY <3>1, <4>1, <4>2
    <3> QED  BY <3>1, <3>2, <3>3, <3>4, <3>5
  <2>2. o + kp <= z
    BY <1>2
  <2>3. fp <= at
    BY <1>9, Addresses
  <2>4. x \in Nat
    BY <1>2, <1>8
  <2>5. from = PageOf(at)
    OBVIOUS
  <2> HIDE DEF kp, fp, qp, x, from
  <2>6. Whole(z)
    BY <2>1, <2>2, <1>2 DEF Whole
  <2>7. a % PAGE_SIZE = 0 /\ a = PageOf(a) * PAGE_SIZE /\ PageOf(a) \in Nat
    <3>1. a % PAGE_SIZE = 0
      BY <1>5, <2>6
    <3>2. /\ PageOf(a) \in Nat /\ PageOf(a) * PAGE_SIZE \in Nat
          /\ a = PageOf(a) * PAGE_SIZE + (a % PAGE_SIZE)
      BY <1>8, Addresses
    <3> QED  BY <3>1, <3>2
  <2>8. PageOf(a) <= from
    <3>1. PageOf(a) * PAGE_SIZE <= at
      BY <1>3, <1>8, <2>7
    <3> QED  BY <1>9, <2>5, <2>7, <3>1, Addresses
  <2>9. qp + PAGE_SIZE <= a + z
    BY <1>3, <1>8, <2>1, <2>2, <2>3, <1>2
  <2>10. q <= PageOf(x)
    <3>1. qp <= x
      BY <1>2, <1>8, <2>1, <2>9 DEF x
    <3> QED  BY <2>4, <3>1, Addresses DEF qp
  <2>11. PageOf(a) <= q
    BY <1>9, <1>10, <2>7, <2>8
  <2>12. q \in Pages(b)
    <3>1. Pages(b) = PageOf(a)..PageOf(x)
      BY <1>3 DEF Pages, x, a
    <3> QED  BY <2>10, <2>11, <3>1
  <2>13. a <= qp
    <3>1. PageOf(a) * PAGE_SIZE <= q * PAGE_SIZE
      BY <2>1, <2>7, <2>11, Multiples
    <3> QED  BY <2>7, <3>1 DEF qp
  <2>14. M.end[0] <= qp
    BY <1>1, <1>5, <1>8, <2>1, <2>13
  <2>15. qp + PAGE_SIZE <= N.end[0]
    <3>1. N.end[0] \in Nat /\ Top(b) <= N.end[0]
      BY <1>1, <1>5, <1>6
    <3> QED  BY <1>8, <2>1, <2>9, <3>1, <1>2
  <2> QED  BY <1>7, <2>1, <2>12, <2>14, <2>15 DEF qp
<1> QED  BY <1>3, <1>6, <1>9, <1>10

(* Pages of the kernel's that lie above everything in use.                  *)
Fresh(M, E, from, n) ==
    \A q \in Nat : from <= q /\ q < from + n =>
        /\ q \in Area(0) /\ Frame(M, 0, q) # 0
        /\ E[0] <= q * PAGE_SIZE /\ (q + 1) * PAGE_SIZE <= M.end[0]

(* Many pages of the kernel's are handed over.                              *)
LEMMA MovePagesSound ==
    ASSUME NEW M, NEW L, NEW E, Sound(M, L, E), NEW m \in Space, m # 0, m <= M.spaces,
           NEW to \in Nat, NEW from \in Nat, NEW n \in Nat,
           Fresh(M, E, from, n), MovePages(M, m, to, from, n).fault = "none"
    PROVE  LET N == MovePages(M, m, to, from, n)
           IN  /\ Sound(N, L, E) /\ N.end = M.end /\ N.spaces = M.spaces
               /\ n = 0 \/ E[m] <= to * PAGE_SIZE => Stays(M, N, L)
<1> DEFINE Above == n = 0 \/ E[m] <= to * PAGE_SIZE
<1> HIDE DEF Above
<1>1. M \in Memories
  BY SoundFacts
<1>2. PICK g : Moved(g, M, m, to, from, n)
  BY <1>1, MovePagesSteps
<1>3. /\ g \in [0..n -> Memories] /\ g[0] = M /\ g[n] = MovePages(M, m, to, from, n)
      /\ \A i \in 1..n : g[i] = Handed(g[i - 1], m, to + i - 1, from + i - 1)
  BY <1>2 DEF Moved
<1> DEFINE A == {i \in 0..n : g[i].fault = "none" =>
                    /\ Sound(g[i], L, E) /\ g[i].end = M.end /\ g[i].spaces = M.spaces
                    /\ Above => Stays(M, g[i], L)
                    /\ \A q \in Area(0) : from + i <= q => Frame(g[i], 0, q) = Frame(M, 0, q)}
<1>4. 0 \in A
  <2>1. Stays(M, M, L)
    BY DEF Stays
  <2> QED  BY <1>3, <2>1
<1>5. ASSUME NEW i \in 1..n, i - 1 \in A PROVE i \in A
  <2> DEFINE G == g[i - 1]  q == from + i - 1  p == to + i - 1
  <2>1. SUFFICES ASSUME g[i].fault = "none"
                 PROVE  /\ Sound(g[i], L, E) /\ g[i].end = M.end /\ g[i].spaces = M.spaces
                        /\ Above => Stays(M, g[i], L)
                        /\ \A x \in Area(0) : from + i <= x => Frame(g[i], 0, x) = Frame(M, 0, x)
    OBVIOUS
  <2>2. G \in Memories /\ q \in Nat /\ p \in Nat /\ to <= p /\ from <= q /\ q < from + n /\ from + i = q + 1
        /\ from + (i - 1) = q
    <3>1. i - 1 \in 0..n
      OBVIOUS
    <3>2. G \in Memories
      BY <1>3, <3>1
    <3> HIDE DEF G
    <3> QED  BY <3>2
  <2>3. g[i] = Handed(G, m, p, q)
    BY <1>3
  <2>4. G.fault = "none"
    <3>1. Later(G, Handed(G, m, p, q))
      <4> HIDE DEF G, p, q
      <4> QED  BY <2>2, HandedTyped
    <3> QED  BY <2>1, <2>3, <3>1 DEF Later
  <2>5. /\ Sound(G, L, E) /\ G.end = M.end /\ G.spaces = M.spaces /\ (Above => Stays(M, G, L))
        /\ \A x \in Area(0) : q <= x => Frame(G, 0, x) = Frame(M, 0, x)
    BY <1>5, <2>2, <2>4
  <2>6. /\ q \in Area(0) /\ Frame(M, 0, q) # 0
        /\ E[0] <= q * PAGE_SIZE /\ (q + 1) * PAGE_SIZE <= M.end[0]
    <3> HIDE DEF q
    <3> QED  BY <2>2 DEF Fresh
  <2>9. g[i] = Handed(g[i - 1], m, to + i - 1, from + i - 1) /\ Area(0) \subseteq Nat
    <3>1. 0 \in Space
      BY Layout
    <3> QED  BY <1>3, <3>1, Layout
  <2> HIDE DEF G, q, p
  <2>7. Frame(G, 0, q) # 0 /\ (q + 1) * PAGE_SIZE <= G.end[0] /\ m <= G.spaces
    BY <2>2, <2>5, <2>6
  <2> DEFINE N == Handed(G, m, p, q)
  <2>8. /\ Sound(N, L, E) /\ N.end = G.end /\ N.spaces = G.spaces
        /\ \A x \in Area(0) : x # q => Frame(N, 0, x) = Frame(G, 0, x)
        /\ E[m] <= p * PAGE_SIZE => Stays(G, N, L)
    <3>1. Handed(G, m, p, q).fault = "none"
      BY <2>1, <2>3
    <3> QED  BY <2>2, <2>5, <2>6, <2>7, <3>1, HandedSound
  <2>10. N = g[i]
    BY <2>3
  <2> HIDE DEF N
  <2>11. ASSUME NEW x \in Area(0), from + i <= x PROVE Frame(g[i], 0, x) = Frame(M, 0, x)
    <3>1. x \in Nat /\ q + 1 <= x
      BY <2>2, <2>9, <2>11
    <3>2. x # q /\ q <= x
      BY <2>2, <3>1
    <3> QED  BY <2>5, <2>8, <2>10, <3>2
  <2>12. ASSUME Above PROVE Stays(M, g[i], L)
    <3>1. E[m] <= to * PAGE_SIZE
      BY <2>12 DEF Above
    <3> DEFINE u == to * PAGE_SIZE  v == p * PAGE_SIZE
    <3>2. u \in Nat /\ v \in Nat /\ u <= v /\ E[m] <= u /\ E[m] \in Nat
      BY <2>2, <3>1, Machine, Multiples, SoundFacts
    <3> HIDE DEF u, v
    <3>3. E[m] <= v
      BY <3>2
    <3>4. Stays(G, N, L) /\ Stays(M, G, L)
      BY <2>5, <2>8, <2>12, <3>3 DEF v
    <3> QED  BY <2>10, <3>4, StaysTwice
  <2> QED  BY <2>5, <2>8, <2>10, <2>11, <2>12
<1> HIDE DEF A
<1>6. n \in A
  BY <1>4, <1>5, Induction
<1> QED  BY <1>3, <1>6 DEF A, Above

(* filemanager::read: what was in use stays as it is, the reader has a block *)
(* more.                                                                    *)
LEMMA ReadFileSafe ==
    ASSUME NEW M, NEW L, Safe(M, L), NEW c \in Space, c <= M.spaces, NEW o \in Nat, NEW n \in Nat, n > 0,
           ReadFile(M, c, o, n).fault = "none"
    PROVE  LET N == ReadFile(M, c, o, n)
           IN  /\ Safe(N, L) /\ N.spaces = M.spaces /\ Stays(M, N, L)
               /\ c # 0 => Safe(N, L \cup {Block(Fread(M, o, n), c, n)})
<1> DEFINE F == Fread(M, o, n)  at == FreadAt(M, o, n)  from == PageOf(at)  k == PageOf(n)
           K == Kdmalloc(F, c, n)  b == Block(F, c, n)  to == PageOf(b.addr)
           P == MovePages(K, c, to, from, k)  N == ReadFile(M, c, o, n)
<1>1. M \in Memories /\ M.end \in [Space -> Nat] /\ 0 \in Space
      /\ \A m \in Space : M.end[m] \in Nat
  BY SoundFacts, Fields DEF Safe
<1>2. Later(M, F) /\ F \in Memories /\ at \in Nat
  BY <1>1, FreadTyped DEF Later
<1>3. CASE c = 0
  <2>1. N = F
    BY <1>3 DEF ReadFile
  <2>2. Safe(F, L) /\ F.spaces = M.spaces /\ Stays(M, F, L)
    <3>1. Fread(M, o, n).fault = "none"
      BY <2>1
    <3> QED  BY <3>1, FreadSafe
  <2> HIDE DEF N, F
  <2>3. Safe(N, L) /\ N.spaces = M.spaces /\ Stays(M, N, L)
    BY <2>1, <2>2
  <2> QED  BY <1>3, <2>3 DEF N
<1>4. CASE c # 0
  <2>1. Later(F, K) /\ K \in Memories /\ b.addr \in Nat
    <3> HIDE DEF F
    <3> QED  BY <1>2, KdmallocTyped, NextPageTyped DEF Later
  <2>2. to \in Nat /\ from \in Nat /\ k \in Nat
    <3>1. n \in Nat /\ at \in Nat /\ b.addr \in Nat
      BY <1>2, <2>1
    <3> HIDE DEF at, b
    <3> QED  BY <3>1, Addresses
  <2>3. N = IF n % PAGE_SIZE = 0 THEN P ELSE CopyFrom(P, c, at + n - 1)
    BY <1>4 DEF ReadFile, PageOf
  <2>14. F = Fread(M, o, n) /\ from = PageOf(FreadAt(M, o, n)) /\ K = Kdmalloc(F, c, n) /\ b = Block(F, c, n)
         /\ P = MovePages(K, c, to, from, k) /\ N.fault = "none" /\ k = PageOf(n) /\ b = Block(Fread(M, o, n), c, n)
         /\ N = ReadFile(M, c, o, n) /\ b.space = c
    BY DEF Block
  <2> HIDE DEF F, K, b, to, from, P, k, at, N
  <2>4. P.fault = "none" /\ N = P
    <3>1. CopyFrom(P, c, at + n - 1) = P \/ CopyFrom(P, c, at + n - 1).fault = "page"
      <4>1. P \in Memories
        BY <2>1, <2>2, <2>14, MovePagesTyped DEF Later
      <4>2. Fault(P, "page").fault = "page"
        BY <4>1 DEF Fault, Memories
      <4> QED  BY <4>2 DEF CopyFrom
    <3> QED  BY <2>3, <2>14, <3>1
  <2>5. K.fault = "none"
    <3>1. Later(K, P)
      BY <2>1, <2>2, <2>14, MovePagesTyped
    <3> QED  BY <2>4, <3>1 DEF Later
  <2>6. F.fault = "none"
    BY <2>1, <2>5 DEF Later
  <2>7. /\ Safe(F, L) /\ Sound(F, L, M.end) /\ F.spaces = M.spaces /\ Stays(M, F, L)
        /\ \A m \in Space : F.end[m] \in Nat /\ F.end[m] >= M.end[m]
        /\ \A q \in Nat : from <= q /\ q < from + k =>
              /\ q \in Area(0) /\ Frame(F, 0, q) # 0
              /\ M.end[0] <= q * PAGE_SIZE /\ (q + 1) * PAGE_SIZE <= F.end[0]
    <3>1. Fread(M, o, n).fault = "none"
      BY <2>6, <2>14
    <3>2. /\ Safe(Fread(M, o, n), L) /\ Sound(Fread(M, o, n), L, M.end) /\ Fread(M, o, n).spaces = M.spaces
          /\ Stays(M, Fread(M, o, n), L)
          /\ \A m \in Space : Fread(M, o, n).end[m] \in Nat /\ Fread(M, o, n).end[m] >= M.end[m]
          /\ \A q \in Nat : PageOf(FreadAt(M, o, n)) <= q /\ q < PageOf(FreadAt(M, o, n)) + PageOf(n) =>
                /\ q \in Area(0) /\ Frame(Fread(M, o, n), 0, q) # 0
                /\ M.end[0] <= q * PAGE_SIZE /\ (q + 1) * PAGE_SIZE <= Fread(M, o, n).end[0]
      BY <3>1, FreadSafe
    <3> QED  BY <2>14, <3>2
  <2>8. /\ Good(K) /\ Grows(F, K, c) /\ b.addr >= F.end[c] /\ Top(b) <= K.end[c] /\ Backed(K, b)
        /\ Whole(n) => b.addr % PAGE_SIZE = 0
    <3>1. Good(F) /\ c <= F.spaces
      BY <2>7, SoundFacts DEF Safe
    <3>2. Handout(F, Kdmalloc(F, c, n), c, n)
      <4>1. Kdmalloc(F, c, n).fault = "none"
        BY <2>5, <2>14
      <4> QED  BY <3>1, <4>1, KdmallocView
    <3>3. Handout(F, K, c, n)
      BY <2>14, <3>2
    <3> QED  BY <2>14, <3>3 DEF Handout
  <2> DEFINE B == [M.end EXCEPT ![c] = K.end[c]]
  <2>9. /\ K.end \in [Space -> Nat] /\ K.spaces = M.spaces /\ (\A m \in Space : m # c => K.end[m] = F.end[m])
        /\ (\A m \in Space : K.end[m] \in Nat) /\ K.end[c] >= F.end[c]
    BY <2>1, <2>7, <2>8, Fields DEF Grows
  <2>10. /\ B \in [Space -> Nat] /\ B[0] = M.end[0] /\ B[c] = K.end[c]
         /\ \A m \in Space : M.end[m] <= B[m] /\ B[m] <= K.end[m]
    <3>1. B \in [Space -> Nat] /\ \A m \in Space : B[m] = IF m = c THEN K.end[c] ELSE M.end[m]
      BY <1>1, <2>9
    <3> HIDE DEF B
    <3>2. ASSUME NEW m \in Space PROVE M.end[m] <= B[m] /\ B[m] <= K.end[m]
      <4>1. M.end[m] \in Nat /\ F.end[m] \in Nat /\ K.end[m] \in Nat /\ F.end[m] >= M.end[m] /\ K.end[m] >= F.end[m]
        BY <1>1, <2>7, <2>9
      <4> QED  BY <3>1, <4>1
    <3> QED  BY <1>1, <1>4, <3>1, <3>2
  <2> HIDE DEF B
  <2>11. Sound(K, L \cup {b}, B)
    <3>1. Sound(K, L, M.end)
      BY <2>7, <2>8, SoundGrows
    <3>2. b.addr >= M.end[b.space] /\ Top(b) <= B[b.space]
      <4>1. b.addr >= F.end[c] /\ F.end[c] >= M.end[c] /\ F.end[c] \in Nat /\ M.end[c] \in Nat /\ b.addr \in Nat
        BY <1>1, <2>1, <2>7, <2>8
      <4> QED  BY <2>8, <2>10, <2>14, <4>1
    <3>3. Backed(K, b) /\ B \in [Space -> Nat] /\ \A m \in Space : M.end[m] <= B[m] /\ B[m] <= K.end[m]
      BY <2>8, <2>10
    <3> QED  BY <3>1, <3>2, <3>3, SoundAdd
  <2>12. /\ Sound(P, L \cup {b}, B) /\ P.end = K.end /\ P.spaces = K.spaces
         /\ Stays(K, P, L)
    <3>1. ASSUME NEW q \in Nat, from <= q, q < from + k
          PROVE  /\ q \in Area(0) /\ Frame(K, 0, q) # 0
                 /\ B[0] <= q * PAGE_SIZE /\ (q + 1) * PAGE_SIZE <= K.end[0]
      <4>1. /\ q \in Area(0) /\ Frame(F, 0, q) # 0
            /\ M.end[0] <= q * PAGE_SIZE /\ (q + 1) * PAGE_SIZE <= F.end[0]
        BY <2>7, <3>1
      <4>2. Frame(K, 0, q) # 0
        BY <1>1, <1>2, <2>8, <4>1, GrowsKeeps
      <4>3. K.end[0] = F.end[0]
        BY <1>1, <1>4, <2>9
      <4> QED  BY <2>10, <4>1, <4>2, <4>3
    <3>2. c <= K.spaces /\ Fresh(K, M.end, from, k)
      BY <2>9, <2>10, <3>1 DEF Fresh
    <3>7. k = 0 \/ M.end[c] <= to * PAGE_SIZE
      <4>1. SUFFICES ASSUME k # 0 PROVE M.end[c] <= to * PAGE_SIZE
        OBVIOUS
      <4>2. PAGE_SIZE <= n
        <5>1. 1 <= k
          BY <2>2, <4>1
        <5>2. 1 * PAGE_SIZE <= n /\ PAGE_SIZE \in Nat
          <6>1. \A x \in Nat : x * PAGE_SIZE <= n <=> x <= k
            BY <2>14, Addresses
          <6> QED  BY <5>1, <6>1, Machine
        <5> QED  BY <5>2
      <4>3. b.addr % PAGE_SIZE = 0
        BY <2>8, <4>2, Machine DEF Whole
      <4> DEFINE u == to * PAGE_SIZE
      <4>4. b.addr = u + (b.addr % PAGE_SIZE) /\ u \in Nat
        BY <2>1, Addresses DEF to
      <4>5. M.end[c] \in Nat /\ F.end[c] \in Nat /\ F.end[c] >= M.end[c] /\ b.addr >= F.end[c]
        BY <1>1, <2>7, <2>8
      <4> HIDE DEF u
      <4>6. M.end[c] <= u
        BY <2>1, <4>3, <4>4, <4>5
      <4> QED  BY <4>6 DEF u
    <3>3. MovePages(K, c, to, from, k).fault = "none"
      BY <2>4, <2>14
    <3> DEFINE J == L \cup {b}  X == MovePages(K, c, to, from, k)
    <3>5. Sound(K, J, B)
      BY <2>11
    <3> HIDE DEF J
    <3>4. Sound(X, J, B) /\ X.end = K.end /\ X.spaces = K.spaces
      <4>1. Fresh(K, B, from, k)
        BY <3>1 DEF Fresh
      <4> QED  BY <1>4, <2>2, <3>5, <4>1, <3>2, <3>3, MovePagesSound
    <3>8. Stays(K, X, L)
      <4>1. Sound(K, L, M.end)
        BY <2>7, <2>8, SoundGrows
      <4> QED  BY <1>4, <2>2, <4>1, <3>2, <3>3, <3>7, MovePagesSound
    <3>6. X = P
      BY <2>14
    <3> HIDE DEF X
    <3> QED  BY <3>4, <3>6, <3>8 DEF J
  <2>13. Safe(P, L \cup {b})
    <3>1. P.end \in [Space -> Nat] /\ \A m \in Space : B[m] <= P.end[m] /\ P.end[m] <= P.end[m]
      BY <2>9, <2>10, <2>12
    <3> QED  BY <2>12, <3>1, SoundRaise DEF Safe
  <2>15. Safe(P, L)
    BY <2>13, SoundLess DEF Safe
  <2>17. Stays(M, P, L)
    <3>1. Stays(F, K, L)
      BY <2>7, <2>8, GrowsStays
    <3> QED  BY <2>7, <2>12, <3>1, StaysTwice
  <2>16. Safe(N, L) /\ N.spaces = M.spaces /\ Safe(N, L \cup {b}) /\ Stays(M, N, L)
    BY <2>4, <2>9, <2>12, <2>13, <2>15, <2>17
  <2> QED  BY <2>14, <2>16
<1> QED  BY <1>3, <1>4

(* A page of an image: the program has it instead of the kernel.            *)
LEMMA LoadPageSafe ==
    ASSUME NEW M, NEW L, Safe(M, L), NEW c \in Space, c <= M.spaces, NEW m \in Space, m # 0,
           m <= M.spaces, NEW i \in Nat, i < TABLE, LoadPage(M, c, m, i).fault = "none"
    PROVE  LET N == LoadPage(M, c, m, i) IN Safe(N, L) /\ N.spaces = M.spaces /\ Stays(M, N, L)
<1> DEFINE o == (4 + i * PAGE_SIZE) % (512 * S)  R == ReadFile(M, c, o, PAGE_SIZE)
           q == PageOf(ReadAt(M, c, o, PAGE_SIZE))  p == ImageStart + i  N == LoadPage(M, c, m, i)
<1>1. M \in Memories /\ M.end \in [Space -> Nat] /\ 0 \in Space /\ (\A k \in Space : M.end[k] \in Nat)
      /\ PAGE_SIZE \in Nat /\ PAGE_SIZE > 0
  BY SoundFacts, Fields, Machine DEF Safe
<1>2. o \in Nat
  BY <1>1, LoadPageTyped, Machine
<1>3. N = Handed(R, m, p, q) /\ N.fault = "none" /\ N = LoadPage(M, c, m, i)
  BY DEF LoadPage
<1> HIDE DEF o
<1>4. p \in Nat /\ p < HeapStart
  <2>1. ImageStart \in Nat /\ HeapStart = ImageStart + TABLE
    BY Layout
  <2> QED  BY <2>1, Machine
<1>5. Later(M, R) /\ R \in Memories /\ ReadAt(M, c, o, PAGE_SIZE) \in Nat
  <2>1. PAGE_SIZE \in Nat
    BY <1>1
  <2>2. Later(M, ReadFile(M, c, o, PAGE_SIZE)) /\ ReadAt(M, c, o, PAGE_SIZE) \in Nat
    BY <1>1, <1>2, <2>1, ReadFileTyped
  <2> QED  BY <2>2 DEF Later
<1>6. q \in Nat
  BY <1>5, Addresses
<1>7. R = ReadFile(M, c, o, PAGE_SIZE) /\ q = PageOf(ReadAt(M, c, o, PAGE_SIZE))
  OBVIOUS
<1> HIDE DEF R, q, p, N
<1>8. R.fault = "none"
  <2>1. Later(R, Handed(R, m, p, q))
    BY <1>4, <1>5, <1>6, HandedTyped
  <2> QED  BY <1>3, <2>1 DEF Later
<1>9. /\ Safe(R, L) /\ R.spaces = M.spaces /\ Stays(M, R, L)
      /\ c # 0 => Safe(R, L \cup {Block(Fread(M, o, PAGE_SIZE), c, PAGE_SIZE)})
  <2>1. ReadFile(M, c, o, PAGE_SIZE).fault = "none"
    BY <1>7, <1>8
  <2> DEFINE X == ReadFile(M, c, o, PAGE_SIZE)
  <2>2. /\ Safe(X, L) /\ X.spaces = M.spaces /\ Stays(M, X, L)
        /\ c # 0 => Safe(X, L \cup {Block(Fread(M, o, PAGE_SIZE), c, PAGE_SIZE)})
    BY <1>1, <1>2, <2>1, ReadFileSafe
  <2>3. X = R
    BY <1>7
  <2> HIDE DEF X
  <2> QED  BY <2>2, <2>3
<1>10. Handed(R, m, p, q).fault = "none" /\ m <= R.spaces
  BY <1>3, <1>9
<1> DEFINE H == Handed(R, m, p, q)
<1>11. CASE c # 0
  <2> DEFINE b == Block(Fread(M, o, PAGE_SIZE), c, PAGE_SIZE)
  <2>1. Backed(R, b) /\ b.space = c /\ b.addr = ReadAt(M, c, o, PAGE_SIZE)
    <3>1. Safe(R, L \cup {b}) /\ b \in L \cup {b}
      BY <1>9, <1>11
    <3>2. b.space = c /\ b.addr = ReadAt(M, c, o, PAGE_SIZE)
      BY <1>11 DEF Block, ReadAt
    <3> HIDE DEF b
    <3>3. \A d \in L \cup {b} : Backed(R, d)
      BY <3>1, SoundFacts DEF Safe
    <3> QED  BY <3>2, <3>3
  <2> HIDE DEF b
  <2>2. q \notin Area(0)
    <3> DEFINE y == HeapStart * PAGE_SIZE
    <3>1. c > 0 /\ HeapStart \in Nat
      BY <1>1, <1>11, Layout
    <3>2. b.addr >= y
      BY <2>1, <3>1 DEF Backed
    <3>3. y \in Nat
      BY <1>1, <3>1, Multiples
    <3> HIDE DEF y
    <3>4. y <= b.addr /\ b.addr \in Nat
      BY <1>5, <2>1, <3>2, <3>3
    <3>5. HeapStart <= q
      BY <1>7, <2>1, <3>1, <3>4, Addresses DEF y
    <3>6. ImageStart < HeapStart /\ Area(0) = 0..ImageStart - 1 /\ ImageStart \in Nat
      BY Layout DEF Area
    <3> QED  BY <1>6, <3>1, <3>5, <3>6
  <2>3. Sound(H, L, R.end) /\ H.end = R.end /\ H.spaces = R.spaces /\ Stays(R, H, L)
    BY <1>4, <1>6, <1>9, <1>10, <2>2, HandedNothing DEF Safe
  <2>5. N = H
    BY <1>3
  <2> HIDE DEF H
  <2>4. Safe(H, L) /\ H.spaces = M.spaces /\ Stays(M, H, L)
    BY <1>9, <2>3, StaysTwice DEF Safe
  <2> QED  BY <1>3, <2>4, <2>5
<1>12. CASE c = 0
  <2>1. R = Fread(M, o, PAGE_SIZE) /\ q = PageOf(FreadAt(M, o, PAGE_SIZE))
    BY <1>7, <1>12 DEF ReadFile, ReadAt
  <2> DEFINE F == Fread(M, o, PAGE_SIZE)  from == PageOf(FreadAt(M, o, PAGE_SIZE))
  <2>2. /\ Sound(F, L, M.end)
        /\ \A k \in Space : F.end[k] \in Nat /\ F.end[k] >= M.end[k]
        /\ \A x \in Nat : from <= x /\ x < from + PageOf(PAGE_SIZE) =>
              /\ x \in Area(0) /\ Frame(F, 0, x) # 0
              /\ M.end[0] <= x * PAGE_SIZE /\ (x + 1) * PAGE_SIZE <= F.end[0]
    <3>1. F.fault = "none"
      BY <1>8, <2>1
    <3> QED  BY <1>1, <1>2, <3>1, FreadSafe
  <2>3. F = R /\ from = q
    BY <2>1
  <2> HIDE DEF F, from
  <2>4. PageOf(PAGE_SIZE) = 1
    <3>1. PAGE_SIZE = 1 * PAGE_SIZE + 0 /\ 0 < PAGE_SIZE /\ 1 \in Nat /\ 0 \in Nat
      BY <1>1
    <3> QED  BY <1>1, <3>1, Addresses
  <2>5. /\ q \in Area(0) /\ Frame(R, 0, q) # 0
        /\ M.end[0] <= q * PAGE_SIZE /\ (q + 1) * PAGE_SIZE <= R.end[0]
    <3>1. q <= q /\ q < q + 1
      BY <1>6
    <3> QED  BY <1>6, <2>2, <2>3, <2>4, <3>1
  <2>6. Sound(R, L, M.end)
    BY <2>2, <2>3
  <2>7. Sound(H, L, M.end) /\ H.end = R.end /\ H.spaces = R.spaces /\ Stays(R, H, L)
    BY <1>4, <1>10, <2>5, <2>6, HandedSound
  <2>8. Sound(H, L, R.end)
    <3>1. R.end \in [Space -> Nat] /\ \A k \in Space : R.end[k] \in Nat /\ R.end[k] >= M.end[k]
      BY <1>5, <2>2, <2>3, Fields
    <3> HIDE DEF H
    <3>2. \A k \in Space : M.end[k] <= R.end[k] /\ R.end[k] <= H.end[k]
      BY <1>1, <2>7, <3>1
    <3> QED  BY <2>7, <3>1, <3>2, SoundRaise
  <2>9. N = H
    BY <1>3
  <2> HIDE DEF H
  <2>10. Safe(N, L) /\ N.spaces = M.spaces /\ Stays(M, N, L)
    BY <1>9, <2>7, <2>8, <2>9, StaysTwice DEF Safe
  <2> QED  BY <1>3, <2>10
<1> QED  BY <1>11, <1>12

(* The last part of an image: the program's page is one of the kernel's.    *)
LEMMA LoadRestSafe ==
    ASSUME NEW M, NEW L, Safe(M, L), NEW c \in Space, c <= M.spaces, NEW m \in Space, m # 0,
           m <= M.spaces, NEW i \in Nat, i < TABLE, NEW n \in Nat, LoadRest(M, c, m, i, n).fault = "none"
    PROVE  LET N == LoadRest(M, c, m, i, n) IN Safe(N, L) /\ N.spaces = M.spaces /\ Stays(M, N, L)
<1> DEFINE o == (4 + i * PAGE_SIZE) % (512 * S)  R == ReadFile(M, c, o, n)
           b == Block(R, 0, PAGE_SIZE)  q == PageOf(b.addr)  K == Kdmalloc(R, 0, PAGE_SIZE)
           p == ImageStart + i  N == Map(K, m, p, Physical(K, 0, q))
<1>1. LoadRest(M, c, m, i, n) = IF n = 0 THEN M ELSE N
  BY DEF LoadRest
<1>2. CASE n = 0
  BY <1>1, <1>2 DEF Stays
<1>3. CASE n # 0
  <2>1. M \in Memories /\ 0 \in Space /\ 0 \in Nat /\ PAGE_SIZE \in Nat /\ PAGE_SIZE > 0 /\ PAGE_SIZE >= 512
    BY SoundFacts, Machine DEF Safe
  <2>2. o \in Nat
    BY <2>1, LoadPageTyped, Machine
  <2>3. N.fault = "none"
    BY <1>1, <1>3
  <2> HIDE DEF o
  <2>4. p \in Nat /\ p < HeapStart
    <3>1. ImageStart \in Nat /\ HeapStart = ImageStart + TABLE
      BY Layout
    <3> QED  BY <3>1, Machine
  <2>5. Later(M, R) /\ R \in Memories
    <3>1. Later(M, ReadFile(M, c, o, n))
      BY <2>1, <2>2, ReadFileTyped
    <3> QED  BY <3>1 DEF Later
  <2>6. R = ReadFile(M, c, o, n)
    OBVIOUS
  <2> HIDE DEF R, p
  <2>7. Later(R, K) /\ K \in Memories /\ b.addr \in Nat
    BY <2>1, <2>5, KdmallocTyped, NextPageTyped DEF Later
  <2>8. K = Kdmalloc(R, 0, PAGE_SIZE) /\ b = Block(R, 0, PAGE_SIZE) /\ b.space = 0 /\ b.size = PAGE_SIZE
    BY DEF Block
  <2> HIDE DEF K, b
  <2>9. q \in Nat
    BY <2>7, Addresses
  <2>10. Physical(K, 0, q) \in 0..NoFrame
    BY <2>1, <2>7, <2>9, LookedUp
  <2>11. K.fault = "none" /\ R.fault = "none"
    <3>1. Later(K, Map(K, m, p, Physical(K, 0, q)))
      BY <2>4, <2>7, <2>10, MapTyped
    <3> QED  BY <2>3, <2>7, <3>1 DEF Later
  <2>12. Safe(R, L) /\ R.spaces = M.spaces /\ Stays(M, R, L)
    <3> DEFINE X == ReadFile(M, c, o, n)
    <3>1. n > 0 /\ X.fault = "none"
      BY <1>3, <2>6, <2>11
    <3>2. /\ Safe(X, L) /\ X.spaces = M.spaces /\ Stays(M, X, L)
          /\ c # 0 => Safe(X, L \cup {Block(Fread(M, o, n), c, n)})
      BY <2>2, <3>1, ReadFileSafe
    <3>3. X = R
      BY <2>6
    <3> HIDE DEF X
    <3> QED  BY <3>2, <3>3
  <2>13. Good(R) /\ 0 <= R.spaces /\ R.end[0] \in Nat /\ (\A k \in Space : R.end[k] \in Nat) /\ m <= R.spaces
    <3>1. Good(R) /\ R.spaces \in Space /\ \A k \in Space : R.end[k] \in Nat
      BY <2>12, SoundFacts DEF Safe
    <3>2. R.spaces \in Nat
      BY <3>1, Layout
    <3> QED  BY <2>1, <2>12, <3>1, <3>2
  <2>14. Handout(R, K, 0, PAGE_SIZE)
    <3>1. Kdmalloc(R, 0, PAGE_SIZE).fault = "none"
      BY <2>8, <2>11
    <3>2. Handout(R, Kdmalloc(R, 0, PAGE_SIZE), 0, PAGE_SIZE)
      BY <2>1, <2>13, <3>1, KdmallocView
    <3> QED  BY <2>8, <3>2
  <2>15. /\ Good(K) /\ Grows(R, K, 0) /\ b.addr >= R.end[0] /\ Top(b) <= K.end[0] /\ Backed(K, b)
         /\ b.addr % PAGE_SIZE = 0
    BY <2>1, <2>8, <2>14 DEF Handout, Whole
  <2>16. Sound(K, L, R.end)
    BY <2>1, <2>12, <2>15, SoundGrows DEF Safe
  <2>17. b \in Blocks /\ b.size > 0 /\ \A x \in Pages(b) : x \in Area(0) /\ Frame(K, 0, x) # 0
    BY <2>8, <2>15 DEF Backed
  <2>18. q \in Area(0) /\ Frame(K, 0, q) # 0
    BY <2>17, BlockFacts
  <2>19. R.end[0] <= q * PAGE_SIZE /\ (q + 1) * PAGE_SIZE <= K.end[0]
    <3>1. /\ b.addr = q * PAGE_SIZE /\ (q + 1) * PAGE_SIZE = q * PAGE_SIZE + PAGE_SIZE
      <4>1. /\ b.addr = q * PAGE_SIZE + (b.addr % PAGE_SIZE) /\ q * PAGE_SIZE \in Nat
            /\ (q + 1) * PAGE_SIZE = q * PAGE_SIZE + PAGE_SIZE
        BY <2>7, Addresses
      <4> DEFINE y == q * PAGE_SIZE
      <4>2. b.addr = y + 0 /\ y \in Nat
        BY <2>15, <4>1
      <4> HIDE DEF y
      <4>3. b.addr = y
        BY <4>2
      <4> QED  BY <4>1, <4>3 DEF y
    <3>2. Top(b) \in Nat /\ b.addr + PAGE_SIZE <= Top(b) /\ Top(b) <= K.end[0] /\ K.end[0] \in Nat
      <4>1. Top(b) \in Nat /\ b.addr + PAGE_SIZE <= Top(b)
        BY <2>8, <2>17, BlockFacts
      <4>2. K.end[0] \in Nat
        BY <2>1, <2>16, SoundFacts
      <4> QED  BY <2>15, <4>1, <4>2
    <3> DEFINE y == q * PAGE_SIZE
    <3>3. R.end[0] <= y /\ y + PAGE_SIZE <= K.end[0]
      <4>1. b.addr = y
        BY <3>1
      <4> HIDE DEF y
      <4> QED  BY <2>1, <2>7, <2>13, <2>15, <3>2, <4>1
    <3> QED  BY <3>1, <3>3
  <2>20. m <= K.spaces /\ K.spaces = M.spaces
    BY <2>12, <2>13, <2>15 DEF Grows
  <2>21. Safe(N, L) /\ N.spaces = K.spaces /\ Stays(K, N, L)
    BY <2>3, <2>4, <2>16, <2>18, <2>19, <2>20, LentSound
  <2>22. LoadRest(M, c, m, i, n) = N
    BY <1>1, <1>3
  <2> HIDE DEF N
  <2>23. Stays(R, K, L)
    BY <2>1, <2>12, <2>15, GrowsStays DEF Safe
  <2>24. Stays(M, N, L)
    <3>1. Stays(M, K, L)
      BY <2>12, <2>23, StaysTwice
    <3> QED  BY <2>21, <3>1, StaysTwice
  <2> QED  BY <2>20, <2>21, <2>22, <2>24
<1> QED  BY <1>2, <1>3

(* The directory of a new process has the kernel's part only.               *)
LEMMA PreparedView ==
    ASSUME NEW M, Tables(M), NEW m \in Space, m = M.spaces + 1, Rallocate(M).fault = "none"
    PROVE  LET N == Prepared(M, m)
           IN  /\ Tables(N) /\ N.frames = M.frames /\ N.spaces = m
               /\ \A n \in Space : N.end[n] = IF n = m THEN HeapStart * PAGE_SIZE ELSE M.end[n]
               /\ \A n \in Space : \A q \in Area(n) : Frame(N, n, q) = Frame(M, n, q)
<1> DEFINE N == Prepared(M, m)  t == Rallocated(M)
           d == [e \in Entry |-> IF e < KTABLES THEN M.dir[0][e] ELSE 0]
           T == [i \in 0..TABLE - 1 |-> 0]  a == HeapStart * PAGE_SIZE
           R == Rallocate(M)
<1>1. /\ M \in Memories
      /\ \A k \in Space, e \in Entry : M.dir[k][e] \notin M.reserved /\ M.dir[k][e] # NoTable
      /\ \A k, n \in Space, f, e \in Entry :
            M.dir[k][f] = M.dir[n][e] /\ M.dir[k][f] # 0 => f = e /\ (k = n \/ f < KTABLES)
      /\ \A e \in Entry : M.dir[0][e] # 0 <=> e < KTABLES
      /\ \A k \in 1..M.spaces, e \in Entry : e < KTABLES => M.dir[k][e] = M.dir[0][e]
      /\ \A k \in Space, e \in Entry : k > M.spaces => M.dir[k][e] = 0
  BY TablesFacts
<1>2. /\ M.dir \in [Space -> [Entry -> 0..NoTable]] /\ M.tab \in [1..NoTable -> [0..TABLE - 1 -> 0..NoFrame]]
      /\ M.end \in [Space -> Nat] /\ M.spaces \in Space /\ M.reserved \subseteq 1..MaxTable
      /\ 0 \in Space /\ (\A n \in Space : n \in Nat) /\ M.spaces \in Nat
  <2>1. \A n \in Space : n \in Nat
    BY Layout
  <2>2. M.spaces \in Space
    BY <1>1, Fields
  <2>3. M.spaces \in Nat
    BY <2>1, <2>2
  <2> QED  BY <1>1, <2>1, <2>3, Fields, Layout
<1>3. M.reserved # {} /\ t \in M.reserved
  <2>1. M.reserved # {}
    <3>1. SUFFICES ASSUME M.reserved = {} PROVE FALSE
      OBVIOUS
    <3>2. R.fault = "tables"
      BY <1>1, <3>1 DEF Rallocate, Memories
    <3> QED  BY <3>2
  <2>2. M.reserved \subseteq Nat
    BY <1>2
  <2>3. t = Min(M.reserved)
    BY <2>1 DEF Rallocated
  <2> HIDE DEF t
  <2>4. Min(M.reserved) \in M.reserved
    BY <2>1, <2>2, MinMember
  <2> QED  BY <2>1, <2>3, <2>4
<1>4. /\ R.dir = M.dir /\ R.end = M.end /\ R.frames = M.frames /\ R.reserved = M.reserved \ {t}
      /\ R.tab = [M.tab EXCEPT ![t] = T] /\ R \in Memories
  <2>1. R \in Memories
    BY <1>1, RallocateTyped DEF Later
  <2>2. R.dir = M.dir /\ R.end = M.end /\ R.frames = M.frames /\ R.reserved = M.reserved \ {t}
        /\ R.tab = [M.tab EXCEPT ![t] = T]
    <3> HIDE DEF t, T
    <3> QED  BY <1>1 DEF Rallocate, Memories, t, T
  <2> QED  BY <2>1, <2>2
<1> HIDE DEF R
<1>5. /\ N.dir = [M.dir EXCEPT ![m] = d] /\ N.end = [M.end EXCEPT ![m] = a] /\ N.frames = M.frames
      /\ N.reserved = M.reserved \ {t} /\ N.tab = [M.tab EXCEPT ![t] = T] /\ N.spaces = m
  <2>1. N = [R EXCEPT !.end[m] = a, !.spaces = m, !.dir[m] = d]
    BY DEF Prepared, R
  <2> HIDE DEF N, a, d, T, t
  <2>2. /\ N.dir = [R.dir EXCEPT ![m] = d] /\ N.end = [R.end EXCEPT ![m] = a] /\ N.frames = R.frames
        /\ N.reserved = R.reserved /\ N.tab = R.tab /\ N.spaces = m
    BY <1>4, <2>1 DEF Memories
  <2> QED  BY <1>4, <2>2
<1>6. N \in Memories
  BY <1>1, InitializeTyped
<1>7. m \in Nat /\ m > 0 /\ m # 0 /\ m > M.spaces
  BY <1>2
<1>8. /\ \A n \in Space : n # m => N.dir[n] = M.dir[n]
      /\ \A e \in Entry : N.dir[m][e] = IF e < KTABLES THEN M.dir[0][e] ELSE 0
      /\ \A n \in Space : N.end[n] = IF n = m THEN a ELSE M.end[n]
      /\ \A i \in 1..NoTable : i # t => N.tab[i] = M.tab[i]
  <2> HIDE DEF N, a, T, t
  <2> QED  BY <1>2, <1>5
<1> HIDE DEF N, d, T, t
<1>9. Tables(N)
  <2> DEFINE src(n, e) == IF n = m THEN 0 ELSE n
  <2>1. ASSUME NEW n \in Space, NEW e \in Entry, N.dir[n][e] # 0
        PROVE  /\ src(n, e) \in Space /\ N.dir[n][e] = M.dir[src(n, e)][e]
               /\ (n = m => e < KTABLES)
    BY <1>2, <1>8, <2>1
  <2>2. ASSUME NEW n \in Space, NEW e \in Entry PROVE N.dir[n][e] \notin N.reserved /\ N.dir[n][e] # NoTable
    <3>1. CASE N.dir[n][e] = 0
      <4>1. 0 \notin 1..MaxTable /\ 0 # NoTable
        BY Machine
      <4>2. 0 \notin M.reserved
        BY <1>2, <4>1
      <4> QED  BY <1>5, <3>1, <4>1, <4>2
    <3>2. CASE N.dir[n][e] # 0
      BY <1>1, <1>5, <2>1, <3>2
    <3> QED  BY <3>1, <3>2
  <2>3. ASSUME NEW k \in Space, NEW n \in Space, NEW f \in Entry, NEW e \in Entry,
               N.dir[k][f] = N.dir[n][e], N.dir[k][f] # 0
        PROVE  f = e /\ (k = n \/ f < KTABLES)
    <3>1. /\ src(k, f) \in Space /\ N.dir[k][f] = M.dir[src(k, f)][f] /\ (k = m => f < KTABLES)
          /\ src(n, e) \in Space /\ N.dir[n][e] = M.dir[src(n, e)][e] /\ (n = m => e < KTABLES)
      BY <2>1, <2>3
    <3>2. f = e /\ (src(k, f) = src(n, e) \/ f < KTABLES)
      <4> DEFINE u == src(k, f)  v == src(n, e)
      <4>1. /\ u \in Space /\ v \in Space
            /\ M.dir[u][f] = M.dir[v][e] /\ M.dir[u][f] # 0
        BY <2>3, <3>1
      <4> HIDE DEF src, u, v
      <4>2. f = e /\ (u = v \/ f < KTABLES)
        BY <1>1, <4>1
      <4> QED  BY <4>2 DEF u, v
    <3> QED  BY <3>1, <3>2
  <2>4. \A e \in Entry : N.dir[0][e] # 0 <=> e < KTABLES
    BY <1>1, <1>2, <1>7, <1>8
  <2>5. ASSUME NEW n \in 1..N.spaces, NEW e \in Entry, e < KTABLES PROVE N.dir[n][e] = N.dir[0][e]
    <3>1. N.dir[0][e] = M.dir[0][e]
      BY <1>2, <1>7, <1>8
    <3>2. n = m \/ (n \in 1..M.spaces /\ n \in Space)
      <4>1. n \in 1..m /\ M.spaces \in Nat /\ MaxProcess \in Nat /\ m <= MaxProcess
        BY <1>2, <1>5, Machine DEF Space
      <4>2. n \in 0..MaxProcess
        BY <4>1
      <4> QED  BY <4>1, <4>2 DEF Space
    <3> QED  BY <1>1, <1>8, <2>5, <3>1, <3>2
  <2>6. ASSUME NEW n \in Space, NEW e \in Entry, n > N.spaces PROVE N.dir[n][e] = 0
    <3>1. n # m /\ n > M.spaces
      <4>1. n \in Nat /\ m \in Nat /\ M.spaces \in Nat /\ N.spaces = m
        BY <1>2, <1>5, <2>6, Layout
      <4> DEFINE y == M.spaces  z == N.spaces
      <4>2. n \in Nat /\ y \in Nat /\ z = m /\ m = y + 1 /\ n > z
        BY <1>2, <2>6, <4>1
      <4> HIDE DEF y, z
      <4>3. n # m /\ n > y
        BY <4>2
      <4> QED  BY <4>3 DEF y
    <3> QED  BY <1>1, <1>8, <3>1
  <2> QED  BY <1>6, <2>2, <2>3, <2>4, <2>5, <2>6 DEF Tables
<1>10. ASSUME NEW n \in Space, NEW q \in Area(n) PROVE Frame(N, n, q) = Frame(M, n, q)
  <2> DEFINE e == q \div TABLE  i == q % TABLE
  <2>1. /\ e \in Entry /\ i \in 0..TABLE - 1 /\ (n = 0 <=> e < KTABLES)
        /\ Frame(M, n, q) = Under(M, n, e, i) /\ Frame(N, n, q) = Under(N, n, e, i)
        /\ (M.dir[n][e] # 0 => M.dir[n][e] \in 1..NoTable)
    BY <1>1, <1>6, FrameAt
  <2> HIDE DEF e, i
  <2>2. N.dir[n][e] = M.dir[n][e]
    <3>1. CASE n = m
      <4>1. ~(e < KTABLES)
        BY <1>7, <2>1, <3>1
      <4>2. N.dir[m][e] = 0 /\ M.dir[m][e] = 0
        BY <1>1, <1>7, <1>8, <2>1, <4>1
      <4> QED  BY <3>1, <4>2
    <3>2. CASE n # m
      BY <1>8, <3>2
    <3> QED  BY <3>1, <3>2
  <2>3. M.dir[n][e] # 0 => N.tab[M.dir[n][e]] = M.tab[M.dir[n][e]]
    BY <1>1, <1>3, <1>8, <2>1
  <2> QED  BY <2>1, <2>2, <2>3 DEF Under
<1>11. a = HeapStart * PAGE_SIZE /\ N = Prepared(M, m)
  BY DEF N
<1> HIDE DEF a
<1> QED  BY <1>5, <1>8, <1>9, <1>10, <1>11

(* A new address space is like every other.                                 *)
LEMMA InitializeSafe ==
    ASSUME NEW M, NEW L, Safe(M, L), NEW m \in Space, m = M.spaces + 1,
           Initialize(M, m).fault = "none"
    PROVE  LET N == Initialize(M, m) IN Safe(N, L) /\ N.spaces = m /\ Stays(M, N, L)
<1> DEFINE K == Prepared(M, m)  O == MapNew(K, m, StackPage, NoHeap)  N == Initialize(M, m)
           a == HeapStart * PAGE_SIZE  E == [M.end EXCEPT ![m] = 0]
<1>1. /\ M \in Memories /\ Ends(M) /\ Tables(M) /\ Unique(M) /\ Taken(M) /\ Apart(L) /\ Lent(M, L, M.end)
      /\ (\A n \in Space : M.end[n] \in Nat) /\ M.spaces \in Space /\ 0 \in Space
      /\ \A b \in L : Backed(M, b) /\ Top(b) <= M.end[b.space] /\ b \in Blocks /\ b.space <= M.spaces
  BY SoundFacts DEF Safe
<1>2. /\ M.end \in [Space -> Nat] /\ (\A n \in Space : n \in Nat) /\ M.spaces \in Nat
      /\ a \in Nat /\ m # 0 /\ 0 <= m /\ m \in Nat /\ StackPage \in Nat
  <2>1. M.end \in [Space -> Nat] /\ (\A n \in Space : n \in Nat) /\ StackPage \in Nat
    BY <1>1, Fields, Layout
  <2>2. a \in Nat
    BY Layout, Machine, Multiples
  <2>3. M.spaces \in Nat
    BY <1>1, <2>1
  <2>4. m # 0 /\ 0 <= m /\ m \in Nat
    BY <2>3
  <2> QED  BY <2>1, <2>2, <2>3, <2>4
<1>3. K \in Memories /\ K.spaces = m /\ K.fault = Rallocate(M).fault /\ Later(K, N)
      /\ N = WithTable(O, m, KTABLES + 1) /\ N.fault = "none"
  <2>1. /\ K \in Memories /\ K.spaces = m /\ K.fault = Rallocate(M).fault
        /\ Later(K, Initialize(M, m))
    BY <1>1, InitializeTyped
  <2>2. Initialize(M, m) = WithTable(O, m, KTABLES + 1)
    BY DEF Initialize, Prepared
  <2>3. N = Initialize(M, m)
    OBVIOUS
  <2> HIDE DEF K, O, N
  <2> QED  BY <2>1, <2>2, <2>3
<1> HIDE DEF N
<1>4. K.fault = "none"
  BY <1>3 DEF Later
<1>5. /\ Tables(K) /\ K.frames = M.frames
      /\ \A n \in Space : K.end[n] = IF n = m THEN a ELSE M.end[n]
      /\ \A n \in Space : \A q \in Area(n) : Frame(K, n, q) = Frame(M, n, q)
  <2>1. Rallocate(M).fault = "none"
    BY <1>3, <1>4
  <2> QED  BY <1>1, <2>1, PreparedView
<1> HIDE DEF K
<1>6. Held(K)
  <2>1. Unique(K)
    <3>1. ASSUME NEW k \in Space, NEW n \in Space, NEW p \in Area(k), NEW q \in Area(n),
                 (k = 0) <=> (n = 0), Frame(K, k, p) = Frame(K, n, q), Frame(K, k, p) # 0
          PROVE  k = n /\ p = q
      <4>1. Frame(M, k, p) = Frame(M, n, q) /\ Frame(M, k, p) # 0 /\ ((k = 0) <=> (n = 0))
        BY <1>5, <3>1
      <4>2. Unique(M)
        BY <1>1
      <4> QED  BY <4>1, <4>2, Zenon DEF Unique
    <3> QED  BY <3>1 DEF Unique
  <2>2. Taken(K)
    BY <1>1, <1>5 DEF Taken
  <2> QED  BY <1>5, <2>1, <2>2 DEF Held
<1>7. a % PAGE_SIZE = 0
  <2>1. a = HeapStart * PAGE_SIZE + 0 /\ 0 < PAGE_SIZE /\ HeapStart \in Nat /\ 0 \in Nat
    <3>1. a = HeapStart * PAGE_SIZE /\ a + 0 = a
      BY <1>2
    <3> QED  BY <3>1, Layout, Machine
  <2>2. a \in Nat
    BY <1>2
  <2> HIDE DEF a
  <2> QED  BY <2>1, <2>2, Addresses
<1>8. Ends(K)
  <2>1. ASSUME NEW n \in 0..K.spaces
        PROVE  /\ K.end[n] % PAGE_SIZE # 0 =>
                     PageOf(K.end[n]) \in Area(n) /\ Frame(K, n, PageOf(K.end[n])) # 0
               /\ n # 0 => K.end[n] >= a
    <3>1. CASE n = m
      <4>1. n \in Space /\ K.end[n] = a
        BY <1>5, <3>1
      <4> HIDE DEF a
      <4> QED  BY <1>2, <1>7, <4>1
    <3>2. CASE n # m
      <4>1. n \in 0..M.spaces /\ n \in Space /\ (n # 0 => n \in 1..M.spaces)
        <5>1. n \in 0..m /\ MaxProcess \in Nat /\ m <= MaxProcess
          BY <1>3, Machine DEF Space
        <5>2. n \in 0..MaxProcess /\ n \in 0..M.spaces /\ (n # 0 => n \in 1..M.spaces)
          BY <1>2, <3>2, <5>1
        <5> QED  BY <5>2 DEF Space
      <4>2. K.end[n] = M.end[n]
        BY <1>5, <3>2, <4>1
      <4>3. /\ M.end[n] % PAGE_SIZE # 0 =>
                     PageOf(M.end[n]) \in Area(n) /\ Frame(M, n, PageOf(M.end[n])) # 0
            /\ n # 0 => M.end[n] >= a
        BY <1>1, <4>1, EndsFacts
      <4> HIDE DEF a
      <4>4. M.end[n] % PAGE_SIZE # 0 => Frame(K, n, PageOf(M.end[n])) # 0
        BY <1>5, <4>1, <4>3
      <4> QED  BY <4>2, <4>3, <4>4
    <3> QED  BY <3>1, <3>2
  <2>2. \A n \in 1..K.spaces : n \in 0..K.spaces /\ n # 0
    BY <1>2, <1>3
  <2> QED  BY <2>1, <2>2 DEF Ends
<1>9. E \in [Space -> Nat] /\ \A n \in Space : E[n] = IF n = m THEN 0 ELSE M.end[n]
  BY <1>2
<1> HIDE DEF E
<1>10. Sound(K, L, E)
  <2>1. \A n \in Space : E[n] <= K.end[n]
    <3> HIDE DEF a
    <3> QED  BY <1>1, <1>2, <1>5, <1>9
  <2>2. ASSUME NEW b \in L PROVE Backed(K, b) /\ Top(b) <= E[b.space]
    <3>1. Backed(M, b) /\ Top(b) <= M.end[b.space] /\ b.space \in Space /\ b.space <= M.spaces
      BY <1>1 DEF Blocks
    <3>2. b.space # m /\ b.space <= K.spaces
      <4>1. b.space \in Nat
        BY <1>2, <3>1
      <4> QED  BY <1>2, <1>3, <3>1, <4>1
    <3>3. \A x \in Pages(b) : x \in Area(b.space) /\ Frame(K, b.space, x) # 0
      BY <1>5, <3>1 DEF Backed
    <3> QED  BY <1>9, <3>1, <3>2, <3>3 DEF Backed
  <2>3. Lent(K, L, E)
    <3>1. E[0] = M.end[0]
      BY <1>1, <1>2, <1>9
    <3>2. ASSUME NEW q \in Area(0), NEW n \in Space \ {0}, NEW p \in Area(n), Shared(K, q, n, p)
          PROVE  Shared(M, q, n, p)
      BY <1>1, <1>5, <3>2 DEF Shared
    <3> QED  BY <1>1, <3>1, <3>2 DEF Lent
  <2> QED  BY <1>1, <1>6, <1>8, <1>9, <2>1, <2>2, <2>3 DEF Sound, Good
<1>11. O.fault = "none"
  <2>1. Later(K, O)
    BY <1>2, <1>3, MapNewTyped, HeapsTyped
  <2>2. O \in Memories
    BY <2>1 DEF Later
  <2> HIDE DEF O
  <2>3. Later(O, WithTable(O, m, KTABLES + 1))
    <3>1. KTABLES + 1 \in Entry
      BY Machine DEF Entry
    <3> QED  BY <2>2, <3>1, WithTableTyped
  <2> QED  BY <1>3, <2>3 DEF Later
<1>12. /\ Held(O) /\ O.end = K.end /\ O.spaces = K.spaces /\ Grows(K, O, m)
  <2>1. K.end[m] <= StackPage * PAGE_SIZE
    <3>1. a <= StackPage * PAGE_SIZE
      BY Layout, Machine, Multiples
    <3> QED  BY <1>5, <3>1
  <2>2. m <= K.spaces /\ NoHeap \in Heaps /\ MapNew(K, m, StackPage, NoHeap).fault = "none"
    BY <1>2, <1>3, <1>11, HeapsTyped
  <2> HIDE DEF a
  <2>3. /\ Held(O) /\ O.end = K.end /\ O.spaces = K.spaces
        /\ K.end[m] <= StackPage * PAGE_SIZE => Grows(K, O, m)
    BY <1>2, <1>6, <2>2, MapNewView
  <2> QED  BY <2>1, <2>3
<1> HIDE DEF O
<1>13. O.end[m] % PAGE_SIZE = 0
  <2> HIDE DEF a
  <2> QED  BY <1>5, <1>7, <1>12
<1>14. Good(K) /\ Good(O) /\ O \in Memories
  <2>1. Good(K) /\ O \in Memories
    BY <1>10, <1>12 DEF Sound, Held, Tables
  <2>2. m <= K.spaces
    BY <1>2, <1>3
  <2> QED  BY <1>12, <1>13, <2>1, <2>2, GoodGrown
<1>15. Sound(O, L, E)
  BY <1>10, <1>12, <1>14, SoundGrows
<1>16. /\ Tables(N) /\ N.end = O.end /\ N.frames = O.frames /\ N.spaces = O.spaces
       /\ \A n \in Space : \A q \in Area(n) : Frame(N, n, q) = Frame(O, n, q)
  <2>1. KTABLES + 1 \in Entry /\ ~(KTABLES + 1 < KTABLES)
    BY Machine DEF Entry
  <2>2. Tables(O) /\ m <= O.spaces /\ (m = 0 <=> KTABLES + 1 < KTABLES)
    BY <1>2, <1>3, <1>12, <2>1 DEF Held
  <2>3. WithTable(O, m, KTABLES + 1).fault = "none"
    BY <1>3
  <2> DEFINE X == WithTable(O, m, KTABLES + 1)
  <2>4. /\ Tables(X) /\ X.end = O.end /\ X.frames = O.frames /\ X.spaces = O.spaces
        /\ \A n \in Space : \A q \in Area(n) : Frame(X, n, q) = Frame(O, n, q)
    BY <2>1, <2>2, <2>3, WithTableView
  <2>5. X = N
    BY <1>3
  <2> HIDE DEF X
  <2> QED  BY <2>4, <2>5
<1>17. Held(N)
  <2>1. Unique(N)
    <3>1. ASSUME NEW k \in Space, NEW n \in Space, NEW p \in Area(k), NEW q \in Area(n),
                 (k = 0) <=> (n = 0), Frame(N, k, p) = Frame(N, n, q), Frame(N, k, p) # 0
          PROVE  k = n /\ p = q
      <4>1. Frame(O, k, p) = Frame(O, n, q) /\ Frame(O, k, p) # 0 /\ ((k = 0) <=> (n = 0))
        BY <1>16, <3>1
      <4>2. Unique(O)
        BY <1>12 DEF Held
      <4> QED  BY <4>1, <4>2, Zenon DEF Unique
    <3> QED  BY <3>1 DEF Unique
  <2>2. Taken(N)
    BY <1>12, <1>16 DEF Taken, Held
  <2> QED  BY <1>16, <2>1, <2>2 DEF Held
<1>18. N \in Memories /\ N.end \in [Space -> Nat] /\ \A n \in Space : N.end[n] \in Nat
  <2>1. N \in Memories
    BY <1>3 DEF Later
  <2>2. N.end \in [Space -> Nat]
    BY <2>1, Fields
  <2> QED  BY <2>1, <2>2
<1>19. Grows(O, N, m)
  <2>1. N.end[m] >= O.end[m]
    BY <1>16, <1>18
  <2> QED  BY <1>16, <2>1 DEF Grows
<1>20. Good(N)
  <2>1. m <= O.spaces
    BY <1>2, <1>3, <1>12
  <2> QED  BY <1>13, <1>14, <1>16, <1>17, <1>18, <1>19, <2>1, GoodGrown
<1>21. Sound(N, L, E)
  BY <1>15, <1>19, <1>20, SoundGrows
<1>22. Sound(N, L, N.end)
  <2>1. \A n \in Space : E[n] <= N.end[n] /\ N.end[n] <= N.end[n]
    BY <1>18, <1>21, SoundFacts
  <2> QED  BY <1>18, <1>21, <2>1, SoundRaise
<1>23. Stays(M, N, L)
  <2>1. ASSUME NEW b \in L, NEW x \in Pages(b) PROVE Frame(K, b.space, x) = Frame(M, b.space, x)
    <3>1. b.space \in Space /\ x \in Area(b.space)
      BY PageFacts DEF Safe
    <3> QED  BY <1>5, <3>1
  <2>2. Stays(M, K, L)
    BY <2>1 DEF Stays
  <2>3. Stays(K, O, L)
    BY <1>10, <1>12, GrowsStays
  <2>4. Stays(O, N, L)
    BY <1>15, <1>19, GrowsStays
  <2>5. Stays(K, N, L)
    BY <2>3, <2>4, StaysTwice
  <2> QED  BY <2>2, <2>5, StaysTwice
<1> QED  BY <1>3, <1>12, <1>16, <1>22, <1>23 DEF Safe, N

(* kdmalloc for the kernel.                                                 *)
LEMMA KernelSafe ==
    ASSUME NEW M, NEW L, Safe(M, L), NEW n \in Nat, n > 0, NEW N, N = Kdmalloc(M, 0, n), N.fault = "none"
    PROVE  Safe(N, L) /\ Safe(N, L \cup {Block(M, 0, n)}) /\ N.spaces = M.spaces /\ Stays(M, N, L)
<1> DEFINE X == Kdmalloc(M, 0, n)
<1>1. 0 \in Space /\ 0 <= M.spaces
  <2>1. 0 \in Space /\ M.spaces \in Space
    BY SoundFacts DEF Safe
  <2>2. M.spaces \in Nat
    BY <2>1, Layout
  <2> QED  BY <2>1, <2>2
<1>2. X.fault = "none"
  OBVIOUS
<1>3. Safe(X, L) /\ Safe(X, L \cup {Block(M, 0, n)}) /\ X.spaces = M.spaces /\ Stays(M, X, L)
  BY <1>1, <1>2, KdmallocSafe
<1>4. X = N
  OBVIOUS
<1> HIDE DEF X
<1> QED  BY <1>3, <1>4

(* The objects of a new process.                                            *)
LEMMA ObjectsSafe ==
    ASSUME NEW M, NEW L, Safe(M, L), Objects(M).fault = "none"
    PROVE  Safe(Objects(M), L) /\ Objects(M).spaces = M.spaces /\ Stays(M, Objects(M), L)
<1> DEFINE x == 1576  y == 4  z == 12
           A == Kdmalloc(M, 0, x)  B == Kdmalloc(A, 0, y)  C == Kdmalloc(B, 0, z)
<1>1. M \in Memories /\ 0 \in Space /\ M.spaces \in Nat
  <2>1. M \in Memories /\ 0 \in Space /\ M.spaces \in Space
    BY SoundFacts DEF Safe
  <2> QED  BY <2>1, Layout
<1>2. x \in Nat /\ y \in Nat /\ z \in Nat /\ x > 0 /\ y > 0 /\ z > 0
  OBVIOUS
<1>3. Objects(M) = C
  BY DEF Objects, ObjectSizes
<1> HIDE DEF x, y, z
<1>4. A \in Memories /\ A = Kdmalloc(M, 0, x)
  BY <1>1, <1>2, KdmallocTyped DEF Later
<1> HIDE DEF A
<1>5. B \in Memories /\ B = Kdmalloc(A, 0, y) /\ Later(A, B)
  BY <1>1, <1>2, <1>4, KdmallocTyped DEF Later
<1> HIDE DEF B
<1>6. C = Kdmalloc(B, 0, z) /\ Later(B, C)
  BY <1>1, <1>2, <1>5, KdmallocTyped
<1> HIDE DEF C
<1>7. A.fault = "none" /\ B.fault = "none" /\ C.fault = "none"
  BY <1>3, <1>5, <1>6 DEF Later
<1>8. Safe(A, L) /\ A.spaces = M.spaces /\ Stays(M, A, L)
  BY <1>2, <1>4, <1>7, KernelSafe
<1>9. Safe(B, L) /\ B.spaces = M.spaces /\ Stays(M, B, L)
  <2>1. Safe(B, L) /\ B.spaces = A.spaces /\ Stays(A, B, L)
    BY <1>2, <1>5, <1>7, <1>8, KernelSafe
  <2> QED  BY <1>8, <2>1, StaysTwice
<1>10. Safe(C, L) /\ C.spaces = M.spaces /\ Stays(M, C, L)
  <2>1. Safe(C, L) /\ C.spaces = B.spaces /\ Stays(B, C, L)
    BY <1>2, <1>6, <1>7, <1>9, KernelSafe
  <2> QED  BY <1>9, <2>1, StaysTwice
<1> QED  BY <1>3, <1>10

(* The constructor of process up to the image.                              *)
LEMMA StartSafe ==
    ASSUME NEW M, NEW L, Safe(M, L), NEW c \in Space, c <= M.spaces, NEW m \in Space,
           m = M.spaces + 1, Start(M, c, m).fault = "none"
    PROVE  Safe(Start(M, c, m), L) /\ Start(M, c, m).spaces = m /\ Stays(M, Start(M, c, m), L)
<1> DEFINE O == Objects(M)  I == Initialize(O, m)  R == ReadFile(I, c, 0, 4)
<1>1. M \in Memories /\ M.spaces \in Nat /\ c \in Nat
  <2>1. M \in Memories /\ M.spaces \in Space
    BY SoundFacts DEF Safe
  <2> QED  BY <2>1, Layout
<1>2. O \in Memories /\ I \in Memories /\ (I.fault = "none" => O.fault = "none")
  <2>1. O \in Memories
    BY <1>1, ObjectsTyped DEF Later
  <2> HIDE DEF O
  <2>2. I = Initialize(O, m)
    OBVIOUS
  <2> HIDE DEF I
  <2>3. Later(Prepared(O, m), I) /\ (I.fault = "none" => O.fault = "none")
    BY <2>1, <2>2, InitializeTyped
  <2> QED  BY <2>1, <2>3 DEF Later
<1>3. Start(M, c, m) = R /\ I = Initialize(O, m) /\ O = Objects(M)
  BY DEF Start
<1> HIDE DEF I, O
<1>4. 0 \in Nat /\ 4 \in Nat /\ 4 > 0 /\ R.fault = "none"
  BY <1>3
<1>5. I.fault = "none" /\ O.fault = "none"
  <2>1. Later(I, R)
    BY <1>2, <1>4, ReadFileTyped
  <2> QED  BY <1>2, <1>4, <2>1 DEF Later
<1>6. Safe(O, L) /\ O.spaces = M.spaces /\ Stays(M, O, L)
  BY <1>3, <1>5, ObjectsSafe
<1>7. Safe(I, L) /\ I.spaces = m /\ Stays(O, I, L)
  <2>1. m = O.spaces + 1 /\ Initialize(O, m).fault = "none"
    BY <1>3, <1>5, <1>6
  <2>2. Safe(Initialize(O, m), L) /\ Initialize(O, m).spaces = m /\ Stays(O, Initialize(O, m), L)
    BY <1>6, <2>1, InitializeSafe
  <2> QED  BY <1>3, <2>2
<1>8. c <= I.spaces
  BY <1>1, <1>7
<1>9. Safe(R, L) /\ R.spaces = I.spaces /\ Stays(I, R, L)
  BY <1>4, <1>7, <1>8, ReadFileSafe
<1> HIDE DEF R
<1>10. Stays(M, R, L)
  <2>1. Stays(M, I, L)
    BY <1>6, <1>7, StaysTwice
  <2> QED  BY <1>9, <2>1, StaysTwice
<1> QED  BY <1>3, <1>7, <1>9, <1>10

(* The constructor of process.                                              *)
LEMMA LoadedSafe ==
    ASSUME NEW M, NEW L, Safe(M, L), NEW c \in Space, c <= M.spaces, NEW m \in Space,
           m = M.spaces + 1, NEW image \in 0..TABLE * PAGE_SIZE - 1,
           Loaded(M, c, m, image).fault = "none"
    PROVE  /\ Safe(Loaded(M, c, m, image), L) /\ Loaded(M, c, m, image).spaces = m
           /\ Stays(M, Loaded(M, c, m, image), L)
<1> DEFINE k == image \div PAGE_SIZE  start == Start(M, c, m)  r == image % PAGE_SIZE
<1>1. /\ M \in Memories /\ M.spaces \in Nat /\ c \in Nat /\ m \in Nat /\ m # 0 /\ c <= m
      /\ PAGE_SIZE \in Nat /\ PAGE_SIZE > 0 /\ TABLE \in Nat
  <2>1. M \in Memories /\ M.spaces \in Space
    BY SoundFacts DEF Safe
  <2>2. M.spaces \in Nat /\ c \in Nat
    BY <2>1, Layout
  <2> QED  BY <2>1, <2>2, Machine
<1>2. image \in Nat /\ k \in Nat /\ k < TABLE /\ r \in Nat
  <2> DEFINE w == TABLE * PAGE_SIZE
  <2>1. w \in Nat
    BY <1>1
  <2>2. image \in Nat /\ ~(w <= image)
    BY <2>1
  <2>3. k \in Nat /\ r \in Nat /\ (w <= image <=> TABLE <= k)
    BY <1>1, <2>2, Division
  <2> HIDE DEF w, k, r
  <2> QED  BY <1>1, <2>2, <2>3
<1>3. start \in Memories /\ start = Start(M, c, m)
  BY <1>1, StartTyped
<1>4. PICK g : Loading(g, M, c, m, image)
  BY <1>2, <1>3, LoadedSteps
<1>5. /\ g \in [0..k -> Memories] /\ g[0] = start
      /\ \A i \in 1..k : g[i] = LoadPage(g[i - 1], c, m, i - 1)
      /\ Loaded(M, c, m, image) = LoadRest(g[k], c, m, k, r)
  BY <1>4 DEF Loading
<1> HIDE DEF k, start, r
<1> DEFINE A == {i \in 0..k : g[i].fault = "none" =>
                    Safe(g[i], L) /\ g[i].spaces = m /\ Stays(M, g[i], L)}
<1>6. 0 \in A
  <2>1. start.fault = "none" => Safe(start, L) /\ start.spaces = m /\ Stays(M, start, L)
    BY <1>3, StartSafe
  <2> QED  BY <1>2, <1>5, <2>1
<1>7. ASSUME NEW i \in 1..k, i - 1 \in A PROVE i \in A
  <2> DEFINE G == g[i - 1]  j == i - 1  N == LoadPage(G, c, m, j)
  <2>1. j \in Nat /\ j < TABLE /\ i \in 0..k
    BY <1>1, <1>2
  <2>2. G \in Memories /\ g[i] = N /\ (G.fault = "none" => Safe(G, L) /\ G.spaces = m /\ Stays(M, G, L))
    <3>1. j \in 0..k
      BY <1>2
    <3>2. g[i] = LoadPage(g[i - 1], c, m, i - 1)
      BY <1>5
    <3>3. g[j] \in Memories
      BY <1>5, <3>1
    <3> QED  BY <1>7, <3>2, <3>3
  <2> HIDE DEF G, j
  <2>3. N.fault = "none" => G.fault = "none"
    <3>1. Later(G, N)
      BY <2>1, <2>2, LoadPageTyped
    <3> QED  BY <3>1 DEF Later
  <2>4. ASSUME N.fault = "none" PROVE Safe(N, L) /\ N.spaces = m /\ Stays(M, N, L)
    <3>1. Safe(G, L) /\ G.spaces = m /\ Stays(M, G, L)
      BY <2>2, <2>3, <2>4
    <3>2. c <= G.spaces /\ m <= G.spaces
      BY <1>1, <3>1
    <3>3. Safe(N, L) /\ N.spaces = G.spaces /\ Stays(G, N, L)
      BY <1>1, <2>1, <2>4, <3>1, <3>2, LoadPageSafe
    <3> HIDE DEF N
    <3> QED  BY <3>1, <3>3, StaysTwice
  <2> HIDE DEF N
  <2> QED  BY <2>1, <2>2, <2>4
<1> HIDE DEF A
<1>8. k \in A
  BY <1>2, <1>6, <1>7, Induction
<1> DEFINE K == g[k]  N == LoadRest(K, c, m, k, r)
<1>9. K \in Memories /\ (K.fault = "none" => Safe(K, L) /\ K.spaces = m /\ Stays(M, K, L))
  BY <1>2, <1>5, <1>8 DEF A
<1>10. Loaded(M, c, m, image) = N
  BY <1>5
<1> HIDE DEF K
<1>11. K.fault = "none"
  <2>1. Later(K, N)
    BY <1>2, <1>9, LoadRestTyped
  <2>2. N.fault = "none"
    BY <1>10
  <2> HIDE DEF N
  <2> QED  BY <2>1, <2>2 DEF Later
<1>12. Safe(K, L) /\ Stays(M, K, L) /\ K.spaces = m /\ c <= K.spaces /\ m <= K.spaces
  BY <1>1, <1>9, <1>11
<1>13. Safe(N, L) /\ N.spaces = K.spaces /\ Stays(K, N, L)
  <2>1. LoadRest(K, c, m, k, r).fault = "none"
    BY <1>10
  <2> QED  BY <1>1, <1>2, <1>12, <2>1, LoadRestSafe
<1> HIDE DEF N
<1>14. Stays(M, N, L)
  BY <1>12, <1>13, StaysTwice
<1> QED  BY <1>10, <1>12, <1>13, <1>14

-----------------------------------------------------------------------------
(* kdfree. *)

(* A block of which a page is given back lies apart from the others' pages. *)
LEMMA WholePage ==
    ASSUME NEW M, NEW L, Safe(M, L), NEW b \in L, Whole(b.size % PAGE_SIZE)
    PROVE  LET q == PageOf(b.addr)
               m == b.space
           IN  /\ m \in Space /\ q \in Area(m) /\ Frame(M, m, q) # 0
               /\ \A n \in Space : \A x \in Area(n) : Frame(M, n, x) = Frame(M, m, q) => n = m /\ x = q
               /\ M.end[m] % PAGE_SIZE # 0 => PageOf(M.end[m]) # q
               /\ \A c \in L : c.space = m /\ c # b => q \notin Pages(c)
<1> DEFINE q == PageOf(b.addr)  m == b.space  a == b.addr  e == M.end[m]
           t == PageOf(a + b.size)  qp == q * PAGE_SIZE  tp == (t + 1) * PAGE_SIZE
<1>1. /\ Unique(M) /\ Lent(M, L, M.end) /\ Apart(L) /\ 0 \in Space /\ M \in Memories
      /\ \A c \in L : Backed(M, c) /\ Top(c) <= M.end[c.space] /\ c \in Blocks /\ c.size > 0
      /\ \A n \in Space : M.end[n] \in Nat
  BY SoundFacts DEF Safe
<1>2. /\ m \in Space /\ a \in Nat /\ b.size \in Nat /\ a + b.size \in Nat /\ q \in Pages(b)
      /\ q \in Area(m) /\ Frame(M, m, q) # 0 /\ e \in Nat
  <2>1. m \in Space /\ a \in Nat /\ b.size \in Nat /\ a + b.size \in Nat /\ q \in Pages(b)
    BY <1>1, BlockFacts
  <2> QED  BY <1>1, <2>1 DEF Backed
<1>3. (m > 0 => a >= HeapStart * PAGE_SIZE) /\ a % PAGE_SIZE = 0 /\ (\A n \in Space : n \in Nat)
      /\ HeapStart \in Nat /\ HeapStart * PAGE_SIZE \in Nat /\ PAGE_SIZE \in Nat /\ PAGE_SIZE > 0
  <2>1. (m > 0 => a >= HeapStart * PAGE_SIZE) /\ a % PAGE_SIZE = 0
    BY <1>1 DEF Backed
  <2> QED  BY <2>1, Layout, Machine, Multiples
<1>4. q \in Nat /\ qp \in Nat /\ a = qp
  <2>1. q \in Nat /\ qp \in Nat /\ a = qp + (a % PAGE_SIZE)
    BY <1>2, Addresses
  <2> HIDE DEF a, qp
  <2> QED  BY <1>3, <2>1
<1>5. Top(b) = tp /\ tp \in Nat /\ t \in Nat /\ q <= t /\ tp <= e
  <2>1. Top(b) = tp
    BY DEF Top
  <2>2. t \in Nat /\ t + 1 \in Nat
    <3>1. t \in Nat
      BY <1>2, Addresses
    <3> QED  BY <3>1
  <2>3. tp \in Nat
    BY <1>3, <2>2, Multiples
  <2>4. q <= t
    <3>1. qp <= a + b.size
      <4> HIDE DEF qp, a
      <4> QED  BY <1>2, <1>4
    <3>2. \A k \in Nat : k * PAGE_SIZE <= a + b.size <=> k <= t
      BY <1>2, Addresses
    <3> QED  BY <1>4, <3>1, <3>2
  <2> QED  BY <1>1, <2>1, <2>2, <2>3, <2>4
<1>6. ASSUME NEW y \in Nat, tp <= y PROVE PageOf(y) # q /\ q < PageOf(y)
  <2>1. t + 1 \in Nat
    BY <1>5
  <2>2. PageOf(y) \in Nat /\ t + 1 <= PageOf(y)
    BY <1>6, <2>1, Addresses
  <2> QED  BY <1>4, <1>5, <2>2
<1>7. ASSUME NEW n \in Space, NEW x \in Area(n), Frame(M, n, x) = Frame(M, m, q) PROVE n = m /\ x = q
  <2>1. CASE (n = 0) <=> (m = 0)
    <3>1. Frame(M, n, x) = Frame(M, m, q) /\ Frame(M, n, x) # 0 /\ ((n = 0) <=> (m = 0)) /\ q \in Area(m)
      BY <1>2, <1>7, <2>1
    <3>2. Unique(M) /\ m \in Space
      BY <1>1, <1>2
    <3> HIDE DEF m, q
    <3> QED  BY <3>1, <3>2, Zenon DEF Unique
  <2>2. CASE n = 0 /\ m # 0
    <3>1. Shared(M, x, m, q) /\ x \in Area(0) /\ m \in Space \ {0}
      BY <1>2, <1>7, <2>2 DEF Shared
    <3>2. q < HeapStart
      BY <1>1, <1>2, <3>1 DEF Lent
    <3>3. m > 0
      BY <1>2, <1>3, <2>2
    <3>4. HeapStart * PAGE_SIZE <= a
      <4> DEFINE z == HeapStart * PAGE_SIZE
      <4>1. a >= z /\ z \in Nat
        BY <1>3, <3>3
      <4> HIDE DEF z
      <4>2. z <= a
        BY <1>2, <4>1
      <4> QED  BY <4>2 DEF z
    <3>5. HeapStart <= q
      BY <1>2, <1>3, <3>4, Addresses
    <3> QED  BY <1>3, <1>4, <3>2, <3>5
  <2>3. CASE n # 0 /\ m = 0
    <3>1. Shared(M, q, n, x) /\ q \in Area(0) /\ n \in Space \ {0}
      BY <1>2, <1>7, <2>3 DEF Shared
    <3>2. q \notin Pages(b)
      BY <1>1, <2>3, <3>1 DEF Lent
    <3> QED  BY <1>2, <3>2
  <2> QED  BY <2>1, <2>2, <2>3
<1>8. PageOf(e) # q
  BY <1>2, <1>5, <1>6
<1>9. ASSUME NEW c \in L, c.space = m, c # b, q \in Pages(c) PROVE FALSE
  <2>1. /\ c.addr \in Nat /\ c.addr + c.size \in Nat /\ Top(c) \in Nat /\ c.addr + c.size <= Top(c)
        /\ qp < c.addr + c.size /\ PageOf(c.addr) <= q
    <3>1. Pages(c) = PageOf(c.addr)..PageOf(c.addr + c.size - 1)
      BY DEF Pages
    <3>2. PageOf(c.addr) <= q
      BY <1>9, <3>1
    <3> QED  BY <1>1, <1>9, <3>2, BlockFacts
  <2>2. Top(b) <= c.addr \/ Top(c) <= a
    BY <1>1, <1>9 DEF Apart
  <2>3. CASE tp <= c.addr
    <3>1. q < PageOf(c.addr) /\ PageOf(c.addr) \in Nat
      BY <1>6, <2>1, <2>3, Addresses
    <3> QED  BY <1>4, <2>1, <3>1
  <2>4. CASE Top(c) <= a
    <3> HIDE DEF qp, a
    <3> QED  BY <1>2, <1>4, <2>1, <2>4
  <2> QED  BY <1>5, <2>2, <2>3, <2>4
<1> QED  BY <1>2, <1>7, <1>8, <1>9

(* kdfree of a block that ends with a page of its own: its first page is    *)
(* given back.                                                              *)
LEMMA FirstPageFreed ==
    ASSUME NEW M, NEW L, Safe(M, L), NEW b \in L, Whole(b.size % PAGE_SIZE)
    PROVE  LET N == Kdfree(M, b.space, b.addr, b.size) IN Safe(N, L \ {b}) /\ Stays(M, N, L \ {b})
<1> DEFINE m == b.space  q == PageOf(b.addr)  f == Physical(M, m, q)  g == Frame(M, m, q)
           U == SetPageAttribute(M, m, q)  N == Kdfree(M, m, b.addr, b.size)
           W == M.frames \cup {f}
<1>1. /\ M \in Memories /\ Tables(M) /\ Unique(M) /\ Taken(M) /\ Ends(M) /\ Apart(L) /\ Lent(M, L, M.end)
      /\ (\A c \in L : Backed(M, c) /\ Top(c) <= M.end[c.space] /\ c \in Blocks /\ c.size > 0)
      /\ M.end \in [Space -> Nat] /\ 0 \in Space /\ M.frames \subseteq 1..MaxFrame
  BY SoundFacts, Fields DEF Safe
<1>2. /\ m \in Space /\ q \in Area(m) /\ g # 0
      /\ \A n \in Space : \A x \in Area(n) : Frame(M, n, x) = g => n = m /\ x = q
      /\ M.end[m] % PAGE_SIZE # 0 => PageOf(M.end[m]) # q
      /\ \A c \in L : c.space = m /\ c # b => q \notin Pages(c)
  BY WholePage
<1>3. f = g /\ f \in 1..MaxFrame
  BY <1>2 DEF Frame
<1>4. q \in Nat
  BY <1>2, Layout
<1>5. Repaged(M, U, m, q, 0)
  BY <1>1, <1>2, <1>4, UnsetView
<1>6. N = [U EXCEPT !.frames = U.frames \cup {f}]
  BY DEF Kdfree
<1>13. N = Kdfree(M, b.space, b.addr, b.size) /\ m = b.space
  OBVIOUS
<1> HIDE DEF U, f, g, N, W, q, m
<1>7. /\ Tables(U) /\ U \in Memories /\ U.end = M.end /\ U.frames = M.frames /\ U.spaces = M.spaces
      /\ \A n \in Space : \A x \in Area(n) :
            Frame(U, n, x) = IF n = m /\ x = q THEN 0 ELSE Frame(M, n, x)
  BY <1>5 DEF Repaged, Tables
<1>8. /\ N.frames = M.frames \cup {f} /\ N.dir = U.dir /\ N.tab = U.tab /\ N.end = M.end
      /\ N.reserved = U.reserved /\ N.spaces = M.spaces /\ N \in Memories
  <2> DEFINE X == U.frames \cup {f}
  <2>1. X \subseteq 1..MaxFrame /\ X = M.frames \cup {f}
    BY <1>1, <1>3, <1>7
  <2>2. N = [U EXCEPT !.frames = X]
    BY <1>6
  <2> HIDE DEF X
  <2>3. N \in Memories
    BY <1>7, <2>1, <2>2 DEF Memories
  <2>4. /\ N.frames = X /\ N.dir = U.dir /\ N.tab = U.tab /\ N.end = U.end
        /\ N.reserved = U.reserved /\ N.spaces = U.spaces
    BY <1>7, <2>2 DEF Memories
  <2> QED  BY <1>7, <2>1, <2>3, <2>4
<1>9. /\ Tables(N)
      /\ \A n \in Space : \A x \in Area(n) : Frame(N, n, x) = Frame(U, n, x)
  BY <1>7, <1>8, SameTables
<1>10. \A n \in Space : \A x \in Area(n) : Frame(N, n, x) = IF n = m /\ x = q THEN 0 ELSE Frame(M, n, x)
  BY <1>7, <1>9
<1>11. Unique(N)
  <2>1. ASSUME NEW k \in Space, NEW n \in Space, NEW p \in Area(k), NEW x \in Area(n),
               (k = 0) <=> (n = 0), Frame(N, k, p) = Frame(N, n, x), Frame(N, k, p) # 0
        PROVE  k = n /\ p = x
    <3>1. Frame(M, k, p) = Frame(M, n, x) /\ Frame(M, k, p) # 0 /\ ((k = 0) <=> (n = 0))
      BY <1>10, <2>1
    <3>2. Unique(M)
      BY <1>1
    <3> QED  BY <3>1, <3>2, Zenon DEF Unique
  <2> QED  BY <2>1 DEF Unique
<1>12. Taken(N)
  <2>1. ASSUME NEW n \in Space, NEW x \in Area(n) PROVE Frame(N, n, x) \notin N.frames
    <3>1. CASE n = m /\ x = q
      <4>1. Frame(N, n, x) = 0
        BY <1>10, <3>1
      <4>2. 0 \notin M.frames /\ f # 0
        BY <1>1, <1>3
      <4> QED  BY <1>8, <4>1, <4>2
    <3>2. CASE ~(n = m /\ x = q)
      <4>1. Frame(N, n, x) = Frame(M, n, x) /\ Frame(M, n, x) # f
        BY <1>2, <1>3, <1>10, <3>2
      <4>2. Frame(M, n, x) \notin M.frames
        BY <1>1 DEF Taken
      <4> QED  BY <1>8, <4>1, <4>2
    <3> QED  BY <3>1, <3>2
  <2> QED  BY <2>1 DEF Taken
<1>14. Ends(N)
  <2>1. ASSUME NEW n \in 0..M.spaces, M.end[n] % PAGE_SIZE # 0
        PROVE  PageOf(M.end[n]) \in Area(n) /\ Frame(N, n, PageOf(M.end[n])) # 0
    <3>1. PageOf(M.end[n]) \in Area(n) /\ Frame(M, n, PageOf(M.end[n])) # 0
      BY <1>1, <2>1, EndsFacts
    <3>2. n \in Space
      <4>1. M.spaces \in 0..MaxProcess /\ MaxProcess \in Nat
        BY <1>1, Machine, Fields DEF Space
      <4>2. n \in 0..MaxProcess
        BY <4>1
      <4> QED  BY <4>2 DEF Space
    <3>3. ~(n = m /\ PageOf(M.end[n]) = q)
      BY <1>2, <2>1
    <3> QED  BY <1>10, <3>1, <3>2, <3>3
  <2>2. \A n \in 1..M.spaces : M.end[n] >= HeapStart * PAGE_SIZE
    BY <1>1, EndsFacts
  <2> QED  BY <1>8, <2>1, <2>2 DEF Ends
<1>15. ASSUME NEW c \in L \ {b} PROVE Backed(N, c) /\ Top(c) <= M.end[c.space]
  <2>1. Backed(M, c) /\ Top(c) <= M.end[c.space] /\ c.space \in Space
    BY <1>1 DEF Blocks
  <2>2. ASSUME NEW x \in Pages(c) PROVE x \in Area(c.space) /\ Frame(N, c.space, x) # 0
    <3>1. x \in Area(c.space) /\ Frame(M, c.space, x) # 0
      BY <2>1 DEF Backed
    <3>2. ~(c.space = m /\ x = q)
      BY <1>2
    <3> QED  BY <1>10, <2>1, <3>1, <3>2
  <2> QED  BY <1>8, <2>1, <2>2 DEF Backed
<1>16. Lent(N, L \ {b}, M.end)
  <2>1. ASSUME NEW x \in Area(0), NEW n \in Space \ {0}, NEW p \in Area(n), Shared(N, x, n, p)
        PROVE  Shared(M, x, n, p)
    <3>1. Frame(N, 0, x) = Frame(N, n, p) /\ Frame(N, 0, x) # 0
      BY <2>1 DEF Shared
    <3>2. Frame(N, 0, x) = Frame(M, 0, x) /\ Frame(N, n, p) = Frame(M, n, p)
      BY <1>1, <1>10, <3>1
    <3> QED  BY <3>1, <3>2 DEF Shared
  <2> QED  BY <1>1, <2>1 DEF Lent
<1>17. Apart(L \ {b})
  BY <1>1 DEF Apart
<1>18. \A n \in Space : M.end[n] <= N.end[n]
  <2>1. \A n \in Space : M.end[n] \in Nat
    BY <1>1
  <2> QED  BY <1>8, <2>1
<1>19. Safe(N, L \ {b})
  BY <1>1, <1>8, <1>9, <1>11, <1>12, <1>14, <1>15, <1>16, <1>17, <1>18 DEF Safe, Sound, Good, Held
<1>20. Stays(M, N, L \ {b})
  <2>1. ASSUME NEW c \in L \ {b}, NEW x \in Pages(c) PROVE Frame(N, c.space, x) = Frame(M, c.space, x)
    <3>1. c.space \in Space /\ x \in Area(c.space)
      BY PageFacts DEF Safe
    <3>2. ~(c.space = m /\ x = q)
      BY <1>2
    <3> QED  BY <1>10, <3>1, <3>2
  <2> QED  BY <2>1 DEF Stays
<1> QED  BY <1>13, <1>19, <1>20

(* kdfree of the last block: the end moves back to it.                      *)
LEMMA LastFreed ==
    ASSUME NEW M, NEW L, Safe(M, L), NEW b \in L, ~Whole(b.size % PAGE_SIZE),
           b.addr + b.size = M.end[b.space]
    PROVE  LET N == Kdfree(M, b.space, b.addr, b.size) IN Safe(N, L \ {b}) /\ Stays(M, N, L \ {b})
<1> DEFINE m == b.space  a == b.addr  q == PageOf(a)  f == Physical(M, m, q)  e == M.end[m]
           H == IF HeapOf(M, m, a) = NoHeap THEN M ELSE [M EXCEPT !.heap[f].vhp = M.heap[f].vhp + HeapEntry]
           N == Kdfree(M, m, a, b.size)
<1>1. /\ M \in Memories /\ Held(M) /\ Ends(M) /\ Apart(L) /\ Lent(M, L, M.end)
      /\ (\A c \in L : Backed(M, c) /\ Top(c) <= M.end[c.space] /\ c \in Blocks /\ c.size > 0)
      /\ M.end \in [Space -> Nat] /\ 0 \in Space /\ M.heap \in [1..MaxFrame -> Heaps]
  BY SoundFacts, Fields DEF Safe
<1>2. /\ m \in Space /\ a \in Nat /\ b.size \in Nat /\ b.size > 0 /\ e \in Nat /\ e = a + b.size
      /\ q \in Pages(b) /\ q \in Area(m) /\ Frame(M, m, q) # 0 /\ m <= M.spaces
      /\ (m > 0 => a >= HeapStart * PAGE_SIZE)
  <2>1. m \in Space /\ a \in Nat /\ b.size \in Nat /\ q \in Pages(b)
    BY <1>1, BlockFacts
  <2> QED  BY <1>1, <2>1 DEF Backed
<1>3. H \in Memories /\ Kept(M, H) /\ H.end = M.end
      /\ N = [H EXCEPT !.end[m] = a]
  <2>1. CASE HeapOf(M, m, a) = NoHeap
    <3>1. N = [M EXCEPT !.end[m] = a] /\ H = M
      BY <2>1 DEF Kdfree
    <3> QED  BY <1>1, <3>1 DEF Kept
  <2>2. CASE HeapOf(M, m, a) # NoHeap
    <3> DEFINE v == M.heap[f].vhp + HeapEntry  h == [M.heap[f] EXCEPT !.vhp = v]  X == [M.heap EXCEPT ![f] = h]
    <3>1. f \in 1..MaxFrame
      BY <1>1, <1>2, <2>2, HeapOfTyped
    <3>2. H = [M EXCEPT !.heap = X] /\ N = [M EXCEPT !.end[m] = a, !.heap = X]
      <4>1. M.heap[f] \in Heaps
        BY <1>1, <3>1
      <4> HIDE DEF f
      <4>2. H = [M EXCEPT !.heap = X]
        BY <1>1, <2>2, <3>1, <4>1 DEF Heaps, Memories
      <4>3. N = [M EXCEPT !.end[m] = a, !.heap[f].vhp = M.heap[f].vhp + HeapEntry]
        BY <2>2 DEF Kdfree, f
      <4>4. N = [M EXCEPT !.end[m] = a, !.heap = X]
        BY <1>1, <3>1, <4>1, <4>3 DEF Heaps, Memories
      <4> QED  BY <4>2, <4>4
    <3>3. X \in [1..MaxFrame -> Heaps]
      <4>1. M.heap[f] \in Heaps
        BY <1>1, <3>1
      <4>2. v \in Int
        BY <4>1 DEF Heaps, HeapEntry
      <4>3. h \in Heaps
        <5> HIDE DEF v
        <5> QED  BY <4>1, <4>2 DEF Heaps
      <4> HIDE DEF h
      <4> QED  BY <1>1, <4>3
    <3> HIDE DEF X, N, H
    <3>4. H \in Memories /\ H.end = M.end /\ H.dir = M.dir /\ H.tab = M.tab /\ H.reserved = M.reserved
          /\ H.frames = M.frames /\ H.spaces = M.spaces
      BY <1>1, <3>2, <3>3 DEF Memories
    <3>5. N = [H EXCEPT !.end[m] = a]
      BY <1>1, <3>2 DEF Memories
    <3> QED  BY <3>4, <3>5 DEF Kept
  <2> QED  BY <2>1, <2>2
<1>4. Held(H) /\ H.frames = M.frames /\ H.spaces = M.spaces
      /\ \A n \in Space : \A x \in Area(n) : Frame(H, n, x) = Frame(M, n, x)
  <2>1. Held(M) /\ Kept(M, H)
    BY <1>1, <1>3
  <2> HIDE DEF H
  <2>2. Held(H) /\ \A n \in Space : \A x \in Area(n) : Frame(H, n, x) = Frame(M, n, x)
    BY <2>1, KeptView
  <2> QED  BY <2>1, <2>2 DEF Kept
<1>13. N = Kdfree(M, b.space, b.addr, b.size) /\ m = b.space /\ a = b.addr /\ q = PageOf(a) /\ e = M.end[m]
  OBVIOUS
<1> HIDE DEF H, N, m, a, q, e
<1>5. /\ Held(N) /\ N \in Memories /\ N.spaces = M.spaces
      /\ \A n \in Space : N.end[n] = IF n = m THEN a ELSE M.end[n]
      /\ \A n \in Space : \A x \in Area(n) : Frame(N, n, x) = Frame(M, n, x)
  <2> DEFINE X == [H EXCEPT !.end[m] = a]
  <2>1. /\ X \in Memories /\ Held(X) /\ X.spaces = H.spaces
        /\ X.end[m] = a /\ \A n \in Space : n # m => X.end[n] = H.end[n]
        /\ \A n \in Space : \A x \in Area(n) : Frame(X, n, x) = Frame(H, n, x)
    <3>1. Held(H) /\ m \in Space /\ a \in Nat
      BY <1>2, <1>4
    <3>2. /\ X \in Memories /\ Held(X) /\ X.fault = H.fault /\ X.spaces = H.spaces
          /\ X.frames = H.frames /\ X.end[m] = a
          /\ \A n \in Space : n # m => X.end[n] = H.end[n]
          /\ \A n \in Space : \A x \in Area(n) : Frame(X, n, x) = Frame(H, n, x)
      BY <3>1, EndedView
    <3> HIDE DEF X
    <3> QED  BY <3>2
  <2>2. X = N
    BY <1>3
  <2> HIDE DEF X
  <2> QED  BY <1>3, <1>4, <2>1, <2>2
<1>6. Ends(N)
  <2>1. ASSUME NEW n \in 0..M.spaces
        PROVE  /\ N.end[n] % PAGE_SIZE # 0 =>
                     PageOf(N.end[n]) \in Area(n) /\ Frame(N, n, PageOf(N.end[n])) # 0
               /\ n \in 1..M.spaces => N.end[n] >= HeapStart * PAGE_SIZE
    <3>1. n \in Space
      <4>1. M.spaces \in 0..MaxProcess /\ MaxProcess \in Nat
        BY <1>1, Machine, Fields DEF Space
      <4>2. n \in 0..MaxProcess
        BY <4>1
      <4> QED  BY <4>2 DEF Space
    <3>2. CASE n = m
      <4>1. N.end[n] = a /\ PageOf(N.end[n]) = q /\ q \in Area(n) /\ Frame(N, n, q) # 0
        BY <1>2, <1>5, <1>13, <3>2
      <4>2. n \in 1..M.spaces => m > 0
        BY <3>2
      <4>3. n \in 1..M.spaces => N.end[n] >= HeapStart * PAGE_SIZE
        BY <1>2, <4>1, <4>2
      <4> QED  BY <4>1, <4>3
    <3>3. CASE n # m
      <4>1. N.end[n] = M.end[n]
        BY <1>5, <3>1, <3>3
      <4>2. /\ M.end[n] % PAGE_SIZE # 0 =>
                     PageOf(M.end[n]) \in Area(n) /\ Frame(M, n, PageOf(M.end[n])) # 0
            /\ n \in 1..M.spaces => M.end[n] >= HeapStart * PAGE_SIZE
        BY <1>1, EndsFacts
      <4>3. M.end[n] % PAGE_SIZE # 0 => Frame(N, n, PageOf(M.end[n])) # 0
        BY <1>5, <3>1, <4>2
      <4> QED  BY <4>1, <4>2, <4>3
    <3> QED  BY <3>2, <3>3
  <2>2. \A n \in 1..M.spaces : n \in 0..M.spaces
    OBVIOUS
  <2> QED  BY <1>5, <2>1, <2>2 DEF Ends
<1>7. ASSUME NEW c \in L \ {b} PROVE Backed(N, c) /\ Top(c) <= N.end[c.space]
  <2>1. Backed(M, c) /\ Top(c) <= M.end[c.space] /\ c.space \in Space
    BY <1>1 DEF Blocks
  <2>2. Backed(N, c)
    <3>1. ASSUME NEW x \in Pages(c) PROVE x \in Area(c.space) /\ Frame(N, c.space, x) # 0
      BY <1>5, <2>1 DEF Backed
    <3> QED  BY <1>5, <2>1, <3>1 DEF Backed
  <2>3. CASE c.space # m
    BY <1>5, <2>1, <2>2, <2>3
  <2>4. CASE c.space = m
    <3>1. Top(b) = e
      BY <1>2, <1>13 DEF Top
    <3>2. Top(b) <= c.addr \/ Top(c) <= a
      BY <1>1, <1>13, <2>4 DEF Apart
    <3>3. c.addr \in Nat /\ c.size \in Nat /\ c.size > 0 /\ c.addr + c.size <= Top(c) /\ Top(c) \in Nat /\ Top(c) <= e
      BY <1>1, <1>13, <2>1, <2>4, BlockFacts
    <3>4. Top(c) <= a
      BY <1>2, <3>1, <3>2, <3>3
    <3> QED  BY <1>5, <2>1, <2>2, <2>4, <3>4
  <2> QED  BY <2>3, <2>4
<1>8. Lent(N, L \ {b}, N.end)
  <2>1. ASSUME NEW x \in Area(0), NEW n \in Space \ {0}, NEW p \in Area(n), Shared(N, x, n, p)
        PROVE  /\ (x + 1) * PAGE_SIZE <= N.end[0] /\ p < HeapStart
               /\ \A c \in L : c.space = 0 => x \notin Pages(c)
    <3>1. Shared(M, x, n, p)
      BY <1>1, <1>5, <2>1 DEF Shared
    <3>2. /\ (x + 1) * PAGE_SIZE <= M.end[0] /\ p < HeapStart
          /\ \A c \in L : c.space = 0 => x \notin Pages(c)
      BY <1>1, <3>1 DEF Lent
    <3>3. CASE m # 0
      BY <1>1, <1>5, <3>2, <3>3
    <3>4. CASE m = 0
      <4> DEFINE xp == x * PAGE_SIZE  y == e - 1  ep == (x + 1) * PAGE_SIZE
      <4>1. x \in Nat /\ x + 1 \in Nat /\ xp \in Nat /\ ep = xp + PAGE_SIZE /\ PAGE_SIZE \in Nat /\ PAGE_SIZE > 0 /\ y \in Nat
        <5>1. x \in Nat
          BY <1>1, Layout
        <5>2. y \in Nat
          BY <1>2
        <5> QED  BY <5>1, <5>2, Machine, Multiples
      <4>2. x \notin q..PageOf(y)
        <5>1. Pages(b) = q..PageOf(y)
          BY <1>2, <1>13 DEF Pages
        <5> QED  BY <1>13, <3>2, <3>4, <5>1
      <4>3. q \in Nat /\ PageOf(y) \in Nat /\ (xp <= y <=> x <= PageOf(y)) /\ (ep <= a <=> x + 1 <= q)
        <5> HIDE DEF y
        <5> QED  BY <1>2, <1>13, <4>1, Addresses
      <4>4. ep <= e /\ N.end[0] = a
        BY <1>1, <1>5, <1>13, <3>2, <3>4
      <4>5. ep <= a
        <5>1. ~(xp <= y) \/ x < q
          BY <4>1, <4>2, <4>3
        <5> HIDE DEF xp, ep
        <5>2. xp <= y
          BY <1>2, <4>1, <4>4
        <5> QED  BY <4>1, <4>3, <5>1, <5>2
      <4> QED  BY <3>2, <4>4, <4>5
    <3> QED  BY <3>3, <3>4
  <2> QED  BY <2>1 DEF Lent
<1>9. Apart(L \ {b})
  BY <1>1 DEF Apart
<1>10. N.end \in [Space -> Nat] /\ \A n \in Space : N.end[n] <= N.end[n]
  <2>1. N.end \in [Space -> Nat]
    BY <1>5, Fields
  <2>2. \A n \in Space : N.end[n] \in Nat
    BY <2>1
  <2> QED  BY <2>1, <2>2
<1>11. Safe(N, L \ {b})
  BY <1>5, <1>6, <1>7, <1>8, <1>9, <1>10 DEF Safe, Sound, Good
<1>12. Stays(M, N, L \ {b})
  <2>1. ASSUME NEW c \in L \ {b}, NEW x \in Pages(c) PROVE Frame(N, c.space, x) = Frame(M, c.space, x)
    <3>1. c.space \in Space /\ x \in Area(c.space)
      BY PageFacts DEF Safe
    <3> QED  BY <1>5, <3>1
  <2> QED  BY <2>1 DEF Stays
<1> QED  BY <1>11, <1>12, <1>13

(* Records change: the blocks in use stay as they are.                      *)
LEMMA KeptSafe ==
    ASSUME NEW M, NEW L, Safe(M, L), NEW N, Kept(M, N), N.end = M.end
    PROVE  Safe(N, L) /\ Stays(M, N, L)
<1>1. /\ Held(M) /\ Ends(M) /\ Good(M) /\ 0 \in Space /\ M.spaces \in Space /\ 0 \in 0..M.spaces
  <2>1. Held(M) /\ Ends(M) /\ Good(M) /\ 0 \in Space /\ M.spaces \in Space
    BY SoundFacts DEF Safe
  <2>2. M.spaces \in Nat
    BY <2>1, Layout
  <2> QED  BY <2>1, <2>2
<1>2. /\ Held(N) /\ Grows(M, N, 0) /\ N \in Memories
      /\ \A k \in Space : \A x \in Area(k) : Frame(N, k, x) = Frame(M, k, x)
  <2>1. \A k \in Space : N.end[k] = M.end[k]
    OBVIOUS
  <2>2. Held(N) /\ Grows(M, N, 0) /\ \A k \in Space : \A x \in Area(k) : Frame(N, k, x) = Frame(M, k, x)
    BY <1>1, <2>1, KeptView
  <2> QED  BY <2>2 DEF Kept
<1>3. Good(N)
  <2>1. N.end[0] % PAGE_SIZE # 0 => PageOf(N.end[0]) \in Area(0) /\ Frame(N, 0, PageOf(N.end[0])) # 0
    <3>1. M.end[0] % PAGE_SIZE # 0 => PageOf(M.end[0]) \in Area(0) /\ Frame(M, 0, PageOf(M.end[0])) # 0
      BY <1>1, EndsFacts
    <3> QED  BY <1>1, <1>2, <3>1
  <2> QED  BY <1>1, <1>2, <2>1, GoodGrown
<1>4. Sound(N, L, M.end)
  BY <1>1, <1>2, <1>3, SoundGrows DEF Safe
<1>5. Stays(M, N, L)
  BY <1>1, <1>2, GrowsStays DEF Safe
<1> QED  BY <1>4, <1>5 DEF Safe

(* kdfree of another block: it is recorded in the page it begins in.        *)
LEMMA OtherFreed ==
    ASSUME NEW M, NEW L, Safe(M, L), NEW b \in L, ~Whole(b.size % PAGE_SIZE),
           b.addr + b.size # M.end[b.space],
           Kdfree(M, b.space, b.addr, b.size).fault = "none"
    PROVE  LET N == Kdfree(M, b.space, b.addr, b.size) IN Safe(N, L \ {b}) /\ Stays(M, N, L \ {b})
<1> DEFINE m == b.space  a == b.addr  n == b.size  N == AddFree(M, m, a, n)
<1>1. M \in Memories /\ m \in Space /\ a \in Nat /\ n \in Int
  <2>1. M \in Memories /\ b \in Blocks
    BY SoundFacts DEF Safe
  <2> QED  BY <2>1 DEF Blocks
<1>2. Kdfree(M, b.space, b.addr, b.size) = N
  BY DEF Kdfree
<1> HIDE DEF m, a, n
<1>3. Kept(M, N) /\ N.end = M.end
  BY <1>1, <1>2, AddFreeView
<1> HIDE DEF N
<1>4. Safe(N, L) /\ Stays(M, N, L)
  BY <1>3, KeptSafe
<1>5. Safe(N, L \ {b}) /\ Stays(M, N, L \ {b})
  BY <1>3, <1>4, SoundLess DEF Safe, Stays
<1> QED  BY <1>2, <1>5

(* kdfree.                                                                  *)
LEMMA KdfreeSafe ==
    ASSUME NEW M, NEW L, Safe(M, L), NEW b \in L
    PROVE  LET N == Kdfree(M, b.space, b.addr, b.size)
           IN  N \in Memories /\ (N.fault = "none" => Safe(N, L \ {b}) /\ Stays(M, N, L \ {b}))
<1> DEFINE N == Kdfree(M, b.space, b.addr, b.size)
<1>1. CASE Whole(b.size % PAGE_SIZE)
  <2>1. Safe(N, L \ {b}) /\ Stays(M, N, L \ {b})
    BY <1>1, FirstPageFreed
  <2> HIDE DEF N
  <2>2. N \in Memories
    BY <2>1, SoundFacts DEF Safe
  <2> QED  BY <2>1, <2>2 DEF N
<1>2. CASE ~Whole(b.size % PAGE_SIZE) /\ b.addr + b.size = M.end[b.space]
  <2>1. Safe(N, L \ {b}) /\ Stays(M, N, L \ {b})
    BY <1>2, LastFreed
  <2> HIDE DEF N
  <2>2. N \in Memories
    BY <2>1, SoundFacts DEF Safe
  <2> QED  BY <2>1, <2>2 DEF N
<1>3. CASE ~Whole(b.size % PAGE_SIZE) /\ b.addr + b.size # M.end[b.space]
  <2>1. N.fault = "none" => Safe(N, L \ {b}) /\ Stays(M, N, L \ {b})
    BY <1>3, OtherFreed
  <2>2. N = AddFree(M, b.space, b.addr, b.size)
    BY <1>3 DEF Kdfree
  <2> HIDE DEF N
  <2>3. M \in Memories /\ b.space \in Space /\ b.addr \in Nat /\ b.size \in Int
    <3>1. M \in Memories /\ b \in Blocks
      BY SoundFacts DEF Safe
    <3> QED  BY <3>1 DEF Blocks
  <2>4. N \in Memories
    BY <2>2, <2>3, AddFreeTyped DEF Later
  <2> QED  BY <2>1, <2>4 DEF N
<1> QED  BY <1>1, <1>2, <1>3

-----------------------------------------------------------------------------
(* The invariant. *)

(* It holds when the kernel has made the tables of its heap.                *)
LEMMA InitInv == Init => Inv
<1> SUFFICES ASSUME Init PROVE Inv
  OBVIOUS
<1> DEFINE d == [m \in Space |-> [e \in Entry |-> IF m = 0 /\ e < KTABLES THEN e + 1 ELSE 0]]
           t == [i \in 1..NoTable |-> [j \in 0..TABLE - 1 |-> 0]]
           z == [m \in Space |-> 0]  h == [f \in 1..MaxFrame |-> NoHeap]
           fr == 1..MaxFrame  r == KTABLES + 1..MaxTable
<1>1. mem = [dir |-> d, tab |-> t, end |-> z, heap |-> h, frames |-> fr, reserved |-> r,
             spaces |-> 0, fault |-> "none"] /\ live = {} /\ intact = TRUE /\ calls = 0
  BY DEF Init
<1>2. /\ KTABLES \in Nat /\ KTABLES > 0 /\ MaxTable \in Nat /\ KTABLES <= MaxTable /\ NoTable = MaxTable + 1
      /\ Entry \subseteq Nat /\ NoFrame \in Nat /\ TABLE \in Nat /\ 0 \in Space /\ MaxCalls \in Nat
      /\ \A m \in Space : m \in Nat
  BY MemoryAssumption, Machine, Layout
<1>3. d \in [Space -> [Entry -> 0..NoTable]]
  BY <1>2
<1>4. t \in [1..NoTable -> [0..TABLE - 1 -> 0..NoFrame]]
  BY <1>2
<1>5. z \in [Space -> Nat] /\ h \in [1..MaxFrame -> Heaps] /\ fr \subseteq 1..MaxFrame /\ r \subseteq 1..MaxTable
  BY <1>2, HeapsTyped
<1>6. \A m \in Space, e \in Entry : d[m][e] = IF m = 0 /\ e < KTABLES THEN e + 1 ELSE 0
  OBVIOUS
<1>7. \A i \in 1..NoTable, j \in 0..TABLE - 1 : t[i][j] = 0
  OBVIOUS
<1>8. \A m \in Space : z[m] = 0
  OBVIOUS
<1>16. r = KTABLES + 1..MaxTable /\ fr = 1..MaxFrame
  OBVIOUS
<1> HIDE DEF d, t, z, h, fr, r
<1>9. mem \in Memories /\ mem.dir = d /\ mem.tab = t /\ mem.end = z /\ mem.frames = fr /\ mem.reserved = r
      /\ mem.spaces = 0
  BY <1>1, <1>2, <1>3, <1>4, <1>5 DEF Memories
<1>10. TypeOK
  BY <1>1, <1>2, <1>9 DEF TypeOK
<1>11. Tables(mem)
  <2>1. ASSUME NEW m \in Space, NEW e \in Entry PROVE d[m][e] \notin r /\ d[m][e] # NoTable
    <3>1. e \in Nat
      BY <1>2
    <3> QED  BY <1>2, <1>6, <1>16, <3>1
  <2>2. ASSUME NEW m \in Space, NEW n \in Space, NEW f \in Entry, NEW e \in Entry, d[m][f] = d[n][e], d[m][f] # 0
        PROVE  f = e /\ (m = n \/ f < KTABLES)
    <3>1. f \in Nat /\ e \in Nat
      BY <1>2
    <3>2. f < KTABLES /\ d[m][f] = f + 1
      BY <1>6, <2>2
    <3>3. d[n][e] = e + 1
      BY <1>6, <2>2
    <3>4. f + 1 = e + 1
      BY <2>2, <3>2, <3>3
    <3>5. f = e
      <4> HIDE DEF d, r
      <4> QED  BY <3>1, <3>4
    <3> QED  BY <3>2, <3>5
  <2>3. \A e \in Entry : d[0][e] # 0 <=> e < KTABLES
    BY <1>2, <1>6
  <2>4. \A m \in Space, e \in Entry : m > 0 => d[m][e] = 0
    BY <1>2, <1>6
  <2> QED  BY <1>9, <2>1, <2>2, <2>3, <2>4 DEF Tables
<1>12. \A m \in Space : \A p \in Area(m) : Frame(mem, m, p) = 0
  <2>1. ASSUME NEW m \in Space, NEW p \in Area(m) PROVE Frame(mem, m, p) = 0
    <3> DEFINE e == p \div TABLE  j == p % TABLE
    <3>1. /\ e \in Entry /\ j \in 0..TABLE - 1 /\ Frame(mem, m, p) = Under(mem, m, e, j)
          /\ (mem.dir[m][e] # 0 => mem.dir[m][e] \in 1..NoTable)
      BY <1>9, FrameAt
    <3> HIDE DEF e, j
    <3>2. mem.dir[m][e] # 0 => mem.tab[mem.dir[m][e]][j] = 0
      BY <1>7, <1>9, <3>1
    <3> QED  BY <3>1, <3>2 DEF Under
  <2> QED  BY <2>1
<1>13. Unique(mem) /\ Taken(mem)
  BY <1>9, <1>12, <1>16 DEF Unique, Taken
<1>14. Ends(mem)
  <2>1. 0 % PAGE_SIZE = 0
    <3>1. 0 = 0 * PAGE_SIZE + 0 /\ 0 < PAGE_SIZE /\ 0 \in Nat
      BY Machine
    <3> QED  BY <3>1, Addresses
  <2> QED  BY <1>2, <1>8, <1>9, <2>1 DEF Ends
<1>15. Sound(mem, live, mem.end)
  <2>1. Lent(mem, live, mem.end)
    BY <1>2, <1>12 DEF Lent, Shared
  <2>2. Apart(live) /\ \A b \in live : Backed(mem, b) /\ Top(b) <= mem.end[b.space]
    BY <1>1 DEF Apart
  <2>3. mem.end \in [Space -> Nat] /\ \A m \in Space : mem.end[m] <= mem.end[m]
    BY <1>5, <1>8, <1>9
  <2> QED  BY <1>11, <1>13, <1>14, <2>1, <2>2, <2>3 DEF Sound, Good, Held
<1> QED  BY <1>10, <1>15 DEF Inv

(* Before a call nothing has gone wrong.                                    *)
LEMMA Before ==
    ASSUME Inv, NEW frames, Running(frames)
    PROVE  /\ Safe(mem, live) /\ mem \in Memories /\ live \subseteq Blocks /\ calls' \in 0..MaxCalls
           /\ intact \in BOOLEAN
           /\ 0 \in Space /\ mem.spaces \in Nat /\ mem.spaces \in Space
           /\ \A m \in 0..mem.spaces : m \in Space /\ m <= mem.spaces
<1>1. mem.fault = "none" /\ calls' = calls + 1 /\ calls < MaxCalls
  BY DEF Running
<1>2. TypeOK /\ Safe(mem, live)
  BY <1>1 DEF Inv, NeverFaults, Safe
<1>3. mem \in Memories /\ live \subseteq Blocks /\ calls' \in 0..MaxCalls /\ intact \in BOOLEAN
  BY <1>1, <1>2, Machine DEF TypeOK
<1>4. 0 \in Space /\ mem.spaces \in Space
  BY <1>2, SoundFacts DEF Safe
<1>5. mem.spaces \in Nat
  BY <1>4, Layout
<1>6. ASSUME NEW m \in 0..mem.spaces PROVE m \in Space /\ m <= mem.spaces
  <2>1. mem.spaces <= MaxProcess /\ MaxProcess \in Nat
    BY <1>4, Machine DEF Space
  <2> QED  BY <1>5, <2>1 DEF Space
<1> QED  BY <1>2, <1>3, <1>4, <1>5, <1>6

(* What a call does: it keeps the invariant, and the frames under blocks    *)
(* that stay in use.                                                        *)
Called == Inv' /\ (NeverFaults' => Stays(mem, mem', live \cap live'))

(* malloc, and what the kernel needs.                                       *)
LEMMA MallocInv ==
    ASSUME Inv, NEW m \in 0..mem.spaces, NEW n \in Nat, n > 0, Malloc(m, n)
    PROVE  Called
<1> DEFINE N == Kdmalloc(mem, m, n)  b == Block(mem, m, n)
<1>1. mem' = N /\ live' = live \cup {b} /\ Running(PageOf(n) + 1) /\ intact' = intact
  BY DEF Malloc
<1>2. /\ Safe(mem, live) /\ mem \in Memories /\ live \subseteq Blocks /\ calls' \in 0..MaxCalls /\ intact \in BOOLEAN
      /\ m \in Space /\ m <= mem.spaces
  BY <1>1, Before
<1>3. N \in Memories
  BY <1>2, KdmallocTyped DEF Later
<1>4. b \in Blocks
  BY <1>2, NextPageTyped
<1>5. N.fault = "none" => Safe(N, live \cup {b}) /\ Stays(mem, N, live)
  BY <1>2, KdmallocSafe
<1> HIDE DEF N, b
<1>6. TypeOK'
  BY <1>1, <1>2, <1>3, <1>4 DEF TypeOK
<1>7. NeverFaults' => Sound(mem', live', mem'.end)
  BY <1>1, <1>5 DEF NeverFaults, Safe
<1>8. NeverFaults' => Stays(mem, mem', live \cap live')
  BY <1>1, <1>5 DEF NeverFaults, Stays
<1> QED  BY <1>6, <1>7, <1>8 DEF Inv, Called

(* free.                                                                    *)
LEMMA FreeInv ==
    ASSUME Inv, NEW b \in live, Free(b)
    PROVE  Called
<1> DEFINE N == Kdfree(mem, b.space, b.addr, b.size)
<1>1. mem' = N /\ live' = live \ {b} /\ Running(0)
      /\ intact' = (intact /\ ~Spoils(b))
  BY DEF Free
<1>2. /\ Safe(mem, live) /\ mem \in Memories /\ live \subseteq Blocks /\ calls' \in 0..MaxCalls /\ intact \in BOOLEAN
  BY <1>1, Before
<1>3. N \in Memories /\ (N.fault = "none" => Safe(N, live \ {b}) /\ Stays(mem, N, live \ {b}))
  BY <1>2, KdfreeSafe
<1> HIDE DEF N
<1>4. TypeOK'
  BY <1>1, <1>2, <1>3 DEF TypeOK
<1>5. NeverFaults' => Sound(mem', live', mem'.end)
  BY <1>1, <1>3 DEF NeverFaults, Safe
<1>6. NeverFaults' => Stays(mem, mem', live \cap live')
  BY <1>1, <1>3 DEF NeverFaults, Stays
<1> QED  BY <1>4, <1>5, <1>6 DEF Inv, Called

(* A record written and overwritten: nothing but records changes.           *)
LEMMA Overwritten ==
    ASSUME NEW M \in Memories, NEW f \in 1..MaxFrame, NEW h \in Heaps
    PROVE  /\ Kept(M, [M EXCEPT !.heap[f] = h]) /\ [M EXCEPT !.heap[f] = h].end = M.end
           /\ [M EXCEPT !.heap[f] = h].fault = M.fault
<1> DEFINE N == [M EXCEPT !.heap[f] = h]  X == [M.heap EXCEPT ![f] = h]
<1>1. N \in Memories
  <2>1. 0 \in Space
    BY Layout
  <2> QED  BY <2>1, Written DEF Later
<1>2. N = [M EXCEPT !.heap = X]
  OBVIOUS
<1> HIDE DEF X, N
<1>3. /\ N.dir = M.dir /\ N.tab = M.tab /\ N.reserved = M.reserved /\ N.frames = M.frames
      /\ N.spaces = M.spaces /\ N.end = M.end /\ N.fault = M.fault
  BY <1>2 DEF Memories
<1>4. Kept(M, N) /\ N.end = M.end /\ N.fault = M.fault
  BY <1>1, <1>3 DEF Kept
<1> QED  BY <1>4 DEF N

(* The parameter of fclose lies in the stack's page, below the end of the   *)
(* kernel's heap: kdfree records it, and no end moves.                      *)
LEMMA ParameterRecorded ==
    ASSUME NEW M, NEW L, Safe(M, L), NEW b \in L, b.space = 0, b.size = PAGE_SIZE,
           NEW local \in 0..PAGE_SIZE - 64, NEW X, X.end = M.end
    PROVE  /\ Kdfree(X, 0, b.addr + local, FileTableSize) = AddFree(X, 0, b.addr + local, FileTableSize)
           /\ b.addr + local \in Nat /\ FileTableSize \in Int /\ PageOf(b.addr) \in Area(0)
           /\ Physical(M, 0, PageOf(b.addr)) \in 1..MaxFrame
<1>1. Backed(M, b) /\ Top(b) <= M.end[0] /\ b \in Blocks /\ b.size > 0 /\ M.end[0] \in Nat
  BY SoundFacts DEF Safe
<1>2. b.addr \in Nat /\ Top(b) \in Nat /\ b.addr + b.size <= Top(b) /\ PageOf(b.addr) \in Pages(b)
  BY <1>1, BlockFacts
<1>3. PageOf(b.addr) \in Area(0) /\ Frame(M, 0, PageOf(b.addr)) # 0
  BY <1>1, <1>2 DEF Backed
<1>4. Physical(M, 0, PageOf(b.addr)) \in 1..MaxFrame
  BY <1>3 DEF Frame
<1>5. 36 % PAGE_SIZE = 36
  <2>1. 36 = 0 * PAGE_SIZE + 36 /\ 36 < PAGE_SIZE /\ 36 \in Nat /\ 0 \in Nat
    BY Machine
  <2> QED  BY <2>1, Addresses
<1>6. ~Whole(FileTableSize % PAGE_SIZE)
  BY <1>5, Machine DEF Whole, FileTableSize
<1>7. b.addr + local + FileTableSize # X.end[0] /\ b.addr + local \in Nat
  BY <1>1, <1>2, Machine DEF FileTableSize
<1>8. Kdfree(X, 0, b.addr + local, FileTableSize) = AddFree(X, 0, b.addr + local, FileTableSize)
  BY <1>6, <1>7 DEF Kdfree
<1> QED  BY <1>3, <1>4, <1>7, <1>8 DEF FileTableSize

(* fclose gives back its own parameter.                                     *)
LEMMA FileCloseInv ==
    ASSUME Inv, NEW b \in live, NEW local \in Locals, FileClose(b, local)
    PROVE  Called
<1> DEFINE f == Physical(mem, 0, PageOf(b.addr))  h == mem.heap[f]
           X == [mem EXCEPT !.heap[f] = Pushed]
           N == Kdfree(X, 0, b.addr + local, FileTableSize)
           Y == [N EXCEPT !.heap[f] = h]
<1>1. /\ mem' = Y /\ live' = live /\ intact' = intact /\ Running(0)
      /\ b.space = 0 /\ b.size = PAGE_SIZE /\ local \in 0..PAGE_SIZE - 64
  <2>1. local \in 0..PAGE_SIZE - 64
    BY MemoryAssumption
  <2> QED  BY <2>1 DEF FileClose, StackSize
<1>2. /\ Safe(mem, live) /\ mem \in Memories /\ live \subseteq Blocks /\ calls' \in 0..MaxCalls
      /\ intact \in BOOLEAN /\ 0 \in Space
  BY <1>1, Before
<1>3. f \in 1..MaxFrame
  BY <1>1, <1>2, ParameterRecorded
<1>4. h \in Heaps /\ Pushed \in Heaps
  <2>1. mem.heap \in [1..MaxFrame -> Heaps]
    BY <1>2, Fields
  <2>2. h \in Heaps
    <3> HIDE DEF f
    <3> QED  BY <1>3, <2>1
  <2>3. <<>> \in Seq([offset : Nat, size : Nat]) /\ 43 \in Int
    OBVIOUS
  <2>4. Pushed \in Heaps
    BY <2>3 DEF Pushed, Heaps
  <2> HIDE DEF h
  <2> QED  BY <2>2, <2>4
<1>5. N = AddFree(X, 0, b.addr + local, FileTableSize) /\ b.addr + local \in Nat /\ FileTableSize \in Int
  <2>1. X.end = mem.end
    BY <1>2, <1>3, <1>4, Overwritten
  <2> HIDE DEF X
  <2> QED  BY <1>1, <1>2, <2>1, ParameterRecorded
<1> HIDE DEF f, h
<1>6. Kept(mem, X) /\ X.end = mem.end
  BY <1>2, <1>3, <1>4, Overwritten
<1> HIDE DEF X
<1>7. X \in Memories
  BY <1>6 DEF Kept
<1>8. N \in Memories /\ (N.fault = "none" => Kept(X, N) /\ N.end = X.end)
  BY <1>2, <1>5, <1>7, AddFreeTyped, AddFreeView DEF Later
<1> HIDE DEF N
<1>9. Kept(N, Y) /\ Y.end = N.end /\ Y.fault = N.fault
  BY <1>3, <1>4, <1>8, Overwritten
<1> HIDE DEF Y
<1>10. TypeOK'
  BY <1>1, <1>2, <1>9 DEF TypeOK, Kept
<1>11. Y.fault = "none" => Safe(Y, live) /\ Stays(mem, Y, live)
  <2>1. Y.fault = "none" => Kept(mem, Y) /\ Y.end = mem.end
    BY <1>6, <1>8, <1>9 DEF Kept
  <2> QED  BY <1>2, <2>1, KeptSafe
<1>12. NeverFaults' => Sound(mem', live', mem'.end)
  BY <1>1, <1>11 DEF NeverFaults, Safe
<1>13. NeverFaults' => Stays(mem, mem', live \cap live')
  BY <1>1, <1>11 DEF NeverFaults, Stays
<1> QED  BY <1>10, <1>12, <1>13 DEF Inv, Called

(* A program reads a file.                                                  *)
LEMMA ReadInv ==
    ASSUME Inv, NEW c \in Active, NEW o \in Nat, NEW n \in Nat, n > 0, Read(c, o, n)
    PROVE  Called
<1> DEFINE N == ReadFile(mem, c, o, n)  b == Block(Fread(mem, o, n), c, n)
<1>1. mem' = N /\ live' = live \cup {b} /\ Running(2 * PageOf(n) + 4) /\ intact' = intact
  BY DEF Read
<1>2. /\ Safe(mem, live) /\ mem \in Memories /\ live \subseteq Blocks /\ calls' \in 0..MaxCalls /\ intact \in BOOLEAN
      /\ c \in Space /\ c <= mem.spaces /\ c # 0
  <2>1. c \in 0..mem.spaces /\ c # 0
    BY DEF Active
  <2> QED  BY <1>1, <2>1, Before
<1>3. N \in Memories
  BY <1>2, ReadFileTyped DEF Later
<1>4. b \in Blocks
  <2>1. Fread(mem, o, n) \in Memories
    BY <1>2, FreadTyped DEF Later
  <2> QED  BY <1>2, <2>1, NextPageTyped
<1>5. N.fault = "none" => Safe(N, live \cup {b}) /\ Stays(mem, N, live)
  BY <1>2, ReadFileSafe
<1> HIDE DEF N, b
<1>6. TypeOK'
  BY <1>1, <1>2, <1>3, <1>4 DEF TypeOK
<1>7. NeverFaults' => Sound(mem', live', mem'.end)
  BY <1>1, <1>5 DEF NeverFaults, Safe
<1>8. NeverFaults' => Stays(mem, mem', live \cap live')
  BY <1>1, <1>5 DEF NeverFaults, Stays
<1> QED  BY <1>6, <1>7, <1>8 DEF Inv, Called

(* A process is made.                                                       *)
LEMMA ExecInv ==
    ASSUME Inv, NEW c \in 0..mem.spaces, NEW image \in 0..TABLE * PAGE_SIZE - 1, Exec(c, image)
    PROVE  Called
<1> DEFINE m == mem.spaces + 1  N == Loaded(mem, c, m, image)
           K == Kdmalloc(N, 0, StackSize)  a == Block(N, 0, StackSize)
           O == Kdmalloc(K, 0, ElementSize)  b == Block(K, 0, ElementSize)
<1>1. mem' = O /\ live' = live \cup {a, b} /\ Running(5 * PageOf(image) + 8) /\ m \in Space /\ intact' = intact
  BY DEF Exec
<1>2. /\ Safe(mem, live) /\ mem \in Memories /\ live \subseteq Blocks /\ calls' \in 0..MaxCalls /\ intact \in BOOLEAN
      /\ c \in Space /\ c <= mem.spaces /\ 0 \in Space
  BY <1>1, Before
<1>3. StackSize \in Nat /\ StackSize > 0 /\ ElementSize \in Nat /\ ElementSize > 0 /\ image \in Nat
  BY Machine DEF StackSize, ElementSize
<1>4. N \in Memories
  BY <1>1, <1>2, <1>3, LoadedTyped DEF Later
<1>5. N.fault = "none" => Safe(N, live) /\ Stays(mem, N, live)
  BY <1>1, <1>2, LoadedSafe
<1> HIDE DEF N
<1>6. K \in Memories /\ (K.fault = "none" => N.fault = "none") /\ a \in Blocks
  BY <1>2, <1>3, <1>4, KdmallocTyped, NextPageTyped DEF Later
<1>7. K.fault = "none" => Safe(K, live \cup {a}) /\ Stays(N, K, live)
  BY <1>3, <1>5, <1>6, KernelSafe
<1> HIDE DEF K, a
<1>8. O \in Memories /\ (O.fault = "none" => K.fault = "none") /\ b \in Blocks
  BY <1>2, <1>3, <1>6, KdmallocTyped, NextPageTyped DEF Later
<1>9. O.fault = "none" => Safe(O, live \cup {a, b}) /\ Stays(K, O, live \cup {a})
  <2>1. O.fault = "none" => Safe(O, (live \cup {a}) \cup {b}) /\ Stays(K, O, live \cup {a})
    BY <1>3, <1>7, <1>8, KernelSafe
  <2>2. (live \cup {a}) \cup {b} = live \cup {a, b}
    OBVIOUS
  <2> HIDE DEF O, b
  <2> QED  BY <2>1, <2>2
<1> HIDE DEF O, b
<1>10. TypeOK'
  BY <1>1, <1>2, <1>6, <1>8 DEF TypeOK
<1>11. NeverFaults' => Sound(mem', live', mem'.end)
  BY <1>1, <1>9 DEF NeverFaults, Safe
<1>12. NeverFaults' => Stays(mem, mem', live \cap live')
  BY <1>1, <1>5, <1>6, <1>7, <1>8, <1>9 DEF NeverFaults, Stays
<1> QED  BY <1>10, <1>11, <1>12 DEF Inv, Called

(* Every call does that.                                                    *)
LEMMA NextCalled == Inv /\ [Next]_vars => Called
<1> SUFFICES ASSUME Inv, [Next]_vars PROVE Called
  OBVIOUS
<1>1. mem.spaces \in Nat
  <2>1. mem.spaces \in Space
    BY Fields DEF Inv, TypeOK
  <2> QED  BY <2>1, Layout
<1>2. \A set \in {Sizes, KernelSizes, Freed, Counts} : set \subseteq Nat \ {0}
  BY MemoryAssumption
<1>3. ASSUME NEW m \in Active, NEW n \in Sizes, Malloc(m, n) PROVE Called
  <2>1. m \in 0..mem.spaces /\ n \in Nat /\ n > 0
    BY <1>1, <1>2 DEF Active
  <2> QED  BY <1>3, <2>1, MallocInv
<1>4. ASSUME NEW n \in KernelSizes, KernelMalloc(n) PROVE Called
  <2>1. 0 \in 0..mem.spaces /\ n \in Nat /\ n > 0
    BY <1>1, <1>2
  <2> QED  BY <1>4, <2>1, MallocInv DEF KernelMalloc
<1>5. ASSUME NEW b \in live, Free(b) PROVE Called
  BY <1>5, FreeInv
<1>10. ASSUME NEW b \in live, NEW local \in Locals, FileClose(b, local) PROVE Called
  BY <1>10, FileCloseInv
<1>6. ASSUME NEW c \in Active, NEW o \in Offsets, NEW n \in Counts, Read(c, o, n) PROVE Called
  <2>1. o \in Nat
    <3>1. Offsets \subseteq Nat
      BY MemoryAssumption
    <3> QED  BY <3>1
  <2>2. n \in Nat /\ n > 0
    <3>1. Counts \subseteq Nat \ {0}
      BY MemoryAssumption
    <3> QED  BY <3>1
  <2> QED  BY <1>6, <2>1, <2>2, ReadInv
<1>7. ASSUME NEW c \in 0..mem.spaces, NEW image \in Images \cup BootImages, Exec(c, image) PROVE Called
  <2>1. image \in 0..TABLE * PAGE_SIZE - 1
    BY MemoryAssumption
  <2> QED  BY <1>7, <2>1, ExecInv
<1>8. CASE UNCHANGED vars
  <2>1. Inv'
    BY <1>8 DEF vars, Inv, TypeOK, NeverFaults
  <2>2. mem' = mem
    BY <1>8 DEF vars
  <2>3. Stays(mem, mem', live \cap live')
    BY <2>2 DEF Stays
  <2> QED  BY <2>1, <2>3 DEF Called
<1>9. CASE Next
  <2>1. ASSUME NEW image \in BootImages, mem.spaces = 0, Exec(0, image) PROVE Called
    BY <1>1, <1>7, <2>1
  <2>2. ASSUME NEW c \in Active, NEW image \in Images, Exec(c, image) PROVE Called
    BY <1>1, <1>7, <2>2 DEF Active
  <2> QED  BY <1>3, <1>4, <1>5, <1>6, <1>9, <1>10, <2>1, <2>2 DEF Next
<1> QED  BY <1>8, <1>9

(* Every call keeps the invariant.                                          *)
LEMMA NextInv == Inv /\ [Next]_vars => Inv'
  BY NextCalled DEF Called

-----------------------------------------------------------------------------
(* The theorems. *)

(* Whatever is called in whatever order, the directories, page tables,      *)
(* records, bitmaps and blocks stay what their types say: no index out of   *)
(* range is read or written (memory.cpp, memorymanager and physicalmemory). *)
THEOREM TypeCorrect == Spec => []TypeOK
<1>1. Inv => TypeOK
  BY DEF Inv
<1> QED  BY <1>1, InitInv, NextInv, PTL DEF Spec

(* Blocks in use end below where kdmalloc takes the next one.               *)
LEMMA DisjointStep == Inv => BlocksDisjoint
<1> SUFFICES ASSUME Inv, NeverFaults, NEW b \in live, NEW c \in live, b.space = c.space, b # c
             PROVE  b.addr + b.size <= c.addr \/ c.addr + c.size <= b.addr
  BY DEF BlocksDisjoint
<1>1. Sound(mem, live, mem.end)
  BY DEF Inv
<1>2. Apart(live) /\ b \in Blocks /\ b.size > 0 /\ c \in Blocks /\ c.size > 0
  BY <1>1, SoundFacts
<1>3. Top(b) <= c.addr \/ Top(c) <= b.addr
  BY <1>2 DEF Apart
<1>4. /\ b.addr \in Nat /\ b.addr + b.size \in Nat /\ Top(b) \in Nat /\ b.addr + b.size <= Top(b)
      /\ c.addr \in Nat /\ c.addr + c.size \in Nat /\ Top(c) \in Nat /\ c.addr + c.size <= Top(c)
  BY <1>2, BlockFacts
<1> DEFINE x == b.addr  x1 == b.addr + b.size  x2 == Top(b)
           y == c.addr  y1 == c.addr + c.size  y2 == Top(c)
<1>5. /\ x \in Nat /\ x1 \in Nat /\ x2 \in Nat /\ x1 <= x2
      /\ y \in Nat /\ y1 \in Nat /\ y2 \in Nat /\ y1 <= y2 /\ (x2 <= y \/ y2 <= x)
  BY <1>3, <1>4
<1>6. x1 <= y \/ y1 <= x
  <2> HIDE DEF x, x1, x2, y, y1, y2
  <2> QED  BY <1>5
<1> QED  BY <1>6

(* What Physical finds where Frame finds one.                               *)
LEMMA FrameIs ==
    ASSUME NEW M, NEW m, NEW p
    PROVE  /\ Frame(M, m, p) # 0 => Physical(M, m, p) = Frame(M, m, p) /\ Physical(M, m, p) \in 1..MaxFrame
           /\ Physical(M, m, p) \in 1..MaxFrame => Frame(M, m, p) = Physical(M, m, p) /\ Frame(M, m, p) # 0
<1>1. 0 \notin 1..MaxFrame
  BY Machine
<1> QED  BY <1>1 DEF Frame

(* The kernel's tables are entered in the directory of every space.         *)
LEMMA BackedStep == Inv => BlocksBacked
<1> SUFFICES ASSUME Inv, NeverFaults, NEW b \in live, NEW p \in Pages(b)
             PROVE  /\ Physical(mem, b.space, p) \in InUse
                    /\ b.space = 0 => \A m \in Active : Physical(mem, m, p) = Physical(mem, 0, p)
  BY DEF BlocksBacked
<1>1. Sound(mem, live, mem.end)
  BY DEF Inv
<1>2. /\ mem \in Memories /\ Tables(mem) /\ Taken(mem) /\ Backed(mem, b) /\ b \in Blocks
      /\ mem.spaces \in Space
  BY <1>1, SoundFacts
<1>3. b.space \in Space
  BY <1>2 DEF Blocks
<1>4. p \in Area(b.space) /\ Frame(mem, b.space, p) # 0
  BY <1>2 DEF Backed
<1>5. Physical(mem, b.space, p) \in InUse
  BY <1>2, <1>3, <1>4, FrameIs DEF Taken, InUse
<1>6. ASSUME b.space = 0, NEW m \in Active PROVE Physical(mem, m, p) = Physical(mem, 0, p)
  <2> DEFINE e == p \div TABLE
  <2>1. e \in Entry /\ e < KTABLES
    BY <1>2, <1>3, <1>4, <1>6, FrameAt
  <2>2. m \in 1..mem.spaces
    BY DEF Active
  <2>3. mem.dir[m][e] = mem.dir[0][e]
    BY <1>2, <2>1, <2>2, TablesFacts
  <2> QED  BY <2>3 DEF Physical, Table
<1> QED  BY <1>5, <1>6

(* Two pages with a frame of their own: of programs, of the kernel's        *)
(* blocks, or one of each, which may not be the lent page of an image.      *)
LEMMA ApartStep == Inv => FramesApart
<1> SUFFICES ASSUME Inv, NeverFaults,
                    NEW x \in ProgramPages \cup KernelPages, NEW y \in ProgramPages \cup KernelPages,
                    Physical(mem, x[1], x[2]) = Physical(mem, y[1], y[2])
             PROVE  x = y
  BY DEF FramesApart
<1>1. Sound(mem, live, mem.end)
  BY DEF Inv
<1>2. /\ mem \in Memories /\ Tables(mem) /\ Unique(mem) /\ mem.spaces \in Space
      /\ Lent(mem, live, mem.end) /\ 0 \in Space /\ \A b \in live : Backed(mem, b)
  BY <1>1, SoundFacts
<1>3. ASSUME NEW z \in ProgramPages
      PROVE  /\ z = <<z[1], z[2]>> /\ z[1] \in Space \ {0} /\ z[2] \in Area(z[1])
             /\ Frame(mem, z[1], z[2]) = Physical(mem, z[1], z[2]) /\ Frame(mem, z[1], z[2]) # 0
  <2>1. /\ z = <<z[1], z[2]>> /\ z[1] \in Active /\ z[2] \in ImageStart..StackPage
        /\ Physical(mem, z[1], z[2]) \notin {0, NoFrame}
    BY <1>3 DEF ProgramPages
  <2>2. z[1] \in Space \ {0}
    <3>1. mem.spaces \in Nat /\ MaxProcess \in Nat /\ mem.spaces <= MaxProcess
      BY <1>2, Machine DEF Space
    <3>2. z[1] \in 1..mem.spaces
      BY <2>1 DEF Active
    <3> QED  BY <3>1, <3>2 DEF Space
  <2>3. z[2] \in Area(z[1])
    BY <2>1, <2>2 DEF Area
  <2>4. Physical(mem, z[1], z[2]) \in 1..MaxFrame
    <3>1. Physical(mem, z[1], z[2]) \in 0..NoFrame
      BY <1>2, <2>2, <2>3, Layout, LookedUp
    <3> QED  BY <2>1, <3>1, Machine
  <2> QED  BY <2>1, <2>2, <2>3, <2>4, FrameIs
<1>4. ASSUME NEW z \in KernelPages
      PROVE  /\ z = <<z[1], z[2]>> /\ z[1] = 0 /\ z[2] \in Area(0)
             /\ Frame(mem, z[1], z[2]) = Physical(mem, z[1], z[2]) /\ Frame(mem, z[1], z[2]) # 0
             /\ \E b \in live : b.space = 0 /\ z[2] \in Pages(b)
  <2>1. PICK b \in live : b.space = 0 /\ \E p \in Pages(b) : z = <<0, p>>
    BY <1>4 DEF KernelPages
  <2>2. z = <<z[1], z[2]>> /\ z[1] = 0 /\ z[2] \in Pages(b)
    BY <2>1
  <2>3. z[2] \in Area(0) /\ Frame(mem, 0, z[2]) # 0
    BY <1>2, <2>1, <2>2 DEF Backed
  <2> QED  BY <2>1, <2>2, <2>3, FrameIs
<1>5. /\ x = <<x[1], x[2]>> /\ x[1] \in Space /\ x[2] \in Area(x[1])
      /\ y = <<y[1], y[2]>> /\ y[1] \in Space /\ y[2] \in Area(y[1])
      /\ Frame(mem, x[1], x[2]) = Frame(mem, y[1], y[2]) /\ Frame(mem, x[1], x[2]) # 0
  BY <1>2, <1>3, <1>4
(* A kernel's block never lies on a page that was lent.                     *)
<1>6. ASSUME NEW k \in KernelPages, NEW u \in ProgramPages,
             Frame(mem, k[1], k[2]) = Frame(mem, u[1], u[2])
      PROVE  FALSE
  <2>1. k[1] = 0 /\ k[2] \in Area(0) /\ u[1] \in Space \ {0} /\ u[2] \in Area(u[1])
    BY <1>3, <1>4
  <2>2. Shared(mem, k[2], u[1], u[2])
    BY <1>4, <1>6, <2>1 DEF Shared
  <2>3. \A b \in live : b.space = 0 => k[2] \notin Pages(b)
    BY <1>2, <2>1, <2>2 DEF Lent
  <2> QED  BY <1>4, <2>3
<1>7. (x[1] = 0) <=> (y[1] = 0)
  BY <1>3, <1>4, <1>5, <1>6
<1>8. x[1] = y[1] /\ x[2] = y[2]
  BY <1>2, <1>5, <1>7 DEF Unique
<1> QED  BY <1>5, <1>8

(* As long as the kernel has not gone wrong (NeverFaults says how it could) *)
(* two blocks that malloc, kdmalloc or fread have handed out and that are   *)
(* not freed share no byte, for any sequence of calls: neither does kdfree  *)
(* move the end of a heap back over a block in use.                         *)
THEOREM Disjoint == Spec => []BlocksDisjoint
  BY DisjointStep, InitInv, NextInv, PTL DEF Spec

(* As long as nothing has gone wrong, each page of a block in use lies on a *)
(* frame that the bitmap says is taken, and the kernel sees its own blocks  *)
(* through the directory of every process (initialize copies its entries).  *)
THEOREM BackedByFrames == Spec => []BlocksBacked
  BY BackedStep, InitInv, NextInv, PTL DEF Spec

(* As long as nothing has gone wrong, a frame is never under two pages of   *)
(* programs, nor under one and a block of the kernel: kdfree gives back     *)
(* frames of its block only, and what load_process and file_read hand over  *)
(* to a process the kernel does not use again.                              *)
THEOREM NoFrameTwice == Spec => []FramesApart
  BY ApartStep, InitInv, NextInv, PTL DEF Spec

(* Frames in use are what Physical finds, before the call and after it.     *)
LEMMA StayStep ==
    ASSUME Inv, Next, NeverFaults', NEW b \in live \cap live', NEW p \in Pages(b)
    PROVE  Physical(mem', b.space, p) = Physical(mem, b.space, p)
<1>1. NeverFaults
  BY DEF Next, KernelMalloc, Malloc, Free, FileClose, Read, Exec, Running, NeverFaults
<1>2. Sound(mem, live, mem.end)
  BY <1>1 DEF Inv
<1>3. Frame(mem, b.space, p) # 0
  BY <1>2, PageFacts
<1>4. Stays(mem, mem', live \cap live')
  BY NextCalled DEF Called
<1>5. Frame(mem', b.space, p) = Frame(mem, b.space, p)
  BY <1>4 DEF Stays
<1>6. Physical(mem, b.space, p) = Frame(mem, b.space, p)
  BY <1>3, FrameIs
<1>7. Physical(mem', b.space, p) = Frame(mem', b.space, p)
  BY <1>3, <1>5, FrameIs
<1> QED  BY <1>5, <1>6, <1>7

(* A call that does not go wrong leaves every block that stays in use where *)
(* it is: neither malloc, free, reading into memory nor the constructor of  *)
(* a process enters another frame under it.                                 *)
THEOREM BlocksKept == Spec => BlocksStay
<1>1. ASSUME Inv, [Next]_vars
      PROVE  [NeverFaults' => \A b \in live \cap live' : \A p \in Pages(b) :
                 Physical(mem', b.space, p) = Physical(mem, b.space, p)]_vars
  BY <1>1, StayStep
<1> QED  BY <1>1, InitInv, NextInv, PTL DEF Spec, BlocksStay
==============================================================================
