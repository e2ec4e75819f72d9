------------------------ MODULE FrameAllocator_proofs ------------------------
(***************************************************************************)
(* The frame allocator never hands a frame out twice and never hands out a *)
(* frame of the kernel, whatever the sizes of the bitmap and the stack.    *)
(***************************************************************************)
EXTENDS FrameAllocator, WellFoundedInduction, TLAPS

(* Min picks a member of every nonempty set of naturals. *)
LEMMA MinMember ==
    ASSUME NEW T, T \subseteq Nat, T # {}
    PROVE  Min(T) \in T
<1>1. PICK x \in T : \A y \in T : <<y, x>> \notin OpToRel(<, Nat)
  BY WFMin, NatLessThanWellFounded, Zenon
<1>2. \A y \in T : x <= y
  <2>1. SUFFICES ASSUME NEW y \in T PROVE ~(y < x)
    BY SMT
  <2>2. y \in Nat /\ x \in Nat /\ <<y, x>> \notin {ss \in Nat \X Nat : ss[1] < ss[2]}
    BY <1>1 DEF OpToRel
  <2> QED  BY <2>2
<1> QED  BY <1>1, <1>2 DEF Min

(* The character of a frame of the bitmap is a character of the bitmap. *)
LEMMA CharacterOfFrame ==
    ASSUME NEW f \in Frame
    PROVE  f \div Bits \in Character
BY FrameAssumption, Z3 DEF Frame, Character

(* The scans begin at a frame, not below the first one. *)
LEMMA ScanFrom ==
    ASSUME NEW c \in Character
    PROVE  Bits * c \in Nat /\ Bits * c < Bits * BITMAP_SIZE
BY FrameAssumption, Z3 DEF Character

(* What a scan finds is a frame whose bit is clear. *)
LEMMA FreeFrames ==
    ASSUME NEW lo \in Nat, NEW hi \in Nat, hi <= Bits * BITMAP_SIZE, Free(lo, hi) # {}
    PROVE  /\ Min(Free(lo, hi)) \in Frame \ bitmap
           /\ Min(Free(lo, hi)) \in lo..hi - 1
<1>1. Free(lo, hi) \subseteq Nat
  BY DEF Free
<1>2. Min(Free(lo, hi)) \in Free(lo, hi)
  BY <1>1, MinMember
<1>3. Bits * BITMAP_SIZE \in Nat
  BY FrameAssumption
<1> QED  BY <1>2, <1>3 DEF Free, Frame

(* search returns a frame whose bit is clear. *)
LEMMA SearchFindsFree ==
    ASSUME TypeOK, Searched # {}
    PROVE  Search \in Frame \ bitmap
<1> DEFINE from == Bits * last_found_character
<1>1. from \in Nat /\ from < Bits * BITMAP_SIZE
  BY ScanFrom DEF TypeOK
<1>2. Bits * BITMAP_SIZE \in Nat /\ RESERVED_FRAMES \in Nat
  BY FrameAssumption
<1>3. CASE Free(from, Bits * BITMAP_SIZE) # {}
  BY <1>1, <1>2, <1>3, FreeFrames DEF Searched, Search
<1>4. CASE Free(from, Bits * BITMAP_SIZE) = {}
  <2>1. Searched = Free(RESERVED_FRAMES, from)
    BY <1>4 DEF Searched
  <2> QED  BY <1>1, <1>2, <2>1, FreeFrames DEF Search
<1> QED  BY <1>3, <1>4

-----------------------------------------------------------------------------
(* The kernel's own frames stay marked, which is why no scan returns one.   *)
KernelMarked == 0..RESERVED_ALLOCATION_START - 1 \subseteq bitmap

IInv == TypeOK /\ OwnedOnce /\ RegionsKept /\ KernelMarked

(* initialize leaves the stack full of distinct ordinary frames, all marked. *)
LEMMA InitIInv == Init => IInv
<1> SUFFICES ASSUME Init PROVE IInv
  OBVIOUS
<1> USE FrameAssumption DEF Init
<1>0. Bits * BITMAP_SIZE \in Nat
  OBVIOUS
<1>1. \A i \in 0..STACK_SIZE - 1 : stack[i] = RESERVED_FRAMES + STACK_SIZE - 1 - i
  OBVIOUS
<1>2. Stacked = RESERVED_FRAMES..RESERVED_FRAMES + STACK_SIZE - 1
  <2>1. Stacked \subseteq RESERVED_FRAMES..RESERVED_FRAMES + STACK_SIZE - 1
    BY <1>1 DEF Stacked
  <2>2. ASSUME NEW f \in RESERVED_FRAMES..RESERVED_FRAMES + STACK_SIZE - 1
        PROVE  f \in Stacked
    <3>1. RESERVED_FRAMES + STACK_SIZE - 1 - f \in 0..STACK_SIZE - 1
      OBVIOUS
    <3>2. stack[RESERVED_FRAMES + STACK_SIZE - 1 - f] = f
      BY <1>1, <3>1
    <3> QED  BY <3>1, <3>2 DEF Stacked
  <2> QED  BY <2>1, <2>2
<1>3. TypeOK
  <2>1. RESERVED_FRAMES + STACK_SIZE - 1 \in Frame
    BY <1>0 DEF Frame
  <2>2. last_found_character \in Character
    BY <2>1, CharacterOfFrame
  <2>3. \A i \in 0..STACK_SIZE - 1 : RESERVED_FRAMES + STACK_SIZE - 1 - i \in Frame
    BY <1>0 DEF Frame
  <2>4. bitmap \subseteq Frame
    BY <1>0 DEF Frame
  <2> QED  BY <2>2, <2>3, <2>4 DEF TypeOK
<1>4. OwnedOnce
  BY <1>1, <1>2 DEF OwnedOnce
<1>5. RegionsKept
  BY <1>0, <1>2 DEF RegionsKept, Reserved
<1> QED  BY <1>3, <1>4, <1>5 DEF IInv, KernelMarked

(* A pop moves a frame from the stack to its new owner. *)
LEMMA AllocateStackedIInv == IInv /\ AllocateStacked => IInv'
<1> SUFFICES ASSUME IInv, AllocateStacked PROVE IInv'
  OBVIOUS
<1> USE FrameAssumption DEF IInv, AllocateStacked
<1>1. stack_top \in 0..STACK_SIZE - 1 /\ stack_top' = stack_top + 1 /\ stack' = stack
  BY DEF TypeOK
<1>2. Stacked = Stacked' \cup {stack[stack_top]}
  BY <1>1 DEF Stacked
<1>3. stack[stack_top] \notin Stacked'
  BY <1>1 DEF Stacked, OwnedOnce
<1>4. stack[stack_top] \in Frame
  BY <1>1 DEF TypeOK
<1>5. TypeOK'
  BY <1>1, <1>4 DEF TypeOK
<1>6. OwnedOnce'
  <2>1. \A i, j \in stack_top'..STACK_SIZE - 1 : stack'[i] = stack'[j] => i = j
    BY <1>1 DEF OwnedOnce
  <2> QED  BY <1>2, <1>3, <2>1 DEF OwnedOnce
<1>7. RegionsKept' /\ KernelMarked'
  BY <1>2 DEF RegionsKept, KernelMarked
<1> QED  BY <1>5, <1>6, <1>7

(* A frame found in the bitmap is nobody's, and is marked at once. *)
LEMMA MarkIInv ==
    ASSUME IInv, NEW f \in Frame \ bitmap,
           bitmap' = bitmap \cup {f}, last_found_character' = f \div Bits,
           UNCHANGED <<stack, stack_top>>,
           \/ held' = held \cup {f} /\ tables' = tables
           \/ tables' = tables \cup {f} /\ held' = held /\ f \in Reserved
    PROVE  IInv'
<1> USE FrameAssumption DEF IInv
<1>1. Stacked' = Stacked
  BY DEF Stacked
<1>2. f \in RESERVED_ALLOCATION_START..Bits * BITMAP_SIZE - 1
  BY DEF KernelMarked, Frame
<1>3. TypeOK'
  BY CharacterOfFrame DEF TypeOK
<1>4. OwnedOnce'
  <2>1. \A i, j \in stack_top'..STACK_SIZE - 1 : stack'[i] = stack'[j] => i = j
    BY DEF OwnedOnce
  <2> QED  BY <1>1, <2>1 DEF OwnedOnce
<1>5. RegionsKept' /\ KernelMarked'
  BY <1>1, <1>2 DEF RegionsKept, KernelMarked
<1> QED  BY <1>3, <1>4, <1>5

(* allocate with an empty stack. *)
LEMMA AllocateSearchedIInv == IInv /\ AllocateSearched => IInv'
<1> SUFFICES ASSUME IInv, AllocateSearched PROVE IInv'
  OBVIOUS
<1>1. Search \in Frame \ bitmap
  BY SearchFindsFree DEF IInv, AllocateSearched
<1> QED  BY <1>1, MarkIInv DEF AllocateSearched

(* rallocate. *)
LEMMA RallocateIInv == IInv /\ Rallocate => IInv'
<1> DEFINE f == Min(ReservedFree)
<1> SUFFICES ASSUME IInv, Rallocate PROVE IInv'
  OBVIOUS
<1>1. RESERVED_FRAMES <= Bits * BITMAP_SIZE
  BY FrameAssumption
<1>2. f \in Frame \ bitmap /\ f \in Reserved
  BY <1>1, FreeFrames, FrameAssumption DEF Rallocate, ReservedFree, Reserved
<1>3. /\ tables' = tables \cup {f}
      /\ bitmap' = bitmap \cup {f}
      /\ last_found_character' = f \div Bits
      /\ UNCHANGED <<stack, stack_top, held>>
  BY DEF Rallocate
<1> HIDE DEF f
<1> QED  BY <1>2, <1>3, MarkIInv

(* A push keeps the frame's bit; with the stack full the frame is nobody's. *)
LEMMA DeallocateIInv ==
    ASSUME NEW f \in Frame
    PROVE  IInv /\ Deallocate(f) => IInv'
<1> SUFFICES ASSUME IInv, Deallocate(f) PROVE IInv'
  OBVIOUS
<1> USE FrameAssumption DEF IInv, Deallocate
<1>1. CASE stack_top # 0
  <2>1. stack_top \in 1..STACK_SIZE /\ stack_top' = stack_top - 1
    BY <1>1 DEF TypeOK
  <2>2. /\ stack'[stack_top - 1] = f
        /\ \A i \in stack_top..STACK_SIZE - 1 : stack'[i] = stack[i]
    BY <1>1, <2>1 DEF TypeOK
  <2>3. Stacked' = Stacked \cup {f}
    BY <2>1, <2>2 DEF Stacked
  <2>4. f \notin Stacked
    BY DEF OwnedOnce
  <2>5. TypeOK'
    BY <1>1, <2>1 DEF TypeOK
  <2>6. ASSUME NEW i \in stack_top'..STACK_SIZE - 1, NEW j \in stack_top'..STACK_SIZE - 1,
               stack'[i] = stack'[j]
        PROVE  i = j
    <3>1. \A k \in stack_top..STACK_SIZE - 1 : stack'[k] \in Stacked
      BY <2>2 DEF Stacked
    <3> QED  BY <2>1, <2>2, <2>4, <2>6, <3>1 DEF OwnedOnce
  <2>7. OwnedOnce'
    BY <2>3, <2>6 DEF OwnedOnce
  <2>8. RegionsKept' /\ KernelMarked'
    BY <2>3 DEF RegionsKept, KernelMarked
  <2> QED  BY <2>5, <2>7, <2>8
<1>2. CASE stack_top = 0
  <2>1. Stacked' = Stacked /\ UNCHANGED <<stack, stack_top>>
    BY <1>2 DEF Stacked
  <2>2. \A i, j \in stack_top'..STACK_SIZE - 1 : stack'[i] = stack'[j] => i = j
    BY <2>1 DEF OwnedOnce
  <2> QED  BY <2>1, <2>2 DEF TypeOK, OwnedOnce, RegionsKept, KernelMarked
<1> QED  BY <1>1, <1>2

(* Every step of the allocator keeps the invariant. *)
LEMMA NextIInv == IInv /\ [Next]_vars => IInv'
<1> SUFFICES ASSUME IInv, [Next]_vars PROVE IInv'
  OBVIOUS
<1>1. CASE AllocateStacked
  BY <1>1, AllocateStackedIInv
<1>2. CASE AllocateSearched
  BY <1>2, AllocateSearchedIInv
<1>3. CASE Rallocate
  BY <1>3, RallocateIInv
<1>4. CASE \E f \in Frame : Deallocate(f)
  BY <1>4, DeallocateIInv
<1>5. CASE UNCHANGED vars
  BY <1>5 DEF vars, IInv, TypeOK, OwnedOnce, RegionsKept, KernelMarked, Stacked
<1> QED  BY <1>1, <1>2, <1>3, <1>4, <1>5 DEF Next

(* The variables keep their types: in particular search never leaves        *)
(* last_found_character outside the bitmap.                                 *)
THEOREM TypeCorrect == Spec => []TypeOK
<1>1. IInv => TypeOK
  BY DEF IInv
<1> QED  BY <1>1, InitIInv, NextIInv, PTL DEF Spec

(* memory.cpp's allocate, rallocate and deallocate never give one frame to  *)
(* two owners.                                                              *)
THEOREM FramesOwnedOnce == Spec => []OwnedOnce
<1>1. IInv => OwnedOnce
  BY DEF IInv
<1> QED  BY <1>1, InitIInv, NextIInv, PTL DEF Spec

(* They never give out a frame of the kernel, and page tables only from the *)
(* reserved region.                                                         *)
THEOREM RegionsAreKept == Spec => []RegionsKept
<1>1. IInv => RegionsKept
  BY DEF IInv
<1> QED  BY <1>1, InitIInv, NextIInv, PTL DEF Spec
==============================================================================
