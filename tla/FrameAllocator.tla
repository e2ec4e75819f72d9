---------------------------- MODULE FrameAllocator ----------------------------
(***************************************************************************)
(* class physical_memory of src/os/cpp/memory.cpp: page frames are handed  *)
(* out by a bitmap with a stack of free frames in front of it.  A frame on *)
(* the stack stays marked as used, so a push and a pop leave the bitmap    *)
(* alone.                                                                  *)
(*                                                                         *)
(* Frames below RESERVED_ALLOCATION_START hold the kernel; those from      *)
(* there to RESERVED_FRAMES are for page directories and page tables,      *)
(* which the kernel addresses directly, and rallocate hands them out;      *)
(* allocate serves everything else.  Both run with interrupts off.         *)
(***************************************************************************)
EXTENDS Integers, FiniteSets, FiniteSetsExt

CONSTANTS
    Bits,                        \* frames a character of the bitmap stands for (8)
    BITMAP_SIZE,                 \* characters of the bitmap
    RESERVED_ALLOCATION_START,   \* the first frame not taken by the kernel
    RESERVED_FRAMES,             \* the first ordinary frame
    STACK_SIZE                   \* frames the stack holds

ASSUME FrameAssumption ==
    /\ Bits \in Nat \ {0} /\ BITMAP_SIZE \in Nat \ {0} /\ STACK_SIZE \in Nat \ {0}
    /\ RESERVED_ALLOCATION_START \in Nat /\ RESERVED_FRAMES \in Nat
    /\ RESERVED_ALLOCATION_START <= RESERVED_FRAMES
    /\ RESERVED_ALLOCATION_START % Bits = 0 /\ RESERVED_FRAMES % Bits = 0
    /\ RESERVED_FRAMES + STACK_SIZE <= Bits * BITMAP_SIZE

VARIABLES
    bitmap,                \* the frames whose bit is set
    stack, stack_top,      \* free frames: stack[stack_top .. STACK_SIZE - 1]
    last_found_character,  \* where search begins
    held,                  \* ghost: ordinary frames handed out and not given back
    tables                 \* ghost: frames rallocate handed out; none ever comes back

vars == <<bitmap, stack, stack_top, last_found_character, held, tables>>

(* Both boundaries fall between characters, and search returns the first   *)
(* clear bit of a character, so that the scans go frame by frame.           *)
Frame == 0..Bits * BITMAP_SIZE - 1
Character == 0..BITMAP_SIZE - 1
Reserved == RESERVED_ALLOCATION_START..RESERVED_FRAMES - 1

Free(lo, hi) == {f \in lo..hi - 1 : f \notin bitmap}

(* search: the first free frame from last_found_character to the end, then  *)
(* from RESERVED_FRAMES up to last_found_character.                         *)
Searched ==
    LET from == Bits * last_found_character
        after == Free(from, Bits * BITMAP_SIZE)
    IN  IF after # {} THEN after ELSE Free(RESERVED_FRAMES, from)
Search == Min(Searched)

Stacked == {stack[i] : i \in stack_top..STACK_SIZE - 1}

(* initialize fills the stack with the first ordinary frames. *)
Init ==
    /\ stack = [i \in 0..STACK_SIZE - 1 |-> RESERVED_FRAMES + STACK_SIZE - 1 - i]
    /\ stack_top = 0
    /\ bitmap = 0..RESERVED_ALLOCATION_START - 1
                   \cup RESERVED_FRAMES..RESERVED_FRAMES + STACK_SIZE - 1
    /\ last_found_character = (RESERVED_FRAMES + STACK_SIZE - 1) \div Bits
    /\ held = {}
    /\ tables = {}

(* A frame from the stack, or, the stack being empty, from the bitmap.  The *)
(* real bitmap covers 4 GB and is not filled: search returns no value then. *)
AllocateStacked ==
    /\ stack_top # STACK_SIZE
    /\ held' = held \cup {stack[stack_top]}
    /\ stack_top' = stack_top + 1
    /\ UNCHANGED <<bitmap, stack, last_found_character, tables>>

AllocateSearched ==
    /\ stack_top = STACK_SIZE
    /\ Searched # {}
    /\ held' = held \cup {Search}
    /\ bitmap' = bitmap \cup {Search}
    /\ last_found_character' = Search \div Bits
    /\ UNCHANGED <<stack, stack_top, tables>>

ReservedFreeToEnd == Free(RESERVED_ALLOCATION_START, Bits * BITMAP_SIZE)    \* mutant

ReservedFree == Free(RESERVED_ALLOCATION_START, RESERVED_FRAMES)

(* rallocate: the first free reserved frame (rlast_found_character is never *)
(* moved).  With none left it returns 0xFFFFFFFF and changes nothing.       *)
Rallocate ==
    /\ ReservedFree # {}
    /\ tables' = tables \cup {Min(ReservedFree)}
    /\ bitmap' = bitmap \cup {Min(ReservedFree)}
    /\ last_found_character' = Min(ReservedFree) \div Bits
    /\ UNCHANGED <<stack, stack_top, held>>

DeallocateTwice(f) ==      \* mutant: marked as unused and pushed on the stack
    /\ f \in held
    /\ held' = held \ {f}
    /\ stack_top # 0
    /\ stack_top' = stack_top - 1
    /\ stack' = [stack EXCEPT ![stack_top - 1] = f]
    /\ bitmap' = bitmap \ {f}
    /\ UNCHANGED <<last_found_character, tables>>

(* A frame comes back to the stack.  If that is full the code clears bits   *)
(* of the character base_address / 8, which lies beyond the bitmap for      *)
(* every frame that is ever handed out: the frame's own bit stays set.      *)
Deallocate(f) ==
    /\ f \in held
    /\ held' = held \ {f}
    /\ IF stack_top # 0
       THEN /\ stack_top' = stack_top - 1
            /\ stack' = [stack EXCEPT ![stack_top - 1] = f]
       ELSE UNCHANGED <<stack, stack_top>>
    /\ UNCHANGED <<bitmap, last_found_character, tables>>

Next ==
    \/ AllocateStacked
    \/ AllocateSearched
    \/ Rallocate
    \/ \E f \in Frame : Deallocate(f)

Spec == Init /\ [][Next]_vars

-----------------------------------------------------------------------------
TypeOK ==
    /\ bitmap \subseteq Frame
    /\ stack \in [0..STACK_SIZE - 1 -> Frame]
    /\ stack_top \in 0..STACK_SIZE
    /\ last_found_character \in Character
    /\ held \subseteq Frame
    /\ tables \subseteq Frame

(* No frame is handed out twice: one that is in use is neither on the stack *)
(* (nor is any frame there twice) nor free in the bitmap, and no frame is   *)
(* a page table and something else.                                         *)
OwnedOnce ==
    /\ held \cap tables = {}
    /\ (held \cup tables) \cap Stacked = {}
    /\ \A i, j \in stack_top..STACK_SIZE - 1 : stack[i] = stack[j] => i = j
    /\ held \cup tables \cup Stacked \subseteq bitmap

(* The frames of the kernel are never handed out, although search can start *)
(* below RESERVED_FRAMES after a call of rallocate, and page tables are     *)
(* always among the frames the kernel addresses directly.                   *)
RegionsKept ==
    /\ held \cup tables \cup Stacked \subseteq RESERVED_ALLOCATION_START..Bits * BITMAP_SIZE - 1
    /\ tables \subseteq Reserved
==============================================================================
