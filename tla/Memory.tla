-------------------------------- MODULE Memory --------------------------------
(***************************************************************************)
(* class logical_memory of src/os/cpp/memory.cpp, page directories and     *)
(* heaps, and what the file manager and the process constructor do with    *)
(* them: read a file into fresh kernel pages, move whole pages into the    *)
(* address space of the reader or of a new process, copy the rest.         *)
(*                                                                         *)
(* mem is the memory as these routines see it.  A routine that calls       *)
(* others is an operator from one memory to the next, so that an action is *)
(* a whole system call; all of this runs with interrupts off or while      *)
(* every other process waits.                                              *)
(*                                                                         *)
(* A heap only grows: kdmalloc hands out memory at kdm_end_pointer.  What  *)
(* kdfree gives back is recorded at the upper end of its page, and the     *)
(* search of those records is commented out.  Space 0 is klm, the kernel's *)
(* own; space m > 0 belongs to process m.                                  *)
(***************************************************************************)
EXTENDS Integers, Sequences, FiniteSets, SequencesExt

CONSTANTS
    PAGE_SIZE,       \* bytes of a page (4096)
    TABLE,           \* pages under one page table (1024)
    KTABLES,         \* page tables of the kernel heap, made at boot (4)
    S,               \* sectors of a cluster
    MaxProcess,      \* bound: address spaces 1..MaxProcess are made
    MaxFrame,        \* bound: ordinary frames 1..MaxFrame
    MaxTable,        \* bound: reserved frames 1..MaxTable
    MaxHeap,         \* bound: pages of a program's heap
    MaxCalls,        \* bound: calls of any kind
    Sizes,           \* sizes programs ask malloc for
    KernelSizes,     \* sizes the kernel asks for
    Freed,           \* sizes that are given back
    Counts, Offsets, \* lengths of reads, and where in a cluster they begin
    Locals,          \* where in a kernel stack fclose's parameter can be
    Images,          \* lengths of program images, behind the four bytes read first
    BootImages       \* and of the one the kernel starts at boot

ASSUME MemoryAssumption ==
    /\ PAGE_SIZE \in Nat /\ PAGE_SIZE > 512 /\ PAGE_SIZE % 512 = 0 /\ TABLE \in Nat \ {0} /\ KTABLES \in Nat \ {0}
    /\ S \in Nat \ {0} /\ MaxProcess \in Nat \ {0} /\ MaxCalls \in Nat /\ MaxHeap \in Nat
    /\ MaxFrame \in Nat \ {0} /\ MaxTable \in Nat /\ KTABLES <= MaxTable
    /\ \A set \in {Sizes, KernelSizes, Freed, Counts} : set \subseteq Nat \ {0}
    /\ Offsets \subseteq 0..512 * S - 1 /\ Locals \subseteq 0..PAGE_SIZE - 64
    /\ Images \cup BootImages \subseteq 0..TABLE * PAGE_SIZE - 1

VARIABLES
    mem,     \* the memory, see TypeOK
    live,    \* ghost: blocks in use, [space, addr, size]
    intact,  \* ghost: no record is known to be wrong, see Spoils
    calls    \* how many calls there have been

vars == <<mem, live, intact, calls>>

Space == 0..MaxProcess
(* Directory entries: the kernel heap's, then where programs begin          *)
(* (0x2000000), where user heaps begin (0x40000000), and what holds the     *)
(* last page (0xfffff000); the kernel's identity mapping is left out.       *)
Entry == 0..KTABLES + 3
ImageStart == KTABLES * TABLE
HeapStart == (KTABLES + 1) * TABLE
StackPage == (KTABLES + 4) * TABLE - 1

(* get_physical_address of a page without a page table is 0xFFFFFFFF, and   *)
(* 0 of one that is not present; rallocate without a frame is 0xFFFFFFFF.   *)
NoFrame == MaxFrame + 1
NoTable == MaxTable + 1

PageOf(a) == a \div PAGE_SIZE

(* The addresses a space maps for itself.  The code does not stop at their  *)
(* end: where the kernel's heap would reach the programs' the model ends.   *)
Area(m) == IF m = 0 THEN 0..ImageStart - 1 ELSE ImageStart..StackPage

(* A page that can hold freed blocks ends with kdm_page_attribute: how far  *)
(* blocks may reach, and below it the freed blocks (kdm_heap_entry).        *)
Attribute == 4
HeapEntry == 3
NewHeap == [vhp |-> PAGE_SIZE - Attribute - HeapEntry, free |-> <<>>]
NoHeap == [vhp |-> -1, free |-> <<>>]

-----------------------------------------------------------------------------
(* Page tables. *)

Table(M, m, p) == IF p \div TABLE \in Entry THEN M.dir[m][p \div TABLE] ELSE 0
Physical(M, m, p) ==
    IF Table(M, m, p) = 0 THEN NoFrame ELSE M.tab[Table(M, m, p)][p % TABLE]
(* get_page_attributes answers -1, every bit set, where there is no table. *)
Present(M, m, p) == Physical(M, m, p) # 0
HeapOf(M, m, a) ==
    LET f == Physical(M, m, PageOf(a)) IN IF f \in 1..MaxFrame THEN M.heap[f] ELSE NoHeap

Fault(M, what) == [M EXCEPT !.fault = what]

Rallocated(M) == IF M.reserved = {} THEN NoTable ELSE Min(M.reserved)
Rallocate(M) ==
    [M EXCEPT !.reserved = @ \ {Rallocated(M)},
              !.tab[Rallocated(M)] = [i \in 0..TABLE - 1 |-> 0],
              !.fault = IF M.reserved = {} THEN "tables" ELSE @]

WithTable(M, m, e) ==
    IF M.dir[m][e] # 0 THEN M ELSE [Rallocate(M) EXCEPT !.dir[m][e] = Rallocated(M)]

(* map: its third argument, the attributes, is not used. *)
Map(M, m, p, f) ==
    LET Enter(N) == [N EXCEPT !.tab[Table(N, m, p)][p % TABLE] = f]
    IN  IF p \in Area(m) THEN Enter(WithTable(M, m, p \div TABLE)) ELSE Fault(M, "space")

SetPageAttribute(M, m, p) ==    \* with 0x0 or 0x800: the page is not present any more
    IF Table(M, m, p) = 0 THEN M ELSE [M EXCEPT !.tab[Table(M, m, p)][p % TABLE] = 0]

(* map of a frame from pm.allocate, with or without a heap at its end.  The *)
(* frame is any that is not in use: FrameAllocator promises no more.        *)
MapNew(M, m, p, heap) ==
    LET f == Min(M.frames)
    IN  IF M.frames = {} THEN Fault(M, "frames")
        ELSE [Map(M, m, p, f) EXCEPT !.frames = @ \ {f}, !.heap[f] = heap]

MapData(M, m, p, n) ==
    LET done[i \in 0..n] == IF i = 0 THEN M ELSE MapNew(done[i - 1], m, p + i - 1, NoHeap)
    IN  done[n]

-----------------------------------------------------------------------------
(* The freed blocks of a page. *)

(* check_heap joins a freed block with the one before it and the one after. *)
(* The first join is entered at its place (the); a second one is added to   *)
(* that and its own entry removed, the offset being taken from it whether   *)
(* it lies before or behind.  Behind the last entry the page is zero.  The  *)
(* two fields of an entry have twelve bits.                                 *)
Joined(s, i) ==
    LET e == s.free[i]
        before == e.offset + e.size = s.offset
        after == s.offset + s.size = e.offset
        block == [offset |-> IF before THEN e.offset ELSE s.offset, size |-> (s.size + e.size) % PAGE_SIZE]
        merged == [offset |-> e.offset, size |-> (s.free[s.the].size + e.size) % PAGE_SIZE]
        Behind(f) == Append(RemoveAt(f, i), [offset |-> 0, size |-> 0])
    IN  CASE ~before /\ ~after -> s
          [] s.the = 0 -> [s EXCEPT !.free[i] = block, !.the = i,
                                    !.offset = block.offset, !.size = block.size]
          [] OTHER ->
               [s EXCEPT !.free = Behind([s.free EXCEPT ![s.the] = merged]),
                         !.vhp = @ + HeapEntry, !.count = @ - 1]

CheckHeap(h, o, n) ==
    LET start == [free |-> h.free, vhp |-> h.vhp, count |-> Len(h.free),
                  the |-> 0, offset |-> o, size |-> n]
        done[i \in 0..Len(h.free)] == IF i = 0 THEN start ELSE Joined(done[i - 1], i)
        s == done[Len(h.free)]
        new == [offset |-> o, size |-> n % PAGE_SIZE]
    IN  CASE h.free = <<>> -> [h EXCEPT !.free = <<new>>]
          [] s.the = 0 -> [vhp |-> h.vhp + HeapEntry, free |-> Append(h.free, new)]
          [] OTHER -> [vhp |-> s.vhp, free |-> SubSeq(s.free, 1, s.count)]

(* heapify: each entry in turn rises past its smaller ancestors. *)
Risen(h, i) ==
    LET path == {j \in 1..i : j = i \/ \E d \in 1..i : i \div 2^d = j}
        place == Min({j \in path : \A k \in path : j <= k /\ k < i => h[k].size < h[i].size})
    IN  [j \in DOMAIN h |-> IF j = place THEN h[i]
                            ELSE IF j \in path /\ j > place THEN h[j \div 2] ELSE h[j]]
Heapify(h) ==
    LET done[i \in 0..Len(h)] == IF i = 0 THEN h ELSE Risen(done[i - 1], i)
    IN  done[Len(h)]

(* check_heap and heapify: of a page that has no heap they change whatever *)
(* its last bytes are.                                                      *)
AddFree(M, m, a, n) ==
    IF HeapOf(M, m, a) = NoHeap
    THEN Fault(M, "record")
    ELSE LET h == CheckHeap(HeapOf(M, m, a), a % PAGE_SIZE, n)
         IN  [M EXCEPT !.heap[Physical(M, m, PageOf(a))] = [h EXCEPT !.free = Heapify(h.free)]]

-----------------------------------------------------------------------------
(* kdmalloc.  Each case returns the memory; the block begins where Block   *)
(* says.  More than PAGE_SIZE - 10 bytes begin at a page of their own, and  *)
(* what was left of the page before is recorded as free.                    *)
Whole(n) == n > PAGE_SIZE - 10
NextPage(M, m) == PageOf(M.end[m]) + (IF M.end[m] % PAGE_SIZE = 0 THEN 0 ELSE 1)

MallocPagesUnset(M, m, n) ==      \* mutant: the last page's attribute is not set
    LET p == NextPage(M, m)
        k == n \div PAGE_SIZE
        rest == n % PAGE_SIZE
    IN  [MapData(M, m, p, IF rest = 0 THEN k ELSE k + 1) EXCEPT
            !.end[m] = IF Whole(rest) THEN (p + k + 1) * PAGE_SIZE ELSE (p + k) * PAGE_SIZE + rest]

MallocPages(M, m, n) ==
    LET e == M.end[m]
        rest == n % PAGE_SIZE
        p == NextPage(M, m)
        k == n \div PAGE_SIZE
        Left == IF Table(M, m, PageOf(e)) # 0 /\ Present(M, m, PageOf(e))
                THEN AddFree(M, m, e, HeapOf(M, m, e).vhp - (e % PAGE_SIZE))
                ELSE M
        WithRest(N) ==
            CASE rest = 0 -> [N EXCEPT !.end[m] = (p + k) * PAGE_SIZE]
              [] Whole(rest) ->
                   [MapNew(N, m, p + k, NoHeap) EXCEPT !.end[m] = (p + k + 1) * PAGE_SIZE]
              [] OTHER ->
                   [MapNew(N, m, p + k, NewHeap) EXCEPT !.end[m] = (p + k) * PAGE_SIZE + rest]
    IN  WithRest(MapData(Left, m, p, k))

FitsToEnd(M, m, n) == (M.end[m] % PAGE_SIZE) + n < PAGE_SIZE      \* mutant: no room for records

(* Does a block of n bytes fit in the page the last one ended in? *)
Fits(M, m, n) == (M.end[m] % PAGE_SIZE) + n < HeapOf(M, m, M.end[m]).vhp - 3

(* What lies at the end of the page is taken for its record as it is. *)
Recorded(M, m, a) == HeapOf(M, m, a) # NoHeap /\ HeapOf(M, m, a).vhp <= PAGE_SIZE

MallocSmallUnlooked(M, m, n) ==      \* mutant: does not look whether the page is there
    [MapNew(M, m, PageOf(M.end[m]), NewHeap) EXCEPT !.end[m] = @ + n]

MallocSmall(M, m, n) ==
    LET e == M.end[m]
    IN  CASE ~Present(M, m, PageOf(e)) ->
               [MapNew(M, m, PageOf(e), NewHeap) EXCEPT !.end[m] = e + n]
          [] Present(M, m, PageOf(e)) /\ ~Recorded(M, m, e) -> Fault(M, "record")
          [] Present(M, m, PageOf(e)) /\ Recorded(M, m, e) /\ Fits(M, m, n) ->
               [M EXCEPT !.end[m] = e + n, !.heap[Physical(M, m, PageOf(e))].vhp = @ - HeapEntry]
          [] OTHER ->
               [MapNew(M, m, PageOf(e) + 1, NewHeap) EXCEPT
                    !.end[m] = (PageOf(e) + 1) * PAGE_SIZE + n]

Kdmalloc(M, m, n) == IF Whole(n) THEN MallocPages(M, m, n) ELSE MallocSmall(M, m, n)

(* The block of n bytes that kdmalloc hands out: one that is smaller than a *)
(* page follows the last one if its page is not there yet or has room.      *)
Follows(M, m, n) == ~Present(M, m, PageOf(M.end[m])) \/ Fits(M, m, n)
Block(M, m, n) ==
    [space |-> m, size |-> n,
     addr |-> IF Whole(n) THEN NextPage(M, m) * PAGE_SIZE
              ELSE IF Follows(M, m, n) THEN M.end[m] ELSE (PageOf(M.end[m]) + 1) * PAGE_SIZE]

KdfreeMovesEnd(M, m, a, n) ==      \* mutant: the end moves back to whatever is given back
    IF Whole(n % PAGE_SIZE) THEN SetPageAttribute(M, m, PageOf(a)) ELSE [M EXCEPT !.end[m] = a]

KdfreeKeepsPage(M, m, a, n) ==      \* mutant: the page given back stays present
    IF Whole(n % PAGE_SIZE) THEN [M EXCEPT !.frames = @ \cup {Physical(M, m, PageOf(a))}]
    ELSE IF a + n = M.end[m] THEN [M EXCEPT !.end[m] = a] ELSE AddFree(M, m, a, n)

(* kdfree.  The loop that should give back whole pages compares an address *)
(* with a number of pages and never runs.  The last block handed out moves  *)
(* kdm_end_pointer back, others are recorded in the page they begin in.     *)
Kdfree(M, m, a, n) ==
    LET f == Physical(M, m, PageOf(a))
    IN  CASE Whole(n % PAGE_SIZE) ->
               [SetPageAttribute(M, m, PageOf(a)) EXCEPT !.frames = @ \cup {f}]
          [] ~Whole(n % PAGE_SIZE) /\ a + n = M.end[m] ->
               IF HeapOf(M, m, a) = NoHeap THEN [M EXCEPT !.end[m] = a]
               ELSE [M EXCEPT !.end[m] = a, !.heap[f].vhp = @ + HeapEntry]
          [] OTHER -> AddFree(M, m, a, n)

-----------------------------------------------------------------------------
(* Reading into memory: fread, and filemanager::read on top of it. *)

(* fread: how many clusters are read for count bytes from o bytes behind   *)
(* the beginning of a cluster.                                              *)
NoOfClstrs(o, count) ==
    LET sec == o \div 512 + (IF o % 512 = 0 THEN 0 ELSE 1)
        first == 512 - (o % 512)
    IN  sec \div S + (IF count > first THEN ((sec % S) + (count - first) \div 512) \div S ELSE 0) + 1

(* A buffer of whole clusters in the kernel's heap; the bytes asked for    *)
(* begin o bytes behind its beginning.                                      *)
FreadSize(o, count) == NoOfClstrs(o, count) * S * 512
Fread(M, o, count) == Kdmalloc(M, 0, FreadSize(o, count))
FreadAt(M, o, count) == Block(M, 0, FreadSize(o, count)).addr + o

(* A page of the kernel's becomes page p of space m. *)
Handed(M, m, p, q) == SetPageAttribute(Map(M, m, p, Physical(M, 0, q)), 0, q)

(* The reader's address space gets the whole pages, from whatever page the *)
(* bytes begin in, and loses the frames kdmalloc had put there.             *)
MovePages(M, m, to, from, n) ==
    LET done[i \in 0..n] ==
            IF i = 0 THEN M ELSE Handed(done[i - 1], m, to + i - 1, from + i - 1)
    IN  done[n]

(* What is left is copied: the kernel reads from the page behind. *)
CopyFrom(M, c, a) == IF Physical(M, c, PageOf(a)) \in 1..MaxFrame THEN M ELSE Fault(M, "page")


(* filemanager::read for the space c that is active. *)
ReadFile(M, c, o, count) ==
    LET Moved(N, from) ==
            MovePages(Kdmalloc(N, c, count), c, PageOf(Block(N, c, count).addr),
                      PageOf(from), count \div PAGE_SIZE)
        Delivered(N, from) ==
            IF count % PAGE_SIZE = 0 THEN Moved(N, from)
            ELSE CopyFrom(Moved(N, from), c, from + count - 1)
    IN  IF c = 0 THEN Fread(M, o, count)
        ELSE Delivered(Fread(M, o, count), FreadAt(M, o, count))
ReadAt(M, c, o, count) ==
    IF c = 0 THEN FreadAt(M, o, count) ELSE Block(Fread(M, o, count), c, count).addr

-----------------------------------------------------------------------------
(* Address spaces. *)

InitializeIdentity(M, m) ==      \* mutant: the entries of the kernel's heap are not copied
    LET N == [Rallocate(M) EXCEPT !.end[m] = HeapStart * PAGE_SIZE, !.spaces = m]
    IN  WithTable(MapNew(N, m, StackPage, NoHeap), m, KTABLES + 1)

(* initialize_memory of a process: the kernel's part is copied entry by     *)
(* entry, the last page and the first table of the heap are made.           *)
Initialize(M, m) ==
    LET N == [Rallocate(M) EXCEPT !.end[m] = HeapStart * PAGE_SIZE, !.spaces = m,
                  !.dir[m] = [e \in Entry |-> IF e < KTABLES THEN M.dir[0][e] ELSE 0]]
    IN  WithTable(MapNew(N, m, StackPage, NoHeap), m, KTABLES + 1)

(* One page of an image: read, entered in the new space and taken away from *)
(* the kernel's.  The address read returns is looked up in klm whoever is   *)
(* active.                                                                  *)
LoadPage(M, c, m, i) ==
    LET o == (4 + i * PAGE_SIZE) % (512 * S)
    IN  Handed(ReadFile(M, c, o, PAGE_SIZE), m, ImageStart + i, PageOf(ReadAt(M, c, o, PAGE_SIZE)))

(* The last part of an image is copied into a page of its own. *)
LoadRest(M, c, m, i, n) ==
    LET Enter(N, p) == Map(N, m, ImageStart + i, Physical(N, 0, p))
        Copy(N) == Enter(Kdmalloc(N, 0, PAGE_SIZE), PageOf(Block(N, 0, PAGE_SIZE).addr))
    IN  IF n = 0 THEN M ELSE Copy(ReadFile(M, c, (4 + i * PAGE_SIZE) % (512 * S), n))

(* process, buffer pointer and logical_memory; the kernel stack and the     *)
(* element of the ready queue at the end.                                   *)
ObjectSizes == <<1576, 4, 12>>
StackSize == PAGE_SIZE
ElementSize == 16
(* What the IDENTIFY command returns, and an entry of the file table. *)
IdentifySize == 512
FileTableSize == 36

Objects(M) ==
    Kdmalloc(Kdmalloc(Kdmalloc(M, 0, ObjectSizes[1]), 0, ObjectSizes[2]), 0, ObjectSizes[3])

(* The constructor of process, run while c is active. *)
Loaded(M, c, m, image) ==
    LET k == image \div PAGE_SIZE
        start == ReadFile(Initialize(Objects(M), m), c, 0, 4)
        done[i \in 0..k] == IF i = 0 THEN start ELSE LoadPage(done[i - 1], c, m, i - 1)
    IN  LoadRest(done[k], c, m, k, image % PAGE_SIZE)

-----------------------------------------------------------------------------
(* At boot the tables of the kernel's heap are made. *)
Init ==
    /\ mem = [dir      |-> [m \in Space |-> [e \in Entry |-> IF m = 0 /\ e < KTABLES
                                                             THEN e + 1 ELSE 0]],
              tab      |-> [t \in 1..NoTable |-> [i \in 0..TABLE - 1 |-> 0]],
              end      |-> [m \in Space |-> 0],
              heap     |-> [f \in 1..MaxFrame |-> NoHeap],
              frames   |-> 1..MaxFrame,
              reserved |-> KTABLES + 1..MaxTable,
              spaces   |-> 0,
              fault    |-> "none"]
    /\ live = {}
    /\ intact = TRUE
    /\ calls = 0

Running(frames) ==
    /\ mem.fault = "none" /\ Cardinality(mem.frames) >= frames
    /\ calls < MaxCalls /\ calls' = calls + 1
Active == 1..mem.spaces

(* Does a block of n bytes lie within the first MaxHeap pages of a heap? *)
Within(m, n) == m > 0 => PageOf(mem.end[m]) + PageOf(n) + 1 < HeapStart + MaxHeap

(* memoryhandler, ebx = 1: malloc. *)
Malloc(m, n) ==
    /\ Running(PageOf(n) + 1) /\ Within(m, n)
    /\ mem' = Kdmalloc(mem, m, n)
    /\ live' = live \cup {Block(mem, m, n)}
    /\ UNCHANGED intact

(* The kernel needs memory: operator new, buffers, list elements. *)
KernelMalloc(n) == Malloc(0, n)

(* Two ways in which kdfree is known to leave a wrong record: a block that *)
(* touches two records is joined with the second at the wrong offset, and   *)
(* of a block of several pages the first, which ends with no record, is     *)
(* given one, or the end goes back to it.                                   *)
Spoils(b) ==
    LET a == b.addr % PAGE_SIZE
        free == HeapOf(mem, b.space, b.addr).free
    IN  \/ b.size >= PAGE_SIZE /\ ~Whole(b.size % PAGE_SIZE)
        \/ \E i, j \in DOMAIN free :
               free[i].offset + free[i].size = a /\ a + b.size = free[j].offset

(* memoryhandler, ebx = 2: free; and the buffer of the IDENTIFY command,   *)
(* which is all the kernel gives back of its own.                           *)
Free(b) ==
    /\ Running(0)
    /\ b.space = 0 => b.size = IdentifySize
    /\ mem' = Kdfree(mem, b.space, b.addr, b.size)
    /\ live' = live \ {b}
    /\ intact' = (intact /\ ~Spoils(b))

(* fclose gives its entry back with kdfree(&traverse, ...), the address of *)
(* its own parameter in the kernel stack b.  The stack's page ends with     *)
(* what the system call has pushed, ss on top of user_esp: taken for a page *)
(* attribute it says that nothing was freed, and the record of the          *)
(* parameter goes over user_esp.  filesystemhandler puts user_esp back, and *)
(* the next system call pushes both anew.                                   *)
Pushed == [vhp |-> 43, free |-> <<>>]
FileClose(b, local) ==
    LET f == Physical(mem, 0, PageOf(b.addr))
        N == Kdfree([mem EXCEPT !.heap[f] = Pushed], 0, b.addr + local, FileTableSize)
    IN  /\ Running(0)
        /\ b.space = 0 /\ b.size = StackSize
        /\ mem' = [N EXCEPT !.heap[f] = mem.heap[f]]
        /\ UNCHANGED <<live, intact>>

(* A program reads a file; the block it gets is its own. *)
Read(c, o, count) ==
    /\ Running(2 * PageOf(count) + 4) /\ Within(c, count)
    /\ mem' = ReadFile(mem, c, o, count)
    /\ live' = live \cup {Block(Fread(mem, o, count), c, count)}
    /\ UNCHANGED intact

(* A process is made, at boot by the kernel, later by a process. *)
Exec(c, image) ==
    LET m == mem.spaces + 1
        Queue(N, stack) ==
            /\ mem' = Kdmalloc(N, 0, ElementSize)
            /\ live' = live \cup {stack, Block(N, 0, ElementSize)}
            /\ UNCHANGED intact
        Start(N) == Queue(Kdmalloc(N, 0, StackSize), Block(N, 0, StackSize))
    IN  /\ Running(5 * PageOf(image) + 8)
        /\ m \in Space
        /\ Start(Loaded(mem, c, m, image))

Next ==
    \/ \E m \in Active, n \in Sizes : Malloc(m, n)
    \/ \E n \in KernelSizes : KernelMalloc(n)
    \/ \E b \in live : b.size \in Freed /\ Free(b)
    \/ \E b \in live, local \in Locals : FileClose(b, local)
    \/ \E c \in Active, o \in Offsets, n \in Counts : Read(c, o, n)
    \/ \E image \in BootImages : mem.spaces = 0 /\ Exec(0, image)
    \/ \E c \in Active, image \in Images : Exec(c, image)

Spec == Init /\ [][Next]_vars

-----------------------------------------------------------------------------
Pages(b) == PageOf(b.addr)..PageOf(b.addr + b.size - 1)
InUse == 1..MaxFrame \ mem.frames

Faults == {"record", "tables", "page", "frames", "space"}
Heaps == [vhp : Int, free : Seq([offset : Nat, size : Nat])]
Memories == [dir : [Space -> [Entry -> 0..NoTable]], tab : [1..NoTable -> [0..TABLE - 1 -> 0..NoFrame]],
             end : [Space -> Nat], heap : [1..MaxFrame -> Heaps], frames : SUBSET (1..MaxFrame),
             reserved : SUBSET (1..MaxTable), spaces : Space, fault : Faults \cup {"none"}]
Blocks == [space : Space, addr : Nat, size : Nat]

TypeOK == mem \in Memories /\ live \subseteq Blocks /\ intact \in BOOLEAN /\ calls \in 0..MaxCalls

(* The model ends where the kernel takes for the record of a page what is  *)
(* none, copies from a page that is not there, has no frame for a page or   *)
(* page table, or maps beyond the addresses of a space.                     *)
NeverFaults == mem.fault = "none"

(* Blocks in use do not overlap, as long as none of that has happened. *)
BlocksDisjoint ==
    NeverFaults => \A b, c \in live : b.space = c.space /\ b # c =>
        b.addr + b.size <= c.addr \/ c.addr + c.size <= b.addr

(* Unless a block was freed that Spoils: the kernel never takes what is no  *)
(* record for one, but at the end of its stack (FileClose), records stay    *)
(* within their page, and blocks in use do not reach the records, which     *)
(* grow towards them from the end of the page.                              *)
RecordsApart == intact =>
    /\ mem.fault # "record"
    /\ \A f \in 1..MaxFrame :
          /\ mem.heap[f].vhp \in -1..PAGE_SIZE
          /\ \A i \in DOMAIN mem.heap[f].free :
                mem.heap[f].free[i] \in [offset : 0..PAGE_SIZE, size : 0..PAGE_SIZE]
    /\ \A b \in live :
          LET h == HeapOf(mem, b.space, b.addr)
          IN  h # NoHeap => (b.addr % PAGE_SIZE) + b.size
                              <= PAGE_SIZE - Attribute - HeapEntry * Len(h.free)

(* Every page of a block in use lies on a frame that was allocated for it,  *)
(* and the kernel's blocks are where the kernel expects them whoever runs.  *)
BlocksBacked ==
    NeverFaults => \A b \in live : \A p \in Pages(b) :
        /\ Physical(mem, b.space, p) \in InUse
        /\ b.space = 0 => \A m \in Active : Physical(mem, m, p) = Physical(mem, 0, p)

(* No frame lies under two pages of programs, or under a page of a program  *)
(* and a block of the kernel.                                               *)
ProgramPages == {x \in Active \X (ImageStart..StackPage) :
                    Physical(mem, x[1], x[2]) \notin {0, NoFrame}}
KernelPages == {<<0, p>> : p \in UNION {Pages(b) : b \in {c \in live : c.space = 0}}}
FramesApart ==
    NeverFaults => \A x, y \in ProgramPages \cup KernelPages :
        Physical(mem, x[1], x[2]) = Physical(mem, y[1], y[2]) => x = y

(* A call leaves the frames under every block that stays in use: a new page *)
(* is never entered where a page of such a block is, in whatever space.     *)
BlocksStay ==
    [][NeverFaults' => \A b \in live \cap live' : \A p \in Pages(b) :
          Physical(mem', b.space, p) = Physical(mem, b.space, p)]_vars

==============================================================================
