---------------------------- MODULE Kernel_proofs ----------------------------
(***************************************************************************)
(* The kernel's invariants, for any number of processes, sectors and       *)
(* queued scancodes: no handler or system call hangs, whoever waits is      *)
(* named by the flag its interrupt looks at, the processes form one chain   *)
(* of waiting parents, every disk read is answered; and the kernel          *)
(* implements the scheduler's specification, so that what is proved of the  *)
(* scheduler is true of the kernel.                                         *)
(*                                                                         *)
(* P is the scheduler with its proofs; its operations are those of S.       *)
(***************************************************************************)
EXTENDS Kernel, SequenceTheorems, TLAPS

P == INSTANCE Scheduler_proofs

-----------------------------------------------------------------------------
(* The scheduler's constant is one of the kernel's.                         *)
LEMMA SchedulerAssumption == P!MaxPidAssumption
BY KernelAssumption DEF P!MaxPidAssumption

(* Both instances of the scheduler define the same operations.              *)
LEMMA SameOperations ==
    /\ S!TypeOK <=> P!TypeOK
    /\ S!Init <=> P!Init
    /\ S!SaveContext <=> P!SaveContext
    /\ \A pid : S!ProcessSwitch(pid) <=> P!ProcessSwitch(pid)
    /\ \A p : S!Initiate(p) <=> P!Initiate(p)
    /\ S!AllocatePid <=> P!AllocatePid
<1>1. /\ S!TypeOK <=> P!TypeOK
      /\ S!Init <=> P!Init
  BY DEF S!TypeOK, P!TypeOK, S!Init, P!Init, S!Level, P!Level, S!Pid, P!Pid,
         S!State, P!State, S!Fault, P!Fault, S!BootStack, P!BootStack, S!NoStack, P!NoStack,
         S!Idle, P!Idle, S!Shell, P!Shell, S!Priority, P!Priority
<1>2. S!SaveContext <=> P!SaveContext
  BY DEF S!SaveContext, P!SaveContext
<1>3. \A pid : S!ProcessSwitch(pid) <=> P!ProcessSwitch(pid)
  BY DEF S!ProcessSwitch, P!ProcessSwitch, S!SwitchFrom, P!SwitchFrom, S!Insert, P!Insert,
         S!Load, P!Load, S!Source, P!Source, S!IdleLast, P!IdleLast, S!Idle, P!Idle,
         S!Priority, P!Priority
<1>4. \A p : S!Initiate(p) <=> P!Initiate(p)
  BY DEF S!Initiate, P!Initiate, S!Insert, P!Insert, S!Priority, P!Priority
<1>5. S!AllocatePid <=> P!AllocatePid
  BY DEF S!AllocatePid, P!AllocatePid
<1>6. QED BY <1>1, <1>2, <1>3, <1>4, <1>5

-----------------------------------------------------------------------------
(* Types. *)

(* A queue keeps its type when an element joins or leaves it.               *)
LEMMA QueueType ==
    ASSUME NEW q \in Seq(Pid)
    PROVE  /\ \A p \in Pid : Append(q, p) \in Seq(Pid)
           /\ q # <<>> => q[1] \in Pid /\ Tail(q) \in Seq(Pid)
           /\ q # <<>> => S!IdleLast(q) \in Seq(Pid) /\ S!IdleLast(q) # <<>>
<1>1. ASSUME NEW r \in Seq(Pid), NEW p \in Pid
      PROVE  Append(r, p) \in Seq(Pid) /\ Append(r, p) # <<>>
  BY AppendProperties, EmptySeq
<1>2. q # <<>> => q[1] \in Pid /\ Tail(q) \in Seq(Pid)
  BY EmptySeq, HeadTailProperties, ElementOfSeq, LenProperties
<1>3. ASSUME q # <<>> PROVE S!IdleLast(q) \in Seq(Pid) /\ S!IdleLast(q) # <<>>
  <2>1. 0 \in Pid
    BY KernelAssumption DEF Pid
  <2>2. Append(Tail(q), 0) \in Seq(Pid) /\ Append(Tail(q), 0) # <<>>
    BY <1>1, <1>2, <1>3, <2>1
  <2>3. QED BY <1>3, <2>2 DEF S!IdleLast, S!Idle
<1>4. QED BY <1>1, <1>2, <1>3

(* Whomever process_switch is asked for, it leaves the scheduler's state    *)
(* well typed: a fault is one of its outcomes.                              *)
SwitchTyped ==
    /\ ready_queue' \in [0..2 -> Seq(Pid)]
    /\ running' \in Pid /\ current_pid' \in Pid /\ esp0' \in Pid \cup {-1}
    /\ process_state' \in [Pid -> S!State]
    /\ fault' \in S!Fault

(* Leaving the running process for the next one keeps the types, ...        *)
LEMMA SwitchFromType ==
    ASSUME S!TypeOK, NEW rq \in [0..2 -> Seq(Pid)], NEW left \in S!State,
           S!SwitchFrom(rq, left)
    PROVE  SwitchTyped
<1> DEFINE k == S!Source(rq)
           q == IF k = 2 THEN S!IdleLast(rq[2]) ELSE rq[k]
<1>1. k \in 0..2 /\ rq[k] \in Seq(Pid)
  BY DEF S!Source
<1>2. CASE rq[k] = <<>>
  BY <1>2 DEF S!SwitchFrom, SwitchTyped, S!TypeOK, S!Fault, S!Level, S!Pid, Pid, S!BootStack
<1>3. CASE rq[k] # <<>>
  <2>1. q \in Seq(Pid) /\ q # <<>>
    BY <1>1, <1>3, QueueType
  <2>2. q[1] \in Pid /\ Tail(rq[k]) \in Seq(Pid) /\ Tail(q) \in Seq(Pid)
    BY <1>1, <1>3, <2>1, QueueType
  <2>3. /\ ready_queue' = [rq EXCEPT ![k] = Tail(q)]
        /\ S!Load(q[1], [process_state EXCEPT ![running] = left])
        /\ fault' = fault
    BY <1>3 DEF S!SwitchFrom
  <2>4. process_state \in [Pid -> S!State] /\ fault \in S!Fault
    BY DEF S!TypeOK, S!Pid, Pid
  <2> HIDE DEF k, q
  <2>5. ready_queue' \in [0..2 -> Seq(Pid)]
    BY <1>1, <2>2, <2>3
  <2>6. QED BY <2>2, <2>3, <2>4, <2>5 DEF S!Load, SwitchTyped, S!State
<1>4. QED BY <1>2, <1>3

(* ... and so does each of the three things process_switch does.            *)
LEMMA SwitchType ==
    ASSUME S!TypeOK, NEW pid, S!ProcessSwitch(pid)
    PROVE  SwitchTyped /\ waiting' \subseteq Pid
<1>1. /\ ready_queue \in [0..2 -> Seq(Pid)] /\ running \in Pid /\ waiting \subseteq Pid
      /\ process_state \in [Pid -> S!State] /\ fault \in S!Fault
      /\ current_pid \in Pid /\ esp0 \in Pid \cup {-1}
  BY DEF S!TypeOK, S!Level, S!Pid, Pid, S!BootStack
<1>2. ASSUME NEW p \in Pid PROVE S!Insert(ready_queue, p) \in [0..2 -> Seq(Pid)]
  <2>1. ready_queue[2] \in Seq(Pid)
    BY <1>1
  <2>2. Append(ready_queue[2], p) \in Seq(Pid)
    BY <2>1, QueueType
  <2>3. QED BY <1>1, <2>2 DEF S!Insert, S!Priority
<1>3. "READY" \in S!State /\ "WAITING" \in S!State
  BY DEF S!State
<1>4. CASE pid = -1
  BY <1>1, <1>2, <1>3, <1>4, SwitchFromType DEF S!ProcessSwitch
<1>5. CASE pid # -1 /\ pid = current_pid
  BY <1>1, <1>3, <1>5, SwitchFromType DEF S!ProcessSwitch
<1>6. CASE pid # -1 /\ pid # current_pid /\ pid \in waiting
  BY <1>1, <1>2, <1>3, <1>6 DEF S!ProcessSwitch, SwitchTyped
<1>7. CASE pid # -1 /\ pid # current_pid /\ pid \notin waiting
  BY <1>1, <1>7 DEF S!ProcessSwitch, SwitchTyped, S!Fault
<1>8. QED BY <1>4, <1>5, <1>6, <1>7

(* The same for the scheduler's type invariant: the caller either records   *)
(* its stack pointer or is a handler that does not.                         *)
LEMMA SwitchKeepsType ==
    ASSUME S!TypeOK, NEW pid, S!ProcessSwitch(pid), processid_gen' = processid_gen,
           S!SaveContext \/ saved_stack' = saved_stack
    PROVE  S!TypeOK'
<1>1. SwitchTyped /\ waiting' \subseteq Pid
  BY SwitchType
<1>2. saved_stack' \in [S!Pid -> S!Pid \cup {S!BootStack, S!NoStack}]
  BY DEF S!TypeOK, S!SaveContext
<1>3. QED
  BY <1>1, <1>2 DEF S!TypeOK, SwitchTyped, S!Level, S!Pid, Pid, S!BootStack

(* A blocking call moves its process to where it blocks.                    *)
LEMMA NewSwitchType ==
    ASSUME TypeOK, NEW flag, NEW loc \in Location, NewSwitch(flag, loc),
           processid_gen' = processid_gen
    PROVE  S!TypeOK' /\ at' \in [Pid -> Location]
<1>1. S!TypeOK'
  BY SwitchKeepsType DEF TypeOK, NewSwitch
<1>2. at' \in [Pid -> Location]
  BY DEF TypeOK, NewSwitch, Move, Location
<1>3. QED BY <1>1, <1>2

(* What the scheduler does not touch keeps its type with it.                *)
LEMMA SameSchedulerType == S!TypeOK /\ UNCHANGED svars => S!TypeOK'
BY DEF svars, S!TypeOK

(* The registers of the controller.                                         *)
Registers == [left : 0..MaxSectors, drq : BOOLEAN, err : BOOLEAN, writes : 0..MaxSectors,
              machine : Machines]

(* What the driver and the controller store there fits.                     *)
LEMMA RegistersType ==
    ASSUME disk \in Registers
    PROVE  /\ IdleDisk \in Registers
           /\ \A n \in Sectors :
                 /\ n \in 0..MaxSectors
                 /\ [IdleDisk EXCEPT !.left = n, !.drq = SyncDisk] \in Registers
                 /\ [IdleDisk EXCEPT !.writes = IF SyncDisk THEN 0 ELSE n] \in Registers
           /\ [disk EXCEPT !.drq = TRUE] \in Registers
           /\ [disk EXCEPT !.err = TRUE, !.left = 0] \in Registers
           /\ disk.writes > 0 => [disk EXCEPT !.writes = @ - 1] \in Registers
<1>1. 0 \in 0..MaxSectors /\ 1 \in 0..MaxSectors /\ SyncDisk \in BOOLEAN
  BY KernelAssumption DEF SyncDisk
<1>2. \A n \in Sectors : n \in 0..MaxSectors
  BY KernelAssumption DEF Sectors
<1>3. IdleDisk \in Registers
  BY <1>1 DEF IdleDisk, Registers
<1>4. ASSUME NEW n \in Sectors
      PROVE  /\ [IdleDisk EXCEPT !.left = n, !.drq = SyncDisk] \in Registers
             /\ [IdleDisk EXCEPT !.writes = IF SyncDisk THEN 0 ELSE n] \in Registers
  BY <1>1, <1>2, <1>3, <1>4 DEF Registers
<1>5. /\ [disk EXCEPT !.drq = TRUE] \in Registers
      /\ [disk EXCEPT !.err = TRUE, !.left = 0] \in Registers
  BY <1>1 DEF Registers
<1>6. disk.writes > 0 => [disk EXCEPT !.writes = @ - 1] \in Registers
  BY KernelAssumption DEF Registers
<1>7. QED BY <1>2, <1>3, <1>4, <1>5, <1>6

(* The types of the kernel's own variables. *)
OwnTypes ==
    /\ process_clock \in 0..TIME_QUANTUM - 1
    /\ irq1_flag \in Pid \cup {-1}
    /\ irq1_status \in 0..1
    /\ scancodes \in Seq(Key) /\ Len(scancodes) <= MaxKeys
    /\ irq2_flag \in Pid \cup {-1}
    /\ irq14_flag \in Pid \cup {-1} \cup ErrorCodes
    /\ at \in [Pid -> Location]
    /\ call \in [Pid -> Call]
    /\ child \in [Pid -> Pid \cup {None}]
    /\ ppid \in [Pid -> Pid \cup {None}]
    /\ disk \in Registers
    /\ irr14 \in BOOLEAN

(* They and the scheduler's are all of them.                                *)
LEMMA TypeParts == TypeOK <=> S!TypeOK /\ OwnTypes
BY DEF TypeOK, OwnTypes, Registers

(* kmain leaves every variable with its type.                               *)
LEMMA InitType == Init => TypeOK
<1> SUFFICES ASSUME Init PROVE S!TypeOK /\ OwnTypes
  BY TypeParts
<1>1. S!TypeOK
  BY SchedulerAssumption, SameOperations, P!InitIInv DEF Init, P!IInv
<1>2. disk \in Registers
  <2>1. PICK m \in Machines :
           disk = [left |-> 0, drq |-> FALSE, err |-> FALSE, writes |-> 0, machine |-> m]
    BY DEF Init
  <2>2. QED BY <2>1, KernelAssumption DEF Registers
<1>3. 0 \in Pid /\ 1 \in Pid
  BY KernelAssumption DEF Pid
<1>4. scancodes \in Seq(Key) /\ Len(scancodes) <= MaxKeys
  BY EmptySeq, KernelAssumption DEF Init
<1>5. QED
  BY <1>1, <1>2, <1>3, <1>4
     DEF Init, OwnTypes, TIME_QUANTUM, Location, Call, None, S!Idle

(* The interrupt handlers keep the types.                                   *)
LEMMA InterruptType == TypeOK /\ InterruptStep => TypeOK'
<1> SUFFICES ASSUME TypeOK, InterruptStep PROVE S!TypeOK' /\ OwnTypes'
  BY DEF TypeOK, OwnTypes, Registers
<1> USE DEF OwnTypes
<1>1. S!TypeOK /\ OwnTypes
  BY TypeParts
<1>2. CASE Timer
  <2>1. S!TypeOK'
    BY <1>1, <1>2, SwitchKeepsType, SameSchedulerType DEF Timer
  <2>2. process_clock' \in 0..TIME_QUANTUM - 1
    BY <1>1, <1>2 DEF Timer, TIME_QUANTUM
  <2>3. QED BY <1>1, <1>2, <2>1, <2>2 DEF Timer
<1>3. CASE PrimaryDisk
  <2>1. irq14_flag' \in Pid \cup {-1} \cup ErrorCodes
    BY <1>1, <1>3 DEF PrimaryDisk
  <2>2. S!TypeOK'
    <3>1. CASE irq14_flag = -1
      BY <1>1, <1>3, <3>1, SameSchedulerType DEF PrimaryDisk, svars
    <3>2. CASE irq14_flag # -1
      BY <1>1, <1>3, <3>2, SwitchKeepsType DEF PrimaryDisk
    <3>3. QED BY <3>1, <3>2
  <2>3. QED BY <1>1, <1>3, <2>1, <2>2 DEF PrimaryDisk
<1>4. ASSUME NEW key \in Key, Keyboard(key) PROVE S!TypeOK' /\ OwnTypes'
  <2>1. S!TypeOK'
    BY <1>1, <1>4, SwitchKeepsType, SameSchedulerType DEF Keyboard
  <2>2. scancodes' \in Seq(Key) /\ Len(scancodes') = Len(scancodes) + 1
    BY <1>1, <1>4, AppendProperties DEF Keyboard
  <2>3. Len(scancodes) \in Nat
    BY <1>1, LenProperties
  <2>4. QED
    BY <1>1, <1>4, <2>1, <2>2, <2>3, KernelAssumption DEF Keyboard, TIME_QUANTUM
<1>5. QED BY <1>2, <1>3, <1>4 DEF InterruptStep

(* So do the calls a program makes.                                         *)
LEMMA UserType == TypeOK /\ UserStep => TypeOK'
<1> SUFFICES ASSUME TypeOK, UserStep PROVE S!TypeOK' /\ OwnTypes'
  BY DEF TypeOK, OwnTypes, Registers
<1> USE DEF OwnTypes
<1>1. S!TypeOK /\ OwnTypes /\ running \in Pid /\ current_pid \in Pid
  BY TypeParts DEF S!TypeOK, S!Pid, Pid
<1>2. CASE FileCall
  BY <1>1, <1>2, SameSchedulerType DEF FileCall, Move, Enter, Location, Call
<1>3. CASE Exec
  BY <1>1, <1>3, SameSchedulerType DEF Exec, Move, Enter, Location, Call
<1>4. CASE Kill
  <2>1. S!TypeOK'
    BY <1>1, <1>4, SwitchKeepsType DEF Kill, Exit
  <2>2. QED BY <1>1, <1>4, <2>1 DEF Kill, Exit, Move, Location
<1>5. ASSUME NEW kind \in {"getc", "line"}, Scanf(kind) PROVE S!TypeOK' /\ OwnTypes'
  <2>1. S!TypeOK' /\ at' \in [Pid -> Location]
    BY <1>5, NewSwitchType DEF Scanf, Location
  <2>2. scancodes' \in Seq(Key) /\ Len(scancodes') <= MaxKeys /\ irq1_status' = 0
    BY <1>5, EmptySeq, KernelAssumption DEF Scanf, AwaitKey
  <2>3. call' \in [Pid -> Call]
    BY <1>1, <1>5 DEF Scanf, Enter, Call
  <2>4. QED BY <1>1, <1>5, <2>1, <2>2, <2>3 DEF Scanf
<1>6. QED BY <1>2, <1>3, <1>4, <1>5 DEF UserStep

(* So does what goes on in the kernel, the disk driver's part apart.        *)
LEMMA CallType ==
    ASSUME TypeOK,
           ScanfResume \/ FileReturn \/ ExecAllocate \/ ExecInitiate \/ ExecBlock \/ ExecResume
    PROVE  TypeOK'
<1> SUFFICES S!TypeOK' /\ OwnTypes'
  BY DEF TypeOK, OwnTypes, Registers
<1> USE DEF OwnTypes
<1>1. S!TypeOK /\ OwnTypes /\ running \in Pid /\ current_pid \in Pid
  BY TypeParts DEF S!TypeOK, S!Pid, Pid
<1>2. CASE ScanfResume
  <2>1. CASE Satisfied(call[running], scancodes)
    BY <1>1, <1>2, <2>1, SameSchedulerType DEF ScanfResume, Move, Enter, Location, Call, svars
  <2>2. CASE ~Satisfied(call[running], scancodes)
    <3>1. S!TypeOK' /\ at' \in [Pid -> Location]
      BY <1>2, <2>2, NewSwitchType DEF ScanfResume, Location
    <3>2. scancodes' \in Seq(Key) /\ Len(scancodes') <= MaxKeys /\ irq1_status' = 0
      BY <1>2, <2>2, EmptySeq, KernelAssumption DEF ScanfResume, AwaitKey
    <3>3. QED BY <1>1, <1>2, <2>2, <3>1, <3>2 DEF ScanfResume
  <2>3. QED BY <2>1, <2>2
<1>3. CASE FileReturn
  BY <1>1, <1>3, SameSchedulerType DEF FileReturn, Move, Enter, Location, Call
<1>4. CASE ExecAllocate
  <2>1. S!TypeOK' /\ processid_gen \in Pid
    BY <1>1, <1>4, KernelAssumption DEF ExecAllocate, S!AllocatePid, S!TypeOK, Pid
  <2>2. QED BY <1>1, <1>4, <2>1 DEF ExecAllocate
<1>5. CASE ExecInitiate
  <2> DEFINE c == child[running]
  <2>1. c \in Pid
    BY <1>1, <1>5 DEF ExecInitiate
  <2>2. Append(ready_queue[2], c) \in Seq(Pid)
    BY <1>1, <2>1, QueueType DEF S!TypeOK, S!Level, S!Pid, Pid
  <2>3. ready_queue' \in [S!Level -> Seq(S!Pid)]
    BY <1>1, <1>5, <2>2
       DEF ExecInitiate, S!Initiate, S!Insert, S!Priority, S!TypeOK, S!Level, S!Pid, Pid
  <2>4. process_state' \in [S!Pid -> S!State]
    BY <1>1, <1>5, <2>1 DEF ExecInitiate, S!Initiate, S!TypeOK, S!State
  <2>5. S!TypeOK'
    BY <1>1, <1>5, <2>3, <2>4 DEF ExecInitiate, S!Initiate, S!TypeOK
  <2>6. QED BY <1>1, <1>5, <2>1, <2>5 DEF ExecInitiate, Move, Location
<1>6. CASE ExecBlock
  <2>1. S!TypeOK' /\ at' \in [Pid -> Location]
    BY <1>6, NewSwitchType DEF ExecBlock, Location
  <2>2. QED BY <1>1, <1>6, <2>1 DEF ExecBlock
<1>7. CASE ExecResume
  BY <1>1, <1>7, SameSchedulerType DEF ExecResume, Move, Enter, Location, Call
<1>8. QED BY <1>2, <1>3, <1>4, <1>5, <1>6, <1>7

(* So do the disk driver ...                                                *)
LEMMA DriverType ==
    ASSUME TypeOK,
           \/ \E n \in Sectors : PioRead(n) \/ PioWrite(n)
           \/ PioReadResume \/ PioWriteResume
    PROVE  TypeOK'
<1> SUFFICES S!TypeOK' /\ OwnTypes'
  BY DEF TypeOK, OwnTypes, Registers
<1> USE DEF OwnTypes
<1>1. S!TypeOK /\ OwnTypes /\ running \in Pid /\ current_pid \in Pid /\ SyncDisk \in BOOLEAN
  BY TypeParts DEF S!TypeOK, S!Pid, Pid, SyncDisk
<1>2. ASSUME NEW n \in Sectors, PioRead(n) PROVE S!TypeOK' /\ OwnTypes'
  <2>1. CASE irq14_flag = -1
    <3>1. S!TypeOK' /\ at' \in [Pid -> Location]
      BY <1>2, <2>1, NewSwitchType DEF PioRead, Location
    <3>2. disk' \in Registers /\ irr14' \in BOOLEAN
      BY <1>1, <1>2, <2>1, RegistersType DEF PioRead, ReadCommand
    <3>3. QED BY <1>1, <1>2, <2>1, <3>1, <3>2 DEF PioRead
  <2>2. CASE irq14_flag # -1
    BY <1>1, <1>2, <2>2, SameSchedulerType DEF PioRead, Move, Location, svars
  <2>3. QED BY <2>1, <2>2
<1>3. ASSUME NEW n \in Sectors, PioWrite(n) PROVE S!TypeOK' /\ OwnTypes'
  <2>1. CASE irq14_flag = -1
    <3>1. S!TypeOK' /\ at' \in [Pid -> Location]
      BY <1>3, <2>1, NewSwitchType DEF PioWrite, Location
    <3>2. disk' \in Registers /\ irr14' \in BOOLEAN
      BY <1>1, <1>3, <2>1, RegistersType DEF PioWrite
    <3>3. QED BY <1>1, <1>3, <2>1, <3>1, <3>2 DEF PioWrite
  <2>2. CASE irq14_flag # -1
    BY <1>1, <1>3, <2>2, SameSchedulerType DEF PioWrite, Move, Location, svars
  <2>3. QED BY <2>1, <2>2
<1>4. CASE PioReadResume
  <2>1. disk' \in Registers /\ irr14' \in BOOLEAN
    BY <1>1, <1>4, RegistersType DEF PioReadResume
  <2>2. QED
    BY <1>1, <1>4, <2>1, SameSchedulerType DEF PioReadResume, ReaderDone, Move, Location
<1>5. CASE PioWriteResume
  BY <1>1, <1>5, SameSchedulerType DEF PioWriteResume, ReaderDone, Move, Location
<1>6. QED BY <1>2, <1>3, <1>4, <1>5

(* ... and the controller.                                                  *)
LEMMA ControllerType == TypeOK /\ DiskAnswers => TypeOK'
<1> SUFFICES ASSUME TypeOK, DiskAnswers PROVE S!TypeOK' /\ OwnTypes'
  BY DEF TypeOK, OwnTypes, Registers
<1>1. S!TypeOK /\ OwnTypes
  BY TypeParts
<1>2. disk' \in Registers
  BY <1>1, RegistersType DEF DiskAnswers, OwnTypes
<1>3. QED BY <1>1, <1>2, SameSchedulerType DEF DiskAnswers, OwnTypes

(* Every step keeps the types.                                              *)
LEMMA NextType == TypeOK /\ [Next]_vars => TypeOK'
<1> SUFFICES ASSUME TypeOK, [Next]_vars PROVE TypeOK'
  OBVIOUS
<1>1. CASE InterruptStep
  BY <1>1, InterruptType
<1>2. CASE UserStep
  BY <1>2, UserType
<1>3. CASE KernelStep
  BY <1>3, CallType, DriverType DEF KernelStep
<1>4. CASE DiskAnswers
  BY <1>4, ControllerType
<1>5. CASE UNCHANGED vars
  BY <1>5, SameSchedulerType DEF vars, kvars, svars, TypeOK
<1>6. QED BY <1>1, <1>2, <1>3, <1>4, <1>5 DEF Next

(* Every variable keeps its type, on every machine and whatever the disk's  *)
(* error register holds.                                                    *)
THEOREM TypeCorrect == Spec => []TypeOK
BY NextType, InitType, PTL DEF Spec

-----------------------------------------------------------------------------
(* The inductive invariant. *)

(* Who is where.  Idle never leaves its loop and the shell never exits; a   *)
(* process that is in the kernel and does not wait there is the running one.*)
Locations ==
    /\ at[S!Idle] = "loop"
    /\ S!Shell \in Live
    /\ \A p \in Pid :
          /\ at[p] \notin {"spin", "lost"}
          /\ at[p] \in {"syscall", "execing"} => p = running
          /\ p \in waiting => at[p] \in {"scanf", "pioread", "exec"}
          /\ process_state[p] = "none" => at[p] = "user"

(* irq1_flag is the one reader of the keyboard, and irq1_status whether it  *)
(* has been woken.                                                          *)
KeyboardReader ==
    /\ \A p \in Pid : at[p] = "scanf" <=> irq1_flag = p
    /\ irq1_flag # -1 => (irq1_flag \in waiting <=> irq1_status = 0)

(* irq14_flag is the one reader of the disk, which waits exactly as long as *)
(* its interrupt is held or still to come; nobody else's ever is.           *)
DiskReader ==
    /\ \A p \in Pid : at[p] = "pioread" <=> irq14_flag = p
    /\ irq14_flag \in Pid \cup {-1}
    /\ disk.writes = 0 /\ ~disk.err
    /\ disk.machine = "emulated" \/ (disk.machine = "reading" /\ disk.left <= 1)
    /\ irq14_flag = -1 =>
          disk.left = 0 /\ ~disk.drq /\ (irr14 => disk.machine = "emulated")
    /\ irq14_flag # -1 =>
          /\ disk.left > 0
          /\ irr14 => disk.drq
          /\ irq14_flag \in waiting <=> irr14 \/ ~disk.drq
          /\ disk.machine = "emulated" => disk.drq

(* A process that waits for its child in create_process, or is about to.    *)
Parent(p) == at[p] = "execing" \/ (at[p] = "exec" /\ p \in waiting)

(* Every live process is the child its parent waits for, ...                *)
Chain ==
    \A p \in Live \ {S!Shell} :
        ppid[p] \in Live /\ Parent(ppid[p]) /\ child[ppid[p]] = p

(* ... and only one of them is nobody's parent.                             *)
OneLeaf == \A p, q \in Live : Parent(p) \/ Parent(q) \/ p = q

Family == Chain /\ OneLeaf

IInv ==
    /\ TypeOK
    /\ P!IInv
    /\ Locations
    /\ KeyboardReader
    /\ DiskReader
    /\ Family

(* The machines whose disk answers every command, in time: an emulated one, *)
(* or a real one that is read a sector at a time.  On the others a read may *)
(* end too early (run kernel_multisector), and a command that fails leaves  *)
(* its reader asleep.                                                       *)
DiskAnswersAll == Machines \subseteq {"emulated", "reading"} /\ ErrorCodes = {}

-----------------------------------------------------------------------------
(* What the scheduler's operations mean for the kernel. *)

(* Nobody is created. *)
Kept == \A p \in Pid : process_state'[p] = "none" <=> process_state[p] = "none"

(* A switch of the processor creates nobody.                                *)
LEMMA SwitchKeeps ==
    ASSUME P!IInv, P!Preempt \/ P!Block
    PROVE  Kept
<1>1. PICK next \in P!Pid, left \in {"READY", "WAITING"} : P!Switched(left, next)
  BY SchedulerAssumption, P!SwitchFacts
<1>2. /\ process_state \in [Pid -> P!State] /\ running \in Pid
      /\ process_state[running] # "none"
      /\ \A p \in P!Queued(ready_queue) : process_state[p] # "none"
  BY DEF P!IInv, P!TypeOK, P!StateMatchesPlace, P!Pid, Pid
<1>3. next \in Pid /\ process_state[next] # "none"
  BY <1>1, <1>2 DEF P!Switched, P!Pid, Pid
<1>4. QED BY <1>1, <1>2, <1>3 DEF P!Switched, Kept

(* The running process yields.                                              *)
LEMMA Yields ==
    ASSUME P!IInv, S!SaveContext, S!ProcessSwitch(-1), processid_gen' = processid_gen
    PROVE  P!Next /\ Kept /\ waiting' = waiting
<1>1. P!Preempt
  BY SameOperations DEF P!IInv, P!NeverFaults, P!Preempt
<1>2. waiting' = waiting
  BY DEF S!ProcessSwitch
<1>3. QED BY <1>1, <1>2, SwitchKeeps DEF P!Next

(* The running process blocks, and another one takes the processor.         *)
LEMMA Blocks ==
    ASSUME P!IInv, running # S!Idle, NEW flag, flag = running,
           S!SaveContext, S!ProcessSwitch(flag), processid_gen' = processid_gen
    PROVE  P!Next /\ Kept /\ waiting' = waiting \cup {running}
<1>1. current_pid = running /\ running # -1 /\ fault = "none"
  BY DEF P!IInv, P!StateMatchesPlace, P!TypeOK, P!NeverFaults, P!Pid
<1>2. P!Block
  BY <1>1, SameOperations DEF P!Block, P!Idle, S!Idle
<1>3. waiting' = waiting \cup {running}
  BY <1>1 DEF S!ProcessSwitch
<1>4. QED BY <1>2, <1>3, SwitchKeeps DEF P!Next

(* A process that waits is woken.                                           *)
LEMMA Wakes ==
    ASSUME P!IInv, NEW p \in waiting,
           S!ProcessSwitch(p), UNCHANGED <<processid_gen, saved_stack>>
    PROVE  P!Next /\ Kept /\ waiting' = waiting \ {p} /\ running' = running
<1>1. /\ current_pid = running /\ p # -1 /\ p # running /\ fault = "none" /\ p \in P!Pid
      /\ process_state[p] = "WAITING" /\ process_state \in [Pid -> P!State]
  BY DEF P!IInv, P!StateMatchesPlace, P!OnePlace, P!TypeOK, P!NeverFaults, P!Pid, Pid
<1>2. P!Wake(p)
  BY <1>1, SameOperations DEF P!Wake
<1>3. /\ waiting' = waiting \ {p} /\ running' = running
      /\ process_state' = [process_state EXCEPT ![p] = "READY"]
  BY <1>1 DEF S!ProcessSwitch
<1>4. Kept
  BY <1>1, <1>3 DEF Kept
<1>5. QED BY <1>1, <1>2, <1>3, <1>4 DEF P!Next

(* The running process is a created one and does not wait.                  *)
LEMMA RunningFacts ==
    ASSUME IInv
    PROVE  /\ running \in Pid /\ running \notin waiting /\ current_pid = running
           /\ process_state[running] # "none"
           /\ waiting \subseteq Pid
           /\ at \in [Pid -> Location]
           /\ child \in [Pid -> Pid \cup {None}] /\ ppid \in [Pid -> Pid \cup {None}]
           /\ at[running] # "loop" => running \in Live
BY DEF IInv, TypeOK, P!IInv, P!TypeOK, P!OnePlace, P!StateMatchesPlace, P!Pid, Pid, Live

-----------------------------------------------------------------------------
(* The parts of the invariant that a step does not disturb. *)

(* The family stays as it is if nobody is created, exits, or begins or ends *)
(* to wait for a child.                                                     *)
LEMMA FamilyKept ==
    ASSUME Family, Kept, ppid' = ppid,
           \A p \in Pid : at'[p] = "loop" <=> at[p] = "loop",
           \A p \in Pid : Parent(p)' <=> Parent(p),
           \A p \in Pid : Parent(p) => child'[p] = child[p]
    PROVE  Family'
<1>1. Live' = Live
  BY DEF Live, Kept
<1>2. Live \subseteq Pid
  BY DEF Live
<1>3. Chain'
  BY <1>1, <1>2 DEF Family, Chain, S!Shell
<1>4. OneLeaf'
  BY <1>1, <1>2 DEF Family, OneLeaf
<1>5. QED BY <1>3, <1>4 DEF Family

(* The keyboard's reader stays if it neither starts nor ends to wait.       *)
LEMMA KeyboardKept ==
    ASSUME KeyboardReader, UNCHANGED <<irq1_flag, irq1_status>>,
           irq1_flag # -1 => (irq1_flag \in waiting' <=> irq1_flag \in waiting),
           \A p \in Pid : at'[p] = "scanf" <=> at[p] = "scanf"
    PROVE  KeyboardReader'
BY DEF KeyboardReader

(* So does the disk's.                                                      *)
LEMMA DiskKept ==
    ASSUME DiskReader, UNCHANGED <<irq14_flag, disk, irr14>>,
           irq14_flag # -1 => (irq14_flag \in waiting' <=> irq14_flag \in waiting),
           \A p \in Pid : at'[p] = "pioread" <=> at[p] = "pioread"
    PROVE  DiskReader'
BY DEF DiskReader

(* Places are kept if the running process alone moves, to loc.              *)
LEMMA LocationsMove ==
    ASSUME IInv, Kept, NEW loc, loc \notin {"spin", "lost"},
           \A p \in Pid : at'[p] = IF p = running THEN loc ELSE at[p],
           at[running] # "loop",
           loc = "loop" => running # S!Shell,
           loc \in {"syscall", "execing"} => running' = running,
           running \in waiting' => loc \in {"scanf", "pioread", "exec"},
           \A p \in Pid : p # running /\ p \in waiting' => p \in waiting
    PROVE  Locations'
<1>1. S!Idle \in Pid /\ S!Shell \in Pid
  BY KernelAssumption DEF Pid, S!Idle, S!Shell
<1>2. process_state[running] # "none" /\ running \in Pid
  BY RunningFacts
<1>3. at'[S!Idle] = "loop"
  BY <1>1 DEF IInv, Locations
<1>4. (S!Shell \in Live)'
  BY <1>1 DEF IInv, Locations, Live, Kept, S!Shell
<1>5. ASSUME NEW p \in Pid
      PROVE  /\ at'[p] \notin {"spin", "lost"}
             /\ at'[p] \in {"syscall", "execing"} => p = running'
             /\ p \in waiting' => at'[p] \in {"scanf", "pioread", "exec"}
             /\ process_state'[p] = "none" => at'[p] = "user"
  BY <1>2 DEF IInv, Locations, Kept
<1>6. QED BY <1>3, <1>4, <1>5 DEF Locations, S!Idle

(* A step that leaves every process where it is and only turns the          *)
(* processor over keeps them all, if nobody is inside a system call.        *)
LEMMA TurnKeeps ==
    ASSUME IInv, UserMode, Kept,
           UNCHANGED <<waiting, at, child, ppid, irq1_flag, irq1_status, irq14_flag, disk, irr14>>
    PROVE  Locations' /\ KeyboardReader' /\ DiskReader' /\ Family'
<1>1. \A p \in Pid : at[p] \notin {"syscall", "execing"}
  BY RunningFacts DEF UserMode, IInv, Locations
<1>2. Locations'
  BY <1>1 DEF IInv, Locations, Kept, Live, S!Shell, S!Idle
<1>3. KeyboardReader' /\ DiskReader'
  BY KeyboardKept, DiskKept DEF IInv
<1>4. Family'
  BY FamilyKept DEF IInv, Parent
<1>5. QED BY <1>2, <1>3, <1>4

(* A step that leaves the scheduler alone keeps its part.                   *)
LEMMA Stays == UNCHANGED svars => UNCHANGED P!vars /\ Kept /\ waiting' = waiting
BY DEF svars, P!vars, Kept

Step == /\ [P!Next]_(P!vars)
        /\ Locations' /\ KeyboardReader' /\ DiskReader' /\ Family'

-----------------------------------------------------------------------------
(* The interrupt handlers. *)

(* The timer. *)
LEMMA TimerStep == IInv /\ Timer => Step
<1> SUFFICES ASSUME IInv, Timer PROVE Step
  OBVIOUS
<1>1. CASE process_clock + 1 = TIME_QUANTUM
  <2>1. P!Next /\ Kept /\ waiting' = waiting
    BY <1>1, Yields DEF IInv, Timer
  <2>2. QED BY <2>1, TurnKeeps DEF Timer, Step
<1>2. CASE process_clock + 1 # TIME_QUANTUM
  <2>1. UNCHANGED svars
    BY <1>2 DEF Timer
  <2>2. QED BY <2>1, Stays, TurnKeeps DEF Timer, Step
<1>3. QED BY <1>1, <1>2

(* The keyboard: the first scancode wakes the reader. *)
LEMMA KeyboardStep == ASSUME IInv, NEW key \in Key, Keyboard(key) PROVE Step
<1>1. CASE irq1_status = 0
  <2>1. irq1_flag \in waiting /\ at[irq1_flag] = "scanf" /\ irq1_flag \in Pid
    BY <1>1 DEF Keyboard, IInv, KeyboardReader, TypeOK
  <2>2. P!Next /\ Kept /\ waiting' = waiting \ {irq1_flag} /\ running' = running
    BY <1>1, <2>1, Wakes DEF IInv, Keyboard
  <2>3. Locations'
    BY <2>2 DEF IInv, Locations, Keyboard, Kept, Live, S!Shell, S!Idle
  <2>4. KeyboardReader'
    BY <2>1, <2>2 DEF IInv, KeyboardReader, Keyboard
  <2>5. DiskReader'
    BY <2>1, <2>2, DiskKept DEF IInv, DiskReader, Keyboard
  <2>6. Family'
    BY <2>1, <2>2, FamilyKept DEF IInv, Keyboard, Parent
  <2>7. QED BY <2>2, <2>3, <2>4, <2>5, <2>6 DEF Step
<1>2. CASE irq1_status # 0
  <2>1. UNCHANGED svars /\ irq1_status = 1
    BY <1>2 DEF Keyboard, IInv, TypeOK
  <2>2. QED BY <2>1, Stays, TurnKeeps DEF Keyboard, Step
<1>3. QED BY <1>1, <1>2

(* The disk: its interrupt wakes the reader. *)
LEMMA PrimaryDiskStep == ASSUME IInv, PrimaryDisk PROVE Step
<1>1. CASE irq14_flag = -1
  <2>1. UNCHANGED svars /\ UNCHANGED irq14_flag
    BY <1>1 DEF PrimaryDisk, svars
  <2>2. Kept /\ waiting' = waiting /\ UNCHANGED P!vars
    BY <2>1, Stays
  <2>3. Locations' /\ KeyboardReader' /\ Family'
    BY <2>1, <2>2, KeyboardKept, FamilyKept, RunningFacts
       DEF PrimaryDisk, IInv, Locations, Live, Kept, Parent, svars, S!Shell, S!Idle
  <2>4. DiskReader'
    BY <1>1, <2>1 DEF PrimaryDisk, IInv, DiskReader
  <2>5. QED BY <2>2, <2>3, <2>4 DEF Step
<1>2. CASE irq14_flag # -1
  <2>1. irq14_flag \in waiting /\ at[irq14_flag] = "pioread" /\ irq14_flag \in Pid
    BY <1>2 DEF PrimaryDisk, IInv, DiskReader, TypeOK
  <2>2. irq14_flag' = irq14_flag /\ irr14' = FALSE /\ irr14
    BY <1>2 DEF PrimaryDisk, IInv, DiskReader
  <2>3. P!Next /\ Kept /\ waiting' = waiting \ {irq14_flag} /\ running' = running
    BY <1>2, <2>1, <2>2, Wakes DEF IInv, PrimaryDisk
  <2>4. Locations'
    BY <2>3 DEF IInv, Locations, PrimaryDisk, Kept, Live, S!Shell, S!Idle
  <2>5. KeyboardReader'
    BY <2>1, <2>3, KeyboardKept DEF IInv, KeyboardReader, PrimaryDisk
  <2>6. DiskReader'
    BY <2>1, <2>2, <2>3 DEF IInv, DiskReader, PrimaryDisk
  <2>7. Family'
    BY <2>1, <2>3, FamilyKept DEF IInv, PrimaryDisk, Parent
  <2>8. QED BY <2>3, <2>4, <2>5, <2>6, <2>7 DEF Step
<1>3. QED BY <1>1, <1>2

-----------------------------------------------------------------------------
(* The calls of a program. *)

(* The running process goes from one place to another, both in user mode or *)
(* inside a call that holds the processor; nothing else changes.            *)
LEMMA MovesOn ==
    ASSUME IInv, UNCHANGED svars, ppid' = ppid,
           NEW loc \in {"user", "syscall"}, Move(loc),
           at[running] \in {"user", "syscall", "scanf", "pioread", "piowrite", "exec"},
           \A p \in Pid : p # running => child'[p] = child[p]
    PROVE  /\ [P!Next]_(P!vars)
           /\ Locations' /\ Family'
           /\ Kept /\ waiting' = waiting
           /\ \A p \in Pid : at'[p] = IF p = running THEN loc ELSE at[p]
<1>1. /\ UNCHANGED P!vars /\ Kept /\ waiting' = waiting
      /\ running' = running /\ process_state' = process_state
  BY Stays DEF svars
<1>2. \A p \in Pid : at'[p] = IF p = running THEN loc ELSE at[p]
  BY RunningFacts DEF Move
<1>3. Locations'
  BY <1>1, <1>2, RunningFacts, LocationsMove
<1>4. Family'
  <2>1. ~Parent(running) /\ ~Parent(running)'
    BY <1>1, <1>2, RunningFacts DEF Parent
  <2>2. \A p \in Pid : Parent(p)' <=> Parent(p)
    BY <1>1, <1>2, <2>1 DEF Parent
  <2>3. QED BY <1>1, <1>2, <2>1, <2>2, FamilyKept DEF IInv
<1>5. QED BY <1>1, <1>2, <1>3, <1>4

(* A call that begins or ends and changes no flag. *)
LEMMA CallStep == ASSUME IInv, FileCall \/ FileReturn \/ Exec PROVE Step
<1>1. PICK loc \in {"user", "syscall"} : Move(loc)
  BY DEF FileCall, FileReturn, Exec
<1>2. /\ [P!Next]_(P!vars) /\ Locations' /\ Family' /\ waiting' = waiting
      /\ \A p \in Pid : at'[p] = IF p = running THEN loc ELSE at[p]
  BY <1>1, MovesOn DEF FileCall, FileReturn, Exec, In
<1>3. at[running] \in {"user", "syscall"}
  BY DEF FileCall, FileReturn, Exec, In
<1>4. KeyboardReader' /\ DiskReader'
  BY <1>2, <1>3, KeyboardKept, DiskKept DEF IInv, FileCall, FileReturn, Exec
<1>5. QED BY <1>2, <1>4 DEF Step

(* The running process blocks at loc, a place for blocked processes.        *)
LEMMA BlocksAt ==
    ASSUME IInv, NEW flag, flag = running, NEW loc \in {"scanf", "pioread", "exec"},
           NewSwitch(flag, loc), processid_gen' = processid_gen,
           at[running] \in {"user", "scanf", "syscall", "execing"},
           loc = "exec" <=> at[running] = "execing",
           ppid' = ppid, child' = child
    PROVE  /\ P!Next
           /\ Locations' /\ Family'
           /\ waiting' = waiting \cup {running}
           /\ \A p \in Pid : at'[p] = IF p = running THEN loc ELSE at[p]
<1>1. /\ running \in Pid /\ current_pid = running /\ running # S!Idle
      /\ at \in [Pid -> Location] /\ running \in Live
  BY RunningFacts DEF IInv, Locations
<1>2. P!Next /\ Kept /\ waiting' = waiting \cup {running}
  BY <1>1, Blocks DEF IInv, NewSwitch
<1>3. \A p \in Pid : at'[p] = IF p = running THEN loc ELSE at[p]
  BY <1>1 DEF NewSwitch, Move
<1>4. Locations'
  BY <1>1, <1>2, <1>3, LocationsMove
<1>5. Family'
  <2>1. \A p \in Pid : Parent(p)' <=> Parent(p)
    BY <1>1, <1>2, <1>3, RunningFacts DEF Parent
  <2>2. QED BY <1>2, <1>3, <2>1, FamilyKept DEF IInv
<1>6. QED BY <1>2, <1>3, <1>4, <1>5

(* The one process that is nobody's parent is the running one whenever a    *)
(* program calls the kernel: nobody else reads the keyboard or the disk.    *)
LEMMA OnlyReader ==
    ASSUME IInv, at[running] \in {"user", "syscall", "scanf", "pioread", "piowrite"}
    PROVE  \A p \in Pid : at[p] \in {"scanf", "pioread"} => p = running
<1>1. running \in Live /\ ~Parent(running)
  BY RunningFacts DEF Parent
<1>2. ASSUME NEW p \in Pid, at[p] \in {"scanf", "pioread"} PROVE p = running
  <2>1. p \in Live /\ ~Parent(p)
    BY <1>2 DEF IInv, Locations, Live, Parent
  <2>2. QED BY <1>1, <2>1 DEF IInv, Family, OneLeaf
<1>3. QED BY <1>2

(* A program waits for the keyboard. *)
LEMMA ScanfStep == ASSUME IInv, NEW kind \in {"getc", "line"}, Scanf(kind) PROVE Step
<1>1. /\ irq1_flag' = running /\ irq1_status' = 0 /\ at[running] = "user"
      /\ running \in Pid
  BY RunningFacts DEF Scanf, AwaitKey, In
<1>2. /\ P!Next /\ Locations' /\ Family' /\ waiting' = waiting \cup {running}
      /\ \A p \in Pid : at'[p] = IF p = running THEN "scanf" ELSE at[p]
  BY <1>1, BlocksAt DEF Scanf
<1>3. \A p \in Pid : at[p] \notin {"scanf", "pioread"}
  BY <1>1, OnlyReader
<1>4. KeyboardReader'
  BY <1>1, <1>2, <1>3 DEF KeyboardReader
<1>5. DiskReader'
  BY <1>1, <1>2, <1>3, DiskKept DEF IInv, DiskReader, Scanf
<1>6. QED BY <1>2, <1>4, <1>5 DEF Step

(* The reader looks at the scancodes, and returns or waits for more. *)
LEMMA ScanfResumeStep == ASSUME IInv, ScanfResume PROVE Step
<1>1. /\ at[running] = "scanf" /\ running \in Pid /\ irq1_flag = running
      /\ \A p \in Pid : at[p] \in {"scanf", "pioread"} => p = running
  BY RunningFacts, OnlyReader DEF ScanfResume, In, IInv, KeyboardReader
<1>2. CASE Satisfied(call[running], scancodes)
  <2>1. Move("user") /\ UNCHANGED <<svars, irq1_status>> /\ irq1_flag' = -1
    BY <1>2 DEF ScanfResume
  <2>2. /\ [P!Next]_(P!vars) /\ Locations' /\ Family' /\ waiting' = waiting
        /\ \A p \in Pid : at'[p] = IF p = running THEN "user" ELSE at[p]
    BY <1>1, <2>1, MovesOn DEF ScanfResume
  <2>3. KeyboardReader'
    BY <1>1, <2>1, <2>2 DEF KeyboardReader, Pid
  <2>4. DiskReader'
    BY <1>1, <2>2, DiskKept DEF IInv, DiskReader, ScanfResume
  <2>5. QED BY <2>2, <2>3, <2>4 DEF Step
<1>3. CASE ~Satisfied(call[running], scancodes)
  <2>1. NewSwitch(irq1_flag, "scanf") /\ irq1_status' = 0 /\ irq1_flag' = irq1_flag
        /\ processid_gen' = processid_gen
    BY <1>3 DEF ScanfResume, AwaitKey
  <2>2. /\ P!Next /\ Locations' /\ Family' /\ waiting' = waiting \cup {running}
        /\ \A p \in Pid : at'[p] = IF p = running THEN "scanf" ELSE at[p]
    BY <1>1, <2>1, BlocksAt DEF ScanfResume
  <2>3. KeyboardReader'
    BY <1>1, <2>1, <2>2 DEF KeyboardReader
  <2>4. DiskReader'
    BY <1>1, <2>2, DiskKept DEF IInv, DiskReader, ScanfResume
  <2>5. QED BY <2>2, <2>3, <2>4 DEF Step
<1>4. QED BY <1>2, <1>3

(* A child exits and wakes the parent that waits for it. *)
LEMMA KillStep == ASSUME IInv, Kill PROVE Step
<1> DEFINE parent == ppid[running]
<1>1. /\ at[running] = "user" /\ running \notin {S!Idle, S!Shell}
      /\ S!ProcessSwitch(parent) /\ Move("loop")
      /\ UNCHANGED <<processid_gen, saved_stack, child, ppid>>
  BY DEF Kill, Exit, In
<1>2. running \in Live \ {S!Shell} /\ running \in Pid /\ at \in [Pid -> Location]
      /\ ~Parent(running)
  BY <1>1, RunningFacts DEF Parent
<1>3. parent \in Live /\ Parent(parent) /\ parent \in Pid /\ parent # running
  BY <1>2 DEF IInv, Family, Chain, Live
<1>4. parent \in waiting /\ at[parent] = "exec"
  BY <1>1, <1>3 DEF Parent, IInv, Locations
<1>5. P!Next /\ Kept /\ waiting' = waiting \ {parent} /\ running' = running
  BY <1>1, <1>4, Wakes DEF IInv
<1>6. \A p \in Pid : at'[p] = IF p = running THEN "loop" ELSE at[p]
  BY <1>1, <1>2 DEF Move
<1> HIDE DEF parent
<1>7. Locations'
  BY <1>1, <1>2, <1>5, <1>6, RunningFacts, LocationsMove
<1>8. KeyboardReader' /\ DiskReader'
  <2>1. /\ \A p \in Pid : at'[p] = "scanf" <=> at[p] = "scanf"
        /\ \A p \in Pid : at'[p] = "pioread" <=> at[p] = "pioread"
    BY <1>1, <1>6
  <2>2. /\ irq1_flag # -1 => (irq1_flag \in waiting' <=> irq1_flag \in waiting)
        /\ irq14_flag # -1 => (irq14_flag \in waiting' <=> irq14_flag \in waiting)
    BY <1>3, <1>4, <1>5 DEF IInv, KeyboardReader, DiskReader
  <2>3. QED BY <2>1, <2>2, KeyboardKept, DiskKept DEF IInv, Kill, Exit
<1>9. Family'
  <2>1. Live' = Live \ {running}
    BY <1>2, <1>5, <1>6 DEF Live, Kept
  <2>2. \A p \in Pid : Parent(p)' <=> Parent(p) /\ p # parent
    BY <1>1, <1>2, <1>3, <1>4, <1>5, <1>6 DEF Parent
  <2>3. \A p \in Live \ {S!Shell} : p # running => ppid[p] # parent
    BY <1>2 DEF IInv, Family, Chain, parent
  <2>4. Live \subseteq Pid
    BY DEF Live
  <2>5. Chain'
    BY <1>1, <1>2, <2>1, <2>2, <2>3, <2>4 DEF IInv, Family, Chain, S!Shell
  <2>6. \A p \in Live : Parent(p) \/ p = running
    BY <1>2 DEF IInv, Family, OneLeaf
  <2>7. OneLeaf'
    BY <2>1, <2>2, <2>4, <2>6 DEF OneLeaf
  <2>8. QED BY <2>5, <2>7 DEF Family
<1>10. QED BY <1>5, <1>7, <1>8, <1>9 DEF Step

(* create_process takes a pid, ... *)
LEMMA ExecAllocateStep == ASSUME IInv, ExecAllocate PROVE Step
<1>1. P!Next
  BY SameOperations DEF ExecAllocate, P!Next
<1>2. UNCHANGED <<waiting, running, process_state>> /\ at[running] = "syscall" /\ Kept
  BY DEF ExecAllocate, S!AllocatePid, In, Kept
<1>3. Locations'
  BY <1>2, RunningFacts DEF ExecAllocate, IInv, Locations, Live, S!Shell, S!Idle
<1>4. KeyboardReader' /\ DiskReader'
  BY <1>2, KeyboardKept, DiskKept DEF IInv, ExecAllocate
<1>5. Family'
  <2>1. ~Parent(running)
    BY <1>2 DEF Parent
  <2>2. \A p \in Pid : p # running => child'[p] = child[p]
    BY RunningFacts DEF ExecAllocate
  <2>3. \A p \in Pid : Parent(p)' <=> Parent(p)
    BY <1>2 DEF Parent, ExecAllocate
  <2>4. QED BY <1>2, <2>1, <2>2, <2>3, FamilyKept DEF IInv, ExecAllocate
<1>6. QED BY <1>1, <1>3, <1>4, <1>5 DEF Step

(* ... queues the new process, ... *)
LEMMA ExecInitiateStep == ASSUME IInv, ExecInitiate PROVE Step
<1> DEFINE c == child[running]
<1>1. /\ at[running] = "syscall" /\ running \in Live /\ running \in Pid
      /\ current_pid = running /\ at \in [Pid -> Location] /\ ppid \in [Pid -> Pid \cup {None}]
  BY RunningFacts DEF ExecInitiate, In
<1>2. /\ c \in Pid /\ process_state[c] = "none" /\ S!Initiate(c)
      /\ UNCHANGED <<waiting, running, child>>
  BY RunningFacts DEF ExecInitiate, S!Initiate
<1>3. process_state' = [process_state EXCEPT ![c] = "NEW"] /\ process_state \in [Pid -> S!State]
  BY <1>2 DEF S!Initiate, IInv, TypeOK, S!TypeOK, S!Pid, Pid
<1>4. \A p \in Pid : process_state'[p] = "none" <=> process_state[p] = "none" /\ p # c
  BY <1>2, <1>3
<1>5. /\ \A p \in Pid : at'[p] = IF p = running THEN "execing" ELSE at[p]
      /\ \A p \in Pid : ppid'[p] = IF p = c THEN running ELSE ppid[p]
  BY <1>1, <1>2 DEF ExecInitiate, Move
<1>6. c # running /\ at[c] = "user" /\ c \notin Live /\ S!Shell \in Live
      /\ c \notin waiting
  BY <1>1, <1>2 DEF IInv, Locations, Live
<1>7. [P!Next]_(P!vars)
  BY <1>2, SameOperations DEF P!Next, P!Pid, Pid
<1> HIDE DEF c
<1>8. Live' = Live \cup {c}
  BY <1>1, <1>2, <1>4, <1>5, <1>6 DEF Live
<1>9. Locations'
  <2>1. S!Idle \in Pid /\ S!Shell \in Pid
    BY KernelAssumption DEF Pid, S!Idle, S!Shell
  <2>2. at'[S!Idle] = "loop" /\ S!Shell \in Live'
    BY <1>1, <1>5, <1>6, <1>8, <2>1 DEF IInv, Locations
  <2>3. ASSUME NEW p \in Pid
        PROVE  /\ at'[p] \notin {"spin", "lost"}
               /\ at'[p] \in {"syscall", "execing"} => p = running'
               /\ p \in waiting' => at'[p] \in {"scanf", "pioread", "exec"}
               /\ process_state'[p] = "none" => at'[p] = "user"
    BY <1>1, <1>2, <1>4, <1>5, RunningFacts DEF IInv, Locations
  <2>4. QED BY <2>2, <2>3 DEF Locations, S!Idle, S!Shell
<1>10. KeyboardReader' /\ DiskReader'
  BY <1>1, <1>2, <1>5, KeyboardKept, DiskKept DEF IInv, ExecInitiate
<1>11. Family'
  <2>1. /\ \A p \in Pid : Parent(p)' <=> Parent(p) \/ p = running
        /\ ~Parent(running)
    BY <1>1, <1>2, <1>5 DEF Parent
  <2>2. Live \subseteq Pid
    BY DEF Live
  <2>3. ASSUME NEW p \in Live' \ {S!Shell}
        PROVE  (ppid[p] \in Live /\ Parent(ppid[p]) /\ child[ppid[p]] = p)'
    <3>1. CASE p = c
      BY <1>1, <1>2, <1>5, <1>8, <2>1, <3>1 DEF c
    <3>2. CASE p # c
      <4>1. p \in Live \ {S!Shell} /\ p \in Pid
        BY <1>8, <2>2, <2>3, <3>2
      <4>2. ppid[p] \in Live /\ Parent(ppid[p]) /\ child[ppid[p]] = p
        BY <4>1 DEF IInv, Family, Chain
      <4>3. QED BY <1>2, <1>5, <1>8, <2>1, <2>2, <3>2, <4>1, <4>2
    <3>3. QED BY <3>1, <3>2
  <2>4. Chain'
    BY <2>3 DEF Chain, S!Shell
  <2>5. \A p \in Live : Parent(p) \/ p = running
    BY <1>1, <2>1 DEF IInv, Family, OneLeaf
  <2>6. OneLeaf'
    BY <1>8, <2>1, <2>2, <2>5 DEF OneLeaf
  <2>7. QED BY <2>4, <2>6 DEF Family
<1>12. QED BY <1>7, <1>9, <1>10, <1>11 DEF Step

(* ... blocks until it exits ... *)
LEMMA ExecBlockStep == ASSUME IInv, ExecBlock PROVE Step
<1>1. at[running] = "execing" /\ running \in Pid /\ irq2_flag' = running
  BY RunningFacts DEF ExecBlock, In
<1>2. /\ P!Next /\ Locations' /\ Family' /\ waiting' = waiting \cup {running}
      /\ \A p \in Pid : at'[p] = IF p = running THEN "exec" ELSE at[p]
  BY <1>1, BlocksAt DEF ExecBlock
<1>3. KeyboardReader' /\ DiskReader'
  BY <1>1, <1>2, KeyboardKept, DiskKept DEF IInv, KeyboardReader, DiskReader, ExecBlock
<1>4. QED BY <1>2, <1>3 DEF Step

(* ... and returns. *)
LEMMA ExecResumeStep == ASSUME IInv, ExecResume PROVE Step
<1>1. /\ at[running] = "exec"
      /\ \A p \in Pid : p # running => child'[p] = child[p]
  BY RunningFacts DEF ExecResume, In
<1>2. /\ [P!Next]_(P!vars) /\ Locations' /\ Family' /\ waiting' = waiting
      /\ \A p \in Pid : at'[p] = IF p = running THEN "user" ELSE at[p]
  BY <1>1, MovesOn DEF ExecResume
<1>3. KeyboardReader' /\ DiskReader'
  BY <1>1, <1>2, KeyboardKept, DiskKept DEF IInv, ExecResume
<1>4. QED BY <1>2, <1>3 DEF Step

-----------------------------------------------------------------------------
(* The disk driver and the controller. *)

(* Nobody reads the disk while a program is about to.                       *)
LEMMA DriverFree ==
    ASSUME IInv, at[running] \in {"syscall", "piowrite"}
    PROVE  irq14_flag = -1 /\ \A p \in Pid : at[p] \notin {"scanf", "pioread"}
<1>1. \A p \in Pid : at[p] \notin {"scanf", "pioread"}
  BY OnlyReader
<1>2. irq14_flag = -1
  BY <1>1 DEF IInv, DiskReader
<1>3. QED BY <1>1, <1>2

(* A read: the command is sent and its reader waits. *)
LEMMA PioReadStep == ASSUME IInv, NEW n \in Sectors, PioRead(n) PROVE Step
<1>1. /\ at[running] = "syscall" /\ running \in Pid /\ current_pid = running
      /\ irq14_flag = -1 /\ \A p \in Pid : at[p] \notin {"scanf", "pioread"}
  BY RunningFacts, DriverFree DEF PioRead, In
<1>2. irq14_flag' = running /\ ReadCommand(n) /\ NewSwitch(irq14_flag', "pioread")
      /\ processid_gen' = processid_gen
  BY <1>1 DEF PioRead
<1>3. /\ P!Next /\ Locations' /\ Family' /\ waiting' = waiting \cup {running}
      /\ \A p \in Pid : at'[p] = IF p = running THEN "pioread" ELSE at[p]
  BY <1>1, <1>2, BlocksAt DEF PioRead
<1>4. KeyboardReader'
  BY <1>1, <1>3, KeyboardKept DEF IInv, KeyboardReader, PioRead
<1>5. DiskReader'
  <2>1. disk \in Registers
    BY TypeParts DEF IInv, OwnTypes
  <2>2. /\ disk'.left = n /\ disk'.drq = SyncDisk /\ ~disk'.err /\ disk'.writes = 0
        /\ disk'.machine = disk.machine /\ irr14' = (irr14 \/ SyncDisk)
    BY <1>2, <2>1 DEF ReadCommand, IdleDisk, Registers
  <2>3. n \in Nat \ {0} /\ (disk.machine = "reading" => n = 1)
    BY KernelAssumption DEF Sectors
  <2>4. /\ disk.machine \in {"emulated", "reading"} /\ (irr14 => disk.machine = "emulated")
        /\ irr14 \in BOOLEAN
    BY <1>1 DEF IInv, DiskReader, TypeOK
  <2>5. disk'.left > 0 /\ (disk.machine = "reading" => disk'.left <= 1)
    BY <2>2, <2>3
  <2>6. running # -1
    BY <1>1 DEF Pid
  <2>7. QED
    BY <1>1, <1>2, <1>3, <2>2, <2>4, <2>5, <2>6 DEF DiskReader, SyncDisk
<1>6. QED BY <1>3, <1>4, <1>5 DEF Step

(* A write: the processor is given up, and nobody waits. *)
LEMMA PioWriteStep == ASSUME IInv, NEW n \in Sectors, PioWrite(n) PROVE Step
<1>1. /\ at[running] = "syscall" /\ running \in Pid /\ current_pid = running
      /\ running \notin waiting
      /\ irq14_flag = -1 /\ \A p \in Pid : at[p] \notin {"scanf", "pioread"}
  BY RunningFacts, DriverFree DEF PioWrite, In
<1>2. NewSwitch(-1, "piowrite") /\ processid_gen' = processid_gen /\ Writing
      /\ disk' = [IdleDisk EXCEPT !.writes = IF SyncDisk THEN 0 ELSE n]
      /\ UNCHANGED <<irq14_flag, irq1_flag, irq1_status, child, ppid>>
  BY <1>1 DEF PioWrite
<1>3. P!Next /\ Kept /\ waiting' = waiting
  BY <1>2, Yields DEF NewSwitch, IInv
<1>4. \A p \in Pid : at'[p] = IF p = running THEN "piowrite" ELSE at[p]
  BY <1>2, RunningFacts DEF NewSwitch, Move
<1>5. Locations'
  BY <1>1, <1>3, <1>4, LocationsMove
<1>6. KeyboardReader'
  BY <1>1, <1>2, <1>3, <1>4, KeyboardKept DEF IInv
<1>7. DiskReader'
  <2>1. disk \in Registers
    BY TypeParts DEF IInv, OwnTypes
  <2>2. disk.machine = "emulated" /\ SyncDisk
    BY <1>2 DEF IInv, DiskReader, Writing, SyncDisk
  <2>3. disk'.left = 0 /\ ~disk'.drq /\ ~disk'.err /\ disk'.writes = 0 /\ disk'.machine = "emulated"
    BY <1>2, <2>1, <2>2 DEF IdleDisk, Registers
  <2>4. QED BY <1>1, <1>2, <1>4, <2>3 DEF IInv, DiskReader
<1>8. Family'
  <2>1. \A p \in Pid : Parent(p)' <=> Parent(p)
    BY <1>1, <1>3, <1>4 DEF Parent
  <2>2. QED BY <1>1, <1>2, <1>3, <1>4, <2>1, FamilyKept DEF IInv
<1>9. QED BY <1>3, <1>5, <1>6, <1>7, <1>8 DEF Step

(* The reader goes on: its data is there, and what is left is for nobody. *)
LEMMA PioReadResumeStep == ASSUME IInv, PioReadResume PROVE Step
<1>1. /\ at[running] = "pioread" /\ running \in Pid /\ running \notin waiting
      /\ irq14_flag = running /\ irq14_flag' = -1 /\ running # -1
      /\ \A p \in Pid : at[p] \in {"scanf", "pioread"} => p = running
  BY RunningFacts, OnlyReader DEF PioReadResume, ReaderDone, In, IInv, DiskReader, Pid
<1>2. /\ [P!Next]_(P!vars) /\ Locations' /\ Family' /\ waiting' = waiting
      /\ \A p \in Pid : at'[p] = IF p = running THEN "syscall" ELSE at[p]
  BY <1>1, MovesOn DEF PioReadResume
<1>3. KeyboardReader'
  BY <1>1, <1>2, KeyboardKept DEF IInv, PioReadResume
<1>4. disk.drq /\ ~irr14 /\ disk.left > 0
  BY <1>1 DEF IInv, DiskReader
<1>5. DiskReader'
  <2>1. disk \in Registers
    BY TypeParts DEF IInv, OwnTypes
  <2>2. disk' = IdleDisk /\ irr14' = (irr14 \/ disk.left > 1)
    BY <1>4 DEF PioReadResume
  <2>3. /\ disk'.left = 0 /\ ~disk'.drq /\ ~disk'.err /\ disk'.writes = 0
        /\ disk'.machine = disk.machine
    BY <2>1, <2>2 DEF IdleDisk, Registers
  <2>4. irr14' => disk.machine = "emulated"
    BY <1>4, <2>1, <2>2 DEF IInv, DiskReader, Registers
  <2>5. \A p \in Pid : p # -1
    BY DEF Pid
  <2>6. QED BY <1>1, <1>2, <2>3, <2>4, <2>5 DEF IInv, DiskReader
<1>6. QED BY <1>2, <1>3, <1>5 DEF Step

(* The writer goes on. *)
LEMMA PioWriteResumeStep == ASSUME IInv, PioWriteResume PROVE Step
<1>1. /\ at[running] = "piowrite" /\ irq14_flag = -1 /\ irq14_flag' = -1
  BY DriverFree DEF PioWriteResume, ReaderDone, In
<1>2. /\ [P!Next]_(P!vars) /\ Locations' /\ Family' /\ waiting' = waiting
      /\ \A p \in Pid : at'[p] = IF p = running THEN "syscall" ELSE at[p]
  BY <1>1, MovesOn DEF PioWriteResume
<1>3. KeyboardReader' /\ DiskReader'
  BY <1>1, <1>2, KeyboardKept, DiskKept DEF IInv, PioWriteResume
<1>4. QED BY <1>2, <1>3 DEF Step

(* The controller answers: the reader's data is there. *)
LEMMA DiskAnswersStep == ASSUME DiskAnswersAll, IInv, DiskAnswers PROVE Step
<1>1. UNCHANGED svars /\ UNCHANGED P!vars /\ Kept /\ waiting' = waiting
  BY Stays DEF DiskAnswers
<1>2. Locations' /\ KeyboardReader' /\ Family'
  <2>1. Locations'
    BY <1>1 DEF DiskAnswers, svars, IInv, Locations, Live, S!Shell, S!Idle
  <2>2. QED BY <1>1, <2>1, KeyboardKept, FamilyKept DEF DiskAnswers, IInv, Parent
<1>3. DiskReader'
  <2>1. disk \in Registers /\ disk.writes = 0
    BY TypeParts DEF IInv, OwnTypes, DiskReader
  <2>2. disk.left > 0 /\ ~disk.drq /\ disk' = [disk EXCEPT !.drq = TRUE] /\ irr14' = TRUE
    BY <2>1 DEF DiskAnswers, DiskAnswersAll
  <2>3. /\ disk'.left = disk.left /\ disk'.drq /\ disk'.err = disk.err /\ disk'.writes = disk.writes
        /\ disk'.machine = disk.machine
    BY <2>1, <2>2 DEF Registers
  <2>4. QED BY <1>1, <2>2, <2>3 DEF IInv, DiskReader, DiskAnswers
<1>4. QED BY <1>1, <1>2, <1>3 DEF Step

-----------------------------------------------------------------------------
(* The invariant holds initially and every step preserves it. *)

(* kmain leaves a state that satisfies the invariant.                       *)
LEMMA InitIInv == DiskAnswersAll /\ Init => IInv
<1> SUFFICES ASSUME DiskAnswersAll, Init PROVE IInv
  OBVIOUS
<1>1. P!IInv
  BY SchedulerAssumption, SameOperations, P!InitIInv DEF Init
<1>2. TypeOK
  BY InitType
<1>3. 0 \in Pid /\ 1 \in Pid /\ \A p \in Pid : p # -1
  BY KernelAssumption DEF Pid
<1>4. /\ at = [p \in Pid |-> IF p = 0 THEN "loop" ELSE "user"]
      /\ process_state = [p \in Pid |-> IF p = 0 THEN "RUNNING"
                                        ELSE IF p = 1 THEN "NEW" ELSE "none"]
      /\ waiting = {} /\ running = 0
      /\ irq1_flag = -1 /\ irq14_flag = -1 /\ irr14 = FALSE
  BY DEF Init, S!Init, S!Idle, S!Shell, Pid, S!Pid
<1>5. Live = {1}
  BY <1>3, <1>4 DEF Live
<1>6. Locations
  <2>1. 0 \in Pid => at[0] = "loop" /\ process_state[0] # "none"
    BY <1>4
  <2>2. \A p \in Pid : p # 0 => at[p] = "user"
    BY <1>4
  <2>3. QED BY <1>3, <1>4, <1>5, <2>1, <2>2 DEF Locations, S!Idle, S!Shell
<1>7. KeyboardReader
  BY <1>3, <1>4 DEF KeyboardReader
<1>8. DiskReader
  <2>1. /\ disk.left = 0 /\ disk.drq = FALSE /\ disk.err = FALSE /\ disk.writes = 0
        /\ disk.machine \in Machines
    BY DEF Init
  <2>2. disk.machine \in {"emulated", "reading"}
    BY <2>1 DEF DiskAnswersAll
  <2>3. \A p \in Pid : at[p] # "pioread"
    BY <1>4
  <2>4. QED BY <1>3, <1>4, <2>1, <2>2, <2>3 DEF DiskReader
<1>9. Family
  BY <1>5 DEF Family, Chain, OneLeaf, S!Shell
<1>10. QED BY <1>1, <1>2, <1>6, <1>7, <1>8, <1>9 DEF IInv

(* Every step is one of the scheduler's, or leaves it alone, and keeps the  *)
(* invariant.                                                               *)
LEMMA NextStep == DiskAnswersAll /\ IInv /\ [Next]_vars => Step
<1> SUFFICES ASSUME DiskAnswersAll, IInv, [Next]_vars PROVE Step
  OBVIOUS
<1>1. CASE InterruptStep
  BY <1>1, TimerStep, KeyboardStep, PrimaryDiskStep DEF InterruptStep
<1>2. CASE UserStep
  BY <1>2, CallStep, ScanfStep, KillStep DEF UserStep
<1>3. CASE KernelStep
  BY <1>3, CallStep, ScanfResumeStep, ExecAllocateStep, ExecInitiateStep, ExecBlockStep,
     ExecResumeStep, PioReadStep, PioWriteStep, PioReadResumeStep, PioWriteResumeStep
     DEF KernelStep
<1>4. CASE DiskAnswers
  BY <1>4, DiskAnswersStep
<1>5. CASE UNCHANGED vars
  <2>1. /\ UNCHANGED P!vars /\ Kept /\ waiting' = waiting
        /\ UNCHANGED <<running, process_state, at, child, ppid, irq1_flag, irq1_status,
                       irq14_flag, disk, irr14>>
    BY <1>5, Stays DEF vars, svars, kvars
  <2>2. Locations'
    BY <2>1 DEF IInv, Locations, Live, S!Shell, S!Idle
  <2>3. KeyboardReader' /\ DiskReader' /\ Family'
    BY <2>1, KeyboardKept, DiskKept, FamilyKept DEF IInv, Parent
  <2>4. QED BY <2>1, <2>2, <2>3 DEF Step
<1>6. QED BY <1>1, <1>2, <1>3, <1>4, <1>5 DEF Next

(* The inductive invariant holds in every reachable state. *)
THEOREM Invariant ==
    ASSUME DiskAnswersAll
    PROVE  Spec => []IInv
<1>1. Init => IInv
  BY InitIInv
<1>2. IInv /\ [Next]_vars => IInv'
  <2> SUFFICES ASSUME IInv, [Next]_vars PROVE IInv'
    OBVIOUS
  <2>1. TypeOK' /\ Step
    BY NextType, NextStep DEF IInv
  <2>2. P!IInv'
    BY <2>1, SchedulerAssumption, P!NextIInv DEF IInv, Step
  <2>3. QED BY <2>1, <2>2 DEF IInv, Step
<1>3. QED BY <1>1, <1>2, PTL DEF Spec

-----------------------------------------------------------------------------
(* What follows from the invariant. *)

(* No handler or system call asks process_switch for a process that does    *)
(* not wait, no reader spins with interrupts off, and nobody returns into   *)
(* the end of the text section.                                             *)
THEOREM KernelNeverHangs ==
    ASSUME DiskAnswersAll
    PROVE  Spec => []NoHang
<1>1. IInv => NoHang
  BY RunningFacts DEF IInv, P!IInv, P!NeverFaults, Locations, NoHang
<1>2. QED BY <1>1, Invariant, PTL

(* No lost wake-up: whoever waits is named by the flag its interrupt looks  *)
(* at, and whoever a flag names can be woken.                               *)
THEOREM WaitersAreNamed ==
    ASSUME DiskAnswersAll
    PROVE  Spec => []FlagsNameWaiters
<1>1. ASSUME IInv PROVE FlagsNameWaiters
  <2>1. waiting \subseteq Pid /\ irq1_flag \in Pid \cup {-1}
    BY <1>1, RunningFacts DEF IInv, TypeOK
  <2>2. ASSUME NEW p \in waiting
        PROVE  \/ at[p] = "scanf" /\ irq1_flag = p /\ irq1_status = 0
               \/ at[p] = "pioread" /\ irq14_flag = p
               \/ at[p] = "exec"
    <3>1. p \in Pid /\ p # -1 /\ at[p] \in {"scanf", "pioread", "exec"}
      BY <1>1, <2>1 DEF IInv, Locations, Pid
    <3>2. QED BY <1>1, <3>1 DEF IInv, KeyboardReader, DiskReader
  <2>3. /\ irq1_flag # -1 /\ irq1_status = 0 => irq1_flag \in waiting
        /\ irq14_flag # -1 => at[irq14_flag] = "pioread"
    BY <1>1 DEF IInv, KeyboardReader, DiskReader
  <2>4. QED BY <2>2, <2>3 DEF FlagsNameWaiters
<1>2. QED BY <1>1, Invariant, PTL

(* The processes form one chain of parents that wait, each for its child.   *)
THEOREM ParentsAwaitTheirChild ==
    ASSUME DiskAnswersAll
    PROVE  Spec => []ParentsWait
<1>1. ASSUME IInv PROVE ParentsWait
  <2>1. ASSUME NEW p \in Live \ {S!Shell}
        PROVE  /\ ppid[p] \in Live
               /\ child[ppid[p]] = p
               /\ \/ ppid[p] \in waiting /\ at[ppid[p]] = "exec"
                  \/ ppid[p] = running /\ at[running] = "execing"
    <3>1. ppid[p] \in Live /\ ppid[p] \in Pid /\ Parent(ppid[p]) /\ child[ppid[p]] = p
      BY <1>1 DEF IInv, Family, Chain, Live
    <3>2. QED BY <1>1, <3>1 DEF IInv, Locations, Parent
  <2>2. QED BY <2>1 DEF ParentsWait
<1>2. QED BY <1>1, Invariant, PTL

(* No read ends before its data is there, and none is left asleep.          *)
THEOREM EveryReadIsAnswered ==
    ASSUME DiskAnswersAll
    PROVE  Spec => []ReadsAnswered
<1>1. ASSUME IInv PROVE ReadsAnswered
  <2>1. running \in Pid /\ running \notin waiting /\ waiting \subseteq Pid
        /\ \A p \in Pid : p # -1
    BY <1>1, RunningFacts DEF Pid
  <2>2. DataReady
    BY <1>1, <2>1 DEF IInv, DiskReader, DataReady
  <2>3. AnswerComes
    BY <1>1, <2>1 DEF IInv, DiskReader, AnswerComes
  <2>4. QED BY <2>2, <2>3 DEF ReadsAnswered
<1>2. QED BY <1>1, Invariant, PTL

(* The kernel uses the scheduler as its specification supposes: every step  *)
(* of a handler or a system call is one of the scheduler's operations, or   *)
(* none.                                                                    *)
THEOREM KernelImplementsScheduler ==
    ASSUME DiskAnswersAll
    PROVE  Spec => UsesScheduler
<1>1. Init => S!Init
  BY DEF Init
<1>2. [P!Next]_(P!vars) => [S!Next]_(S!vars)
  BY SameOperations DEF P!Next, S!Next, P!vars, S!vars, P!Preempt, S!Preempt, P!Block, S!Block,
     P!Wake, S!Wake, P!Idle, S!Idle, P!Pid, S!Pid
<1>3. IInv /\ [Next]_vars => [S!Next]_(S!vars)
  BY <1>2, NextStep DEF Step
<1>4. QED BY <1>1, <1>3, Invariant, PTL DEF Spec, UsesScheduler, S!Spec

(* So what is proved of the scheduler is true of the kernel: no two         *)
(* suspended processes share a kernel stack, no process is started twice,   *)
(* nobody is overtaken, and every process goes through its lifecycle.       *)
THEOREM SchedulerResultsHold ==
    ASSUME DiskAnswersAll
    PROVE  Spec => /\ [](P!OnePlace /\ P!StateMatchesPlace)
                   /\ []P!StacksApart
                   /\ P!StartedOnce
                   /\ P!FirstCome
                   /\ P!ImplementsLifecycle
<1>1. Init => P!Init
  BY SameOperations DEF Init
<1>2. IInv /\ [Next]_vars => [P!Next]_(P!vars)
  BY NextStep DEF Step
<1>3. Spec => P!Spec
  BY <1>1, <1>2, Invariant, PTL DEF Spec, P!Spec
<1>4. QED
  BY <1>3, SchedulerAssumption, P!EveryProcessInOnePlace, P!KernelStacksApart,
     P!NeverStartedTwice, P!NobodyOvertaken, P!SchedulerImplementsLifecycle, PTL
=============================================================================
