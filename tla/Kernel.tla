-------------------------------- MODULE Kernel --------------------------------
(***************************************************************************)
(* The running kernel around the scheduler: the timer, keyboard and disk   *)
(* interrupt handlers of idt.cpp, the blocking system calls of             *)
(* syscalls.cpp and the primary disk driver of storage.cpp, on one         *)
(* processor.                                                              *)
(*                                                                         *)
(* Every gate is an interrupt gate and every stub does cli, so a handler   *)
(* or a system call runs with interrupts off until it irets or switches to *)
(* another process: an interrupt is taken only while the running process   *)
(* is in user mode, and the interrupt controller keeps a disk interrupt    *)
(* that arrives in between (irr14).                                        *)
(*                                                                         *)
(* A process is a location (at): in user mode, inside a system call that   *)
(* holds the processor, or inside a blocking one, where it goes on when it *)
(* is next switched to.  The programs are those of apps/: they reach the   *)
(* process calls through p1.s, which creates a child only together with    *)
(* waiting for it and loops for ever after kill_process.                   *)
(***************************************************************************)
EXTENDS Integers, Sequences, FiniteSets, Functions

CONSTANTS
    MaxPid,       \* bound: pids 0..MaxPid are handed out
    MaxSectors,   \* bound: sectors of one disk command
    MaxKeys,      \* bound: scancodes queued before the reader takes them
    Machines,     \* the machines the kernel runs on
    ErrorCodes    \* the error register's values when a command fails; {}: none does

(* An emulated disk may answer a command at once, a real one answers later. *)
(* "reading" is a real one that is only read, one sector at a time.         *)
Machine == {"emulated", "reading", "real"}

ASSUME KernelAssumption ==
    /\ MaxPid \in Nat /\ MaxPid >= 1
    /\ MaxSectors \in Nat \ {0} /\ MaxKeys \in Nat \ {0}
    /\ Machines \subseteq Machine /\ Machines # {}
    /\ ErrorCodes \subseteq 1..255

VARIABLES
    processid_gen, ready_queue, waiting, running, process_state, current_pid,
    esp0, saved_stack, fault,          \* the scheduler's
    process_clock,                     \* ticks of the running quantum
    irq1_flag, irq1_status, scancodes, \* the keyboard reader, whether it was woken, schead
    irq2_flag,                         \* the parent that last blocked
    irq14_flag,                        \* the disk reader, or -1
    at, call, child, ppid,             \* per process: location, call, locals
    disk, irr14                        \* the disk controller, its interrupt line

S == INSTANCE Scheduler

svars == <<processid_gen, ready_queue, waiting, running, process_state, current_pid,
           esp0, saved_stack, fault>>
kvars == <<process_clock, irq1_flag, irq1_status, scancodes, irq2_flag, irq14_flag,
           at, call, child, ppid, disk, irr14>>
vars == <<svars, kvars>>

Pid == 0..MaxPid
None == -1
TIME_QUANTUM == 2
Key == {"enter", "char", "modifier"}

(* user: user mode; loop: user mode, no system call any more (idle, and p1.s *)
(* after kill_process); syscall, execing: in the kernel, holding the         *)
(* processor; scanf, pioread, piowrite, exec: inside systemcallbackup;       *)
(* spin: pioread's wait for the other reader, with interrupts off; lost:     *)
(* systemcallbackup runs off its end, newswitch having returned.             *)
Location == {"user", "loop", "syscall", "execing", "scanf", "pioread", "piowrite", "exec",
             "spin", "lost"}
Call == {"none", "file", "exec", "getc", "line"}

SyncDisk == disk.machine = "emulated"
Writing == disk.machine # "reading"
Sectors == 1..(IF disk.machine = "reading" THEN 1 ELSE MaxSectors)

IdleDisk == [disk EXCEPT !.left = 0, !.drq = FALSE, !.err = FALSE, !.writes = 0]

UserMode == fault = "none" /\ at[running] \in {"user", "loop"}
In(loc) == fault = "none" /\ at[running] = loc
Move(loc) == at' = [at EXCEPT ![running] = loc]
Enter(c) == call' = [call EXCEPT ![running] = c]

(* Mutant: the caller's stack pointer is not recorded. *)
NewSwitchUnsaved(flag, loc) ==
    /\ UNCHANGED saved_stack
    /\ S!ProcessSwitch(flag)
    /\ Move(IF flag \in {-1, current_pid} THEN loc ELSE "lost")

(* systemcallbackup and newswitch: the caller stops at loc.  process_switch *)
(* comes back if the flag names neither the caller nor nobody; the assembly *)
(* has nothing after the call.                                              *)
NewSwitch(flag, loc) ==
    /\ S!SaveContext
    /\ S!ProcessSwitch(flag)
    /\ Move(IF flag \in {-1, current_pid} THEN loc ELSE "lost")

Init ==
    /\ S!Init
    /\ process_clock = 0
    /\ irq1_flag = -1 /\ irq1_status = 0 /\ scancodes = <<>>
    /\ irq2_flag = 0
    /\ irq14_flag = -1
    /\ at = [p \in Pid |-> IF p = S!Idle THEN "loop" ELSE "user"]
    /\ call = [p \in Pid |-> "none"]
    /\ child = [p \in Pid |-> None]
    /\ ppid = [p \in Pid |-> None]
    /\ disk \in [left : {0}, drq : {FALSE}, err : {FALSE}, writes : {0}, machine : Machines]
    /\ irr14 = FALSE

-----------------------------------------------------------------------------
(* Interrupt handlers. *)

(* Mutant: the clock is compared before it is stepped. *)
TimerLate ==
    /\ UserMode
    /\ IF process_clock = TIME_QUANTUM
       THEN process_clock' = 0 /\ S!SaveContext /\ S!ProcessSwitch(-1)
       ELSE process_clock' = process_clock + 1 /\ UNCHANGED svars
    /\ UNCHANGED <<processid_gen, irq1_flag, irq1_status, scancodes, irq2_flag, irq14_flag,
                   at, call, child, ppid, disk, irr14>>

(* Two ticks end a quantum. *)
Timer ==
    /\ UserMode
    /\ IF process_clock + 1 = TIME_QUANTUM
       THEN process_clock' = 0 /\ S!SaveContext /\ S!ProcessSwitch(-1)
       ELSE process_clock' = process_clock + 1 /\ UNCHANGED svars
    /\ UNCHANGED <<processid_gen, irq1_flag, irq1_status, scancodes, irq2_flag, irq14_flag,
                   at, call, child, ppid, disk, irr14>>

(* A scancode for the reader; the first since it blocked wakes it.  With no *)
(* reader (irq1_flag < 0) the handler drops the code and changes nothing.   *)
Keyboard(key) ==
    /\ UserMode
    /\ irq1_flag >= 0
    /\ Len(scancodes) < MaxKeys
    /\ scancodes' = Append(scancodes, key)
    /\ irq1_status' = 1
    /\ process_clock' = 0
    /\ IF irq1_status = 0
       THEN S!ProcessSwitch(irq1_flag) /\ UNCHANGED <<processid_gen, saved_stack>>
       ELSE UNCHANGED svars
    /\ UNCHANGED <<irq1_flag, irq2_flag, irq14_flag, at, call, child, ppid, disk, irr14>>

(* Mutant: the interrupt is acknowledged and nobody is woken. *)
PrimaryDiskWakesNobody ==
    /\ UserMode
    /\ irr14
    /\ irr14' = FALSE
    /\ UNCHANGED <<svars, process_clock, irq1_flag, irq1_status, scancodes, irq2_flag,
                   irq14_flag, at, call, child, ppid, disk>>

(* Wakes whatever irq14_flag names, which an error code has replaced if the *)
(* command failed.  (-2 is the device probe's, which only runs at boot.)    *)
PrimaryDisk ==
    /\ UserMode
    /\ irr14
    /\ irr14' = FALSE
    /\ IF irq14_flag = -1
       THEN UNCHANGED <<irq14_flag, svars>>
       ELSE /\ irq14_flag' \in IF disk.err THEN ErrorCodes ELSE {irq14_flag}
            /\ S!ProcessSwitch(irq14_flag')
            /\ UNCHANGED <<processid_gen, saved_stack>>
    /\ UNCHANGED <<process_clock, irq1_flag, irq1_status, scancodes, irq2_flag,
                   at, call, child, ppid, disk>>

-----------------------------------------------------------------------------
(* System calls. *)

AwaitStaleKey == scancodes' = <<>> /\ UNCHANGED irq1_status    \* mutant: still "woken"

(* Forget the scancodes so far; the next one wakes the reader. *)
AwaitKey == scancodes' = <<>> /\ irq1_status' = 0

(* eax = 2: become the reader, and block for a first scancode. *)
Scanf(kind) ==
    /\ In("user")
    /\ Enter(kind)
    /\ irq1_flag' = running
    /\ AwaitKey
    /\ NewSwitch(irq1_flag', "scanf")
    /\ UNCHANGED <<processid_gen, process_clock, irq2_flag, irq14_flag, child, ppid, disk, irr14>>

(* getc is satisfied by any code that is no pressed modifier, gets and geti *)
(* by ENTER; what the batch holds beyond is forgotten.                      *)
Satisfied(kind, codes) ==
    IF kind = "getc" THEN Range(codes) \ {"modifier"} # {} ELSE "enter" \in Range(codes)

ScanfResume ==
    /\ In("scanf")
    /\ IF Satisfied(call[running], scancodes)
       THEN /\ irq1_flag' = -1
            /\ Move("user") /\ Enter("none")
            /\ UNCHANGED <<irq1_status, scancodes, svars>>
       ELSE /\ AwaitKey
            /\ NewSwitch(irq1_flag, "scanf")
            /\ UNCHANGED <<processid_gen, irq1_flag, call>>
    /\ UNCHANGED <<process_clock, irq2_flag, irq14_flag, child, ppid, disk, irr14>>

(* eax = 4, and eax = 5, ebx = 2: calls that use the disk before they end. *)
FileCall ==
    /\ In("user")
    /\ Move("syscall") /\ Enter("file")
    /\ UNCHANGED <<svars, process_clock, irq1_flag, irq1_status, scancodes, irq2_flag,
                   irq14_flag, child, ppid, disk, irr14>>

FileReturn ==
    /\ In("syscall")
    /\ call[running] = "file"
    /\ Move("user") /\ Enter("none")
    /\ UNCHANGED <<svars, process_clock, irq1_flag, irq1_status, scancodes, irq2_flag,
                   irq14_flag, child, ppid, disk, irr14>>

Exec ==
    /\ In("user")
    /\ processid_gen <= MaxPid
    /\ Move("syscall") /\ Enter("exec")
    /\ UNCHANGED <<svars, process_clock, irq1_flag, irq1_status, scancodes, irq2_flag,
                   irq14_flag, child, ppid, disk, irr14>>

(* The constructor takes a pid once it has opened the image, ... *)
ExecAllocate ==
    /\ In("syscall")
    /\ call[running] = "exec" /\ child[running] = None
    /\ S!AllocatePid
    /\ child' = [child EXCEPT ![running] = processid_gen]
    /\ UNCHANGED <<process_clock, irq1_flag, irq1_status, scancodes, irq2_flag, irq14_flag,
                   at, call, ppid, disk, irr14>>

(* ... and queues the process once it has read it; the caller then blocks. *)
ExecInitiate ==
    /\ In("syscall")
    /\ child[running] # None
    /\ S!Initiate(child[running])
    /\ ppid' = [ppid EXCEPT ![child[running]] = current_pid]
    /\ Move("execing")
    /\ UNCHANGED <<process_clock, irq1_flag, irq1_status, scancodes, irq2_flag, irq14_flag,
                   call, child, disk, irr14>>

ExecGoesOn ==      \* mutant: create_process does not wait
    /\ In("execing")
    /\ irq2_flag' = current_pid
    /\ Move("exec")
    /\ UNCHANGED <<svars, process_clock, irq1_flag, irq1_status, scancodes, irq14_flag,
                   call, child, ppid, disk, irr14>>

ExecBlock ==
    /\ In("execing")
    /\ irq2_flag' = current_pid
    /\ NewSwitch(irq2_flag', "exec")
    /\ UNCHANGED <<processid_gen, process_clock, irq1_flag, irq1_status, scancodes, irq14_flag,
                   call, child, ppid, disk, irr14>>

ExecResume ==
    /\ In("exec")
    /\ irq2_flag' = -1
    /\ Move("user") /\ Enter("none")
    /\ child' = [child EXCEPT ![running] = None]
    /\ UNCHANGED <<svars, process_clock, irq1_flag, irq1_status, scancodes, irq14_flag,
                   ppid, disk, irr14>>

Exit(parent) ==
    /\ In("user")
    /\ running \notin {S!Idle, S!Shell}
    /\ S!ProcessSwitch(parent)
    /\ Move("loop")
    /\ UNCHANGED <<processid_gen, saved_stack, process_clock, irq1_flag, irq1_status, scancodes,
                   irq2_flag, irq14_flag, call, child, ppid, disk, irr14>>

KillWakesLast == Exit(irq2_flag)    \* mutant: the parent that blocked last

(* eax = 5, ebx = 3: wake the parent.  The process is not removed: it goes  *)
(* back to p1.s and loops.  The shell, which has no parent, never exits.    *)
Kill == Exit(ppid[running])

-----------------------------------------------------------------------------
(* The disk driver, and the controller (external) it talks to. *)

ReadCommandUnsent(n) == disk' = IdleDisk /\ UNCHANGED irr14    \* mutant: no command byte

ReadCommand(n) ==
    /\ disk' = [IdleDisk EXCEPT !.left = n, !.drq = SyncDisk]
    /\ irr14' = (irr14 \/ SyncDisk)

ReaderStays == UNCHANGED irq14_flag    \* mutant: the flag is not given up

ReaderDone == irq14_flag' = -1

PioReadYields(n) ==      \* mutant: the reader gives up the processor but does not wait
    /\ In("syscall")
    /\ IF irq14_flag = -1
       THEN /\ ReadCommand(n)
            /\ NewSwitch(irq14_flag, "pioread")
            /\ UNCHANGED <<irq14_flag, processid_gen>>
       ELSE Move("spin") /\ UNCHANGED <<irq14_flag, disk, irr14, svars>>
    /\ UNCHANGED <<process_clock, irq1_flag, irq1_status, scancodes, irq2_flag, call, child, ppid>>

(* pioread: name oneself in irq14_flag, send the command, block. *)
PioRead(n) ==
    /\ In("syscall")
    /\ IF irq14_flag = -1
       THEN /\ irq14_flag' = current_pid
            /\ ReadCommand(n)
            /\ NewSwitch(irq14_flag', "pioread")
            /\ UNCHANGED processid_gen
       ELSE Move("spin") /\ UNCHANGED <<irq14_flag, disk, irr14, svars>>
    /\ UNCHANGED <<process_clock, irq1_flag, irq1_status, scancodes, irq2_flag, call, child, ppid>>

(* Back from the switch: read the words, whatever the status register would *)
(* say.  Each sector after the first raises its interrupt during the loop,  *)
(* whose delay before each sector is taken to outlast the gap; with no data *)
(* to offer the controller stays as it is and garbage is read.              *)
PioReadResume ==
    /\ In("pioread")
    /\ IF disk.drq
       THEN disk' = IdleDisk /\ irr14' = (irr14 \/ disk.left > 1)
       ELSE UNCHANGED <<disk, irr14>>
    /\ ReaderDone
    /\ Move("syscall")
    /\ UNCHANGED <<svars, process_clock, irq1_flag, irq1_status, scancodes, irq2_flag,
                   call, child, ppid>>

(* piowrite: send command and data, then newswitch with irq14_flag = -1,   *)
(* which only yields the processor.                                        *)
PioWrite(n) ==
    /\ Writing
    /\ In("syscall")
    /\ IF irq14_flag = -1
       THEN /\ disk' = [IdleDisk EXCEPT !.writes = IF SyncDisk THEN 0 ELSE n]
            /\ irr14' = (irr14 \/ SyncDisk)
            /\ NewSwitch(irq14_flag, "piowrite")
            /\ UNCHANGED processid_gen
       ELSE Move("spin") /\ UNCHANGED <<disk, irr14, svars>>
    /\ UNCHANGED <<process_clock, irq1_flag, irq1_status, scancodes, irq2_flag, irq14_flag,
                   call, child, ppid>>

PioWriteResume ==
    /\ In("piowrite")
    /\ ReaderDone
    /\ Move("syscall")
    /\ UNCHANGED <<svars, process_clock, irq1_flag, irq1_status, scancodes, irq2_flag,
                   call, child, ppid, disk, irr14>>

(* The controller: the first sector of a read is in its buffer, or the      *)
(* command has failed, or a written sector is on the disk.                  *)
DiskAnswers ==
    /\ irr14' = TRUE
    /\ \/ /\ disk.left > 0 /\ ~disk.drq
          /\ disk' = [disk EXCEPT !.drq = TRUE]
       \/ /\ disk.left > 0 /\ ~disk.drq /\ ErrorCodes # {}
          /\ disk' = [disk EXCEPT !.err = TRUE, !.left = 0]
       \/ /\ disk.writes > 0
          /\ disk' = [disk EXCEPT !.writes = @ - 1]
    /\ UNCHANGED <<svars, process_clock, irq1_flag, irq1_status, scancodes, irq2_flag,
                   irq14_flag, at, call, child, ppid>>

-----------------------------------------------------------------------------
InterruptStep == Timer \/ PrimaryDisk \/ \E key \in Key : Keyboard(key)

UserStep == FileCall \/ Exec \/ Kill \/ \E kind \in {"getc", "line"} : Scanf(kind)

(* The running process is in the kernel, and the processor goes on there. *)
KernelStep ==
    \/ ScanfResume
    \/ FileReturn
    \/ ExecAllocate \/ ExecInitiate \/ ExecBlock \/ ExecResume
    \/ \E n \in Sectors : PioRead(n) \/ PioWrite(n)
    \/ PioReadResume \/ PioWriteResume

Next == InterruptStep \/ UserStep \/ KernelStep \/ DiskAnswers

(* Kernel code and the disk do not stop.  A tick or a disk interrupt that   *)
(* comes while interrupts are off is held by the interrupt controller and   *)
(* taken as soon as some process is back in user mode, so it is enough that *)
(* this happens again and again: strong fairness.  Nobody has to type, and  *)
(* no program has to make a system call.                                    *)
Fairness ==
    /\ WF_vars(KernelStep)
    /\ WF_vars(DiskAnswers)
    /\ SF_vars(Timer)
    /\ SF_vars(PrimaryDisk)

Spec == Init /\ [][Next]_vars /\ Fairness

-----------------------------------------------------------------------------
TypeOK ==
    /\ S!TypeOK
    /\ process_clock \in 0..TIME_QUANTUM - 1
    /\ irq1_flag \in Pid \cup {-1}
    /\ irq1_status \in 0..1
    /\ scancodes \in Seq(Key) /\ Len(scancodes) <= MaxKeys
    /\ irq2_flag \in Pid \cup {-1}
    /\ irq14_flag \in Pid \cup {-1} \cup ErrorCodes
    /\ at \in [Pid -> Location]
    /\ call \in [Pid -> Call]
    /\ child \in [Pid -> Pid \cup {None}]
    /\ ppid \in [Pid -> Pid \cup {None}]
    /\ disk \in [left : 0..MaxSectors, drq : BOOLEAN, err : BOOLEAN, writes : 0..MaxSectors,
                machine : Machines]
    /\ irr14 \in BOOLEAN

(* No handler and no system call ever asks process_switch for a process     *)
(* that does not wait, spins with interrupts off on another reader's flag,  *)
(* or returns from newswitch into the end of the text section.              *)
NoHang == fault = "none" /\ at[running] \notin {"spin", "lost"}

(* No lost wake-up: whoever waits is named by the flag its interrupt will   *)
(* look at, and the handler will switch; whoever a flag names can be woken. *)
FlagsNameWaiters ==
    /\ \A p \in waiting :
          \/ at[p] = "scanf" /\ irq1_flag = p /\ irq1_status = 0
          \/ at[p] = "pioread" /\ irq14_flag = p
          \/ at[p] = "exec"
    /\ irq1_flag # -1 /\ irq1_status = 0 => irq1_flag \in waiting
    /\ irq14_flag # -1 => at[irq14_flag] = "pioread"

(* The processes form one chain: every live child has a parent that waits   *)
(* in create_process for this child and no other, and only the shell starts *)
(* it.  So at most one process besides idle is not waiting for a child, and *)
(* it alone can be the keyboard's or the disk's reader.                     *)
Live == {p \in Pid : process_state[p] # "none" /\ at[p] # "loop"}
ParentsWait ==
    \A p \in Live \ {S!Shell} :
        /\ ppid[p] \in Live
        /\ child[ppid[p]] = p
        /\ \/ ppid[p] \in waiting /\ at[ppid[p]] = "exec"
           \/ ppid[p] = running /\ at[running] = "execing"

(* A reader goes on only when the data of its own command is there. *)
DataReady == fault = "none" /\ at[running] = "pioread" => disk.drq

(* An interrupt that is held or still to come answers every blocked reader. *)
AnswerComes ==
    \A p \in waiting : at[p] = "pioread" => irr14 \/ (disk.left > 0 /\ ~disk.drq)

(* With a disk that takes no time, or reads of one sector that are answered *)
(* later, both hold: no reader is woken too early, and none is left asleep. *)
ReadsAnswered == DataReady /\ AnswerComes

(* The kernel uses the scheduler as module Scheduler supposes: it wakes     *)
(* only processes that wait, blocks only the running one and never idle.    *)
UsesScheduler == S!Spec

(* A disk read ends, whatever the other processes do. *)
ReadsEnd == \A p \in Pid : at[p] = "pioread" ~> at[p] # "pioread"

(* Once a key has been queued the reader gets to look at it. *)
KeysAreSeen ==
    \A p \in Pid : at[p] = "scanf" /\ scancodes # <<>> ~> running = p

(* A parent goes on once its child has called kill_process, although the    *)
(* child itself loops for ever.                                             *)
ParentsResume ==
    \A p \in Pid : (\E c \in Pid : at[p] = "exec" /\ child[p] = c /\ at[c] = "loop")
                      ~> at[p] # "exec"
==============================================================================
