------------------------------ MODULE Scheduler ------------------------------
(***************************************************************************)
(* The process scheduler of src/os/cpp/process.cpp: three ready queues, a  *)
(* waiting list, the running element, and the context switch.  A kernel    *)
(* entry runs with interrupts off (gates 0xee, cli in every stub of        *)
(* start.s), so each operation is one atomic step.                         *)
(*                                                                         *)
(* The actions below are the operations as the rest of the kernel is meant *)
(* to call them: the timer preempts, a system call blocks its own process, *)
(* an interrupt wakes a process that waits.  Module Kernel has the callers *)
(* themselves and passes whatever their flags hold.                        *)
(***************************************************************************)
EXTENDS Integers, Sequences, FiniteSets, Functions

CONSTANT MaxPid    \* bound: pids 0..MaxPid are handed out

ASSUME MaxPidAssumption == MaxPid \in Nat /\ MaxPid >= 1

VARIABLES
    processid_gen,   \* the next pid to hand out
    ready_queue,     \* ready_queue[0..2], FIFO each
    waiting,         \* the waiting list; only membership is ever used
    running,         \* pid of running_list_element
    process_state,   \* process::process_state; "none" before it is first set
    current_pid,     \* the global the system calls read
    esp0,            \* whose kernel stack tss.esp0 points to
    saved_stack,     \* the kernel stack ptr_to_correct_stack points into
    fault            \* what a null list element was dereferenced by, or "none"

vars == <<processid_gen, ready_queue, waiting, running, process_state,
          current_pid, esp0, saved_stack, fault>>

Pid == 0..MaxPid
Idle == 0          \* a:/BIN/IDLEP, the first process kmain creates
Shell == 1         \* a:/BIN/SHELL, the second
Level == 0..2
BootStack == -1    \* 0x9ffff, the esp0 gdt_setup leaves in the tss
NoStack == -2
State == {"none", "NEW", "READY", "RUNNING", "WAITING"}
Fault == {"none", "no_waiter", "no_ready"}

Priority(p) == 2

Queued(rq) == UNION {Range(rq[k]) : k \in Level}

InsertFirst(rq, p) == [rq EXCEPT ![Priority(p)] = <<p>> \o @]    \* mutant: a stack

Insert(rq, p) == [rq EXCEPT ![Priority(p)] = Append(@, p)]

SourceOfTwo(rq) == IF rq[0] # <<>> THEN 0 ELSE 1    \* mutant: the third queue is forgotten

(* The queue process_switch takes from, ... *)
Source(rq) == IF rq[0] # <<>> THEN 0 ELSE IF rq[1] # <<>> THEN 1 ELSE 2

(* Mutant: > 1 for >= 1, the count being taken after the removal. *)
IdleLastOfThree(q) == IF q[1] = Idle /\ Len(q) > 2 THEN Append(Tail(q), Idle) ELSE q

(* ... and the order it takes in: idle yields its turn to anyone behind it. *)
IdleLast(q) == IF q[1] = Idle /\ Len(q) > 1 THEN Append(Tail(q), Idle) ELSE q

(* A kernel entry from user mode lands on the stack tss.esp0 names, and    *)
(* put_kernel_stack_value records where.                                   *)
SaveContext == saved_stack' = [saved_stack EXCEPT ![running] = esp0]

LoadOnOldStack(next, states) ==      \* mutant: tss.esp0 is not set
    /\ running' = next
    /\ process_state' = [states EXCEPT ![next] = IF @ = "READY" THEN @ ELSE "RUNNING"]
    /\ current_pid' = next
    /\ UNCHANGED esp0

(* context_switch: a READY process is resumed and stays READY, a NEW one is *)
(* started and becomes RUNNING.                                             *)
Load(next, states) ==
    /\ running' = next
    /\ process_state' = [states EXCEPT ![next] = IF @ = "READY" THEN @ ELSE "RUNNING"]
    /\ current_pid' = next
    /\ esp0' = next

(* Leave the running process in state left and switch to the next of rq. *)
SwitchFrom(rq, left) ==
    LET k == Source(rq)
        q == IF k = 2 THEN IdleLast(rq[2]) ELSE rq[k]
    IN  IF rq[k] = <<>>
        THEN /\ fault' = "no_ready"
             /\ UNCHANGED <<ready_queue, running, process_state, current_pid, esp0>>
        ELSE /\ ready_queue' = [rq EXCEPT ![k] = Tail(q)]
             /\ Load(q[1], [process_state EXCEPT ![running] = left])
             /\ UNCHANGED fault

(* scheduler::process_switch, whose argument says which of three things it does. *)
ProcessSwitch(pid) ==
    \/ /\ pid = -1
       /\ SwitchFrom(Insert(ready_queue, running), "READY")
       /\ UNCHANGED waiting
    \/ /\ pid # -1
       /\ pid = current_pid
       /\ waiting' = waiting \cup {running}
       /\ SwitchFrom(ready_queue, "WAITING")
    \/ /\ pid # -1
       /\ pid # current_pid
       /\ pid \in waiting
       /\ waiting' = waiting \ {pid}
       /\ process_state' = [process_state EXCEPT ![pid] = "READY"]
       /\ ready_queue' = Insert(ready_queue, pid)
       /\ UNCHANGED <<running, current_pid, esp0, fault>>
    \/ /\ pid # -1
       /\ pid # current_pid
       /\ pid \notin waiting
       /\ fault' = "no_waiter"
       /\ UNCHANGED <<ready_queue, waiting, running, process_state, current_pid, esp0>>

(* kmain: both processes built, init_first_process has entered the first.  *)
(* It sets tss.esp instead of tss.esp0, so idle starts on the boot stack.  *)
Init ==
    /\ processid_gen = 2
    /\ ready_queue = [k \in Level |-> IF k = Priority(Shell) THEN <<Shell>> ELSE <<>>]
    /\ waiting = {}
    /\ running = Idle
    /\ process_state = [p \in Pid |-> IF p = Idle THEN "RUNNING"
                                      ELSE IF p = Shell THEN "NEW" ELSE "none"]
    /\ current_pid = Idle
    /\ esp0 = BootStack
    /\ saved_stack = [p \in Pid |-> NoStack]
    /\ fault = "none"

(* The timer interrupt at the end of a quantum; piowrite's yield. *)
Preempt ==
    /\ fault = "none"
    /\ SaveContext
    /\ ProcessSwitch(-1)
    /\ UNCHANGED processid_gen

BlockStaysQueued ==      \* mutant: inserted in the ready queue too
    /\ fault = "none"
    /\ running # Idle
    /\ SaveContext
    /\ waiting' = waiting \cup {running}
    /\ SwitchFrom(Insert(ready_queue, running), "WAITING")
    /\ UNCHANGED processid_gen

(* A system call that sets its flag to its own pid and calls newswitch.    *)
(* The idle program (os/asm/idle.s) makes no system call.                  *)
Block ==
    /\ fault = "none"
    /\ running # Idle
    /\ SaveContext
    /\ ProcessSwitch(current_pid)
    /\ UNCHANGED processid_gen

(* Mutant: process_state stays WAITING. *)
WakeKeepsState(p) ==
    /\ fault = "none"
    /\ p \in waiting
    /\ waiting' = waiting \ {p}
    /\ ready_queue' = Insert(ready_queue, p)
    /\ UNCHANGED <<processid_gen, running, process_state, current_pid, esp0, saved_stack, fault>>

(* Mutant: the element taken from the waiting list is put nowhere. *)
WakeDrops(p) ==
    /\ fault = "none"
    /\ p \in waiting
    /\ waiting' = waiting \ {p}
    /\ process_state' = [process_state EXCEPT ![p] = "READY"]
    /\ UNCHANGED <<processid_gen, ready_queue, running, current_pid, esp0, saved_stack, fault>>

(* An interrupt or an exiting child for a process that does wait. *)
Wake(p) ==
    /\ fault = "none"
    /\ p \in waiting
    /\ ProcessSwitch(p)
    /\ UNCHANGED <<processid_gen, saved_stack>>

(* Mutant: the counter is stepped twice. *)
AllocateTwo ==
    /\ fault = "none"
    /\ processid_gen <= MaxPid
    /\ processid_gen' = processid_gen + 2
    /\ UNCHANGED <<ready_queue, waiting, running, process_state, current_pid,
                   esp0, saved_stack, fault>>

(* process::process takes a pid, before it reads the image from the disk ... *)
AllocatePid ==
    /\ fault = "none"
    /\ processid_gen <= MaxPid
    /\ processid_gen' = processid_gen + 1
    /\ UNCHANGED <<ready_queue, waiting, running, process_state, current_pid,
                   esp0, saved_stack, fault>>

(* ... and ends by queueing the process it built (scheduler::intiate_process). *)
Initiate(p) ==
    /\ fault = "none"
    /\ p < processid_gen
    /\ process_state[p] = "none"
    /\ process_state' = [process_state EXCEPT ![p] = "NEW"]
    /\ ready_queue' = Insert(ready_queue, p)
    /\ UNCHANGED <<processid_gen, waiting, running, current_pid, esp0, saved_stack, fault>>

Next ==
    \/ Preempt
    \/ Block
    \/ AllocatePid
    \/ \E p \in Pid : Wake(p) \/ Initiate(p)

Spec == Init /\ [][Next]_vars

(* The timer keeps ticking whatever user programs do. *)
FairSpec == Spec /\ WF_vars(Preempt)

-----------------------------------------------------------------------------
TypeOK ==
    /\ processid_gen \in 2..MaxPid + 1
    /\ ready_queue \in [Level -> Seq(Pid)]
    /\ waiting \subseteq Pid
    /\ running \in Pid
    /\ process_state \in [Pid -> State]
    /\ current_pid \in Pid
    /\ esp0 \in Pid \cup {BootStack}
    /\ saved_stack \in [Pid -> Pid \cup {BootStack, NoStack}]
    /\ fault \in Fault

(* A process that has been queued once is, from then on, in exactly one of  *)
(* three places: it runs, it waits, or it stands once in the ready queue of *)
(* its priority.  process_switch moves one list element between four lists  *)
(* that share its links, so an element in two lists would join them.        *)
Created == {p \in Pid : process_state[p] # "none"}
OnePlace ==
    /\ Queued(ready_queue) \cup waiting \cup {running} = Created
    /\ Queued(ready_queue) \cap waiting = {}
    /\ running \notin Queued(ready_queue) \cup waiting
    /\ \A k \in Level : IsInjective(ready_queue[k])
    /\ \A k \in Level \ {2} : ready_queue[k] = <<>>

(* process_switch never takes an element from a list that lacks it: the     *)
(* code reads head->next and temp->ptr with no test for null.               *)
NeverFaults == fault = "none"

(* process_state, which decides between resuming and starting over, agrees  *)
(* with the list the process is in, and the two globals that stand for the  *)
(* running process agree with it.                                           *)
StateMatchesPlace ==
    /\ waiting = {p \in Pid : process_state[p] = "WAITING"}
    /\ \A p \in Queued(ready_queue) : process_state[p] \in {"NEW", "READY"}
    /\ process_state[running] \in {"RUNNING", "READY"}
    /\ current_pid = running

(* Every suspended process has a context to return to, on a kernel stack no *)
(* other suspended process, and no entry of the running one, is using.      *)
Suspended == {p \in Pid \ {running} : process_state[p] \in {"READY", "WAITING"}}
StacksApart ==
    /\ \A p \in Suspended : saved_stack[p] \notin {NoStack, esp0}
    /\ \A p, q \in Suspended : saved_stack[p] = saved_stack[q] => p = q

(* A process is entered at its first instruction once: context_switch tells *)
(* new from suspended by process_state alone, so RUNNING must come from NEW *)
(* only, and NEW never come back.                                           *)
StartedOnce ==
    [][\A p \in Pid :
          /\ process_state'[p] = "RUNNING" => process_state[p] \in {"NEW", "RUNNING"}
          /\ process_state'[p] = "NEW" => process_state[p] \in {"none", "NEW"}]_vars

(* Nobody is overtaken: the process that takes the processor is the first   *)
(* of the ready queue, idle apart, and idle gets it only if the queue holds *)
(* nobody else and the running process cannot go on.                        *)
FirstCome ==
    [][running' # running =>
          IF running' = Idle
          THEN Queued(ready_queue) = {Idle} /\ running \in waiting'
          ELSE \E i \in DOMAIN ready_queue[2] :
                  /\ ready_queue[2][i] = running'
                  /\ \A j \in 1..i - 1 : ready_queue[2][j] = Idle]_vars

(* Every process that is ready to run does run, idle apart. *)
ReadyRuns ==
    \A p \in Pid \ {Idle} : p \in Queued(ready_queue) ~> running = p

-----------------------------------------------------------------------------
(* The scheduler implements Lifecycle: where a process is is what it is. *)
Place == [p \in Pid |->
            IF p = running THEN "running"
            ELSE IF p \in waiting THEN "waiting"
            ELSE IF p \in Queued(ready_queue) THEN "ready"
            ELSE IF p < processid_gen THEN "loading" ELSE "absent"]

L == INSTANCE Lifecycle WITH status <- Place

ImplementsLifecycle == L!Spec
==============================================================================
