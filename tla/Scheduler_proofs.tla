--------------------------- MODULE Scheduler_proofs ---------------------------
(***************************************************************************)
(* The scheduler's invariants, for any number of processes: every process  *)
(* is in exactly one list, no list element is missing when process_switch  *)
(* takes one, no two suspended processes share a kernel stack, no process  *)
(* is started twice; and the scheduler implements Lifecycle.               *)
(***************************************************************************)
EXTENDS Scheduler, SequenceTheorems, TLAPS

-----------------------------------------------------------------------------
(* What the queue operations do to the elements of a queue. *)

(* process_queue::insert adds one element, at the tail. *)
LEMMA AppendElements ==
    ASSUME NEW S, NEW q \in Seq(S), NEW p \in S
    PROVE  /\ Append(q, p) \in Seq(S)
           /\ Append(q, p) # <<>>
           /\ Range(Append(q, p)) = Range(q) \cup {p}
           /\ IsInjective(q) /\ p \notin Range(q) => IsInjective(Append(q, p))
<1> DEFINE r == Append(q, p)
<1>1. /\ r \in Seq(S)
      /\ Len(r) = Len(q) + 1
      /\ \A i \in 1..Len(q) : r[i] = q[i]
      /\ r[Len(q) + 1] = p
  BY AppendProperties
<1>2. /\ DOMAIN q = 1..Len(q) /\ DOMAIN r = 1..Len(q) + 1
      /\ Len(q) \in Nat
  BY <1>1, LenProperties
<1>3. Range(r) = Range(q) \cup {p}
  <2>1. ASSUME NEW x \in Range(r) PROVE x \in Range(q) \cup {p}
    BY <2>1, <1>1, <1>2 DEF Range
  <2>2. ASSUME NEW x \in Range(q) PROVE x \in Range(r)
    <3>1. PICK i \in 1..Len(q) : x = q[i]
      BY <1>2 DEF Range
    <3>2. r[i] = x /\ i \in DOMAIN r
      BY <3>1, <1>1, <1>2
    <3>3. QED BY <3>2 DEF Range
  <2>3. p \in Range(r)
    BY <1>1, <1>2 DEF Range
  <2>4. QED BY <2>1, <2>2, <2>3
<1>4. ASSUME IsInjective(q), p \notin Range(q) PROVE IsInjective(r)
  BY <1>4, <1>1, <1>2 DEF IsInjective, Range
<1>5. QED BY <1>1, <1>2, <1>3, <1>4, EmptySeq

(* process_queue::remove takes the head away and nothing else. *)
LEMMA TailElements ==
    ASSUME NEW S, NEW q \in Seq(S), q # <<>>
    PROVE  /\ q[1] \in Range(q)
           /\ q[1] \in S
           /\ Tail(q) \in Seq(S)
           /\ Range(q) = Range(Tail(q)) \cup {q[1]}
           /\ IsInjective(q) => IsInjective(Tail(q)) /\ q[1] \notin Range(Tail(q))
<1> DEFINE t == Tail(q)
<1>1. /\ t \in Seq(S)
      /\ Len(t) = Len(q) - 1
      /\ \A i \in 1..Len(t) : t[i] = q[i + 1]
  BY HeadTailProperties
<1>2. /\ DOMAIN q = 1..Len(q) /\ DOMAIN t = 1..Len(t)
      /\ Len(q) \in Nat \ {0} /\ Len(t) \in Nat
  BY <1>1, LenProperties, EmptySeq
<1>3. q[1] \in Range(q) /\ q[1] \in S
  BY <1>2, ElementOfSeq DEF Range
<1>4. Range(q) = Range(t) \cup {q[1]}
  <2>1. ASSUME NEW x \in Range(q), x # q[1] PROVE x \in Range(t)
    <3>1. PICK i \in 1..Len(q) : x = q[i]
      BY <1>2 DEF Range
    <3>2. i - 1 \in 1..Len(t) /\ t[i - 1] = x
      BY <3>1, <2>1, <1>1, <1>2
    <3>3. QED BY <3>2, <1>2 DEF Range
  <2>2. ASSUME NEW x \in Range(t) PROVE x \in Range(q)
    <3>1. PICK i \in 1..Len(t) : x = t[i]
      BY <1>2 DEF Range
    <3>2. i + 1 \in 1..Len(q) /\ q[i + 1] = x
      BY <3>1, <1>1, <1>2
    <3>3. QED BY <3>2, <1>2 DEF Range
  <2>3. QED BY <2>1, <2>2, <1>3
<1>5. ASSUME IsInjective(q) PROVE IsInjective(t) /\ q[1] \notin Range(t)
  <2>1. ASSUME NEW i \in 1..Len(t), NEW j \in 1..Len(t), t[i] = t[j] PROVE i = j
    <3>1. i + 1 \in DOMAIN q /\ j + 1 \in DOMAIN q /\ q[i + 1] = q[j + 1]
      BY <2>1, <1>1, <1>2
    <3>2. i + 1 = j + 1
      BY <3>1, <1>5 DEF IsInjective
    <3>3. QED BY <3>2, <1>2
  <2>2. ASSUME NEW i \in 1..Len(t), t[i] = q[1] PROVE FALSE
    <3>1. i + 1 \in DOMAIN q /\ 1 \in DOMAIN q /\ q[i + 1] = q[1]
      BY <2>2, <1>1, <1>2
    <3>2. i + 1 = 1
      BY <3>1, <1>5 DEF IsInjective
    <3>3. QED BY <3>2, <1>2
  <2>3. QED BY <2>1, <2>2, <1>2 DEF IsInjective, Range
<1>6. QED BY <1>1, <1>3, <1>4, <1>5

(* Sending idle to the tail reorders the queue and changes nothing else. *)
LEMMA IdleLastElements ==
    ASSUME NEW q \in Seq(Pid), q # <<>>, IsInjective(q)
    PROVE  /\ IdleLast(q) \in Seq(Pid)
           /\ IdleLast(q) # <<>>
           /\ Range(IdleLast(q)) = Range(q)
           /\ IsInjective(IdleLast(q))
<1>1. CASE q[1] = Idle /\ Len(q) > 1
  <2> DEFINE t == Tail(q)
  <2>1. /\ t \in Seq(Pid)
        /\ Range(q) = Range(t) \cup {Idle}
        /\ IsInjective(t) /\ Idle \notin Range(t)
        /\ Idle \in Pid
    BY <1>1, TailElements
  <2>2. IdleLast(q) = Append(t, Idle)
    BY <1>1 DEF IdleLast
  <2> HIDE DEF t
  <2>3. /\ Append(t, Idle) \in Seq(Pid)
        /\ Append(t, Idle) # <<>>
        /\ Range(Append(t, Idle)) = Range(t) \cup {Idle}
        /\ IsInjective(Append(t, Idle))
    BY <2>1, AppendElements
  <2>4. QED BY <2>1, <2>2, <2>3
<1>2. CASE ~(q[1] = Idle /\ Len(q) > 1)
  BY <1>2 DEF IdleLast
<1>3. QED BY <1>1, <1>2

-----------------------------------------------------------------------------
(* The inductive invariant. *)

(* Only the queue of priority 2 is ever used. *)
Tidy(rq) ==
    /\ rq \in [Level -> Seq(Pid)]
    /\ rq[0] = <<>> /\ rq[1] = <<>>
    /\ IsInjective(rq[2])

(* Idle never waits: it is what makes the choice of a next process succeed. *)
IdleRunnable == Idle \notin waiting /\ process_state[Idle] # "none"

(* A context lies on the stack of its process; idle's first one alone is on *)
(* the boot stack, which is never esp0 again once idle has been left.       *)
OwnStacks ==
    /\ esp0 = running \/ (running = Idle /\ esp0 = BootStack)
    /\ \A p \in Pid : \/ saved_stack[p] \in {NoStack, p}
                      \/ (p = Idle /\ saved_stack[p] = BootStack)
    /\ \A p \in Suspended : saved_stack[p] # NoStack

FreshPids == \A p \in Pid : p >= processid_gen => process_state[p] = "none"

IInv ==
    /\ TypeOK
    /\ OnePlace
    /\ StateMatchesPlace
    /\ NeverFaults
    /\ IdleRunnable
    /\ OwnStacks
    /\ FreshPids

(* The processes in tidy queues are those of ready_queue[2]; the other two are*)
(* empty, since every priority is 2.                                        *)
LEMMA TidyQueued ==
    ASSUME NEW rq, Tidy(rq)
    PROVE  Queued(rq) = Range(rq[2])
<1>1. Range(<<>>) = {}
  BY DEF Range
<1>2. Queued(rq) = Range(rq[0]) \cup Range(rq[1]) \cup Range(rq[2])
  BY DEF Queued, Level
<1>3. QED BY <1>1, <1>2 DEF Tidy

(* OnePlace makes the ready queues tidy.                                    *)
LEMMA TidyReady ==
    ASSUME TypeOK, OnePlace
    PROVE  Tidy(ready_queue)
BY DEF TypeOK, OnePlace, Tidy, Level

(* An element joins the ready queue: nothing else about it changes. *)
LEMMA InsertStep ==
    ASSUME NEW rq, Tidy(rq), NEW p \in Pid, p \notin Range(rq[2])
    PROVE  /\ Tidy(Insert(rq, p))
           /\ Insert(rq, p)[2] # <<>>
           /\ Range(Insert(rq, p)[2]) = Range(rq[2]) \cup {p}
<1> DEFINE q == rq[2]
<1>1. q \in Seq(Pid) /\ IsInjective(q)
  BY DEF Tidy, Level
<1>2. Insert(rq, p) = [rq EXCEPT ![2] = Append(q, p)]
  BY DEF Insert, Priority
<1> HIDE DEF q
<1>3. /\ Append(q, p) \in Seq(Pid)
      /\ Append(q, p) # <<>>
      /\ Range(Append(q, p)) = Range(q) \cup {p}
      /\ IsInjective(Append(q, p))
  BY <1>1, AppendElements DEF q
<1>4. QED BY <1>2, <1>3 DEF Tidy, Level, q

(* The process switch proper: a queued process leaves the queue and takes  *)
(* the processor, with its own kernel stack.                               *)
LEMMA SwitchStep ==
    ASSUME NEW rq, Tidy(rq), rq[2] # <<>>, NEW left, SwitchFrom(rq, left)
    PROVE  \E next \in Pid :
              /\ next \in Range(rq[2])
              /\ running' = next /\ current_pid' = next /\ esp0' = next
              /\ Tidy(ready_queue')
              /\ Range(rq[2]) = Range(ready_queue'[2]) \cup {next}
              /\ next \notin Range(ready_queue'[2])
              /\ process_state' = [[process_state EXCEPT ![running] = left] EXCEPT
                                      ![next] = IF @ = "READY" THEN @ ELSE "RUNNING"]
              /\ fault' = fault
<1> DEFINE q == IdleLast(rq[2])
           next == q[1]
<1>1. rq \in [Level -> Seq(Pid)] /\ rq[2] \in Seq(Pid) /\ IsInjective(rq[2])
  BY DEF Tidy, Level
<1>2. q \in Seq(Pid) /\ q # <<>> /\ Range(q) = Range(rq[2]) /\ IsInjective(q)
  BY <1>1, IdleLastElements
<1>3. Source(rq) = 2
  BY DEF Source, Tidy
<1>4. /\ ready_queue' = [rq EXCEPT ![2] = Tail(q)]
      /\ running' = next /\ current_pid' = next /\ esp0' = next
      /\ process_state' = [[process_state EXCEPT ![running] = left] EXCEPT
                              ![next] = IF @ = "READY" THEN @ ELSE "RUNNING"]
      /\ fault' = fault
  BY <1>3 DEF SwitchFrom, Load
<1> HIDE DEF q
<1>5. /\ next \in Range(q) /\ next \in Pid
      /\ Tail(q) \in Seq(Pid)
      /\ Range(q) = Range(Tail(q)) \cup {next}
      /\ IsInjective(Tail(q)) /\ next \notin Range(Tail(q))
  BY <1>2, TailElements
<1>6. ready_queue'[2] = Tail(q) /\ Tidy(ready_queue')
  BY <1>1, <1>4, <1>5 DEF Tidy, Level
<1>7. QED BY <1>2, <1>4, <1>5, <1>6

-----------------------------------------------------------------------------
(* The invariant holds initially and every step preserves it. *)

(* kmain leaves a state that satisfies the invariant.                       *)
LEMMA InitIInv == Init => IInv
<1> SUFFICES ASSUME Init PROVE IInv
  OBVIOUS
<1>0. 0 \in Pid /\ 1 \in Pid /\ MaxPid \in Nat
  BY MaxPidAssumption DEF Pid
<1>1. /\ ready_queue[0] = <<>> /\ ready_queue[1] = <<>> /\ ready_queue[2] = <<Shell>>
      /\ ready_queue \in [Level -> Seq(Pid)]
  BY <1>0 DEF Init, Level, Priority, Shell
<1>2. Range(<<Shell>>) = {Shell} /\ IsInjective(<<Shell>>) /\ IsInjective(<<>>)
  BY DEF Range, IsInjective
<1>3. Tidy(ready_queue)
  BY <1>1, <1>2 DEF Tidy
<1>4. Queued(ready_queue) = {Shell}
  BY <1>1, <1>2, <1>3, TidyQueued
<1>5. TypeOK
  BY <1>0, <1>1 DEF Init, TypeOK, State, Fault, Pid, Idle, Shell
<1>6. OnePlace
  BY <1>0, <1>1, <1>2, <1>4 DEF Init, OnePlace, Created, Level, Idle, Shell
<1>7. StateMatchesPlace
  BY <1>0, <1>4 DEF Init, StateMatchesPlace, Idle, Shell
<1>8. OwnStacks
  BY <1>0 DEF Init, OwnStacks, Suspended, Idle, Shell
<1>9. QED
  BY <1>0, <1>5, <1>6, <1>7, <1>8
     DEF Init, IInv, NeverFaults, IdleRunnable, FreshPids, Idle, Shell, Pid

(* What both kinds of switch have in common, once the queue rq to take from *)
(* and the set w of waiting processes are known.                            *)
LEMMA SwitchIInv ==
    ASSUME IInv, SaveContext, processid_gen' = processid_gen,
           NEW rq, Tidy(rq), rq[2] # <<>>,
           NEW left \in {"READY", "WAITING"},
           SwitchFrom(rq, left),
           waiting' = IF left = "WAITING" THEN waiting \cup {running} ELSE waiting,
           Range(rq[2]) = IF left = "WAITING" THEN Queued(ready_queue)
                          ELSE Queued(ready_queue) \cup {running},
           left = "WAITING" => running # Idle
    PROVE  IInv'
<1>1. PICK next \in Pid :
              /\ next \in Range(rq[2])
              /\ running' = next /\ current_pid' = next /\ esp0' = next
              /\ Tidy(ready_queue')
              /\ Range(rq[2]) = Range(ready_queue'[2]) \cup {next}
              /\ next \notin Range(ready_queue'[2])
              /\ process_state' = [[process_state EXCEPT ![running] = left] EXCEPT
                                      ![next] = IF @ = "READY" THEN @ ELSE "RUNNING"]
              /\ fault' = fault
  BY SwitchStep
<1>2. Queued(ready_queue)' = Range(ready_queue'[2])
  BY <1>1, TidyQueued DEF Queued
<1>3. /\ running \in Pid /\ current_pid = running
      /\ process_state \in [Pid -> State]
      /\ running \notin Queued(ready_queue) /\ running \notin waiting
      /\ waiting \subseteq Pid
      /\ Queued(ready_queue) \cap waiting = {}
      /\ Queued(ready_queue) \cup waiting \cup {running} = Created
      /\ waiting = {p \in Pid : process_state[p] = "WAITING"}
      /\ \A p \in Queued(ready_queue) : process_state[p] \in {"NEW", "READY"}
      /\ process_state[running] \in {"RUNNING", "READY"}
  BY DEF IInv, TypeOK, OnePlace, StateMatchesPlace
<1>4. \A p \in Pid : process_state'[p] =
         IF p = next THEN IF next = running /\ left = "READY" THEN "READY"
                          ELSE IF next # running /\ process_state[next] = "READY" THEN "READY"
                          ELSE "RUNNING"
         ELSE IF p = running THEN left ELSE process_state[p]
  BY <1>1, <1>3
<1>5. next \in Queued(ready_queue) \/ (next = running /\ left = "READY")
  BY <1>1, <1>3
<1>6. process_state' \in [Pid -> State]
  BY <1>1, <1>3, <1>4 DEF State
<1>7. TypeOK'
  BY <1>1, <1>3, <1>6 DEF IInv, TypeOK, Tidy, SaveContext, OwnStacks
<1>8. Created' = Created
  BY <1>3, <1>4, <1>5 DEF Created
<1>9. OnePlace'
  <2>1. /\ (Queued(ready_queue) \cup waiting \cup {running})' = Created'
        /\ (Queued(ready_queue) \cap waiting)' = {}
        /\ running' \notin (Queued(ready_queue) \cup waiting)'
    BY <1>1, <1>2, <1>3, <1>5, <1>8
  <2>2. \A k \in Level : IsInjective(ready_queue'[k])
    BY <1>1 DEF Tidy, Level, IsInjective
  <2>3. \A k \in Level \ {2} : ready_queue'[k] = <<>>
    BY <1>1 DEF Tidy, Level
  <2>4. QED BY <2>1, <2>2, <2>3 DEF OnePlace
<1>10. StateMatchesPlace'
  <2>1. waiting' = {p \in Pid : process_state'[p] = "WAITING"}
    BY <1>1, <1>3, <1>4, <1>5
  <2>2. \A p \in Queued(ready_queue)' : process_state'[p] \in {"NEW", "READY"}
    BY <1>1, <1>2, <1>3, <1>4, <1>5, <1>8 DEF Created
  <2>3. process_state'[running'] \in {"RUNNING", "READY"}
    BY <1>1, <1>4
  <2>4. QED BY <1>1, <2>1, <2>2, <2>3 DEF StateMatchesPlace
<1>11. IdleRunnable'
  BY <1>1, <1>3, <1>4, <1>8, MaxPidAssumption DEF IInv, IdleRunnable, Created, Idle, Pid
<1>12. OwnStacks'
  <2>1. saved_stack' = [saved_stack EXCEPT ![running] = esp0]
    BY DEF SaveContext
  <2>2. \A p \in Pid : \/ saved_stack'[p] \in {NoStack, p}
                      \/ (p = Idle /\ saved_stack'[p] = BootStack)
    BY <1>3, <2>1 DEF IInv, OwnStacks, TypeOK
  <2>3. ASSUME NEW p \in Suspended' PROVE saved_stack'[p] # NoStack
    <3>1. p \in Suspended \/ p = running
      BY <2>3, <1>1, <1>3, <1>4 DEF Suspended
    <3>2. esp0 # NoStack
      BY <1>3 DEF IInv, OwnStacks, NoStack, BootStack, Pid
    <3>3. QED BY <3>1, <3>2, <2>1, <1>3 DEF IInv, OwnStacks, TypeOK
  <2>4. QED BY <1>1, <2>2, <2>3 DEF OwnStacks
<1>13. FreshPids'
  BY <1>3, <1>4, <1>5, <1>8 DEF IInv, FreshPids, Created
<1>14. NeverFaults'
  BY <1>1 DEF IInv, NeverFaults
<1>15. QED BY <1>7, <1>9, <1>10, <1>11, <1>12, <1>13, <1>14 DEF IInv

(* A yield keeps it: the running process goes to the tail of its queue.     *)
LEMMA PreemptIInv == IInv /\ Preempt => IInv'
<1> SUFFICES ASSUME IInv, Preempt PROVE IInv'
  OBVIOUS
<1> DEFINE rq == Insert(ready_queue, running)
<1>1. Tidy(ready_queue) /\ running \in Pid /\ running \notin Range(ready_queue[2])
      /\ Queued(ready_queue) = Range(ready_queue[2])
  BY TidyReady, TidyQueued DEF IInv, TypeOK, OnePlace
<1>2. Tidy(rq) /\ rq[2] # <<>> /\ Range(rq[2]) = Queued(ready_queue) \cup {running}
  BY <1>1, InsertStep
<1>3. -1 \notin Pid
  BY DEF Pid
<1>4. SwitchFrom(rq, "READY") /\ waiting' = waiting /\ SaveContext
      /\ processid_gen' = processid_gen
  BY DEF Preempt, ProcessSwitch
<1> HIDE DEF rq
<1>5. QED BY <1>2, <1>4, SwitchIInv

(* A blocking call keeps it: idle is queued then, so someone can take over. *)
LEMMA BlockIInv == IInv /\ Block => IInv'
<1> SUFFICES ASSUME IInv, Block PROVE IInv'
  OBVIOUS
<1>1. Tidy(ready_queue) /\ running \in Pid /\ current_pid # -1
      /\ Queued(ready_queue) = Range(ready_queue[2])
  BY TidyReady, TidyQueued DEF IInv, TypeOK, OnePlace, Pid
<1>2. Idle \in Queued(ready_queue)
  BY MaxPidAssumption DEF IInv, OnePlace, Created, IdleRunnable, Block, Idle, Pid
<1>3. ready_queue[2] # <<>>
  BY <1>1, <1>2 DEF Range
<1>4. SwitchFrom(ready_queue, "WAITING") /\ waiting' = waiting \cup {running}
      /\ SaveContext /\ processid_gen' = processid_gen /\ running # Idle
  BY <1>1 DEF Block, ProcessSwitch
<1>5. QED BY <1>1, <1>3, <1>4, SwitchIInv

(* A wake-up keeps it: the process moves from the waiting list to its queue.*)
LEMMA WakeIInv ==
    ASSUME IInv, NEW p \in Pid, Wake(p)
    PROVE  IInv'
<1>1. Tidy(ready_queue) /\ p \in waiting /\ current_pid = running
      /\ Queued(ready_queue) = Range(ready_queue[2]) /\ p # running
      /\ p \notin Range(ready_queue[2]) /\ p # -1
  BY TidyReady, TidyQueued DEF IInv, StateMatchesPlace, OnePlace, Wake, Pid
<1>2. /\ waiting' = waiting \ {p}
      /\ process_state' = [process_state EXCEPT ![p] = "READY"]
      /\ ready_queue' = Insert(ready_queue, p)
      /\ UNCHANGED <<processid_gen, running, current_pid, esp0, saved_stack, fault>>
  BY <1>1 DEF Wake, ProcessSwitch
<1>3. Tidy(ready_queue') /\ Range(ready_queue'[2]) = Range(ready_queue[2]) \cup {p}
  BY <1>1, <1>2, InsertStep
<1>4. Queued(ready_queue)' = Queued(ready_queue) \cup {p}
  BY <1>1, <1>3, TidyQueued DEF Queued
<1>5. process_state[p] = "WAITING" /\ process_state \in [Pid -> State]
  BY <1>1 DEF IInv, StateMatchesPlace, TypeOK
<1>6. TypeOK'
  BY <1>2, <1>3 DEF IInv, TypeOK, Tidy, State
<1>7. Created' = Created
  BY <1>2, <1>5 DEF Created
<1>8. OnePlace'
  <2>1. \A k \in Level : IsInjective(ready_queue'[k])
    BY <1>3 DEF Tidy, Level, IsInjective
  <2>2. QED BY <1>1, <1>2, <1>3, <1>4, <1>7, <2>1 DEF IInv, OnePlace, Tidy, Level
<1>9. StateMatchesPlace'
  BY <1>1, <1>2, <1>4, <1>5 DEF IInv, StateMatchesPlace, OnePlace
<1>10. OwnStacks'
  BY <1>2, <1>5 DEF IInv, OwnStacks, Suspended
<1>11. QED
  BY <1>2, <1>5, <1>6, <1>8, <1>9, <1>10
     DEF IInv, NeverFaults, IdleRunnable, FreshPids

(* Handing out a pid keeps it: nobody has that pid yet.                     *)
LEMMA AllocateIInv == IInv /\ AllocatePid => IInv'
<1> SUFFICES ASSUME IInv, AllocatePid PROVE IInv'
  OBVIOUS
<1>1. TypeOK'
  BY MaxPidAssumption DEF IInv, TypeOK, AllocatePid
<1>2. OnePlace' /\ StateMatchesPlace' /\ OwnStacks'
  BY DEF IInv, OnePlace, StateMatchesPlace, OwnStacks, AllocatePid,
         Queued, Created, Suspended
<1>3. FreshPids'
  BY DEF IInv, TypeOK, FreshPids, AllocatePid, Pid
<1>4. QED
  BY <1>1, <1>2, <1>3 DEF IInv, NeverFaults, IdleRunnable, AllocatePid

(* Queueing a new process keeps it: it has never been in any list.          *)
LEMMA InitiateIInv ==
    ASSUME IInv, NEW p \in Pid, Initiate(p)
    PROVE  IInv'
<1>1. /\ process_state' = [process_state EXCEPT ![p] = "NEW"]
      /\ ready_queue' = Insert(ready_queue, p)
      /\ UNCHANGED <<processid_gen, waiting, running, current_pid, esp0, saved_stack, fault>>
      /\ process_state[p] = "none" /\ p < processid_gen
      /\ process_state \in [Pid -> State]
  BY DEF IInv, TypeOK, Initiate
<1>2. Tidy(ready_queue) /\ Queued(ready_queue) = Range(ready_queue[2])
      /\ p \notin Created /\ p \notin Queued(ready_queue) \cup waiting \cup {running}
  BY <1>1, TidyReady, TidyQueued DEF IInv, OnePlace, Created
<1>3. Tidy(ready_queue') /\ Range(ready_queue'[2]) = Range(ready_queue[2]) \cup {p}
  BY <1>1, <1>2, InsertStep
<1>4. Queued(ready_queue)' = Queued(ready_queue) \cup {p}
  BY <1>2, <1>3, TidyQueued DEF Queued
<1>5. TypeOK'
  BY <1>1, <1>3 DEF IInv, TypeOK, Tidy, State
<1>6. Created' = Created \cup {p}
  BY <1>1 DEF Created
<1>7. OnePlace'
  <2>1. \A k \in Level : IsInjective(ready_queue'[k])
    BY <1>3 DEF Tidy, Level, IsInjective
  <2>2. QED BY <1>1, <1>2, <1>3, <1>4, <1>6, <2>1 DEF IInv, OnePlace, Tidy, Level
<1>8. StateMatchesPlace'
  BY <1>1, <1>2, <1>4 DEF IInv, StateMatchesPlace
<1>9. OwnStacks'
  BY <1>1 DEF IInv, OwnStacks, Suspended
<1>10. FreshPids' /\ IdleRunnable' /\ NeverFaults'
  BY <1>1 DEF IInv, TypeOK, FreshPids, IdleRunnable, NeverFaults, Pid
<1>11. QED BY <1>5, <1>7, <1>8, <1>9, <1>10 DEF IInv

(* Every step of the scheduler keeps the invariant.                         *)
LEMMA NextIInv == IInv /\ [Next]_vars => IInv'
<1> SUFFICES ASSUME IInv, [Next]_vars PROVE IInv'
  OBVIOUS
<1>1. CASE Preempt
  BY <1>1, PreemptIInv
<1>2. CASE Block
  BY <1>2, BlockIInv
<1>3. CASE AllocatePid
  BY <1>3, AllocateIInv
<1>4. CASE \E p \in Pid : Wake(p)
  BY <1>4, WakeIInv
<1>5. CASE \E p \in Pid : Initiate(p)
  BY <1>5, InitiateIInv
<1>6. CASE UNCHANGED vars
  BY <1>6 DEF vars, IInv, TypeOK, OnePlace, StateMatchesPlace, NeverFaults,
              IdleRunnable, OwnStacks, FreshPids, Queued, Created, Suspended
<1>7. QED BY <1>1, <1>2, <1>3, <1>4, <1>5, <1>6 DEF Next

(* The inductive invariant holds in every reachable state. *)
THEOREM Invariant == Spec => []IInv
BY InitIInv, NextIInv, PTL DEF Spec

-----------------------------------------------------------------------------
(* What follows from the invariant. *)

(* Every variable keeps its type. *)
THEOREM TypeCorrect == Spec => []TypeOK
<1>1. IInv => TypeOK
  BY DEF IInv
<1>2. QED BY <1>1, Invariant, PTL

(* A process that was queued once runs, waits, or stands once in the ready  *)
(* queue, and never two of these: the four lists do not share an element.   *)
THEOREM EveryProcessInOnePlace == Spec => [](OnePlace /\ StateMatchesPlace)
<1>1. IInv => OnePlace /\ StateMatchesPlace
  BY DEF IInv
<1>2. QED BY <1>1, Invariant, PTL

(* process_switch never takes an element from an empty ready queue, nor one *)
(* the waiting list lacks, whatever the processes do.                       *)
THEOREM NoFault == Spec => []NeverFaults
<1>1. IInv => NeverFaults
  BY DEF IInv
<1>2. QED BY <1>1, Invariant, PTL

(* Two suspended processes never have their contexts on one kernel stack,   *)
(* and the running process never enters the kernel on one of those stacks,  *)
(* although the first process starts on the boot stack.                     *)
THEOREM KernelStacksApart == Spec => []StacksApart
<1>1. IInv => StacksApart
  BY DEF IInv, TypeOK, OwnStacks, StacksApart, Suspended, NoStack, BootStack, Pid
<1>2. QED BY <1>1, Invariant, PTL

-----------------------------------------------------------------------------
(* What a switch of the processor does, in terms of the three places. *)
Switched(left, next) ==
    /\ left = "WAITING" => running # Idle
    /\ next \in Queued(ready_queue) \/ (next = running /\ left = "READY")
    /\ running' = next
    /\ waiting' = IF left = "WAITING" THEN waiting \cup {running} ELSE waiting
    /\ processid_gen' = processid_gen
    /\ Queued(ready_queue)' =
          (Queued(ready_queue) \cup (IF left = "READY" THEN {running} ELSE {})) \ {next}
    /\ process_state' = [[process_state EXCEPT ![running] = left] EXCEPT
                            ![next] = IF @ = "READY" THEN @ ELSE "RUNNING"]

(* A yield and a blocking call are switches in that sense.                  *)
LEMMA SwitchFacts ==
    ASSUME IInv, Preempt \/ Block
    PROVE  \E next \in Pid, left \in {"READY", "WAITING"} : Switched(left, next)
<1>1. /\ Tidy(ready_queue) /\ running \in Pid /\ running \notin Range(ready_queue[2])
      /\ Queued(ready_queue) = Range(ready_queue[2]) /\ current_pid # -1
  BY TidyReady, TidyQueued DEF IInv, TypeOK, OnePlace, Pid
<1>2. CASE Preempt
  <2> DEFINE rq == Insert(ready_queue, running)
  <2>1. Tidy(rq) /\ rq[2] # <<>> /\ Range(rq[2]) = Queued(ready_queue) \cup {running}
    BY <1>1, InsertStep
  <2>2. SwitchFrom(rq, "READY") /\ waiting' = waiting /\ processid_gen' = processid_gen
    BY <1>2 DEF Preempt, ProcessSwitch
  <2> HIDE DEF rq
  <2>3. PICK next \in Pid :
              /\ next \in Range(rq[2])
              /\ running' = next
              /\ Tidy(ready_queue')
              /\ Range(rq[2]) = Range(ready_queue'[2]) \cup {next}
              /\ next \notin Range(ready_queue'[2])
              /\ process_state' = [[process_state EXCEPT ![running] = "READY"] EXCEPT
                                      ![next] = IF @ = "READY" THEN @ ELSE "RUNNING"]
    BY <2>1, <2>2, SwitchStep
  <2>4. Queued(ready_queue)' = Range(ready_queue'[2])
    BY <2>3, TidyQueued DEF Queued
  <2>5. Switched("READY", next)
    BY <2>1, <2>2, <2>3, <2>4 DEF Switched
  <2>6. QED BY <2>5
<1>3. CASE Block
  <2>1. Idle \in Queued(ready_queue)
    BY <1>3, MaxPidAssumption DEF IInv, OnePlace, Created, IdleRunnable, Block, Idle, Pid
  <2>2. ready_queue[2] # <<>>
    BY <1>1, <2>1 DEF Range
  <2>3. SwitchFrom(ready_queue, "WAITING") /\ waiting' = waiting \cup {running}
        /\ processid_gen' = processid_gen /\ running # Idle
    BY <1>1, <1>3 DEF Block, ProcessSwitch
  <2>4. PICK next \in Pid :
              /\ next \in Range(ready_queue[2])
              /\ running' = next
              /\ Tidy(ready_queue')
              /\ Range(ready_queue[2]) = Range(ready_queue'[2]) \cup {next}
              /\ next \notin Range(ready_queue'[2])
              /\ process_state' = [[process_state EXCEPT ![running] = "WAITING"] EXCEPT
                                      ![next] = IF @ = "READY" THEN @ ELSE "RUNNING"]
    BY <1>1, <2>2, <2>3, SwitchStep
  <2>5. Queued(ready_queue)' = Range(ready_queue'[2])
    BY <2>4, TidyQueued DEF Queued
  <2>6. Switched("WAITING", next)
    BY <1>1, <2>3, <2>4, <2>5 DEF Switched
  <2>7. QED BY <2>6
<1>4. QED BY <1>2, <1>3

(* A process is entered at its first instruction once: a process that has   *)
(* run is resumed from its saved context, never started again.              *)
THEOREM NeverStartedTwice == Spec => StartedOnce
<1> DEFINE Step == \A p \in Pid :
              /\ process_state'[p] = "RUNNING" => process_state[p] \in {"NEW", "RUNNING"}
              /\ process_state'[p] = "NEW" => process_state[p] \in {"none", "NEW"}
<1>1. ASSUME IInv, [Next]_vars PROVE [Step]_vars
  <2>0. process_state \in [Pid -> State]
    BY <1>1 DEF IInv, TypeOK
  <2>1. CASE Preempt \/ Block
    <3>1. PICK next \in Pid, left \in {"READY", "WAITING"} : Switched(left, next)
      BY <1>1, <2>1, SwitchFacts
    <3>2. \A p \in Queued(ready_queue) : process_state[p] \in {"NEW", "READY"} /\ p # running
      BY <1>1 DEF IInv, StateMatchesPlace, OnePlace
    <3>3. QED BY <2>0, <3>1, <3>2 DEF Switched
  <2>2. CASE \E p \in Pid : Wake(p)
    <3>1. PICK p \in Pid : Wake(p)
      BY <2>2
    <3>2. process_state' = [process_state EXCEPT ![p] = "READY"]
      BY <1>1, <3>1 DEF Wake, ProcessSwitch, IInv, OnePlace, StateMatchesPlace, Pid
    <3>3. QED BY <2>0, <3>2
  <2>3. CASE \E p \in Pid : Initiate(p)
    BY <2>0, <2>3 DEF Initiate
  <2>4. CASE AllocatePid
    BY <2>4 DEF AllocatePid
  <2>5. QED BY <1>1, <2>1, <2>2, <2>3, <2>4 DEF Next
<1>2. QED BY <1>1, Invariant, PTL DEF Spec, StartedOnce

-----------------------------------------------------------------------------
(* Whom the switch takes: the first of the queue, idle passed over unless   *)
(* it is alone.                                                             *)
LEMMA FirstOfQueue ==
    ASSUME NEW q \in Seq(Pid), q # <<>>, IsInjective(q)
    PROVE  \E i \in 1..Len(q) :
              /\ IdleLast(q)[1] = q[i]
              /\ \A j \in 1..i - 1 : q[j] = Idle
              /\ q[i] = Idle => Range(q) = {Idle}
<1>1. DOMAIN q = 1..Len(q) /\ Len(q) \in Nat \ {0}
  BY LenProperties, EmptySeq
<1>2. CASE q[1] = Idle /\ Len(q) > 1
  <2>1. /\ Tail(q) \in Seq(Pid)
        /\ Len(Tail(q)) = Len(q) - 1
        /\ Tail(q)[1] = q[2]
    BY <1>1, <1>2, HeadTailProperties
  <2>2. Append(Tail(q), Idle)[1] = Tail(q)[1]
    BY <1>1, <1>2, <2>1, AppendProperties, MaxPidAssumption DEF Idle, Pid
  <2>3. q[2] # Idle
    BY <1>1, <1>2 DEF IsInjective
  <2>4. QED BY <1>1, <1>2, <2>1, <2>2, <2>3 DEF IdleLast
<1>3. CASE ~(q[1] = Idle /\ Len(q) > 1)
  <2>1. IdleLast(q) = q
    BY <1>3 DEF IdleLast
  <2>2. ASSUME q[1] = Idle PROVE Range(q) = {Idle}
    BY <1>1, <1>3, <2>2 DEF Range
  <2>3. QED BY <1>1, <2>1, <2>2
<1>4. QED BY <1>2, <1>3

(* The process that takes the processor is the one IdleLast puts in front. *)
LEMMA SwitchTakesFirst ==
    ASSUME NEW rq, Tidy(rq), rq[2] # <<>>, NEW left, SwitchFrom(rq, left)
    PROVE  \E i \in 1..Len(rq[2]) :
              /\ running' = rq[2][i]
              /\ \A j \in 1..i - 1 : rq[2][j] = Idle
              /\ running' = Idle => Range(rq[2]) = {Idle}
<1>1. rq[2] \in Seq(Pid) /\ IsInjective(rq[2])
  BY DEF Tidy, Level
<1>2. running' = IdleLast(rq[2])[1]
  BY DEF SwitchFrom, Load, Source, Tidy
<1>3. QED BY <1>1, <1>2, FirstOfQueue

(* Nobody is overtaken, and idle runs only when nobody else can: a yield    *)
(* puts the running process behind everyone, and the head of the ready      *)
(* queue, or the second if idle is the head, goes on.                       *)
THEOREM NobodyOvertaken == Spec => FirstCome
<1> DEFINE Step ==
        running' # running =>
          IF running' = Idle
          THEN Queued(ready_queue) = {Idle} /\ running \in waiting'
          ELSE \E i \in DOMAIN ready_queue[2] :
                  /\ ready_queue[2][i] = running'
                  /\ \A j \in 1..i - 1 : ready_queue[2][j] = Idle
<1>1. ASSUME IInv, [Next]_vars PROVE [Step]_vars
  <2>1. /\ Tidy(ready_queue) /\ running \in Pid /\ running \notin Range(ready_queue[2])
        /\ Queued(ready_queue) = Range(ready_queue[2]) /\ current_pid # -1
        /\ ready_queue[2] \in Seq(Pid)
    BY <1>1, TidyReady, TidyQueued DEF IInv, TypeOK, OnePlace, Pid, Tidy, Level
  <2>2. DOMAIN ready_queue[2] = 1..Len(ready_queue[2]) /\ Len(ready_queue[2]) \in Nat
    BY <2>1, LenProperties
  <2>3. CASE Preempt
    <3> DEFINE rq == Insert(ready_queue, running)
    <3>1. Tidy(rq) /\ rq[2] # <<>> /\ Range(rq[2]) = Queued(ready_queue) \cup {running}
      BY <2>1, InsertStep
    <3>2. rq[2] = Append(ready_queue[2], running)
      BY <2>1 DEF Insert, Priority, Tidy, Level
    <3>3. SwitchFrom(rq, "READY")
      BY <2>3 DEF Preempt, ProcessSwitch
    <3> HIDE DEF rq
    <3>4. PICK i \in 1..Len(rq[2]) :
              /\ running' = rq[2][i]
              /\ \A j \in 1..i - 1 : rq[2][j] = Idle
              /\ running' = Idle => Range(rq[2]) = {Idle}
      BY <3>1, <3>3, SwitchTakesFirst
    <3>5. /\ Len(rq[2]) = Len(ready_queue[2]) + 1
          /\ rq[2][Len(ready_queue[2]) + 1] = running
          /\ \A j \in 1..Len(ready_queue[2]) : rq[2][j] = ready_queue[2][j]
      BY <2>1, <3>2, AppendProperties
    <3>6. SUFFICES ASSUME running' # running
                   PROVE  /\ running' # Idle
                          /\ i \in 1..Len(ready_queue[2])
                          /\ ready_queue[2][i] = running'
                          /\ \A j \in 1..i - 1 : ready_queue[2][j] = Idle
      BY <2>2
    <3>7. running' # Idle
      BY <3>1, <3>4, <3>6
    <3>8. i \in 1..Len(ready_queue[2])
      BY <2>2, <3>4, <3>5, <3>6
    <3>9. QED BY <2>2, <3>4, <3>5, <3>7, <3>8
  <2>4. CASE Block
    <3>1. Idle \in Queued(ready_queue)
      BY <1>1, <2>4, MaxPidAssumption
         DEF IInv, OnePlace, Created, IdleRunnable, Block, Idle, Pid
    <3>2. ready_queue[2] # <<>>
      BY <2>1, <3>1 DEF Range
    <3>3. SwitchFrom(ready_queue, "WAITING") /\ running \in waiting'
      BY <2>1, <2>4 DEF Block, ProcessSwitch
    <3>4. QED BY <2>1, <2>2, <3>2, <3>3, SwitchTakesFirst
  <2>5. CASE \E p \in Pid : Wake(p)
    <3>1. PICK p \in Pid : Wake(p)
      BY <2>5
    <3>2. running' = running
      BY <1>1, <3>1 DEF Wake, ProcessSwitch, IInv, OnePlace, StateMatchesPlace, Pid
    <3>3. QED BY <3>2
  <2>6. CASE AllocatePid \/ \E p \in Pid : Initiate(p)
    BY <2>6 DEF AllocatePid, Initiate
  <2>7. CASE UNCHANGED vars
    BY <2>7
  <2>8. QED BY <1>1, <2>3, <2>4, <2>5, <2>6, <2>7 DEF Next
<1>2. QED BY <1>1, Invariant, PTL DEF Spec, FirstCome

-----------------------------------------------------------------------------
(* The scheduler implements Lifecycle. *)

(* Place is a function of the processes.                                    *)
LEMMA PlaceType == Place = [p \in Pid |-> Place[p]]
BY DEF Place

(* A switch is a Dispatch of Lifecycle, or a stutter if the running process *)
(* goes on.                                                                 *)
LEMMA SwitchRefines ==
    ASSUME IInv, Preempt \/ Block
    PROVE  L!Next \/ Place' = Place
<1>1. PICK next \in Pid, left \in {"READY", "WAITING"} : Switched(left, next)
  BY SwitchFacts
<1>2. /\ running \in Pid /\ running \notin Queued(ready_queue) \cup waiting
      /\ Queued(ready_queue) \cap waiting = {}
  BY DEF IInv, TypeOK, OnePlace
<1> DEFINE to == IF left = "READY" THEN "ready" ELSE "waiting"
<1>3. \A p \in Pid : Place'[p] = IF p = next THEN "running"
                                 ELSE IF p = running THEN to ELSE Place[p]
  BY <1>1, <1>2 DEF Switched, Place
<1>4. CASE next = running
  BY <1>3, <1>4, PlaceType DEF Place
<1>5. CASE next # running
  <2>1. Place[running] = "running" /\ Place[next] = "ready"
    BY <1>1, <1>2, <1>5 DEF Switched, Place
  <2>2. Place' = [Place EXCEPT ![running] = to, ![next] = "running"]
    BY <1>2, <1>3, <1>5 DEF Place
  <2>3. running = Idle => to = "ready"
    BY <1>1 DEF Switched
  <2>4. L!Dispatch(running, to, next)
    BY <2>1, <2>2, <2>3 DEF L!Dispatch, L!Idle, Idle
  <2>5. QED BY <1>2, <2>4 DEF L!Next, L!Pid, Pid
<1>6. QED BY <1>4, <1>5

(* A wake-up is a Wake of Lifecycle.                                        *)
LEMMA WakeRefines ==
    ASSUME IInv, NEW p \in Pid, Wake(p)
    PROVE  L!Next
<1>1. /\ p \in waiting /\ p # running /\ p \notin Queued(ready_queue) /\ p # -1
      /\ Tidy(ready_queue) /\ Queued(ready_queue) = Range(ready_queue[2])
  BY TidyReady, TidyQueued DEF IInv, OnePlace, Wake, Pid
<1>2. /\ waiting' = waiting \ {p} /\ running' = running /\ processid_gen' = processid_gen
      /\ ready_queue' = Insert(ready_queue, p)
  BY <1>1 DEF Wake, ProcessSwitch, IInv, StateMatchesPlace
<1>3. Queued(ready_queue)' = Queued(ready_queue) \cup {p}
  <2>1. Tidy(ready_queue') /\ Range(ready_queue'[2]) = Range(ready_queue[2]) \cup {p}
    BY <1>1, <1>2, InsertStep
  <2>2. QED BY <1>1, <2>1, TidyQueued DEF Queued
<1>4. Place[p] = "waiting" /\ Place' = [Place EXCEPT ![p] = "ready"]
  BY <1>1, <1>2, <1>3 DEF Place
<1>5. L!Wake(p)
  BY <1>4 DEF L!Wake
<1>6. QED BY <1>5 DEF L!Next, L!Pid, Pid

(* Queueing a new process is an Admit of Lifecycle.                         *)
LEMMA InitiateRefines ==
    ASSUME IInv, NEW p \in Pid, Initiate(p)
    PROVE  L!Next
<1>1. /\ p \notin Queued(ready_queue) \cup waiting \cup {running} /\ p < processid_gen
      /\ Tidy(ready_queue) /\ Queued(ready_queue) = Range(ready_queue[2])
  BY TidyReady, TidyQueued DEF IInv, OnePlace, Created, Initiate
<1>2. /\ waiting' = waiting /\ running' = running /\ processid_gen' = processid_gen
      /\ ready_queue' = Insert(ready_queue, p)
  BY DEF Initiate
<1>3. Queued(ready_queue)' = Queued(ready_queue) \cup {p}
  <2>1. Tidy(ready_queue') /\ Range(ready_queue'[2]) = Range(ready_queue[2]) \cup {p}
    BY <1>1, <1>2, InsertStep
  <2>2. QED BY <1>1, <2>1, TidyQueued DEF Queued
<1>4. Place[p] = "loading" /\ Place' = [Place EXCEPT ![p] = "ready"]
  BY <1>1, <1>2, <1>3 DEF Place
<1>5. L!Admit(p)
  BY <1>4 DEF L!Admit
<1>6. QED BY <1>5 DEF L!Next, L!Pid, Pid

(* Handing out a pid is an Allocate of Lifecycle.                           *)
LEMMA AllocateRefines ==
    ASSUME IInv, AllocatePid
    PROVE  L!Next
<1> DEFINE p == processid_gen
<1>1. /\ p \in Pid /\ p \notin Queued(ready_queue) \cup waiting \cup {running}
      /\ processid_gen \in Nat
  BY MaxPidAssumption DEF IInv, TypeOK, OnePlace, Created, FreshPids, AllocatePid, Pid
<1>2. /\ processid_gen' = p + 1
      /\ UNCHANGED <<ready_queue, waiting, running>>
      /\ Queued(ready_queue)' = Queued(ready_queue)
  BY DEF AllocatePid, Queued
<1>3. \A x \in Pid : x # p => (x < p + 1 <=> x < p)
  BY <1>1 DEF Pid
<1>4. ~(p < p) /\ p < p + 1
  BY <1>1
<1>5. Place[p] = "absent" /\ Place' = [Place EXCEPT ![p] = "loading"]
  <2>1. Place[p] = "absent" /\ Place'[p] = "loading"
    BY <1>1, <1>2, <1>4 DEF Place
  <2>2. \A x \in Pid : x # p => Place'[x] = Place[x]
    BY <1>2, <1>3 DEF Place
  <2>3. QED BY <2>1, <2>2 DEF Place
<1>6. L!Allocate(p)
  BY <1>5 DEF L!Allocate
<1>7. QED BY <1>1, <1>6 DEF L!Next, L!Pid, Pid

(* Where a process is is what it is: the queues, the list and the globals  *)
(* of process.cpp behave as Lifecycle says.                                *)
THEOREM SchedulerImplementsLifecycle == Spec => ImplementsLifecycle
<1>1. Init => L!Init
  <2> SUFFICES ASSUME Init PROVE L!Init
    OBVIOUS
  <2>1. Tidy(ready_queue) /\ ready_queue[2] = <<Shell>>
    BY InitIInv, TidyReady DEF IInv, Init, Level, Priority
  <2>2. Queued(ready_queue) = {Shell}
    BY <2>1, TidyQueued DEF Range
  <2>3. QED
    BY <2>2, MaxPidAssumption DEF Init, L!Init, L!Pid, L!Idle, Place, Pid, Idle, Shell
<1>2. IInv /\ [Next]_vars => [L!Next]_Place
  <2> SUFFICES ASSUME IInv, [Next]_vars PROVE L!Next \/ Place' = Place
    OBVIOUS
  <2>1. CASE Preempt \/ Block
    BY <2>1, SwitchRefines
  <2>2. CASE \E p \in Pid : Wake(p)
    BY <2>2, WakeRefines
  <2>3. CASE \E p \in Pid : Initiate(p)
    BY <2>3, InitiateRefines
  <2>4. CASE AllocatePid
    BY <2>4, AllocateRefines
  <2>5. CASE UNCHANGED vars
    BY <2>5 DEF vars, Place, Queued
  <2>6. QED BY <2>1, <2>2, <2>3, <2>4, <2>5 DEF Next
<1>3. QED BY <1>1, <1>2, Invariant, PTL DEF Spec, ImplementsLifecycle, L!Spec
==============================================================================
