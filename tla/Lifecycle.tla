------------------------------ MODULE Lifecycle ------------------------------
(***************************************************************************)
(* What the process scheduler of src/os/cpp/process.cpp promises, with no  *)
(* queue, list or stack in sight: every process is absent, being loaded,   *)
(* ready, running or waiting; the processor always runs exactly one        *)
(* process; it only ever leaves that process for a ready one; and nothing  *)
(* but a wake-up takes a process out of waiting.                           *)
(***************************************************************************)
EXTENDS Naturals

CONSTANT MaxPid

VARIABLE status

Pid == 0..MaxPid
Idle == 0
Status == {"absent", "loading", "ready", "running", "waiting"}

(* kmain has created the idle process and the shell, and entered the first. *)
Init == status = [p \in Pid |-> IF p = Idle THEN "running"
                                ELSE IF p = 1 THEN "ready" ELSE "absent"]

Allocate(p) ==
    /\ status[p] = "absent"
    /\ status' = [status EXCEPT ![p] = "loading"]

Admit(p) ==
    /\ status[p] = "loading"
    /\ status' = [status EXCEPT ![p] = "ready"]

Wake(p) ==
    /\ status[p] = "waiting"
    /\ status' = [status EXCEPT ![p] = "ready"]

(* old gives the processor up, staying runnable (left = "ready") or to wait *)
(* for an event, and a ready process takes it over.                         *)
Dispatch(old, left, next) ==
    /\ status[old] = "running"
    /\ status[next] = "ready"
    /\ old = Idle => left = "ready"
    /\ status' = [status EXCEPT ![old] = left, ![next] = "running"]

Next ==
    \E p \in Pid :
        \/ Allocate(p)
        \/ Admit(p)
        \/ Wake(p)
        \/ \E left \in {"ready", "waiting"}, next \in Pid : Dispatch(p, left, next)

Spec == Init /\ [][Next]_status
==============================================================================
