----------------------------- MODULE ThreadPool -----------------------------
(***************************************************************************)
(* What the Vx ThreadManager promises to the rest of the interpreter,      *)
(* without priorities, levels or storage: a growing pool of threads of     *)
(* which every step moves exactly one that has not ended.  A thread is     *)
(* "running", then "returned" (its bottom frame was popped) and then       *)
(* "ended" (the manager noticed).  The interpreter leaves its run loop     *)
(* only when every thread has ended.  Module VxThreads implements this.    *)
(***************************************************************************)
EXTENDS Naturals, Sequences

VARIABLES pool,    \* the status of each thread, in order of creation
          phase    \* "load", then "run", then "exited"

vars == <<pool, phase>>

Status == {"running", "returned", "ended"}

Init == pool = <<>> /\ phase = "load"

\* The main thread is created and the run loop is entered.
Start ==
    /\ phase = "load"
    /\ \E s \in {"running", "returned"} : pool' = <<s>>
    /\ phase' = "run"

\* A running thread executes one instruction, and may pop its bottom frame.
Run(i) ==
    /\ pool[i] = "running"
    /\ \E s \in {"running", "returned"} : pool' = [pool EXCEPT ![i] = s]

\* A running thread creates another.
Spawn(i) ==
    /\ pool[i] = "running"
    /\ \E s, n \in {"running", "returned"} :
          pool' = Append([pool EXCEPT ![i] = s], n)

\* The manager sees that a thread has returned and retires it for good.
Reap(i) ==
    /\ pool[i] = "returned"
    /\ pool' = [pool EXCEPT ![i] = "ended"]

Step ==
    /\ phase = "run"
    /\ \E i \in DOMAIN pool : Run(i) \/ Spawn(i) \/ Reap(i)
    /\ UNCHANGED phase

Exit ==
    /\ phase = "run"
    /\ \A i \in DOMAIN pool : pool[i] = "ended"
    /\ phase' = "exited"
    /\ UNCHANGED pool

Next == Start \/ Step \/ Exit

Spec == Init /\ [][Next]_vars
=============================================================================
