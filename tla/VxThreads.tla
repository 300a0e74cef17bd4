----------------------------- MODULE VxThreads -----------------------------
(***************************************************************************)
(* The ThreadManager of the Vx virtual machine (VxAsm.h) and the run loop  *)
(* of BeginExecution that drives it: green threads kept in a std::vector,  *)
(* of which every Tick executes one instruction of the thread whose level  *)
(* is highest.                                                             *)
(*                                                                         *)
(* The CPU is abstracted to what the scheduler can see of an instruction:  *)
(* whether it creates a thread (crth), and where ip may go.  -1 is the     *)
(* return address InitThread puts under every stack.                       *)
(*                                                                         *)
(* The vector is modelled with its capacity.  A crth executed inside Tick  *)
(* calls push_back while Tick holds pBest and the handler holds pThis,     *)
(* both pointers into the vector's storage; when push_back moves the       *)
(* storage, what Tick and ExecuteInstruction write afterwards goes to the  *)
(* freed block and the live copy of the thread keeps what it had.          *)
(***************************************************************************)
EXTENDS Integers, Sequences

CONSTANTS Ips,          \* the instruction offsets of the program
          Kind,         \* Kind[ip]: "plain" or "crth"
          Succ,         \* Succ[ip]: where ip may be after the instruction
          Entry,        \* ulEntry, the first instruction of main
          Targets,      \* the offsets a crth may find in its register
          MaxThreads    \* bound: crth is not modelled beyond so many threads

\* -1, the ip of a thread that popped the return address of its bottom frame.
Returned == -1

Places == Ips \cup {Returned}

ASSUME IpsAssumption == Ips \subseteq Nat
ASSUME KindAssumption == Kind \in [Ips -> {"plain", "crth"}]
ASSUME SuccAssumption == Succ \in [Ips -> SUBSET Places]
ASSUME EntryAssumption == Entry \in Places /\ Targets \subseteq Places
ASSUME MaxThreadsAssumption == MaxThreads \in Nat \ {0}

VARIABLES m_vecThreads,   \* the ThreadTrackers, in order of creation
          capacity,       \* m_vecThreads.capacity()
          phase,          \* "load": before InitThread of main; "run": in the
                          \* run loop; "exited": past JumpOut
          ran             \* auxiliary: the thread the last Tick dispatched

vars == <<m_vecThreads, capacity, phase, ran>>

Thread == [ip : Places, ulPriority : Nat, ulCurrentLevel : Nat]

----------------------------------------------------------------------------
\* The thread InitThread constructs, appends and fills in.
InitThread(ip, priority) ==
    [ip |-> ip, ulPriority |-> priority, ulCurrentLevel |-> 0]

\* The storage is moved by a push_back that finds it full ...
Reallocates == Len(m_vecThreads) = capacity

\* Mutant: growth that rounds down to none.
GrownTooLittle(size) == size + (size \div 2)

\* ... and then grows by half, or to the size needed if that is more.
Grown(size) ==
    LET half == size + (size \div 2)
    IN  IF half > size THEN half ELSE size + 1

CapacityAfterPush == IF Reallocates THEN Grown(capacity) ELSE capacity

\* Mutant: looks at the first thread only.
GetActiveFirst == m_vecThreads # <<>> /\ m_vecThreads[1].ulPriority # 0

\* GetActive: some thread still has a priority.
GetActive == \E i \in DOMAIN m_vecThreads : m_vecThreads[i].ulPriority # 0

\* Mutants: the loop stops before the last thread; retired threads age too.
RaisedButLast ==
    [i \in DOMAIN m_vecThreads |->
        [m_vecThreads[i] EXCEPT
           !.ulCurrentLevel = @ + (IF i < Len(m_vecThreads) \/ i = 1
                                   THEN m_vecThreads[i].ulPriority ELSE 0)]]
RaisedWhenRetired ==
    [i \in DOMAIN m_vecThreads |->
        [m_vecThreads[i] EXCEPT
           !.ulCurrentLevel = @ + (IF m_vecThreads[i].ulPriority = 0
                                   THEN 1 ELSE m_vecThreads[i].ulPriority)]]

\* The threads after the loop of Tick has raised every level.
Raised == [i \in DOMAIN m_vecThreads |->
             [m_vecThreads[i] EXCEPT
                !.ulCurrentLevel = @ + m_vecThreads[i].ulPriority]]

\* pBest: it starts at the first thread and moves to a strictly higher level,
\* so it is the first of the threads with the highest level.
IsBest(b) ==
    /\ \A i \in DOMAIN Raised :
          Raised[i].ulCurrentLevel <= Raised[b].ulCurrentLevel
    /\ \A i \in DOMAIN Raised :
          i < b => Raised[i].ulCurrentLevel < Raised[b].ulCurrentLevel

\* Mutant: the level is not reset.
SettledAtLevel(b, ip) == [Raised EXCEPT ![b] = [@ EXCEPT !.ip = ip]]

\* What the end of Tick leaves of thread b when its pointers are still good:
\* the new ip, and no level.
Settled(b, ip) ==
    [Raised EXCEPT ![b] = [@ EXCEPT !.ip = ip, !.ulCurrentLevel = 0]]
----------------------------------------------------------------------------
Init ==
    /\ m_vecThreads = <<>>
    /\ capacity = 0
    /\ phase = "load"
    /\ ran = 0

\* BeginExecution creates the manager and the main thread, of priority 2.
Start ==
    /\ phase = "load"
    /\ m_vecThreads' = <<InitThread(Entry, 2)>>
    /\ capacity' = CapacityAfterPush
    /\ phase' = "run"
    /\ UNCHANGED ran

\* ExecuteInstruction of any instruction but crth.  An opcode that matches no
\* entry of the instruction set leaves ip where it is: Succ[ip] has ip then.
ExecutePlain(b) ==
    /\ m_vecThreads[b].ip \in Ips
    /\ Kind[m_vecThreads[b].ip] = "plain"
    /\ \E ip \in Succ[m_vecThreads[b].ip] : m_vecThreads' = Settled(b, ip)
    /\ UNCHANGED capacity

\* ExecuteInstruction of crth: InitThread of the new thread, then the writes
\* of ip and of the level, which are lost if the vector has moved.
ExecuteCrth(b) ==
    /\ m_vecThreads[b].ip \in Ips
    /\ Kind[m_vecThreads[b].ip] = "crth"
    /\ Len(m_vecThreads) < MaxThreads
    /\ \E target \in Targets, ip \in Succ[m_vecThreads[b].ip] :
          m_vecThreads' = Append(IF Reallocates THEN Raised ELSE Settled(b, ip),
                                 InitThread(target, 1))
    /\ capacity' = CapacityAfterPush

\* Mutant: Tick leaves early and keeps the level.
ExecuteReturnedAtLevel(b) ==
    /\ m_vecThreads[b].ip = Returned
    /\ m_vecThreads' = [Raised EXCEPT ![b] = [@ EXCEPT !.ulPriority = 0]]
    /\ UNCHANGED capacity

\* ExecuteInstruction returns false for ip = -1, and Tick retires the thread.
ExecuteReturned(b) ==
    /\ m_vecThreads[b].ip = Returned
    /\ m_vecThreads' = [Settled(b, Returned) EXCEPT ![b] = [@ EXCEPT !.ulPriority = 0]]
    /\ UNCHANGED capacity

\* One round of the run loop: GetActive, then Tick.
Tick ==
    /\ phase = "run"
    /\ GetActive
    /\ \E b \in DOMAIN m_vecThreads :
          /\ IsBest(b)
          /\ ExecutePlain(b) \/ ExecuteCrth(b) \/ ExecuteReturned(b)
          /\ ran' = b
    /\ UNCHANGED phase

\* The run loop ends and BeginExecution leaves through JumpOut.
JumpOut ==
    /\ phase = "run"
    /\ ~GetActive
    /\ phase' = "exited"
    /\ UNCHANGED <<m_vecThreads, capacity, ran>>

\* After JumpOut the manager is never entered again.
Exited == phase = "exited" /\ UNCHANGED vars

Next == Start \/ Tick \/ JumpOut \/ Exited

\* The run loop is one OS thread that does nothing else, so it makes progress.
Spec == Init /\ [][Next]_vars /\ WF_vars(Start) /\ WF_vars(Tick) /\ WF_vars(JumpOut)
----------------------------------------------------------------------------
\* Every thread has a place, a priority and a level, and the vector's size is
\* within its capacity.
TypeOK ==
    /\ m_vecThreads \in Seq(Thread)
    /\ capacity \in Nat
    /\ phase \in {"load", "run", "exited"}
    /\ ran \in Nat
    /\ Len(m_vecThreads) <= capacity

\* A retired thread (priority 0) has no level left and no instruction to go on
\* with, whatever Tick's lost writes did before: the two words Tick compares
\* and the ip ExecuteInstruction reads agree.
RetiredIsIdle ==
    \A i \in DOMAIN m_vecThreads :
        m_vecThreads[i].ulPriority = 0 =>
            /\ m_vecThreads[i].ulCurrentLevel = 0
            /\ m_vecThreads[i].ip = Returned

\* Tick dispatches a thread that is not retired, although pBest starts at the
\* first thread whether it is retired or not; and no step changes a retired
\* thread, so none comes back.
RetiredNeverRuns ==
    [][/\ Tick => m_vecThreads[ran'].ulPriority # 0
       /\ \A i \in DOMAIN m_vecThreads :
             m_vecThreads[i].ulPriority = 0 => m_vecThreads'[i] = m_vecThreads[i]]_vars

\* A waiting thread's level grows by its priority every Tick, so a bound on the
\* levels bounds how many Ticks a thread waits: main, whose priority is 2, never
\* waits for more rounds than there are threads, and the threads crth creates
\* never for more than twice that.
WaitIsBounded ==
    \A i \in DOMAIN m_vecThreads :
        m_vecThreads[i].ulCurrentLevel <= 2 * Len(m_vecThreads)

\* No thread starves: each one that is not retired is dispatched again and
\* again, main's double priority and the rounds lost to a moved vector included.
NoStarvation ==
    \A i \in 1..MaxThreads :
        []<>(\/ i > Len(m_vecThreads)
             \/ m_vecThreads[i].ulPriority = 0
             \/ ran = i)

\* The status of a thread in the abstract pool.
StatusOf(thread) ==
    CASE thread.ulPriority = 0 -> "ended"
      [] thread.ulPriority # 0 /\ thread.ip = Returned -> "returned"
      [] OTHER -> "running"

Pool == INSTANCE ThreadPool WITH
            pool <- [i \in DOMAIN m_vecThreads |-> StatusOf(m_vecThreads[i])]

\* The manager keeps the promise of ThreadPool: levels, lost writes and moved
\* storage never make a step of it move any thread but one that has not ended.
ImplementsPool == Pool!Spec

\* "Create thread." (InstructionSet.h): a crth that creates a thread is done
\* with, and its thread moves on to the next instruction.
CrthCreatesOneThread ==
    [][Len(m_vecThreads') > Len(m_vecThreads) /\ phase = "run" =>
          m_vecThreads'[ran'].ip # m_vecThreads[ran'].ip]_vars
=============================================================================
