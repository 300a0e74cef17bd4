----------------------------- MODULE VxMachine -----------------------------
(***************************************************************************)
(* The Vx virtual machine at work: the ThreadManager of VxThreads whose    *)
(* threads have the CPUs of VxCpu and share the host's memory.  One step   *)
(* is one round of BeginExecution's run loop.  The machine implements      *)
(* VxThreads, with the control flow of its program for the abstract one.   *)
(*                                                                         *)
(* ThreadTracker is copied member by member when the vector moves, so the  *)
(* copies share the stack their CPU allocated; the stack of the n-th       *)
(* thread is a block of StackInts ints at its own host address.            *)
(***************************************************************************)
EXTENDS VxCpu

CONSTANTS Code,         \* Code[ip]: the encoded instruction at offset ip
          Flow,         \* Flow[ip]: where control may go from ip
          Data,         \* Data[x]: the byte the compiler left at offset x
          Entry,        \* ulEntry
          ForcedArgs,   \* the argument lists BeginExecution may push for main:
                        \* {<<>>} unless VX_VER is 1
          FreshFlags,   \* bound: the <<zf, pf, nf>> a new CPU may have
          StackInts,    \* ints of a thread's stack
          StackBase,    \* host address of the first thread's stack
          MaxThreads    \* bound: crth is not modelled beyond so many threads

\* The fields of MemInstruction, as GetReg, GetUse, GetDrf and GetNext give them.
Instruction ==
    [op : TwoOps \cup OneOps \cup NoOps, use0 : BOOLEAN, use1 : BOOLEAN,
     drf0 : BOOLEAN, drf1 : BOOLEAN, reg0 : 0..7, reg1 : 0..7,
     arg0 : Ints, arg1 : Ints, next : Int]

\* What may be in the files and the command line, ...
ASSUME CodeAssumption == DOMAIN Code \subseteq Nat /\ Code \in [DOMAIN Code -> Instruction]
ASSUME FilesAssumption ==
    /\ DOMAIN Data \subseteq 0..(MemSize - 1) /\ Data \in [DOMAIN Data -> Bytes]
    /\ Entry \in Int /\ Imports \in Seq(Nat)
ASSUME ArgsAssumption == ForcedArgs \subseteq Seq(Ints)

\* ... what nothing in the machine determines, ...
ASSUME UnknownsAssumption ==
    FreshFlags \subseteq BOOLEAN \X BOOLEAN \X BOOLEAN /\ NativeResults \subseteq Ints

\* ... and that arMemory and the stacks behind it have addresses of a word.
ASSUME LayoutAssumption ==
    /\ ArgBytes \in Nat /\ StackInts \in Nat /\ StackBase \in Nat /\ MaxThreads \in Nat \ {0}
    /\ MemBase + MemSize <= StackBase /\ StackBase < 2^IntBits

VARIABLES m_vecThreads, capacity, phase, ran, ram

vars == <<m_vecThreads, capacity, phase, ran, ram>>

----------------------------------------------------------------------------
StackSize == StackInts * IntBytes
StackOf(n) == StackBase + (n - 1) * StackSize
StackTop(n) == StackOf(n) + StackSize

HostAddresses ==
    {Host(x) : x \in DOMAIN Data} \cup (StackBase..(StackTop(MaxThreads) - 1))

LoadedRam ==
    [a \in HostAddresses |-> IF a < StackBase THEN Data[a - MemBase] ELSE 0]

\* The CPUs the constructor of VxCPU may leave: registers zero, an empty
\* stack, and flags that nothing initialises.
NewCpus(n, ip) ==
    { [r |-> [k \in 0..7 |-> IF k = 7 THEN Wrap(StackTop(n)) ELSE 0],
       ip |-> ip, zf |-> f[1], pf |-> f[2], nf |-> f[3]] : f \in FreshFlags }

\* A CPU with the memory it works on, and back.
View(cpu, memory) ==
    [r |-> cpu.r, ip |-> cpu.ip, zf |-> cpu.zf, pf |-> cpu.pf, nf |-> cpu.nf, ram |-> memory]
CpuOf(m) == [r |-> m.r, ip |-> m.ip, zf |-> m.zf, pf |-> m.pf, nf |-> m.nf]

Tracker(m, priority) == [m_cpu |-> CpuOf(m), ulPriority |-> priority, ulCurrentLevel |-> 0]

\* Mutant: the return address is pushed twice.
InitThreadTwice(n, ip, memory) ==
    { Pushed(Pushed(View(cpu, memory), -1), -1) : cpu \in NewCpus(n, ip) }

\* What InitThread may append as the n-th thread, seen with the memory that
\* its push of -1 leaves.
InitThread(n, ip, memory) == { Pushed(View(cpu, memory), -1) : cpu \in NewCpus(n, ip) }

\* Mutant: the last argument is pushed first.
ForcePushAllReversed(m, args) ==
    LET f[k \in 0..Len(args)] == IF k = 0 THEN m ELSE Pushed(f[k - 1], args[Len(args) + 1 - k])
    IN  f[Len(args)]

\* ForcePush of each of a sequence of arguments.
ForcePushAll(m, args) ==
    LET f[k \in 0..Len(args)] == IF k = 0 THEN m ELSE Pushed(f[k - 1], args[k])
    IN  f[Len(args)]

GetActive == \E i \in DOMAIN m_vecThreads : m_vecThreads[i].ulPriority # 0

\* The capacity rule of the vector, as in VxThreads.
Reallocates == Len(m_vecThreads) = capacity
Grown(size) ==
    LET half == size + (size \div 2)
    IN  IF half > size THEN half ELSE size + 1
CapacityAfterPush == IF Reallocates THEN Grown(capacity) ELSE capacity

Raised == [i \in DOMAIN m_vecThreads |->
             [m_vecThreads[i] EXCEPT
                !.ulCurrentLevel = @ + m_vecThreads[i].ulPriority]]

IsBest(b) ==
    /\ \A i \in DOMAIN Raised :
          Raised[i].ulCurrentLevel <= Raised[b].ulCurrentLevel
    /\ \A i \in DOMAIN Raised :
          i < b => Raised[i].ulCurrentLevel < Raised[b].ulCurrentLevel

\* Thread b after Tick wrote its CPU, priority and level.
Settled(b, cpu, priority) ==
    [Raised EXCEPT ![b] = [m_cpu |-> cpu, ulPriority |-> priority, ulCurrentLevel |-> 0]]

\* Mutant: ip moves on after a jump as well.
AfterHandlerAlways(out, in) == [out.m EXCEPT !.ip = Wrap(@ + in.next)]

\* ip moves to the next instruction if the handler returned true.
AfterHandler(out, in) ==
    IF out.advance THEN [out.m EXCEPT !.ip = Wrap(@ + in.next)] ELSE out.m
----------------------------------------------------------------------------
Init ==
    /\ m_vecThreads = <<>>
    /\ capacity = 0
    /\ phase = "load"
    /\ ran = 0
    /\ ram = LoadedRam

\* BeginExecution: InitThread(ulEntry, 2), and ForcePush of the arguments.
Begin(args) ==
    /\ phase = "load"
    /\ \E m \in InitThread(1, Entry, ram) :
          LET started == ForcePushAll(m, args)
          IN  /\ m_vecThreads' = <<Tracker(started, 2)>>
              /\ ram' = started.ram
    /\ capacity' = CapacityAfterPush
    /\ phase' = "run"
    /\ UNCHANGED ran

Start == \E args \in ForcedArgs : Begin(args)

\* A handler that creates no thread.
ExecutePlain(b, out, in) ==
    LET m == AfterHandler(out, in)
    IN  /\ ~out.fault /\ out.spawn = {}
        /\ m_vecThreads' = Settled(b, CpuOf(m), m_vecThreads[b].ulPriority)
        /\ ram' = m.ram
        /\ UNCHANGED <<capacity, phase>>

\* crth: what is written to thread b after the vector moved is lost.
ExecuteCrth(b, out, in) ==
    /\ ~out.fault
    /\ Len(m_vecThreads) < MaxThreads
    /\ \E ip \in out.spawn :
          \E m \in InitThread(Len(m_vecThreads) + 1, ip, out.m.ram) :
             /\ m_vecThreads' =
                  Append(IF Reallocates THEN Raised
                         ELSE Settled(b, CpuOf(AfterHandler(out, in)),
                                      m_vecThreads[b].ulPriority),
                         Tracker(m, 1))
             /\ ram' = m.ram
    /\ capacity' = CapacityAfterPush
    /\ UNCHANGED phase

\* An exception in a handler ends the process.
ExecuteFault(out) ==
    /\ out.fault
    /\ phase' = "faulted"
    /\ UNCHANGED <<m_vecThreads, capacity, ram>>

\* Mutant: the returned thread keeps its priority.
ExecuteReturnedActive(b) ==
    /\ m_vecThreads' = Settled(b, m_vecThreads[b].m_cpu, m_vecThreads[b].ulPriority)
    /\ UNCHANGED <<capacity, phase, ram>>

\* ip = -1: ExecuteInstruction returns false and the thread is retired.
ExecuteReturned(b) ==
    /\ m_vecThreads' = Settled(b, m_vecThreads[b].m_cpu, 0)
    /\ UNCHANGED <<capacity, phase, ram>>

\* A byte that is the id of no instruction: ip stays.
ExecuteUnknown(b) ==
    /\ m_vecThreads' = Settled(b, m_vecThreads[b].m_cpu, m_vecThreads[b].ulPriority)
    /\ UNCHANGED <<capacity, phase, ram>>

\* ExecuteInstruction of thread b, and the end of Tick.
ExecuteInstruction(b) ==
    LET cpu == m_vecThreads[b].m_cpu
    IN  \/ cpu.ip = -1 /\ ExecuteReturned(b)
        \/ cpu.ip \notin DOMAIN Code \cup {-1} /\ ExecuteUnknown(b)
        \/ /\ cpu.ip \in DOMAIN Code
           /\ \E out \in Outcomes(View(cpu, ram), Code[cpu.ip]) :
                 \/ ExecutePlain(b, out, Code[cpu.ip])
                 \/ ExecuteCrth(b, out, Code[cpu.ip])
                 \/ ExecuteFault(out)

Tick ==
    /\ phase = "run"
    /\ GetActive
    /\ \E b \in DOMAIN m_vecThreads :
          /\ IsBest(b)
          /\ ExecuteInstruction(b)
          /\ ran' = IF phase' = "faulted" THEN ran ELSE b

JumpOut ==
    /\ phase = "run"
    /\ ~GetActive
    /\ phase' = "exited"
    /\ UNCHANGED <<m_vecThreads, capacity, ran, ram>>

Stopped == phase \in {"exited", "faulted"} /\ UNCHANGED vars

Next == Start \/ Tick \/ JumpOut \/ Stopped

Spec == Init /\ [][Next]_vars /\ WF_vars(Start) /\ WF_vars(Tick) /\ WF_vars(JumpOut)
----------------------------------------------------------------------------
\* Calls and returns balance: a thread comes to return to -1 only when its
\* stack is empty again, whatever was called, pushed and popped before, by
\* it and by the threads it took turns with.
BalancedAtReturn ==
    \A i \in DOMAIN m_vecThreads :
        m_vecThreads[i].m_cpu.ip = -1 =>
            Unsigned(m_vecThreads[i].m_cpu.r[7]) = StackTop(i)

\* The stack pointer of a thread stays in the stack its constructor allocated,
\* copies of the thread in a moved vector included.
OwnStack ==
    \A i \in DOMAIN m_vecThreads :
        Unsigned(m_vecThreads[i].m_cpu.r[7]) \in StackOf(i)..StackTop(i)

\* The instruction of the threads of VxThreads that an instruction is.
KindOf(in) == IF in.op = "crth" THEN "crth" ELSE "plain"

Threads == INSTANCE VxThreads WITH
    Ips <- DOMAIN Flow,
    Kind <- [ip \in DOMAIN Flow |-> IF ip \in DOMAIN Code THEN KindOf(Code[ip]) ELSE "plain"],
    Succ <- Flow,
    Targets <- DOMAIN Flow,
    phase <- IF phase = "faulted" THEN "run" ELSE phase,
    m_vecThreads <- [i \in DOMAIN m_vecThreads |->
                       [ip |-> m_vecThreads[i].m_cpu.ip,
                        ulPriority |-> m_vecThreads[i].ulPriority,
                        ulCurrentLevel |-> m_vecThreads[i].ulCurrentLevel]]

\* The machine implements the scheduler, and control never leaves the flow
\* graph of the source program: a return goes back behind a call of the
\* procedure it ends, a jump to its label, every other instruction to the next.
FollowsFlow == Threads!Init /\ [][Threads!Next]_(Threads!vars)
=============================================================================
