---------------------------- MODULE MCVxMachine ----------------------------
(***************************************************************************)
(* Programs for VxMachine, with words of two 8-bit bytes instead of four.  *)
(* A program lists the instructions as they are written, each with the     *)
(* offset the compiler found for it; the offsets are arbitrary.                    *)
(***************************************************************************)
EXTENDS VxMachine, TLC

Enc == INSTANCE VxEncode WITH Junk <- 77

\* The operations with reversed operand order in this instruction set.
SomeRev == {"mov", "sub", "stk", "cmp"}

\* A line: the offset of an instruction, the instruction, and the offset of the
\* one written after it, which SetNext links it to.
Line(ip, in, after) == ip :> [in EXCEPT !.next = after - ip]

Two(op, dst, src) == Enc!Make2(op, dst, src, 0)
One(op, operand) == Enc!Make1(op, operand, 0)
Zero(op) == Enc!Make0(op, 0)

\* The control flow of a program whose ret instructions return to Sites[ip].
FlowOf(code, Sites) ==
    [ip \in DOMAIN code |->
       LET in == code[ip]
       IN  CASE in.op = "ret" -> Sites[ip]
             [] in.op \in {"jmp", "call"} -> {in.arg0}
             [] in.op \in {"jg", "jl", "jle", "jge", "jz", "jnz"} -> {in.arg0, ip + in.next}
             [] OTHER -> {ip + in.next}]

SomeFlags == {<<FALSE, FALSE, FALSE>>, <<TRUE, TRUE, TRUE>>}
AllFlags == BOOLEAN \X BOOLEAN \X BOOLEAN
NoArgs == {<<>>}
ZeroData == [x \in 0..7 |-> 0]

----------------------------------------------------------------------------
\* vxHelloWorld.vx: a call with a parameter on the stack and a frame in r6.
str_00 == 2
HelloCode ==
    \* proc print_int
    Line(60, One("push", Enc!R(6)), 24) @@
    Line(24, Two("mov", Enc!R(6), Enc!R(7)), 100) @@
    Line(100, Two("sub", Enc!R(7), Enc!C(2)), 28) @@
    Line(28, Two("mov", Enc!RAt(7), Enc!CAt(str_00)), 32) @@
    Line(32, Two("mov", Enc!R(1), Enc!R(7)), 88) @@
    Line(88, Two("stk", Enc!R(2), Enc!C(4)), 36) @@
    Line(36, One("push", Enc!R(2)), 84) @@
    Line(84, One("push", Enc!R(1)), 92) @@
    Line(92, One("natv", Enc!C(0)), 40) @@
    Line(40, Two("mov", Enc!R(7), Enc!R(6)), 44) @@
    Line(44, One("pop", Enc!R(6)), 48) @@
    Line(48, Zero("ret"), 72) @@
    \* proc main
    Line(72, One("push", Enc!C(5)), 68) @@
    Line(68, One("call", Enc!C(60)), 64) @@
    Line(64, Two("add", Enc!R(7), Enc!C(2)), 76) @@
    Line(76, Zero("ret"), 76)
HelloFlow == FlowOf(HelloCode, (48 :> {64}) @@ (76 :> {-1}))
HelloImports == <<2>>
HelloData == [x \in 0..7 |-> x]
Natives == {0, 7}

\* print_int passes its parameter to printf: whenever natv runs, the two ints
\* on the stack are the address of the format and the 5 that main pushed.
PrintfGetsItsParameters ==
    \A i \in DOMAIN m_vecThreads :
        LET cpu == m_vecThreads[i].m_cpu
            top == Unsigned(cpu.r[7])
        IN  cpu.ip = 92 =>
              /\ Load(ram, Unsigned(Load(ram, top))) = Load(LoadedRam, Host(str_00))
              /\ Load(ram, top + 2) = 5

----------------------------------------------------------------------------
\* Threads: main divides 100 by the argument forced on it, which may trap, and
\* creates workers; each worker calls bump twice in a loop, and bump counts in
\* arMemory[2].  With the argument 200 main goes astray, to an offset where the
\* compiler put no instruction; otherwise it calls bump itself and returns.
count == 2
result == 4
Stray == 120
ThreadsCode ==
    Line(40, One("pop", Enc!R(1)), 44) @@
    Line(44, Two("mov", Enc!R(0), Enc!C(100)), 48) @@
    Line(48, Two("div", Enc!R(0), Enc!R(1)), 52) @@
    Line(52, Two("mov", Enc!CAt(result), Enc!R(0)), 56) @@
    Line(56, Two("mov", Enc!R(0), Enc!C(80)), 20) @@
    Line(20, One("crth", Enc!R(0)), 24) @@
    Line(24, Two("cmp", Enc!R(1), Enc!C(200)), 16) @@
    Line(16, One("jz", Enc!C(Stray)), 12) @@
    Line(12, One("call", Enc!C(60)), 28) @@
    Line(28, Zero("ret"), 60) @@
    \* proc bump
    Line(60, One("push", Enc!R(1)), 32) @@
    Line(32, Two("add", Enc!CAt(count), Enc!C(1)), 36) @@
    Line(36, One("pop", Enc!R(1)), 64) @@
    Line(64, Zero("ret"), 80) @@
    \* proc worker
    Line(80, Two("mov", Enc!R(1), Enc!C(2)), 84) @@
    Line(84, One("call", Enc!C(60)), 88) @@
    Line(88, Two("sub", Enc!R(1), Enc!C(1)), 72) @@
    Line(72, Two("cmp", Enc!R(1), Enc!C(0)), 76) @@
    Line(76, One("jg", Enc!C(84)), 92) @@
    Line(92, Zero("ret"), 92)
ThreadsFlow ==
    FlowOf(ThreadsCode, (28 :> {-1}) @@ (64 :> {28, 88}) @@ (92 :> {-1})) @@ (Stray :> {Stray})
ThreadsArgs == {<<0>>, <<-7>>, <<200>>}

\* Every thread the vector holds ran its program exactly once: main counted
\* once and each worker twice, none of their instructions lost or repeated
\* when the vector moved under them.
EveryThreadCountsOnce ==
    phase = "exited" => Load(ram, Host(count)) = 1 + 2 * (Len(m_vecThreads) - 1)

\* The quotient that main stores truncates towards zero: with the divisor it
\* gives back 100 up to a remainder that is smaller and has 100's sign.  The
\* process dies of an exception only when main divides by zero.
DivisionTruncatesOrTraps ==
    \A i \in DOMAIN m_vecThreads :
        LET cpu == m_vecThreads[i].m_cpu
            rest == 100 - Load(ram, Host(result)) * cpu.r[1]
        IN  /\ cpu.ip = 56 => rest >= 0 /\ (rest < cpu.r[1] \/ rest < -cpu.r[1])
            /\ phase = "faulted" => i = 1 /\ cpu.ip = 48 /\ cpu.r[1] = 0

\* Main is astray and takes its turns for ever, and every worker has counted
\* and is retired.
OnlyStrayIsLeft ==
    /\ phase = "run"
    /\ m_vecThreads[1].m_cpu.ip = Stray
    /\ Load(ram, Host(count)) = 2 * (Len(m_vecThreads) - 1)
    /\ \A i \in 2..Len(m_vecThreads) : m_vecThreads[i].ulPriority = 0

\* All threads return and the process leaves through JumpOut; or main keeps the
\* run loop going at an offset without an instruction, and for all its double
\* priority it holds up no worker.
EndsOrHoldsNobody == <>[](phase = "exited" \/ phase = "faulted" \/ OnlyStrayIsLeft)
=============================================================================
