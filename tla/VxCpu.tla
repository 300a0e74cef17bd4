------------------------------- MODULE VxCpu -------------------------------
(***************************************************************************)
(* The instructions of the Vx virtual machine (VxAsm.h), as operators from *)
(* the state of one CPU and the host's memory to what the handler may do.  *)
(*                                                                         *)
(* A CPU is a record: r, the words r0..r7 (r7 is a host pointer into the   *)
(* thread's stack); ip, an offset in arMemory; the flags zf, pf, nf; and   *)
(* ram, the host's bytes by host address, which all threads share.         *)
(* arMemory[x] is the byte at host address MemBase + x.                    *)
(*                                                                         *)
(* An instruction is a record: op; use0 and use1, the two bits of flUse    *)
(* (operand is a register); drf0 and drf1 (operand is dereferenced); reg0  *)
(* and reg1; arg0 and arg1, args[0] and args[1] as encoded; and next,      *)
(* which GetNext returns.                                                  *)
(*                                                                         *)
(* Words are two's complement of IntBytes bytes of ByteBits bits, stored   *)
(* little-endian; every result is wrapped to that width.                   *)
(***************************************************************************)
EXTENDS Integers, Sequences

CONSTANTS ByteBits,     \* bits of a byte
          IntBytes,     \* sizeof(int) and sizeof(int*)
          MemSize,      \* sizeof(arMemory)
          MemBase,      \* the host address of arMemory
          OrderRev,     \* the operations whose m_order is ORD_REV
          Imports,      \* the import list: each import's m_iNumParams
          NativeResults,\* what a native function may leave in eax
          ArgBytes      \* where args[0] starts in an encoded instruction

ASSUME WidthAssumption == ByteBits \in Nat \ {0} /\ IntBytes \in Nat \ {0}
ASSUME MemoryAssumption == MemSize \in Nat /\ MemBase \in Nat /\ MemBase > MemSize

IntBits == ByteBits * IntBytes
ASSUME PowerAssumption ==
    \A n \in 0..IntBits : 2^n \in Nat \ {0} /\ 2^(n + 1) = 2 * 2^n

Unsigned(v) == v % 2^IntBits
Wrap(v) == LET u == Unsigned(v) IN IF u >= 2^(IntBits - 1) THEN u - 2^IntBits ELSE u
MinInt == -(2^(IntBits - 1))
Ints == MinInt..(2^(IntBits - 1) - 1)
Bytes == 0..(2^ByteBits - 1)

----------------------------------------------------------------------------
(* The host's memory.                                                       *)

\* The addresses of the bytes of the int at address a.
IntAt(a) == a..(a + IntBytes - 1)
Mapped(ram, a) == IntAt(a) \subseteq DOMAIN ram

\* The k-th byte, from the low end, of a word.
ByteOf(v, k) == (Unsigned(v) \div 2^(ByteBits * k)) % 2^ByteBits

Load(ram, a) ==
    LET sum[k \in 0..IntBytes] ==
          IF k = 0 THEN 0 ELSE sum[k - 1] + ram[a + k - 1] * 2^(ByteBits * (k - 1))
    IN  Wrap(sum[IntBytes])

Store(ram, a, v) ==
    [x \in DOMAIN ram |-> IF x \in IntAt(a) THEN ByteOf(v, x - a) ELSE ram[x]]

\* The host address of arMemory[x].
Host(x) == Unsigned(MemBase + x)

\* The address [reg] stands for: r7 is a pointer; any other register is one
\* if it is above sizeof(arMemory) as an unsigned word, else an offset.
Pointee(m, reg) ==
    IF reg = 7 \/ Unsigned(m.r[reg]) > MemSize THEN Unsigned(m.r[reg]) ELSE Host(m.r[reg])

----------------------------------------------------------------------------
(* The instruction set, by how many operands an instruction has.            *)

TwoOps == {"mul", "div", "add", "sub", "mov", "lea", "shl", "shr", "xor", "or", "and",
           "cmp", "stk"}
OneOps == {"jmp", "jg", "jl", "jle", "jge", "jz", "jnz", "push", "pop", "call", "crth", "natv"}
NoOps == {"ret", "nop"}

----------------------------------------------------------------------------
(* Operands: a register, an int in memory, or a constant of the encoding.   *)

Reg(k) == [kind |-> "reg", at |-> k]
Mem(a) == [kind |-> "mem", at |-> a]
Imm(v) == [kind |-> "imm", at |-> v]

Accessible(m, o) == o.kind = "mem" => Mapped(m.ram, o.at)

Value(m, o) ==
    CASE o.kind = "reg" -> m.r[o.at]
      [] o.kind = "mem" -> Load(m.ram, o.at)
      [] o.kind = "imm" -> o.at

Assign(m, o, v) ==
    IF o.kind = "reg" THEN [m EXCEPT !.r[o.at] = v]
                      ELSE [m EXCEPT !.ram = Store(m.ram, o.at, v)]

\* reg or [reg].
RegOperand(m, deref, reg) == IF deref THEN Mem(Pointee(m, reg)) ELSE Reg(reg)

\* Mutant: m_order is not looked at.
DestArgForward(in) == in.arg0

\* The constants of the two operands: m_order says which of args is whose.
DestArg(in) == IF in.op \in OrderRev THEN in.arg1 ELSE in.arg0
SrcArg(in)  == IF in.op \in OrderRev THEN in.arg0 ELSE in.arg1

\* A destination that is neither a register nor dereferenced: the handlers
\* of two operands return at once.
NoDest(in) == ~in.use0 /\ ~in.drf0

Dest(m, in) == IF in.use0 THEN RegOperand(m, in.drf0, in.reg0) ELSE Mem(Host(DestArg(in)))

\* drf1 is ignored when neither operand is a register.
Src(m, in) ==
    CASE in.use1 -> RegOperand(m, in.drf1, in.reg1)
      [] ~in.use1 /\ in.use0 /\ in.drf1 -> Mem(Host(SrcArg(in)))
      [] OTHER -> Imm(SrcArg(in))

----------------------------------------------------------------------------
(* What a handler does: the CPU it leaves, whether it returns true (so that *)
(* ip moves to the next instruction), the ip of a thread it creates, and    *)
(* whether it dies of an exception instead.                                 *)

Continue(m) == [m |-> m, advance |-> TRUE, spawn |-> {}, fault |-> FALSE]
JumpTo(m, ip) == [Continue([m EXCEPT !.ip = ip]) EXCEPT !.advance = FALSE]
Create(m, ip) == [Continue(m) EXCEPT !.spawn = {ip}]
Fault(m) == [Continue(m) EXCEPT !.fault = TRUE]

\* The scheme of the handlers of two operands, with source s: nothing without
\* a destination, an exception if an operand is not in memory or on the
\* operation itself, else the destination is replaced.
Operate(m, in, s, Faults(_, _), Op(_, _)) ==
    LET d == Dest(m, in)
    IN  CASE NoDest(in) -> Continue(m)
          [] ~NoDest(in) /\ ~(Accessible(m, d) /\ Accessible(m, s)) -> Fault(m)
          [] OTHER ->
               IF Faults(Value(m, d), Value(m, s)) THEN Fault(m)
               ELSE Continue(Assign(m, d, Wrap(Op(Value(m, d), Value(m, s)))))

TwoOperands(m, in, Faults(_, _), Op(_, _)) == Operate(m, in, Src(m, in), Faults, Op)

Second(a, b) == b
Never(a, b) == FALSE

MulHandler(m, in) == TwoOperands(m, in, Never, LAMBDA a, b : a * b)

\* Mutant: division that rounds down.
QuotientFloor(a, b) ==
    LET Abs(v) == IF v < 0 THEN -v ELSE v
    IN  IF (a < 0) = (b < 0) THEN Abs(a) \div Abs(b)
        ELSE -((Abs(a) + Abs(b) - 1) \div Abs(b))

\* Signed division truncates; by zero, and of the least word by -1, it traps.
Quotient(a, b) ==
    LET Abs(v) == IF v < 0 THEN -v ELSE v
        q == Abs(a) \div Abs(b)
    IN  IF (a < 0) = (b < 0) THEN q ELSE -q

DivHandler(m, in) ==
    TwoOperands(m, in, LAMBDA a, b : b = 0 \/ (a = MinInt /\ b = -1), Quotient)

AddHandler(m, in) == TwoOperands(m, in, Never, LAMBDA a, b : a + b)
SubHandler(m, in) == TwoOperands(m, in, Never, LAMBDA a, b : a - b)
MovHandler(m, in) == TwoOperands(m, in, Never, Second)

\* Shifts, as the x86 instructions they compile to: the count is taken modulo
\* the width, and a right shift keeps the sign.
Count(b) == Unsigned(b) % IntBits
ShlHandler(m, in) == TwoOperands(m, in, Never, LAMBDA a, b : (a * 2^Count(b)) % 2^IntBits)
ShrHandler(m, in) == TwoOperands(m, in, Never, LAMBDA a, b : a \div 2^Count(b))

\* The word whose k-th bit is Op of the k-th bits of a and b.
BitByBit(Op(_, _), a, b) ==
    LET Bit(v, k) == (Unsigned(v) \div 2^k) % 2
        low[k \in 0..IntBits] ==
          IF k = 0 THEN 0
          ELSE low[k - 1] + (IF Op(Bit(a, k - 1), Bit(b, k - 1)) THEN 2^(k - 1) ELSE 0)
    IN  low[IntBits]

XorBits(a, b) == BitByBit(LAMBDA x, y : x # y, a, b)
OrBits(a, b) == BitByBit(LAMBDA x, y : x + y > 0, a, b)
AndBits(a, b) == BitByBit(LAMBDA x, y : x + y = 2, a, b)

\* Mutant: or in the place of xor.
XorHandlerOr(m, in) == TwoOperands(m, in, Never, OrBits)

XorHandler(m, in) == TwoOperands(m, in, Never, XorBits)
OrHandler(m, in) == TwoOperands(m, in, Never, OrBits)
AndHandler(m, in) == TwoOperands(m, in, Never, AndBits)

\* What lea takes the address of.  A constant without brackets, stored
\* through a register or to memory, yields the address of the constant
\* itself, inside the encoded instruction.
LeaSrc(m, in) ==
    LET ownArg == Host(m.ip + ArgBytes + (IF in.op \in OrderRev THEN 0 ELSE IntBytes))
    IN  CASE in.use1 /\ in.drf1 -> RegOperand(m, TRUE, in.reg1)
          [] in.use1 /\ ~in.drf1 -> Imm(Host(m.r[in.reg1]))
          [] ~in.use1 /\ in.use0 /\ in.drf0 /\ in.drf1 -> Imm(Host(SrcArg(in)))
          [] ~in.use1 /\ in.use0 /\ ~in.drf0 ->
               Imm(IF in.drf1 THEN SrcArg(in) ELSE Host(SrcArg(in)))
          [] OTHER -> Imm(ownArg)

LeaHandler(m, in) == Operate(m, in, LeaSrc(m, in), Never, Second)

\* Mutant: stk is always relative to the top of the stack.
StkHandlerTop(m, in) ==
    LET s == Src(m, in)
    IN  IF ~NoDest(in) /\ ~Accessible(m, s) THEN Fault(m)
        ELSE Operate(m, in, Mem(Unsigned(m.r[7] + Value(m, s))), Never, Second)

\* stk reads the int at an offset from r6, or from r7 when the destination is
\* a constant address.
StkHandler(m, in) ==
    LET base == m.r[IF in.use0 THEN 6 ELSE 7]
        s == Src(m, in)
    IN  IF ~NoDest(in) /\ ~Accessible(m, s) THEN Fault(m)
        ELSE Operate(m, in, Mem(Unsigned(base + Value(m, s))), Never, Second)

\* Mutant: cmp sets flags and never clears one.
CmpHandlerSticky(m, in) ==
    LET d == Dest(m, in)
        s == Src(m, in)
        iRes == Wrap(Value(m, d) - Value(m, s))
    IN  CASE NoDest(in) -> Continue(m)
          [] ~NoDest(in) /\ ~(Accessible(m, d) /\ Accessible(m, s)) -> Fault(m)
          [] OTHER -> Continue([m EXCEPT !.zf = @ \/ iRes = 0, !.pf = @ \/ iRes > 0,
                                         !.nf = @ \/ iRes < 0])

\* cmp sets the flags by the sign of the wrapped difference.
CmpHandler(m, in) ==
    LET d == Dest(m, in)
        s == Src(m, in)
        iRes == Wrap(Value(m, d) - Value(m, s))
    IN  CASE NoDest(in) -> Continue(m)
          [] ~NoDest(in) /\ ~(Accessible(m, d) /\ Accessible(m, s)) -> Fault(m)
          [] OTHER -> Continue([m EXCEPT !.zf = iRes = 0, !.pf = iRes > 0, !.nf = iRes < 0])

----------------------------------------------------------------------------
(* Jumps.  A bracketed constant is the address of one byte, not of an int.  *)

JumpWhen(taken, m, in) ==
    LET o == RegOperand(m, in.drf0, in.reg0)
    IN  CASE ~taken -> Continue(m)
          [] taken /\ in.use0 ->
               IF Accessible(m, o) THEN JumpTo(m, Value(m, o)) ELSE Fault(m)
          [] taken /\ ~in.use0 /\ in.drf0 ->
               IF Host(in.arg0) \in DOMAIN m.ram THEN JumpTo(m, m.ram[Host(in.arg0)])
                                                 ELSE Fault(m)
          [] OTHER -> JumpTo(m, in.arg0)

JmpHandler(m, in) == JumpWhen(TRUE, m, in)
\* Mutant: jg also jumps when the operands were equal.
JgHandlerOrEqual(m, in) == JumpWhen(m.pf \/ m.zf, m, in)
JgHandler(m, in)  == JumpWhen(m.pf, m, in)
JlHandler(m, in)  == JumpWhen(m.nf, m, in)
JleHandler(m, in) == JumpWhen(m.nf \/ m.zf, m, in)
JgeHandler(m, in) == JumpWhen(m.pf \/ m.zf, m, in)
JzHandler(m, in)  == JumpWhen(m.zf, m, in)
JnzHandler(m, in) == JumpWhen(~m.zf, m, in)

----------------------------------------------------------------------------
(* The stack: r7 points to the int on top, and grows downwards.             *)

Top(m) == Unsigned(m.r[7])
Below(m) == Unsigned(m.r[7] - IntBytes)

\* VxCPU::push and VxCPU::pop, where the memory allows them.
Pushed(m, v) == [m EXCEPT !.r[7] = Wrap(Below(m)), !.ram = Store(m.ram, Below(m), v)]
Popped(m) == [m EXCEPT !.r[7] = Wrap(Top(m) + IntBytes)]

PushHandler(m, in) ==
    LET o == CASE in.use0 -> RegOperand(m, in.drf0, in.reg0)
               [] ~in.use0 /\ in.drf0 -> Mem(Host(in.arg0))
               [] OTHER -> Imm(in.arg0)
    IN  IF Accessible(m, o) /\ Mapped(m.ram, Below(m))
        THEN Continue(Pushed(m, Value(m, o)))
        ELSE Fault(m)

\* pop tests GetUse() | 1, which always holds: the operand is a register, r0
\* if the encoding names none.  Whether [r7] is the place before or after the
\* pop is the compiler's choice.
PopOutcomes(m, in) ==
    { IF ~Mapped(m.ram, Top(m)) \/ ~Accessible(m, o) THEN Fault(m)
      ELSE Continue(Assign(Popped(m), o, Load(m.ram, Top(m)))) :
        o \in {RegOperand(m, in.drf0, in.reg0), RegOperand(Popped(m), in.drf0, in.reg0)} }

\* call pushes the ip of the next instruction; its register operand is read
\* after the push, and a bracketed constant is taken for a bracketed register.
CallHandler(m, in) ==
    LET pushed == Pushed(m, Wrap(m.ip + in.next))
        o == RegOperand(pushed, in.drf0, in.reg0)
    IN  CASE ~Mapped(m.ram, Below(m)) -> Fault(m)
          [] Mapped(m.ram, Below(m)) /\ (in.use0 \/ in.drf0) ->
               IF Accessible(pushed, o) THEN JumpTo(pushed, Value(pushed, o)) ELSE Fault(m)
          [] OTHER -> JumpTo(pushed, in.arg0)

\* Mutant: ret pops a parameter as well.
RetHandlerTwo(m, in) ==
    IF Mapped(m.ram, Top(m)) THEN JumpTo(Popped(Popped(m)), Load(m.ram, Top(m))) ELSE Fault(m)

RetHandler(m, in) ==
    IF Mapped(m.ram, Top(m)) THEN JumpTo(Popped(m), Load(m.ram, Top(m))) ELSE Fault(m)

NopHandler(m, in) == Continue(m)

----------------------------------------------------------------------------
(* Calls out of the machine and new threads.                                *)

\* natv walks the import list to the args[0]-th import, pops its parameters
\* and leaves the result in r0.  The list of a single import is linked to
\* itself, so that every index finds it; without imports the walk starts at a
\* null pointer.
NatvOutcomes(m, in) ==
    LET count == Len(Imports)
        index == IF count = 1 THEN 0 ELSE in.arg0
        params == Imports[index + 1]
        after == [m EXCEPT !.r[7] = Wrap(Top(m) + params * IntBytes)]
    IN  CASE in.arg0 < 0 \/ (count > 1 /\ in.arg0 >= count) -> {Continue(m)}
          [] in.arg0 >= 0 /\ count = 0 -> {Fault(m)}
          [] OTHER ->
               IF \A k \in 0..(params - 1) : Mapped(m.ram, Unsigned(Top(m) + k * IntBytes))
               THEN {Continue([after EXCEPT !.r[0] = iRet]) : iRet \in NativeResults}
               ELSE {Fault(m)}

\* crth also tests GetUse() | 1: the new thread's ip comes from a register.
CrthHandler(m, in) ==
    LET o == RegOperand(m, in.drf0, in.reg0)
    IN  IF Accessible(m, o) THEN Create(m, Value(m, o)) ELSE Fault(m)

----------------------------------------------------------------------------
\* arHandlers: what executing the instruction may do.
Outcomes(m, in) ==
    CASE in.op = "pop" -> PopOutcomes(m, in)
      [] in.op = "natv" -> NatvOutcomes(m, in)
      [] OTHER ->
         { CASE in.op = "mul" -> MulHandler(m, in)
             [] in.op = "div" -> DivHandler(m, in)
             [] in.op = "add" -> AddHandler(m, in)
             [] in.op = "sub" -> SubHandler(m, in)
             [] in.op = "mov" -> MovHandler(m, in)
             [] in.op = "lea" -> LeaHandler(m, in)
             [] in.op = "shl" -> ShlHandler(m, in)
             [] in.op = "shr" -> ShrHandler(m, in)
             [] in.op = "xor" -> XorHandler(m, in)
             [] in.op = "or" -> OrHandler(m, in)
             [] in.op = "and" -> AndHandler(m, in)
             [] in.op = "cmp" -> CmpHandler(m, in)
             [] in.op = "jmp" -> JmpHandler(m, in)
             [] in.op = "jg" -> JgHandler(m, in)
             [] in.op = "jl" -> JlHandler(m, in)
             [] in.op = "jle" -> JleHandler(m, in)
             [] in.op = "jge" -> JgeHandler(m, in)
             [] in.op = "jz" -> JzHandler(m, in)
             [] in.op = "jnz" -> JnzHandler(m, in)
             [] in.op = "push" -> PushHandler(m, in)
             [] in.op = "call" -> CallHandler(m, in)
             [] in.op = "crth" -> CrthHandler(m, in)
             [] in.op = "ret" -> RetHandler(m, in)
             [] in.op = "nop" -> NopHandler(m, in)
             [] in.op = "stk" -> StkHandler(m, in) }
=============================================================================
