------------------------------ MODULE VxLines ------------------------------
(***************************************************************************)
(* One CPU that executes lines of Vx assembly in any order: the compiler's *)
(* encoding (VxEncode) followed by the handlers (VxCpu), for two           *)
(* instruction sets.  It relates what a line does to how it is written:    *)
(* the order of its constants in memory and the random bits in unused      *)
(* places must not show, and a conditional jump must follow the comparison *)
(* before it.                                                              *)
(***************************************************************************)
EXTENDS VxCpu

CONSTANTS Lines,        \* the lines to execute: [op, dst, src]
          StepLines,    \* bound: those that are executed one after another
          OtherRev,     \* the reversed operations of the other set
          Junk,         \* what rand() left in unused places,
          OtherJunk,    \* and in the encoding for the other set
          Words,        \* bound: initial values of r0, r1 and of arMemory
          StackBytes,   \* the host addresses of the CPU's stack
          MaxSteps      \* bound: how many lines are executed

\* The operands are written as R, RAt, C and CAt of VxEncode; natv's is the
\* number of an import.
ASSUME LinesAssumption ==
    \A line \in Lines \cup StepLines :
        /\ line.op \in TwoOps \cup OneOps \cup NoOps
        /\ line.dst \in [reg : BOOLEAN, deref : BOOLEAN, val : Int]
        /\ line.src \in [reg : BOOLEAN, deref : BOOLEAN, val : Int]
        /\ line.op = "natv" => ~line.dst.reg

VARIABLES m,            \* the CPU and its memory
          compared,     \* auxiliary: the operands of the last cmp, or <<>>
          steps

lineVars == <<m, compared, steps>>

INSTANCE VxEncode
Other == INSTANCE VxCpu WITH OrderRev <- OtherRev
OtherEnc == INSTANCE VxEncode WITH OrderRev <- OtherRev, Junk <- OtherJunk

Encode(line) ==
    CASE line.op \in TwoOps -> Make2(line.op, line.dst, line.src, 1)
      [] line.op \in NoOps -> Make0(line.op, 1)
      [] OTHER -> Make1(line.op, line.dst, 1)

OtherEncode(line) ==
    CASE line.op \in TwoOps -> OtherEnc!Make2(line.op, line.dst, line.src, 1)
      [] line.op \in NoOps -> OtherEnc!Make0(line.op, 1)
      [] OTHER -> OtherEnc!Make1(line.op, line.dst, 1)

LinesInit ==
    /\ \E w0, w1, w \in Words, f \in BOOLEAN :
          LET blank == [a \in {Host(x) : x \in 0..(MemSize - 1)} \cup StackBytes |-> 0]
              top == CHOOSE a \in StackBytes : \A b \in StackBytes : a >= b
          IN  m = [r |-> [k \in 0..7 |-> CASE k = 0 -> w0 [] k = 1 -> w1
                                          [] k = 7 -> Wrap(top + 1 - 2 * IntBytes)
                                          [] OTHER -> 0],
                   ip |-> 0, zf |-> f, pf |-> f, nf |-> f,
                   ram |-> Store(blank, Host(0), w)]
    /\ compared = <<>>
    /\ steps = 0

\* The line is executed without an exception; ip is put back for the next.
Execute(line) ==
    LET in == Encode(line)
    IN  /\ steps < MaxSteps
        /\ steps' = steps + 1
        /\ \E out \in Outcomes(m, in) :
              /\ ~out.fault
              /\ m' = [out.m EXCEPT !.ip = 0]
        /\ compared' = IF in.op = "cmp" /\ ~NoDest(in)
                       THEN <<Value(m, Dest(m, in)), Value(m, Src(m, in))>>
                       ELSE compared

LinesNext == \E line \in StepLines : Execute(line)

LinesSpec == LinesInit /\ [][LinesNext]_lineVars
----------------------------------------------------------------------------
\* lea of a bare constant into memory stores the address of the constant in
\* the encoded instruction, which depends on the encoding.
TakesOwnAddress(line) ==
    line.op = "lea" /\ ~line.src.reg /\ line.dst.deref /\ (~line.dst.reg \/ ~line.src.deref)

\* Whatever instruction set was drawn, a line does the same: neither the order
\* of the constants nor the random bits MakeInstruction leaves in the place of
\* the missing ones can be told from what the handler does.
EncodingDoesNotShow ==
    \A line \in Lines :
        ~TakesOwnAddress(line) =>
            Outcomes(m, Encode(line)) = Other!Outcomes(m, OtherEncode(line))

\* A conditional jump to a constant is taken.
Taken(op) == \A out \in Outcomes(m, Make1(op, C(3), 1)) : ~out.advance

JumpsAgree(a, b) ==
    /\ Taken("jg") = (a > b)
    /\ Taken("jge") = (a >= b)
    /\ Taken("jl") = (a < b)
    /\ Taken("jle") = (a <= b)
    /\ Taken("jz") = (a = b)
    /\ Taken("jnz") = (a # b)

\* However many other lines were executed since, the six jumps follow the
\* order of the words last compared, as long as the difference fits in a word.
JumpsFollowOrder ==
    compared # <<>> =>
        LET a == compared[1]
            b == compared[2]
        IN  {a, b, a - b} \subseteq Ints => JumpsAgree(a, b)
=============================================================================
