------------------------------ MODULE VxEncode ------------------------------
(***************************************************************************)
(* How the Vx compiler encodes an instruction (MakeInstruction of          *)
(* VxAsmCompiler.h): operand flags, registers and constants go into the    *)
(* record that the handlers of VxCpu read.                                 *)
(***************************************************************************)
EXTENDS Integers

CONSTANTS OrderRev,     \* the operations whose m_order is ORD_REV
          Junk          \* what rand() leaves in the place of a constant

\* Operands as they are written: rK, [rK], a constant, [a constant].
R(k) == [reg |-> TRUE, deref |-> FALSE, val |-> k]
RAt(k) == [reg |-> TRUE, deref |-> TRUE, val |-> k]
C(v) == [reg |-> FALSE, deref |-> FALSE, val |-> v]
CAt(v) == [reg |-> FALSE, deref |-> TRUE, val |-> v]

\* A register leaves random bits where its constant would be.
ArgOf(operand) == IF operand.reg THEN Junk ELSE operand.val
RegOf(operand) == IF operand.reg THEN operand.val ELSE 0

\* MakeInstruction<2>: the constants are swapped when the operation's order is
\* ORD_REV.
Make2(op, dst, src, next) ==
    LET rev == op \in OrderRev
    IN  [op |-> op, use0 |-> dst.reg, use1 |-> src.reg,
         drf0 |-> dst.deref, drf1 |-> src.deref,
         reg0 |-> RegOf(dst), reg1 |-> RegOf(src),
         arg0 |-> IF rev THEN ArgOf(src) ELSE ArgOf(dst),
         arg1 |-> IF rev THEN ArgOf(dst) ELSE ArgOf(src),
         next |-> next]

\* MakeInstruction<1> and MakeInstruction<0>: one constant, or none, in the
\* order it is written in; arg1 is not part of the encoding.
Make1(op, operand, next) ==
    [op |-> op, use0 |-> operand.reg, use1 |-> FALSE,
     drf0 |-> operand.deref, drf1 |-> FALSE,
     reg0 |-> RegOf(operand), reg1 |-> 0,
     arg0 |-> ArgOf(operand), arg1 |-> Junk, next |-> next]

Make0(op, next) == Make1(op, C(Junk), next)
=============================================================================
