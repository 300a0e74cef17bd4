----------------------------- MODULE MCVxLines -----------------------------
(***************************************************************************)
(* All the forms of lines over a few registers and addresses, with words   *)
(* of two 3-bit bytes: unsigned 0..3 are offsets, 16..19 are the host      *)
(* addresses of arMemory and 32..39 those of the stack.                    *)
(***************************************************************************)
EXTENDS VxLines

Operands == {R(0), RAt(0), R(1), R(7), RAt(7), C(1), C(2), CAt(0), CAt(2)}

MCTwoOps == {"mul", "div", "add", "sub", "mov", "lea", "shl", "shr", "xor", "or", "and",
             "cmp", "stk"}
MCOneOps == {"jmp", "jg", "jl", "jle", "jge", "jz", "jnz", "push", "pop", "call", "crth"}

AllLines == [op : MCTwoOps, dst : Operands, src : Operands]
              \cup [op : MCOneOps, dst : Operands, src : {C(0)}]
              \cup [op : {"natv"}, dst : {C(0), C(1), C(2)}, src : {C(0)}]
              \cup [op : {"ret", "nop"}, dst : {C(0)}, src : {C(0)}]

\* Executed one after another: comparisons, and lines that change registers,
\* memory and flags between a comparison and a jump.
SomeLines == [op : {"cmp"}, dst : {R(0), RAt(7), CAt(0)}, src : {R(1), RAt(0), C(2)}]
              \cup [op : {"add", "xor", "shr"}, dst : {R(0), CAt(0)}, src : {R(1)}]
              \cup [op : {"mov"}, dst : {R(0), RAt(7)}, src : {C(2)}]
              \cup [op : {"push", "pop"}, dst : {R(0), RAt(7)}, src : {C(0)}]

AllOps == MCTwoOps \cup MCOneOps \cup {"natv", "ret", "nop"}
SomeWords == {-32, 17}
Stack == 32..39
NativeWords == {0, 5}
TwoImports == <<1, 2>>
=============================================================================
