----------------------------- MODULE VxInstSet -----------------------------
(***************************************************************************)
(* The instruction set of a Vx compilation, from its generation in the     *)
(* compiler (GenerateInstructionSet of InstructionSet.h) through the file  *)
(* WriteInstructionSetToFile leaves to the table arInstSet the virtual     *)
(* machine decodes with (BeginExecution of VxAsm.h).                       *)
(*                                                                         *)
(* The file has four bytes for each instruction: id, parameter count,      *)
(* order as a decimal digit, and a random byte.  The loader turns the      *)
(* digits back with a four-byte subtraction at each of them, which covers  *)
(* the id and the count of the following entry, and after the last entry   *)
(* the low half of the variable next to the table.                         *)
(***************************************************************************)
EXTENDS Integers

CONSTANTS Count,        \* ID_ENDENUM, the number of instructions
          IdRange,      \* 0xFF: ids are drawn by rand() % IdRange
          IdJmp,        \* ID_JMP: operations before it have two parameters,
          IdRet,        \* ID_RET: those between have one,
          IdStk,        \* ID_STK: and this one has two
          ByteMod,      \* how many values a byte has
          JunkBytes,    \* bound: the values of bytes the program leaves to chance
          Digit         \* the character '0'

ASSUME CountAssumption == Count \in Nat \ {0} /\ IdStk \in 0..(Count - 1)
ASSUME EnumAssumption == IdJmp \in Nat /\ IdRet \in Nat
ASSUME ByteAssumption ==
    /\ ByteMod \in Nat /\ Digit \in Nat /\ Digit + 1 < ByteMod /\ 2 < ByteMod
    /\ IdRange \in Nat \ {0} /\ IdRange <= ByteMod
    /\ JunkBytes \subseteq 0..(ByteMod - 1)

Ids == 0..(IdRange - 1)
NoId == -1
Bytes == 0..(ByteMod - 1)
Orders == {0, 1}
Entries == 0..(Count - 1)
Instruction == [m_bId : Bytes, m_bParamCount : 0..2, m_order : Orders]

\* Where the bytes of entry n are, in the file and in arInstSet.
IdAt(n) == 4 * n
CountAt(n) == 4 * n + 1
OrderAt(n) == 4 * n + 2

\* arInstSet and the first two bytes of what follows it in memory.
TableBytes == 0..(4 * Count - 1)
Reach == 0..(4 * Count + 1)

VARIABLES instructionSet,   \* the compiler's table
          i, j, bId,        \* GenerateInstructionSet's indices and its draw
          arInstSet,        \* the file, then the loader's table, and two bytes
          beside,           \* auxiliary: those two bytes before loading
          n,                \* the entry the file or the loader's loop is at
          phase             \* "generate", "write", "load", "done"

vars == <<instructionSet, i, j, bId, arInstSet, beside, n, phase>>
----------------------------------------------------------------------------
\* The statically initialised table.
Blank == [m_bId |-> 0, m_bParamCount |-> 0, m_order |-> 0]

ParamCount(k) == IF k < IdJmp THEN 2 ELSE IF k < IdRet THEN 1 ELSE 0

Init ==
    /\ instructionSet = [k \in Entries |-> Blank]
    /\ i = 0 /\ j = 0 /\ bId = NoId
    /\ beside \in [{4 * Count, 4 * Count + 1} -> JunkBytes]
    /\ arInstSet = [a \in Reach |-> IF a \in TableBytes THEN 0 ELSE beside[a]]
    /\ n = 0
    /\ phase = "generate"

\* byte bId = rand() % 0xFF for the next instruction.
Draw(id) ==
    /\ phase = "generate" /\ bId = NoId
    /\ bId' = id
    /\ j' = 0
    /\ UNCHANGED <<instructionSet, i, arInstSet, beside, n, phase>>

\* Mutants: the comparison goes on where it was; nothing is drawn.
RedrawGoOn(id) ==
    /\ phase = "generate" /\ bId # NoId
    /\ j < i /\ instructionSet[j].m_bId = bId
    /\ bId' = id
    /\ j' = j + 1
    /\ UNCHANGED <<instructionSet, i, arInstSet, beside, n, phase>>
RedrawSame(id) ==
    /\ phase = "generate" /\ bId # NoId
    /\ j < i /\ instructionSet[j].m_bId = bId
    /\ j' = 0
    /\ UNCHANGED <<instructionSet, i, bId, arInstSet, beside, n, phase>>

\* An id that is taken: draw again, and compare from the first one.
Redraw(id) ==
    /\ phase = "generate" /\ bId # NoId
    /\ j < i /\ instructionSet[j].m_bId = bId
    /\ bId' = id
    /\ j' = 0
    /\ UNCHANGED <<instructionSet, i, arInstSet, beside, n, phase>>

Compare ==
    /\ phase = "generate" /\ bId # NoId
    /\ j < i /\ instructionSet[j].m_bId # bId
    /\ j' = j + 1
    /\ UNCHANGED <<instructionSet, i, bId, arInstSet, beside, n, phase>>

\* Mutant: one round too many.
AcceptOnePast ==
    /\ phase = "generate" /\ bId # NoId
    /\ j = i
    /\ \E order \in Orders :
          instructionSet' = [instructionSet EXCEPT ![i] =
                               [m_bId |-> bId, m_bParamCount |-> ParamCount(i),
                                m_order |-> order]]
    /\ i' = i + 1
    /\ bId' = NoId
    /\ phase' = IF i < Count THEN "generate" ELSE "write"
    /\ UNCHANGED <<j, arInstSet, beside, n>>

\* The id differs from all before it: fill the entry in, with a random order.
\* After the last one, stk is given its two parameters.
Accept ==
    /\ phase = "generate" /\ bId # NoId
    /\ j = i
    /\ \E order \in Orders :
          LET filled == [instructionSet EXCEPT ![i] =
                           [m_bId |-> bId, m_bParamCount |-> ParamCount(i),
                            m_order |-> order]]
          IN  instructionSet' = IF i + 1 < Count THEN filled
                                ELSE [filled EXCEPT ![IdStk] = [@ EXCEPT !.m_bParamCount = 2]]
    /\ i' = i + 1
    /\ bId' = NoId
    /\ phase' = IF i + 1 < Count THEN "generate" ELSE "write"
    /\ UNCHANGED <<j, arInstSet, beside, n>>

\* Mutant: the order is written as a byte, not as a digit.
WriteByte ==
    /\ phase = "write"
    /\ \E junk \in JunkBytes :
          arInstSet' = [arInstSet EXCEPT ![IdAt(n)] = instructionSet[n].m_bId,
                                         ![CountAt(n)] = instructionSet[n].m_bParamCount,
                                         ![OrderAt(n)] = instructionSet[n].m_order,
                                         ![OrderAt(n) + 1] = junk]
    /\ n' = IF n + 1 < Count THEN n + 1 ELSE 0
    /\ phase' = IF n + 1 < Count THEN "write" ELSE "load"
    /\ UNCHANGED <<instructionSet, i, j, bId, beside>>

\* One round of WriteInstructionSetToFile; the loader reads the file back
\* into arInstSet as it is.
Write ==
    /\ phase = "write"
    /\ \E junk \in JunkBytes :
          arInstSet' = [arInstSet EXCEPT ![IdAt(n)] = instructionSet[n].m_bId,
                                         ![CountAt(n)] = instructionSet[n].m_bParamCount,
                                         ![OrderAt(n)] = Digit + instructionSet[n].m_order,
                                         ![OrderAt(n) + 1] = junk]
    /\ n' = IF n + 1 < Count THEN n + 1 ELSE 0
    /\ phase' = IF n + 1 < Count THEN "write" ELSE "load"
    /\ UNCHANGED <<instructionSet, i, j, bId, beside>>

\* Subtracting Digit from the four-byte integer at a, byte by byte: the k-th
\* byte above a pays if the lowest byte is too small and those between are 0.
Borrows(bytes, a, k) ==
    bytes[a] < Digit /\ \A l \in 1..(k - 1) : bytes[a + l] = 0
SubtractDigit(bytes, a) ==
    [x \in DOMAIN bytes |->
       CASE x = a -> (bytes[a] - Digit) % ByteMod
         [] x \in (a + 1)..(a + 3) /\ Borrows(bytes, a, x - a) -> (bytes[x] - 1) % ByteMod
         [] OTHER -> bytes[x]]

\* One round of the loader's loop.
Load ==
    /\ phase = "load"
    /\ arInstSet' = SubtractDigit(arInstSet, OrderAt(n))
    /\ n' = n + 1
    /\ phase' = IF n + 1 < Count THEN "load" ELSE "done"
    /\ UNCHANGED <<instructionSet, i, j, bId, beside>>

Done == phase = "done" /\ UNCHANGED vars

Next ==
    \/ \E id \in Ids : Draw(id) \/ Redraw(id)
    \/ Compare \/ Accept \/ Write \/ Load \/ Done

\* The compiler and the loader run to completion; rand() is a full-period
\* generator, so a loop that keeps drawing draws every id.
Fairness == WF_vars(Next) /\ \A id \in Ids : SF_vars(Redraw(id))

Spec == Init /\ [][Next]_vars /\ Fairness
----------------------------------------------------------------------------
TypeOK ==
    /\ instructionSet \in [Entries -> Instruction]
    /\ i \in 0..Count /\ j \in 0..Count /\ bId \in Ids \cup {NoId}
    /\ arInstSet \in [Reach -> Bytes]
    /\ beside \in [{4 * Count, 4 * Count + 1} -> Bytes]
    /\ n \in 0..Count
    /\ phase \in {"generate", "write", "load", "done"}

\* "Unique IDs for each of them each compilation" (InstructionSet.h): no two
\* instructions generated so far share an id, although a redraw may hit any id
\* that was compared before it.
IdsUnique ==
    \A k, l \in 0..(i - 1) :
        k # l => instructionSet[k].m_bId # instructionSet[l].m_bId

\* What the machine decodes with is what the compiler encoded with: after the
\* overlapping subtractions every entry has its id, its parameter count and
\* its order, and the bytes beside the table are as they were.
LoadedAsGenerated ==
    phase = "done" =>
        /\ \A k \in Entries :
              /\ arInstSet[IdAt(k)] = instructionSet[k].m_bId
              /\ arInstSet[CountAt(k)] = instructionSet[k].m_bParamCount
              /\ arInstSet[OrderAt(k)] = instructionSet[k].m_order
        /\ \A a \in DOMAIN beside : arInstSet[a] = beside[a]

\* As long as there are more ids than instructions, generation ends and the
\* table is loaded.
GenerationEnds == <>(phase = "done")
=============================================================================
