----------------------------- MODULE VxCompiler -----------------------------
(***************************************************************************)
(* The Vx assembler (Compile and WriteInstruction of VxAsmCompiler.h), one *)
(* action per kind of line.  Instructions and variables are put at random  *)
(* free places of arMemory; an instruction holds the offset of the next    *)
(* one; symbols keep the operands that refer to them until the end.        *)
(*                                                                         *)
(* A term of a line is kept as what the scans of the code find in it:      *)
(*   text, name  as written, and without a leading bracket;                *)
(*   deref       whether it begins with a bracket;                         *)
(*   r           whether name begins with the letter r;                    *)
(*   num, tail   the number that name, or name without its first letter,   *)
(*               begins with (None if it is not a number);                 *)
(*   str, size   for the value of dv: whether it is a string ("no", "ok",  *)
(*               "unterminated", "escape"), and the bytes it takes.        *)
(* The text is lost when assembled, so instructions keep the line they     *)
(* come from, and memory the line whose bytes it holds.                    *)
(***************************************************************************)
EXTENDS VxIat

CONSTANTS MemSize,      \* sizeof(arMemory)
          BaseSize,     \* bytes of an instruction without constants
          IntSize,      \* sizeof(int)
          NextMod,      \* how many values three bytes have
          DefaultEntry, \* the entry of a program without main
          TwoOps,       \* the mnemonics of instructions with two operands
          OrderRev,     \* the operations whose m_order is ORD_REV
          Junk,         \* what rand() leaves in the place of a constant
          None,         \* no number
          Programs      \* the sources: sequences of lines [op, args]

ASSUME SizesAssumption ==
    /\ {MemSize, BaseSize, IntSize, NextMod} \subseteq Nat \ {0}
    /\ BaseSize + 2 * IntSize <= MemSize
    /\ MemSize <= NextMod

\* The other words of a source have no two operands.
OtherWords == {"dv", "da", "proc", "lbl", "", "nop", "ret", "call", "crth", "natv", "pop", "push",
               "jnz", "jz", "jge", "jl", "jle", "jg", "jmp"}
ASSUME OpsAssumption == TwoOps \cap OtherWords = {}

\* Lines are sequences of words, and the value of dv takes some bytes.
ASSUME ProgramsAssumption ==
    \A p \in Programs :
        /\ Len(p) \in Nat /\ DOMAIN p = 1..Len(p)
        /\ \A l \in DOMAIN p :
              /\ Len(p[l].args) \in Nat /\ DOMAIN p[l].args = 1..Len(p[l].args)
              /\ \A k \in DOMAIN p[l].args : p[l].args[k].size \in Nat

VARIABLES source,       \* the lines of the input file
          phase,        \* "read", "written", "refused" (exit(1)) or
                        \* "undefined" (an access outside an array)
          line,         \* ulLine
          pStart,       \* where the next instruction goes
          arUsed,       \* the addresses in use
          arMemory,     \* the line that wrote the byte at an address, or 0
          place,        \* what each line occupies
          code,         \* the instruction of each line
          vecSymbols, pLastInst, bFirst, iLabel,
          vecIAT, iImports, ulOffMain,
          message       \* why the source was refused

vars == <<source, phase, line, pStart, arUsed, arMemory, place, code, vecSymbols,
          pLastInst, bFirst, iLabel, vecIAT, iImports, ulOffMain, message>>

INSTANCE VxEncode

JumpOps == {"jnz", "jz", "jge", "jl", "jg", "jmp"}
Mnemonics == TwoOps \cup JumpOps \cup {"jle", "nop", "ret", "crth", "natv", "call", "pop", "push"}

\* SymType is a byte, so that (SymType)-1 is 255.
SYM_FUNC == 0
SYM_VAR == 1
SYM_LBL == 2
AnyType == (-1) % 256
----------------------------------------------------------------------------
(* Memory *)

Addresses == 0..(MemSize - 1)
Cells(pos, size) == pos..(pos + size - 1)
InstSize(argc) == BaseSize + argc * IntSize
Last(size) == MemSize - size

\* The k-th place FindNewLocation looks at when rand() gave start, k < Last(size).
Visit(start, size, k) ==
    IF start <= Last(size) THEN (start + k) % (Last(size) + 1)
    ELSE IF k = 0 THEN start ELSE k - 1

\* Mutant: only the first byte is tested.
ValidFirst(used, pos, size) == pos \notin used

\* A block that sticks out of arUsed reads flags that are not there.
ValidLocation(used, pos, size) == Cells(pos, size) \cap used = {}

MayFail(used, size) ==
    \E start \in Addresses : \A k \in 0..(Last(size) - 1) :
        LET pos == Visit(start, size, k)
        IN  pos > Last(size) \/ ~ValidLocation(used, pos, size)

\* The loop counts sizeof(arMemory) - ulSize places, one less than there are
\* (two less if the first is too far up), so it may miss a free one; and it may
\* start where a block sticks out.
FindNewLocation(used, size) ==
    {pos \in Addresses : ValidLocation(used, pos, size)}
      \cup (IF MayFail(used, size) THEN {-1} ELSE {})

\* Mutant: the magnitude is stored with the sign.
SetNextMagnitude(iNext) ==
    [sf |-> iNext < 0, low |-> (IF iNext < 0 THEN -iNext ELSE iNext) % NextMod]

\* The three low bytes of the offset and its sign, and how they are read.
SetNext(iNext) == [sf |-> iNext < 0, low |-> iNext % NextMod]
GetNext(next) == IF next.sf THEN next.low - NextMod ELSE next.low
----------------------------------------------------------------------------
(* Lines *)

Nothing == [kind |-> "none", pos |-> 0, size |-> 0]
NoCode == Make0("none", SetNext(0))

Current == source[line]
Reads(ops) == phase = "read" /\ line <= Len(source) /\ Current.op \in ops
Arg(k) == Current.args[k]
Args == Len(Current.args)

IsReg(t) == t.r /\ t.tail # None
IsNum(t) == ~IsReg(t) /\ t.num # None
IsName(t) == ~IsReg(t) /\ t.num = None

\* pop scans what is behind the first character, even a bracket.
PopTail(t) == IF t.deref THEN t.num ELSE t.tail

\* A register number goes into three bits.
Register(t, number) == [reg |-> TRUE, deref |-> t.deref, val |-> number % 8]
Constant(t, value) == [reg |-> FALSE, deref |-> t.deref, val |-> value]

\* Mutant: only procedures are registered.
RegisteredFunctionsOnly ==
    [i \in DOMAIN vecSymbols |->
        IF bFirst /\ i = Len(vecSymbols)
        THEN [vecSymbols[i] EXCEPT !.pos = pStart] ELSE vecSymbols[i]]

\* FunctionRegisterCheck: the last symbol, if it is a procedure that has just
\* begun, and the label that is pending get the place of the next instruction.
Registered ==
    [i \in DOMAIN vecSymbols |->
        IF (bFirst /\ i = Len(vecSymbols)) \/ i = iLabel
        THEN [vecSymbols[i] EXCEPT !.pos = pStart] ELSE vecSymbols[i]]

Symbol(name, type, pos) == [name |-> name, type |-> type, pos |-> pos, links |-> {}]

\* The indices of the symbols that match; -1 is no type, but 255 is.
Matching(symbols, name, type) ==
    {i \in DOMAIN symbols : symbols[i].name = name /\ (type # -1 => symbols[i].type = type)}
Exists(symbols, name, type) == Matching(symbols, name, type) # {}
FindSymbol(symbols, name, type) ==
    CHOOSE i \in Matching(symbols, name, type) :
        \A j \in Matching(symbols, name, type) : i <= j

\* The first type of which there is a symbol, and that symbol's index.
FindFirst(symbols, name, types) ==
    LET k == CHOOSE k \in DOMAIN types :
                 /\ Exists(symbols, name, types[k])
                 /\ \A j \in 1..(k - 1) : ~Exists(symbols, name, types[j])
    IN  FindSymbol(symbols, name, types[k])
ExistsOf(symbols, name, types) == \E k \in DOMAIN types : Exists(symbols, name, types[k])

SymLink(argNum, reversed) == [inst |-> line, argNum |-> argNum, reversed |-> reversed]
Linked(symbols, i, link) == [symbols EXCEPT ![i].links = @ \cup {link}]
----------------------------------------------------------------------------
(* What a line may end in *)

Refuse(why) ==
    /\ phase' = "refused"
    /\ message' = why
    /\ UNCHANGED <<source, line, pStart, arUsed, arMemory, place, code, vecSymbols,
                   pLastInst, bFirst, iLabel, vecIAT, iImports, ulOffMain>>

Undefined ==
    /\ phase' = "undefined"
    /\ UNCHANGED <<source, line, pStart, arUsed, arMemory, place, code, vecSymbols,
                   pLastInst, bFirst, iLabel, vecIAT, iImports, ulOffMain, message>>

\* The line is read and leaves symbols; nothing is assembled.
Skip(symbols, first, label) ==
    /\ vecSymbols' = symbols
    /\ bFirst' = first
    /\ iLabel' = label
    /\ line' = line + 1
    /\ UNCHANGED <<source, phase, pStart, arUsed, arMemory, place, code, pLastInst,
                   vecIAT, iImports, ulOffMain, message>>

\* Mutant: SetUsed stops one byte early.
OccupyShort(kind, pos, size) ==
    /\ arUsed' = arUsed \cup Cells(pos, size - 1)
    /\ arMemory' = [a \in Addresses |-> IF a \in Cells(pos, size) THEN line ELSE arMemory[a]]
    /\ place' = [place EXCEPT ![line] = [kind |-> kind, pos |-> pos, size |-> size]]

Occupy(kind, pos, size) ==
    /\ arUsed' = arUsed \cup Cells(pos, size)
    /\ arMemory' = [a \in Addresses |-> IF a \in Cells(pos, size) THEN line ELSE arMemory[a]]
    /\ place' = [place EXCEPT ![line] = [kind |-> kind, pos |-> pos, size |-> size]]

\* The previous instruction gets the offset of this one.
Chained(instr) ==
    [l \in DOMAIN code |->
        CASE l = line -> instr
          [] l = pLastInst -> [code[l] EXCEPT !.next = SetNext(pStart - place[l].pos)]
          [] OTHER -> code[l]]

\* An instruction is written where pStart is, and the place of the next one is
\* chosen, with room for two constants, but not marked as used.
Assemble(argc, instr, symbols, last, iat, imports) ==
    IF Cells(pStart, InstSize(argc)) \subseteq Addresses
    THEN /\ Occupy("inst", pStart, InstSize(argc))
         /\ code' = Chained(instr)
         /\ vecSymbols' = symbols
         /\ pLastInst' = last
         /\ vecIAT' = iat
         /\ iImports' = imports
         /\ pStart' \in FindNewLocation(arUsed', InstSize(2))
         /\ bFirst' = FALSE
         /\ iLabel' = 0
         /\ line' = line + 1
         /\ UNCHANGED <<source, phase, ulOffMain, message>>
    ELSE Undefined

AssemblePlain(argc, instr, symbols) ==
    Assemble(argc, instr, symbols, line, vecIAT, iImports)
----------------------------------------------------------------------------
(* Declarations *)

\* A name that the scans take for a register or a number.
BadName(t) == ~t.deref /\ ((t.r /\ t.tail # None) \/ t.num # None)

\* The tests on a declared name, in their order.
NameProblem(terms) ==
    CASE BadName(Arg(1)) -> "name"
      [] ~BadName(Arg(1)) /\ Args < terms -> "arguments"
      [] OTHER -> "none"

\* FindNewLocation, SetUsed and the new symbol, after the tests: no memory
\* comes before the problem of the value.
Allocate(size, problem) ==
    \E pos \in FindNewLocation(arUsed, size) :
        CASE pos = -1 -> Refuse("memory")
          [] pos # -1 /\ problem # "none" -> Refuse(problem)
          [] pos # -1 /\ problem = "none" /\ ~(Cells(pos, size) \subseteq Addresses) -> Undefined
          [] OTHER ->
               /\ Occupy("var", pos, size)
               /\ vecSymbols' = Append(Registered, Symbol(Arg(1).text, SYM_VAR, pos))
               /\ bFirst' = FALSE
               /\ iLabel' = 0
               /\ line' = line + 1
               /\ UNCHANGED <<source, phase, pStart, code, pLastInst, vecIAT, iImports,
                              ulOffMain, message>>

\* dv name value: a number, a string in quotes, or the position of a symbol of
\* any type.
DefineVariable ==
    /\ Reads({"dv"})
    /\ \/ Args = 0 /\ Undefined
       \/ Args > 0 /\ NameProblem(2) # "none" /\ Refuse(NameProblem(2))
       \/ /\ Args > 1 /\ NameProblem(2) = "none"
          /\ CASE Exists(Registered, Arg(1).text, SYM_VAR) -> Refuse("exists")
               [] OTHER ->
                    CASE Arg(2).num # None -> Allocate(IntSize, "none")
                      [] Arg(2).str = "unterminated" -> Refuse("string")
                      [] Arg(2).str = "escape" -> Allocate(Arg(2).size, "escape")
                      [] Arg(2).str = "ok" -> Allocate(Arg(2).size, "none")
                      [] OTHER ->
                           Allocate(IntSize, IF Exists(Registered, Arg(2).text, AnyType)
                                             THEN "none" ELSE "does not exist")

\* da name values: only numbers pass, since no symbol has AnyType.
DefineArray ==
    /\ Reads({"da"})
    /\ \/ Args = 0 /\ Undefined
       \/ Args > 0 /\ NameProblem(2) # "none" /\ Refuse(NameProblem(2))
       \/ /\ Args > 1 /\ NameProblem(2) = "none"
          /\ CASE Exists(Registered, Arg(1).text, SYM_VAR) -> Refuse("exists")
               [] ~Exists(Registered, Arg(1).text, SYM_VAR)
                    /\ \E k \in 2..Args : Arg(k).num = None -> Refuse("does not exist")
               [] OTHER -> Allocate(IntSize * (Args - 1), "none")

\* Mutant: bFirstInsideFunction is not set.
ProcNotFirst ==
    /\ Reads({"proc"})
    /\ \/ Args = 0 /\ Undefined
       \/ Args > 0 /\ NameProblem(1) # "none" /\ Refuse(NameProblem(1))
       \/ /\ Args > 0 /\ NameProblem(1) = "none"
          /\ IF Exists(Registered, Arg(1).text, SYM_FUNC) THEN Refuse("exists")
             ELSE Skip(Append(Registered, Symbol(Arg(1).text, SYM_FUNC, 0)), FALSE, 0)

Proc ==
    /\ Reads({"proc"})
    /\ \/ Args = 0 /\ Undefined
       \/ Args > 0 /\ NameProblem(1) # "none" /\ Refuse(NameProblem(1))
       \/ /\ Args > 0 /\ NameProblem(1) = "none"
          /\ IF Exists(Registered, Arg(1).text, SYM_FUNC) THEN Refuse("exists")
             ELSE Skip(Append(Registered, Symbol(Arg(1).text, SYM_FUNC, 0)), TRUE, 0)

\* Mutant: the index of a new label is taken after it is appended.
LblAfterPush ==
    /\ Reads({"lbl"})
    /\ \/ Args = 0 /\ Undefined
       \/ Args > 0 /\ NameProblem(1) # "none" /\ Refuse(NameProblem(1))
       \/ /\ Args > 0 /\ NameProblem(1) = "none"
          /\ IF Exists(Registered, Arg(1).text, SYM_LBL)
             THEN Skip(Registered, FALSE, FindSymbol(Registered, Arg(1).text, SYM_LBL))
             ELSE Skip(Append(Registered, Symbol(Arg(1).text, SYM_LBL, 0)), FALSE,
                       Len(vecSymbols) + 2)

\* A label that a jump has made, or that is defined again, is pending anew.
Lbl ==
    /\ Reads({"lbl"})
    /\ \/ Args = 0 /\ Undefined
       \/ Args > 0 /\ NameProblem(1) # "none" /\ Refuse(NameProblem(1))
       \/ /\ Args > 0 /\ NameProblem(1) = "none"
          /\ IF Exists(Registered, Arg(1).text, SYM_LBL)
             THEN Skip(Registered, FALSE, FindSymbol(Registered, Arg(1).text, SYM_LBL))
             ELSE Skip(Append(Registered, Symbol(Arg(1).text, SYM_LBL, 0)), FALSE,
                       Len(vecSymbols) + 1)

\* A comment, or any word that is no instruction.
Comment ==
    /\ phase = "read"
    /\ line <= Len(source)
    /\ Current.op \notin Mnemonics \cup {"dv", "da", "proc", "lbl", ""}
    /\ Skip(Registered, FALSE, 0)

\* A line without a word returns before, and jle goes to the default case.
Dropped ==
    /\ Reads({"", "jle"})
    /\ Skip(vecSymbols, bFirst, iLabel)
----------------------------------------------------------------------------
(* Instructions *)

Nop == Reads({"nop"}) /\ AssemblePlain(0, Make0("nop", SetNext(0)), Registered)

\* What follows ret is not reached from it.
Ret == Reads({"ret"}) /\ Assemble(0, Make0("ret", SetNext(0)), Registered, 0, vecIAT, iImports)

\* call and crth of a procedure that is not defined above index the symbols
\* with -1.
CallOrCrth ==
    /\ Reads({"call", "crth"})
    /\ \/ Args = 0 /\ Refuse("arguments")
       \/ /\ Args > 0 /\ Arg(1).tail # None
          /\ AssemblePlain(1, Make1(Current.op, Register(Arg(1), Arg(1).tail), SetNext(0)),
                           Registered)
       \/ /\ Args > 0 /\ Arg(1).tail = None
          /\ IF Exists(Registered, Arg(1).text, SYM_FUNC)
             THEN AssemblePlain(1, Make1(Current.op, Constant(Arg(1), 0), SetNext(0)),
                                Linked(Registered, FindSymbol(Registered, Arg(1).text, SYM_FUNC),
                                       SymLink(0, FALSE)))
             ELSE Undefined

\* natv module function convention parameters.
Atoi(t) == IF t.num = None THEN 0 ELSE t.num

Natv ==
    /\ Reads({"natv"})
    /\ \/ Args < 4 /\ Refuse("arguments")
       \/ /\ Args >= 4
          /\ LET mod == Arg(1).text  func == Arg(2).text  params == Atoi(Arg(4))
                 conv == GetCallingConvention(Arg(3).text)
                 iRes == IatContains(vecIAT, mod, func, params)
                 At(index) == Make1("natv", [reg |-> FALSE, deref |-> FALSE, val |-> index],
                                    SetNext(0))
             IN  CASE conv = -1 -> Refuse("convention")
                   [] conv # -1 /\ iRes = -1 ->
                        Assemble(1, At(iImports), Registered, line,
                                 vecIAT \o Entry(mod, func, params, conv), iImports + 1)
                   [] OTHER -> AssemblePlain(1, At(iRes), Registered)

Pop ==
    /\ Reads({"pop"})
    /\ \/ Args = 0 /\ Refuse("arguments")
       \/ Args > 0 /\ PopTail(Arg(1)) = None /\ Refuse("register")
       \/ /\ Args > 0 /\ PopTail(Arg(1)) # None
          /\ AssemblePlain(1, Make1("pop", [reg |-> TRUE, deref |-> FALSE, val |-> PopTail(Arg(1)) % 8],
                                    SetNext(0)), Registered)

\* push and the jumps take no brackets.
TakesRegister(t) == ~t.deref /\ t.r
TakesNumber(t) == ~t.deref /\ ~t.r /\ t.num # None

Push ==
    /\ Reads({"push"})
    /\ \/ Args = 0 /\ Refuse("arguments")
       \/ Args > 0 /\ TakesRegister(Arg(1)) /\ Arg(1).tail = None /\ Refuse("register")
       \/ /\ Args > 0 /\ ~TakesRegister(Arg(1)) /\ ~TakesNumber(Arg(1))
          /\ Refuse("value")
       \/ /\ Args > 0 /\ TakesRegister(Arg(1)) /\ Arg(1).tail # None
          /\ AssemblePlain(1, Make1("push", Register(Arg(1), Arg(1).tail), SetNext(0)), Registered)
       \/ /\ Args > 0 /\ TakesNumber(Arg(1))
          /\ AssemblePlain(1, Make1("push", Constant(Arg(1), Arg(1).num), SetNext(0)), Registered)

\* A jump to a name: a label, else a procedure, else a variable, else a label
\* that is expected to be defined below.
JumpTypes == <<SYM_LBL, SYM_FUNC, SYM_VAR>>
JumpToName(t) ==
    LET instr == Make1(Current.op, [reg |-> FALSE, deref |-> FALSE, val |-> 0], SetNext(0))
    IN  IF ExistsOf(Registered, t.text, JumpTypes)
        THEN AssemblePlain(1, instr, Linked(Registered, FindFirst(Registered, t.text, JumpTypes),
                                            SymLink(0, FALSE)))
        ELSE AssemblePlain(1, instr,
                 Linked(Append(Registered, Symbol(t.text, SYM_LBL, 0)), Len(vecSymbols) + 1,
                        SymLink(0, FALSE)))

Jump ==
    /\ Reads(JumpOps)
    /\ \/ Args = 0 /\ Refuse("arguments")
       \/ Args > 0 /\ TakesRegister(Arg(1)) /\ Arg(1).tail = None /\ Refuse("register")
       \/ /\ Args > 0 /\ TakesRegister(Arg(1)) /\ Arg(1).tail # None
          /\ AssemblePlain(1, Make1(Current.op, Register(Arg(1), Arg(1).tail), SetNext(0)), Registered)
       \/ /\ Args > 0 /\ TakesNumber(Arg(1))
          /\ AssemblePlain(1, Make1(Current.op, Constant(Arg(1), Arg(1).num), SetNext(0)), Registered)
       \/ Args > 0 /\ ~TakesRegister(Arg(1)) /\ ~TakesNumber(Arg(1)) /\ JumpToName(Arg(1))

OperandTypes == <<SYM_VAR, SYM_FUNC>>
OperandProblem(t) ==
    CASE IsReg(t) /\ t.tail > 7 -> "register"
      [] IsName(t) /\ ~ExistsOf(Registered, t.name, OperandTypes) -> "value"
      [] OTHER -> "none"

WithLink(symbols, t, argNum) ==
    IF IsName(t)
    THEN Linked(symbols, FindFirst(symbols, t.name, OperandTypes),
                SymLink(argNum, Current.op \in OrderRev))
    ELSE symbols

\* Both constants are scanned into iValue2; iValue1 stays 0.
Operand(t, value) == IF IsReg(t) THEN Register(t, t.tail) ELSE Constant(t, value)
Value2(a, b) == IF IsNum(b) THEN b.num ELSE IF IsNum(a) THEN a.num ELSE 0

TwoOperand ==
    /\ Reads(TwoOps)
    /\ \/ Args < 2 /\ Refuse("arguments")
       \/ /\ Args >= 2
          /\ LET a == Arg(1)  b == Arg(2)
             IN  CASE OperandProblem(a) # "none" -> Refuse(OperandProblem(a))
                   [] OperandProblem(a) = "none" /\ OperandProblem(b) # "none" ->
                        Refuse(OperandProblem(b))
                   [] OTHER ->
                        AssemblePlain(2, Make2(Current.op, Operand(a, 0), Operand(b, Value2(a, b)),
                                               SetNext(0)),
                                      WithLink(WithLink(Registered, a, 0), b, 1))
----------------------------------------------------------------------------
(* The whole source, and the output *)

Slot(link) == IF link.reversed THEN 1 - link.argNum ELSE link.argNum

\* The constant of an instruction's slot after all links are followed.
Patched(l, slot, value) ==
    LET to == {i \in DOMAIN vecSymbols :
                  \E link \in vecSymbols[i].links : link.inst = l /\ Slot(link) = slot}
    IN  IF to = {} THEN value ELSE vecSymbols[CHOOSE i \in to : TRUE].pos

WriteImage ==
    /\ phase = "read"
    /\ line > Len(source)
    /\ phase' = "written"
    /\ code' = [l \in DOMAIN code |->
                   [code[l] EXCEPT !.arg0 = Patched(l, 0, @), !.arg1 = Patched(l, 1, @)]]
    /\ ulOffMain' = IF Exists(vecSymbols, "main", SYM_FUNC)
                    THEN vecSymbols[FindSymbol(vecSymbols, "main", SYM_FUNC)].pos
                    ELSE DefaultEntry
    /\ UNCHANGED <<source, line, pStart, arUsed, arMemory, place, vecSymbols, pLastInst,
                   bFirst, iLabel, vecIAT, iImports, message>>

Exited == phase # "read" /\ UNCHANGED vars

Init ==
    /\ source \in Programs
    /\ phase = "read"
    /\ line = 1
    /\ pStart \in Addresses
    /\ arUsed = {}
    /\ arMemory = [a \in Addresses |-> 0]
    /\ place = [l \in 1..Len(source) |-> Nothing]
    /\ code = [l \in 1..Len(source) |-> NoCode]
    /\ vecSymbols = <<>>
    /\ pLastInst = 0
    /\ bFirst = FALSE
    /\ iLabel = 0
    /\ vecIAT = <<>>
    /\ iImports = 0
    /\ ulOffMain = DefaultEntry
    /\ message = "none"

WriteInstruction ==
    \/ DefineVariable \/ DefineArray \/ Proc \/ Lbl \/ Comment \/ Dropped
    \/ Nop \/ Ret \/ CallOrCrth \/ Natv \/ Pop \/ Push \/ Jump \/ TwoOperand

Next == WriteInstruction \/ WriteImage \/ Exited

\* Compile is a sequential program that nothing blocks.
Spec == Init /\ [][Next]_vars /\ WF_vars(Next)
----------------------------------------------------------------------------
(* Properties *)

Lines == DOMAIN source
InstLines == {l \in Lines : place[l].kind = "inst"}
VarLines == {l \in Lines : place[l].kind = "var"}
Bytes(l) == Cells(place[l].pos, place[l].size)

\* m is the instruction that follows line l in the source.
IsNextInst(l, m) == m \in InstLines /\ l < m /\ \A k \in InstLines : ~(l < k /\ k < m)

TypeOK ==
    /\ source \in Programs
    /\ phase \in {"read", "written", "refused", "undefined"}
    /\ line \in 1..(Len(source) + 1)
    /\ pStart \in Addresses \cup {-1}
    /\ arUsed \subseteq Addresses
    /\ arMemory \in [Addresses -> Lines \cup {0}]
    /\ place \in [Lines -> [kind : {"none", "inst", "var"}, pos : Addresses, size : 0..MemSize]]
    /\ pLastInst \in Lines \cup {0}
    /\ bFirst \in BOOLEAN
    /\ iLabel \in DOMAIN vecSymbols \cup {0}
    /\ iImports \in 0..Len(source)

\* MakeInstruction writes at pStart without a look at arUsed (its memcmp only
\* compares with what it has just written): still no instruction is overwritten
\* by a later one or by a variable, whatever places are drawn.
InstructionsKept == \A l \in InstLines : \A a \in Bytes(l) : arMemory[a] = l

\* The place of the next instruction waits without being marked as used, and a
\* variable may be put on it: then that instruction, and no other, takes bytes
\* of the variable.
OnlyWaitingPlaceIsLost ==
    \A v \in VarLines : \A a \in Bytes(v) : arMemory[a] # v => IsNextInst(v, arMemory[a])

\* GetNext of an instruction leads to the instruction below it, over the
\* declarations, labels and comments between, upwards or downwards in memory.
\* Of ret nothing is asked: the machine does not read its offset.
ChainFollowsSource ==
    \A l, m \in InstLines :
        IsNextInst(l, m) /\ source[l].op # "ret" =>
            place[l].pos + GetNext(code[l].next) = place[m].pos

\* Names that operands refer to.
Declarations(name) ==
    {d \in Lines : /\ source[d].op \in {"dv", "da", "proc", "lbl"}
                   /\ Len(source[d].args) > 0
                   /\ source[d].args[1].text = name}
IsPosition(d, pos) ==
    IF source[d].op \in {"dv", "da"} THEN pos = place[d].pos
    ELSE \A m \in InstLines : IsNextInst(d, m) => pos = place[m].pos

ConstantOf(l, slot) == IF slot = 0 THEN code[l].arg0 ELSE code[l].arg1
Refers(l, k, name) ==
    LET t == source[l].args[k]
    IN  \/ /\ source[l].op \in JumpOps /\ k = 1 /\ ~TakesRegister(t) /\ ~TakesNumber(t)
           /\ t.text = name
        \/ source[l].op \in {"call", "crth"} /\ k = 1 /\ t.tail = None /\ t.text = name
        \/ source[l].op \in TwoOps /\ k <= 2 /\ IsName(t) /\ t.name = name
SlotOf(l, k) == IF source[l].op \in TwoOps \cap OrderRev THEN 2 - k ELSE k - 1

\* In the image, an operand that names a label, or a variable or procedure
\* declared above it, holds the address of the variable or of the first
\* instruction behind the label or procedure, in the slot the handler reads.
\* A name has one declaration here; the code prefers labels for jumps, and
\* variables for the other instructions.  A jump to a name that is not declared
\* yet makes a label of it: if it is declared as a procedure or a variable, the
\* label is never placed, and the jumps below prefer it all the same.
ReferencesResolved ==
    phase = "written" =>
        \A l \in InstLines : \A k \in DOMAIN source[l].args : \A d \in Lines :
            LET name == source[d].args[1].text
            IN  (/\ source[d].op \in {"dv", "da", "proc", "lbl"}
                 /\ Declarations(name) = {d}
                 /\ Refers(l, k, name)
                 /\ \/ source[d].op = "lbl"
                    \/ d < l /\ \A j \in InstLines :
                                   j < d /\ source[j].op \in JumpOps => ~Refers(j, 1, name))
                    => IsPosition(d, ConstantOf(l, SlotOf(l, k)))

\* The entry in the file is the first instruction of main.
EntryIsMain ==
    phase = "written" =>
        \A d \in Lines :
            source[d].op = "proc" /\ source[d].args[1].text = "main" => IsPosition(d, ulOffMain)
=============================================================================
