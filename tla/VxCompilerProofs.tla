-------------------------- MODULE VxCompilerProofs --------------------------
(***************************************************************************)
(* Proofs about VxCompiler, for every source and every size of memory,     *)
(* instructions and constants: type correctness, that no instruction is    *)
(* overwritten, that a variable loses bytes to the instruction behind it   *)
(* only, that the chain of instructions follows the source, that operands  *)
(* are resolved to what they refer to, and that the entry is the first     *)
(* instruction of main.                                                    *)
(***************************************************************************)
EXTENDS VxCompiler, SequenceTheorems, WellFoundedInduction, TLAPS

\* The offset of the next instruction survives its three bytes and the sign.
LEMMA NextRoundTrip ==
    ASSUME NEW d \in Int, -NextMod < d, d < NextMod
    PROVE  GetNext(SetNext(d)) = d
<1>1. NextMod \in Nat \ {0}
  BY SizesAssumption
<1>2. (SetNext(d).sf <=> d < 0) /\ SetNext(d).low = d % NextMod
  BY Zenon DEF SetNext
<1>3. CASE d >= 0
  <2>1. d % NextMod = d /\ ~SetNext(d).sf
    BY <1>1, <1>2, <1>3
  <2> QED
    BY <1>2, <2>1, Zenon DEF GetNext
<1>4. CASE d < 0
  <2>1. d % NextMod = d + NextMod
    BY <1>1, <1>4, SMTT(60)
  <2>2. (d % NextMod) - NextMod = d
    BY <1>1, <2>1
  <2> QED
    BY <1>2, <1>4, <2>2, Zenon DEF GetNext
<1> QED
  BY <1>3, <1>4
----------------------------------------------------------------------------
(* Symbols *)

\* A list of symbols is a sequence of something.
IsList(symbols) == \E n \in Nat : symbols \in [1..n -> {symbols[i] : i \in DOMAIN symbols}]

\* The domain of a list is an interval of which the list's length is the end.
LEMMA ListDomain ==
    ASSUME NEW symbols, IsList(symbols)
    PROVE  /\ symbols \in Seq({symbols[i] : i \in DOMAIN symbols})
           /\ Len(symbols) \in Nat
           /\ DOMAIN symbols = 1..Len(symbols)
<1> DEFINE S == {symbols[i] : i \in DOMAIN symbols}
<1>1. PICK n \in Nat : symbols \in [1..n -> S]
  BY DEF IsList
<1>2. symbols \in Seq(S)
  BY <1>1, SeqDef
<1> QED
  BY <1>2, LenProperties

\* A list with an element behind it is a list.
LEMMA ListAppend ==
    ASSUME NEW symbols, IsList(symbols), NEW symbol
    PROVE  /\ IsList(Append(symbols, symbol))
           /\ DOMAIN Append(symbols, symbol) = 1..(Len(symbols) + 1)
<1> DEFINE S == {symbols[i] : i \in DOMAIN symbols} \cup {symbol}
           longer == Append(symbols, symbol)
           T == {longer[i] : i \in DOMAIN longer}
<1>1. symbols \in Seq(S) /\ Len(symbols) \in Nat
  <2>1. symbols \in Seq({symbols[i] : i \in DOMAIN symbols}) /\ Len(symbols) \in Nat
    BY ListDomain
  <2>2. {symbols[i] : i \in DOMAIN symbols} \subseteq S
    OBVIOUS
  <2> QED
    BY <2>1, <2>2, SeqMonotonic
<1>2. /\ longer \in Seq(S)
      /\ Len(longer) = Len(symbols) + 1
  BY <1>1, AppendProperties
<1>3. DOMAIN longer = 1..(Len(symbols) + 1) /\ longer \in [1..(Len(symbols) + 1) -> S]
  BY <1>1, <1>2, LenProperties
<1>4. longer \in [1..(Len(symbols) + 1) -> T]
  <2> HIDE DEF longer, S
  <2>1. longer = [i \in 1..(Len(symbols) + 1) |-> longer[i]]
    BY <1>3
  <2>2. \A i \in 1..(Len(symbols) + 1) : longer[i] \in {longer[k] : k \in DOMAIN longer}
    BY <1>3
  <2> QED
    BY <2>1, <2>2
<1>5. Len(symbols) + 1 \in Nat
  BY <1>1
<1>6. IsList(longer)
  <2> HIDE DEF longer
  <2> QED
    BY <1>4, <1>5 DEF IsList
<1> QED
  BY <1>3, <1>6

\* A list whose elements are replaced one by one is a list.
LEMMA ListReplaced ==
    ASSUME NEW symbols, IsList(symbols), NEW other,
           DOMAIN other = DOMAIN symbols, other = [i \in DOMAIN other |-> other[i]]
    PROVE  IsList(other)
<1>1. PICK n \in Nat : DOMAIN symbols = 1..n
  BY DEF IsList
<1>2. \A i \in 1..n : other[i] \in {other[k] : k \in DOMAIN other}
  BY <1>1
<1>3. other \in [1..n -> {other[k] : k \in DOMAIN other}]
  BY <1>1, <1>2
<1> QED
  BY <1>3 DEF IsList

\* FunctionRegisterCheck keeps the list of symbols as long as it is.
LEMMA RegisteredList ==
    ASSUME IsList(vecSymbols)
    PROVE  IsList(Registered) /\ DOMAIN Registered = DOMAIN vecSymbols
<1>1. DOMAIN Registered = DOMAIN vecSymbols /\ Registered = [i \in DOMAIN Registered |-> Registered[i]]
  BY DEF Registered
<1> QED
  BY <1>1, ListReplaced

\* So does a new link.
LEMMA LinkedList ==
    ASSUME NEW symbols, IsList(symbols), NEW i, NEW link
    PROVE  IsList(Linked(symbols, i, link)) /\ DOMAIN Linked(symbols, i, link) = DOMAIN symbols
<1>1. /\ DOMAIN Linked(symbols, i, link) = DOMAIN symbols
      /\ Linked(symbols, i, link)
           = [k \in DOMAIN Linked(symbols, i, link) |-> Linked(symbols, i, link)[k]]
  BY DEF Linked
<1> QED
  BY <1>1, ListReplaced

\* FindSymbol finds the first match if there is one.
LEMMA FindSymbolFinds ==
    ASSUME NEW symbols, IsList(symbols), NEW name, NEW type, Exists(symbols, name, type)
    PROVE  /\ FindSymbol(symbols, name, type) \in Matching(symbols, name, type)
           /\ FindSymbol(symbols, name, type) \in DOMAIN symbols
           /\ \A j \in Matching(symbols, name, type) : FindSymbol(symbols, name, type) <= j
<1> DEFINE M == Matching(symbols, name, type)
<1>1. M \subseteq DOMAIN symbols /\ M \subseteq Nat /\ M # {}
  BY ListDomain DEF Matching, Exists
<1> DEFINE less == {ij \in Nat \X Nat : ij[1] < ij[2]}
<1>2. IsWellFoundedOn(less, Nat)
  BY NatLessThanWellFounded, Zenon DEF OpToRel
<1> HIDE DEF less
<1>3. PICK i \in M : \A j \in M : ~(<<j, i>> \in less)
  <2> HIDE DEF M
  <2> QED
    BY <1>1, <1>2, WFMin
<1>4. \A j \in M : i <= j
  <2> HIDE DEF M
  <2>1. \A j, k \in Nat : <<j, k>> \in less <=> j < k
    BY DEF less
  <2>2. M \subseteq Nat /\ i \in M
    BY <1>1, <1>3
  <2> SUFFICES ASSUME NEW j \in M PROVE i <= j
    OBVIOUS
  <2>3. j \in Nat /\ i \in Nat /\ ~(<<j, i>> \in less)
    BY <1>3, <2>2
  <2>4. ~(j < i)
    BY <2>1, <2>3, Zenon
  <2> QED
    BY <2>3, <2>4
<1> QED
  BY <1>1, <1>3, <1>4 DEF FindSymbol
----------------------------------------------------------------------------
(* The inductive invariant *)

ImportsOK == iImports \in Nat /\ iImports < line

\* Every line has an instruction record.
CodeOK == DOMAIN code = Lines /\ \A l \in Lines : "next" \in DOMAIN code[l]

\* What is below the line that is read has no place yet, and what has a place
\* is marked as used.
Unplaced == \A l \in Lines : line <= l => place[l] = Nothing
Marked == \A l \in InstLines \cup VarLines : Bytes(l) \subseteq arUsed

\* The place that waits for the next instruction is free of every instruction,
\* and of every variable that stands above an instruction: it was drawn after
\* the last instruction was marked.
Settled(l) == l \in InstLines \/ (l \in VarLines /\ \E m \in InstLines : l < m)
WaitingPlaceIsFree ==
    pStart # -1 => \A l \in Lines : Settled(l) => Bytes(l) \cap Cells(pStart, InstSize(2)) = {}

\* pLastInst is the last instruction, or 0 behind ret.
LastIsKept ==
    /\ pLastInst # 0 => pLastInst \in InstLines /\ \A k \in InstLines : k <= pLastInst
    /\ \A l \in InstLines :
          (\A k \in InstLines : k <= l) /\ source[l].op # "ret" => pLastInst = l

IInv == /\ TypeOK /\ IsList(vecSymbols) /\ ImportsOK /\ CodeOK
        /\ Unplaced /\ Marked /\ WaitingPlaceIsFree /\ LastIsKept
        /\ InstructionsKept /\ OnlyWaitingPlaceIsLost /\ ChainFollowsSource
----------------------------------------------------------------------------
(* Memory *)

\* A line that is read is one of the source's.
LEMMA SourceLines ==
    ASSUME TypeOK
    PROVE  /\ Len(source) \in Nat /\ Lines = 1..Len(source) /\ line \in Nat \ {0}
           /\ \A l \in Lines : Len(source[l].args) \in Nat
                               /\ DOMAIN source[l].args = 1..Len(source[l].args)
<1>1. source \in Programs
  BY DEF TypeOK
<1>2. Len(source) \in Nat /\ DOMAIN source = 1..Len(source)
  BY <1>1, ProgramsAssumption
<1> QED
  BY <1>1, <1>2, ProgramsAssumption DEF TypeOK, Lines

\* An instruction has some bytes, and no more than arMemory.
LEMMA InstSizes ==
    /\ \A argc \in 0..2 : InstSize(argc) \in Nat \ {0} /\ InstSize(argc) <= InstSize(2)
    /\ InstSize(2) <= MemSize
    /\ MemSize \in Nat \ {0}
<1>1. BaseSize \in Nat \ {0} /\ IntSize \in Nat \ {0} /\ MemSize \in Nat \ {0}
  BY SizesAssumption
<1>2. InstSize(0) = BaseSize /\ InstSize(1) = BaseSize + IntSize /\ InstSize(2) = BaseSize + 2 * IntSize
  BY <1>1 DEF InstSize
<1>3. \A argc \in 0..2 : argc = 0 \/ argc = 1 \/ argc = 2
  OBVIOUS
<1> QED
  BY <1>1, <1>2, <1>3, SizesAssumption

\* A place is free, or there is none.
LEMMA FoundIsFree ==
    ASSUME NEW used, NEW size, NEW pos \in FindNewLocation(used, size)
    PROVE  pos = -1 \/ (pos \in Addresses /\ Cells(pos, size) \cap used = {})
BY DEF FindNewLocation, ValidLocation

\* The bytes and the mark that a line leaves.
LEMMA Occupies ==
    ASSUME TypeOK, line \in Lines,
           NEW kind \in {"inst", "var"}, NEW pos \in Addresses, NEW size \in Nat,
           Cells(pos, size) \subseteq Addresses, Occupy(kind, pos, size)
    PROVE  /\ place' \in [Lines -> [kind : {"none", "inst", "var"}, pos : Addresses,
                                    size : 0..MemSize]]
           /\ place'[line] = [kind |-> kind, pos |-> pos, size |-> size]
           /\ \A l \in Lines : l # line => place'[l] = place[l]
           /\ arUsed' = arUsed \cup Cells(pos, size) /\ arUsed' \subseteq Addresses
           /\ arMemory' \in [Addresses -> Lines \cup {0}]
           /\ \A a \in Cells(pos, size) : arMemory'[a] = line
           /\ \A a \in Addresses \ Cells(pos, size) : arMemory'[a] = arMemory[a]
<1>1. size \in 0..MemSize
  <2>1. MemSize \in Nat \ {0}
    BY InstSizes
  <2>2. CASE size = 0
    BY <2>1, <2>2
  <2>3. CASE size # 0
    <3>1. pos + size - 1 \in Cells(pos, size)
      BY <2>3 DEF Cells, Addresses
    <3> QED
      BY <2>1, <3>1 DEF Addresses
  <2> QED
    BY <2>2, <2>3
<1>2. [kind |-> kind, pos |-> pos, size |-> size]
        \in [kind : {"none", "inst", "var"}, pos : Addresses, size : 0..MemSize]
  BY <1>1
<1>3. place \in [Lines -> [kind : {"none", "inst", "var"}, pos : Addresses, size : 0..MemSize]]
  BY DEF TypeOK
<1>4. place' = [place EXCEPT ![line] = [kind |-> kind, pos |-> pos, size |-> size]]
  BY DEF Occupy
<1>5. arUsed' = arUsed \cup Cells(pos, size) /\ arUsed' \subseteq Addresses
  BY DEF Occupy, TypeOK
<1>6. arMemory' = [a \in Addresses |-> IF a \in Cells(pos, size) THEN line ELSE arMemory[a]]
  BY DEF Occupy
<1>7. arMemory \in [Addresses -> Lines \cup {0}]
  BY DEF TypeOK
<1> QED
  BY <1>2, <1>3, <1>4, <1>5, <1>6, <1>7

\* Lines with a place are above the line that is read.
LEMMA PlacedAbove ==
    ASSUME IInv
    PROVE  /\ \A l \in InstLines \cup VarLines : l \in Lines /\ l \in Nat /\ l < line
           /\ InstLines \cap VarLines = {}
<1>1. Lines \subseteq Nat /\ line \in Nat
  BY SourceLines DEF IInv
<1>2. \A l \in Lines : place[l] = Nothing => l \notin InstLines \cup VarLines
  BY DEF Nothing, InstLines, VarLines
<1>3. \A l \in Lines : line <= l => l \notin InstLines \cup VarLines
  BY <1>2 DEF IInv, Unplaced
<1>4. InstLines \subseteq Lines /\ VarLines \subseteq Lines /\ InstLines \cap VarLines = {}
  BY DEF InstLines, VarLines
<1> QED
  BY <1>1, <1>3, <1>4

\* Bytes and IsNextInst in the next state.
BytesAfter(l) == place'[l].pos..(place'[l].pos + place'[l].size - 1)
IsNextInstAfter(l, m) == m \in InstLines' /\ l < m /\ \A k \in InstLines' : ~(l < k /\ k < m)

\* Which lines have a place after a line has taken one, and which bytes.
LEMMA OccupiedLines ==
    ASSUME IInv, line \in Lines, UNCHANGED source,
           NEW kind \in {"inst", "var"}, NEW pos \in Addresses, NEW size \in Nat,
           Cells(pos, size) \subseteq Addresses, Occupy(kind, pos, size)
    PROVE  /\ InstLines' = IF kind = "inst" THEN InstLines \cup {line} ELSE InstLines
           /\ VarLines' = IF kind = "var" THEN VarLines \cup {line} ELSE VarLines
           /\ Lines' = Lines
           /\ \A l \in Lines : l # line => BytesAfter(l) = Bytes(l)
           /\ BytesAfter(line) = Cells(pos, size)
           /\ line \notin InstLines \cup VarLines
<1>1. Lines' = Lines
  BY DEF Lines
<1>2. TypeOK
  BY DEF IInv
<1>3. /\ place'[line] = [kind |-> kind, pos |-> pos, size |-> size]
      /\ \A l \in Lines : l # line => place'[l] = place[l]
  BY <1>2, Occupies
<1>4. line \notin InstLines \cup VarLines
  BY PlacedAbove, SourceLines, <1>2
<1>5. \A l \in Lines : l # line => BytesAfter(l) = Bytes(l)
  BY <1>3 DEF Bytes, BytesAfter, Cells
<1>6. BytesAfter(line) = Cells(pos, size)
  BY <1>3 DEF Bytes, BytesAfter, Cells
<1>7. InstLines' = {l \in Lines : place'[l].kind = "inst"} /\ VarLines' = {l \in Lines : place'[l].kind = "var"}
  BY <1>1 DEF InstLines, VarLines
<1>8. InstLines' = IF kind = "inst" THEN InstLines \cup {line} ELSE InstLines
  BY <1>3, <1>4, <1>7 DEF InstLines
<1>9. VarLines' = IF kind = "var" THEN VarLines \cup {line} ELSE VarLines
  BY <1>3, <1>4, <1>7 DEF VarLines
<1> QED
  BY <1>1, <1>4, <1>5, <1>6, <1>8, <1>9

\* A line that takes a place free of all instructions and, if it is no
\* instruction itself or a variable has one behind it, of that variable too.
LEMMA OccupyKeeps ==
    ASSUME IInv, line \in Lines, UNCHANGED source, line' = line + 1,
           NEW kind \in {"inst", "var"}, NEW pos \in Addresses, NEW size \in Nat,
           Cells(pos, size) \subseteq Addresses, Occupy(kind, pos, size),
           \A l \in InstLines : Bytes(l) \cap Cells(pos, size) = {},
           \A v \in VarLines : \/ Bytes(v) \cap Cells(pos, size) = {}
                               \/ kind = "inst" /\ \A m \in InstLines : ~(v < m)
    PROVE  Unplaced' /\ Marked' /\ InstructionsKept' /\ OnlyWaitingPlaceIsLost'
<1>1. /\ InstLines' = IF kind = "inst" THEN InstLines \cup {line} ELSE InstLines
      /\ VarLines' = IF kind = "var" THEN VarLines \cup {line} ELSE VarLines
      /\ Lines' = Lines
      /\ \A l \in Lines : l # line => BytesAfter(l) = Bytes(l)
      /\ BytesAfter(line) = Cells(pos, size)
      /\ line \notin InstLines \cup VarLines
  BY OccupiedLines
<1>2. TypeOK
  BY DEF IInv
<1>3. /\ \A l \in Lines : l # line => place'[l] = place[l]
      /\ arUsed' = arUsed \cup Cells(pos, size)
      /\ \A a \in Cells(pos, size) : arMemory'[a] = line
      /\ \A a \in Addresses \ Cells(pos, size) : arMemory'[a] = arMemory[a]
  <2>1. \A l \in Lines : l # line => place'[l] = place[l]
    BY <1>2, Occupies
  <2>2. arUsed' = arUsed \cup Cells(pos, size)
    BY <1>2, Occupies
  <2>3. \A a \in Cells(pos, size) : arMemory'[a] = line
    BY <1>2, Occupies, ZenonT(30)
  <2>4. \A a \in Addresses \ Cells(pos, size) : arMemory'[a] = arMemory[a]
    BY <1>2, Occupies, ZenonT(30)
  <2> QED
    BY <2>1, <2>2, <2>3, <2>4
<1>4. \A l \in InstLines \cup VarLines : l \in Lines /\ l \in Nat /\ l < line /\ l # line
  BY PlacedAbove, <1>1
<1>5. \A l \in InstLines \cup VarLines : Bytes(l) \subseteq arUsed
  BY DEF IInv, Marked
<1>6. arUsed \subseteq Addresses
  BY <1>2 DEF TypeOK
<1>7. line \in Nat /\ Lines \subseteq Nat
  BY <1>2, SourceLines
<1>8. Unplaced'
  <2> SUFFICES ASSUME NEW l \in Lines', line' <= l PROVE place'[l] = Nothing
    BY DEF Unplaced, Nothing
  <2>1. l \in Lines /\ line <= l /\ l # line
    BY <1>1, <1>7
  <2> QED
    BY <1>3, <2>1 DEF IInv, Unplaced
<1>9. Marked'
  <2> SUFFICES ASSUME NEW l \in InstLines' \cup VarLines' PROVE BytesAfter(l) \subseteq arUsed'
    BY DEF Marked, Bytes, BytesAfter, Cells
  <2>1. CASE l = line
    BY <1>1, <1>3, <2>1
  <2>2. CASE l # line
    <3>1. l \in InstLines \cup VarLines
      BY <1>1, <2>2
    <3>2. BytesAfter(l) = Bytes(l)
      BY <1>1, <1>4, <2>2, <3>1
    <3> QED
      BY <1>3, <1>5, <3>1, <3>2
  <2> QED
    BY <2>1, <2>2
<1>10. InstructionsKept'
  <2> SUFFICES ASSUME NEW l \in InstLines', NEW a \in BytesAfter(l) PROVE arMemory'[a] = l
    BY DEF InstructionsKept, Bytes, BytesAfter, Cells
  <2>1. CASE l = line
    BY <1>1, <1>3, <2>1
  <2>2. CASE l # line
    <3>1. l \in InstLines /\ a \in Bytes(l)
      BY <1>1, <1>4, <2>2
    <3>2. a \in Addresses \ Cells(pos, size)
      BY <1>5, <1>6, <3>1
    <3>3. arMemory[a] = l
      BY <3>1 DEF IInv, InstructionsKept
    <3> QED
      BY <1>3, <3>2, <3>3
  <2> QED
    BY <2>1, <2>2
<1>11. OnlyWaitingPlaceIsLost'
  <2> SUFFICES ASSUME NEW v \in VarLines', NEW a \in BytesAfter(v), arMemory'[a] # v
               PROVE  IsNextInstAfter(v, arMemory'[a])
    BY DEF OnlyWaitingPlaceIsLost, Bytes, BytesAfter, Cells, IsNextInst, IsNextInstAfter
  <2>1. v # line
    BY <1>1, <1>3
  <2>2. v \in VarLines /\ a \in Bytes(v) /\ a \in Addresses /\ v \in Nat /\ v < line
    BY <1>1, <1>4, <1>5, <1>6, <2>1
  <2>3. CASE a \in Cells(pos, size)
    <3>1. kind = "inst" /\ \A m \in InstLines : ~(v < m)
      BY <2>2, <2>3
    <3>2. arMemory'[a] = line
      BY <1>3, <2>3
    <3>3. line \in InstLines' /\ v < line /\ \A k \in InstLines' : ~(v < k /\ k < line)
      BY <1>1, <1>7, <2>2, <3>1
    <3> QED
      BY <3>2, <3>3 DEF IsNextInstAfter
  <2>4. CASE a \notin Cells(pos, size)
    <3>1. arMemory'[a] = arMemory[a]
      BY <1>3, <2>2, <2>4
    <3>2. IsNextInst(v, arMemory[a])
      BY <2>2, <3>1 DEF IInv, OnlyWaitingPlaceIsLost
    <3> DEFINE m == arMemory[a]
    <3>3. m \in InstLines /\ v < m /\ \A k \in InstLines : ~(v < k /\ k < m)
      BY <3>2 DEF IsNextInst
    <3>4. m \in Nat /\ m < line
      BY <1>4, <3>3
    <3>5. m \in InstLines' /\ \A k \in InstLines' : ~(v < k /\ k < m)
      BY <1>1, <1>7, <3>3, <3>4
    <3> QED
      BY <3>1, <3>3, <3>5 DEF IsNextInstAfter
  <2> QED
    BY <2>3, <2>4
<1> QED
  BY <1>8, <1>9, <1>10, <1>11
----------------------------------------------------------------------------
(* One lemma for each way a line may end *)

\* What has a place is the same; only the end of the run is different.
LEMMA StopStep ==
    ASSUME IInv, phase' \in {"refused", "undefined"},
           UNCHANGED <<source, line, pStart, arUsed, arMemory, place, code, vecSymbols,
                       pLastInst, bFirst, iLabel, vecIAT, iImports, ulOffMain>>
    PROVE  IInv'
<1>1. TypeOK'
  BY DEF IInv, TypeOK, Lines
<1>2. Lines' = Lines /\ InstLines' = InstLines /\ VarLines' = VarLines
  BY DEF Lines, InstLines, VarLines
<1>3. ImportsOK' /\ CodeOK' /\ Unplaced' /\ Marked' /\ WaitingPlaceIsFree' /\ LastIsKept'
  BY <1>2 DEF IInv, ImportsOK, CodeOK, Unplaced, Marked, WaitingPlaceIsFree, Settled, LastIsKept, Bytes
<1>4. InstructionsKept' /\ OnlyWaitingPlaceIsLost' /\ ChainFollowsSource'
  BY <1>2 DEF IInv, InstructionsKept, OnlyWaitingPlaceIsLost, ChainFollowsSource, Bytes, IsNextInst
<1>5. IsList(vecSymbols)'
  BY DEF IInv, IsList
<1> QED
  BY <1>1, <1>3, <1>4, <1>5 DEF IInv

\* A line that only leaves symbols.
LEMMA SkipStep ==
    ASSUME IInv, line \in Lines,
           NEW symbols, IsList(symbols), NEW first \in BOOLEAN,
           NEW label \in DOMAIN symbols \cup {0}, Skip(symbols, first, label)
    PROVE  IInv'
<1>1. UNCHANGED <<source, phase, pStart, arUsed, arMemory, place, code, pLastInst, iImports>>
      /\ line' = line + 1 /\ vecSymbols' = symbols /\ bFirst' = first /\ iLabel' = label
  BY DEF Skip
<1>2. TypeOK
  BY DEF IInv
<1>3. Lines' = Lines /\ InstLines' = InstLines /\ VarLines' = VarLines
  BY <1>1 DEF Lines, InstLines, VarLines
<1>4. line' \in 1..(Len(source) + 1) /\ \A l \in Lines : line' <= l => line <= l
  BY <1>1, <1>2, SourceLines
<1>5. TypeOK'
  BY <1>1, <1>2, <1>3, <1>4 DEF TypeOK, Lines
<1>6. ImportsOK'
  BY <1>1, <1>2, SourceLines DEF IInv, ImportsOK
<1>7. Unplaced'
  BY <1>1, <1>3, <1>4 DEF IInv, Unplaced
<1>8. CodeOK' /\ Marked' /\ WaitingPlaceIsFree' /\ LastIsKept'
  BY <1>1, <1>3 DEF IInv, CodeOK, Marked, WaitingPlaceIsFree, Settled, LastIsKept, Bytes
<1>9. InstructionsKept' /\ OnlyWaitingPlaceIsLost' /\ ChainFollowsSource'
  BY <1>1, <1>3 DEF IInv, InstructionsKept, OnlyWaitingPlaceIsLost, ChainFollowsSource, Bytes, IsNextInst
<1>10. IsList(vecSymbols)'
  BY <1>1 DEF IsList
<1> QED
  BY <1>5, <1>6, <1>7, <1>8, <1>9, <1>10 DEF IInv

\* exit(1) leaves everything as it is.
LEMMA RefuseStep == ASSUME IInv, NEW why, Refuse(why) PROVE IInv'
BY StopStep DEF Refuse

\* So does, in the model, an access outside an array.
LEMMA UndefinedStep == ASSUME IInv, Undefined PROVE IInv'
BY StopStep DEF Undefined

\* A variable that is put at a free place.
LEMMA DeclareStep ==
    ASSUME IInv, phase = "read", line \in Lines,
           NEW pos \in Addresses, NEW size \in Nat,
           Cells(pos, size) \subseteq Addresses, Cells(pos, size) \cap arUsed = {},
           Occupy("var", pos, size),
           NEW symbols, IsList(symbols), vecSymbols' = symbols,
           bFirst' = FALSE, iLabel' = 0, line' = line + 1,
           UNCHANGED <<source, phase, pStart, code, pLastInst, vecIAT, iImports, ulOffMain, message>>
    PROVE  IInv'
<1>1. /\ InstLines' = InstLines /\ VarLines' = VarLines \cup {line} /\ Lines' = Lines
      /\ \A l \in Lines : l # line => BytesAfter(l) = Bytes(l)
      /\ line \notin InstLines \cup VarLines
  BY OccupiedLines
<1>2. TypeOK
  BY DEF IInv
<1>3. \A l \in InstLines \cup VarLines : Bytes(l) \cap Cells(pos, size) = {}
  BY DEF IInv, Marked
<1>4. Unplaced' /\ Marked' /\ InstructionsKept' /\ OnlyWaitingPlaceIsLost'
  <2>1. /\ \A l \in InstLines : Bytes(l) \cap Cells(pos, size) = {}
        /\ \A v \in VarLines : Bytes(v) \cap Cells(pos, size) = {}
    BY <1>3
  <2> QED
    BY <2>1, OccupyKeeps
<1>5. \A l \in InstLines \cup VarLines : l \in Lines /\ l \in Nat /\ l < line /\ l # line
  BY PlacedAbove, <1>1
<1>6. WaitingPlaceIsFree'
  <2> SUFFICES ASSUME pStart # -1, NEW l \in Lines, Settled(l)'
               PROVE  BytesAfter(l) \cap Cells(pStart, InstSize(2)) = {}
    BY <1>1 DEF WaitingPlaceIsFree, Bytes, BytesAfter, Cells, InstSize
  <2>1. l \in InstLines \/ (l \in VarLines \cup {line} /\ \E m \in InstLines : l < m)
    BY <1>1 DEF Settled
  <2>2. Settled(l) /\ l # line
    BY <1>2, <1>5, <2>1, SourceLines DEF Settled
  <2> QED
    BY <1>1, <2>2 DEF IInv, WaitingPlaceIsFree
<1>7. LastIsKept' /\ CodeOK'
  BY <1>1 DEF IInv, LastIsKept, CodeOK
<1>8. ChainFollowsSource'
  <2> SUFFICES ASSUME NEW l \in InstLines, NEW m \in InstLines, IsNextInstAfter(l, m),
                      source[l].op # "ret"
               PROVE  place'[l].pos + GetNext(code[l].next) = place'[m].pos
    BY <1>1 DEF ChainFollowsSource, IsNextInst, IsNextInstAfter
  <2>1. IsNextInst(l, m)
    BY <1>1 DEF IsNextInst, IsNextInstAfter
  <2>2. place'[l] = place[l] /\ place'[m] = place[m]
    BY <1>2, <1>5, Occupies, ZenonT(30)
  <2> QED
    BY <2>1, <2>2 DEF IInv, ChainFollowsSource
<1>9. /\ arUsed' \subseteq Addresses
      /\ arMemory' \in [Addresses -> Lines \cup {0}]
      /\ place' \in [Lines -> [kind : {"none", "inst", "var"}, pos : Addresses, size : 0..MemSize]]
  BY <1>2, Occupies
<1>10. line' \in 1..(Len(source) + 1)
  BY <1>2, SourceLines
<1>11. TypeOK'
  BY <1>1, <1>2, <1>9, <1>10 DEF TypeOK, Lines
<1>12. ImportsOK'
  BY <1>2, SourceLines DEF IInv, ImportsOK
<1>13. IsList(vecSymbols)'
  BY DEF IsList
<1> QED
  BY <1>4, <1>6, <1>7, <1>8, <1>11, <1>12, <1>13 DEF IInv

\* A place for a variable, a full memory, or a problem of the value.
LEMMA AllocateStep ==
    ASSUME IInv, phase = "read", line \in Lines, NEW size \in Nat, NEW problem, Allocate(size, problem)
    PROVE  IInv'
<1>1. PICK pos \in FindNewLocation(arUsed, size) :
        CASE pos = -1 -> Refuse("memory")
          [] pos # -1 /\ problem # "none" -> Refuse(problem)
          [] pos # -1 /\ problem = "none" /\ ~(Cells(pos, size) \subseteq Addresses) -> Undefined
          [] OTHER ->
               /\ Occupy("var", pos, size)
               /\ vecSymbols' = Append(Registered, Symbol(Arg(1).text, SYM_VAR, pos))
               /\ bFirst' = FALSE
               /\ iLabel' = 0
               /\ line' = line + 1
               /\ UNCHANGED <<source, phase, pStart, code, pLastInst, vecIAT, iImports,
                              ulOffMain, message>>
  BY DEF Allocate
<1>2. CASE pos = -1
  BY <1>1, <1>2, RefuseStep
<1>3. CASE pos # -1 /\ problem # "none"
  BY <1>1, <1>3, RefuseStep
<1>4. CASE pos # -1 /\ problem = "none" /\ ~(Cells(pos, size) \subseteq Addresses)
  BY <1>1, <1>4, UndefinedStep
<1>5. CASE pos # -1 /\ problem = "none" /\ Cells(pos, size) \subseteq Addresses
  <2>1. pos \in Addresses /\ Cells(pos, size) \cap arUsed = {}
    BY <1>1, <1>5, FoundIsFree
  <2>2. /\ Occupy("var", pos, size)
        /\ vecSymbols' = Append(Registered, Symbol(Arg(1).text, SYM_VAR, pos))
        /\ bFirst' = FALSE /\ iLabel' = 0 /\ line' = line + 1
        /\ UNCHANGED <<source, phase, pStart, code, pLastInst, vecIAT, iImports, ulOffMain, message>>
    BY <1>1, <1>5
  <2>3. IsList(Append(Registered, Symbol(Arg(1).text, SYM_VAR, pos)))
    BY RegisteredList, ListAppend DEF IInv
  <2> QED
    BY <1>5, <2>1, <2>2, <2>3, DeclareStep
<1> QED
  BY <1>2, <1>3, <1>4, <1>5

\* An instruction: it goes where no settled line is, gets the offset of its
\* predecessor right, and the next place is drawn behind the marks.
LEMMA AssembleStep ==
    ASSUME IInv, phase = "read", line \in Lines,
           NEW argc \in 0..2, NEW instr, "next" \in DOMAIN instr,
           NEW symbols, IsList(symbols),
           NEW last, last = IF Current.op = "ret" THEN 0 ELSE line,
           NEW iat, NEW imports \in {iImports, iImports + 1},
           Assemble(argc, instr, symbols, last, iat, imports)
    PROVE  IInv'
<1>1. CASE ~(Cells(pStart, InstSize(argc)) \subseteq Addresses)
  BY <1>1, UndefinedStep DEF Assemble
<1>2. CASE Cells(pStart, InstSize(argc)) \subseteq Addresses
  <2> DEFINE here == Cells(pStart, InstSize(argc))
  <2>1. /\ Occupy("inst", pStart, InstSize(argc))
        /\ code' = Chained(instr)
        /\ vecSymbols' = symbols /\ pLastInst' = last /\ iImports' = imports
        /\ pStart' \in FindNewLocation(arUsed', InstSize(2))
        /\ bFirst' = FALSE /\ iLabel' = 0 /\ line' = line + 1
        /\ UNCHANGED <<source, phase, ulOffMain, message>>
    BY <1>2 DEF Assemble
  <2>2. TypeOK
    BY DEF IInv
  <2>3. InstSize(argc) \in Nat \ {0} /\ InstSize(argc) <= InstSize(2) /\ InstSize(2) \in Nat
    BY InstSizes
  <2>4. pStart \in Addresses /\ pStart # -1
    <3>1. pStart \in Addresses \cup {-1}
      BY <2>2 DEF TypeOK
    <3>2. pStart \in here
      BY <2>3, <3>1 DEF Cells, Addresses
    <3> QED
      BY <1>2, <3>2 DEF Addresses
  <2>5. here \subseteq Cells(pStart, InstSize(2))
    BY <2>3, <2>4 DEF Cells, Addresses
  <2>6. /\ InstLines' = InstLines \cup {line} /\ VarLines' = VarLines /\ Lines' = Lines
        /\ \A l \in Lines : l # line => BytesAfter(l) = Bytes(l)
        /\ BytesAfter(line) = here
        /\ line \notin InstLines \cup VarLines
    BY <1>2, <2>1, <2>3, <2>4, OccupiedLines
  <2>7. \A l \in InstLines \cup VarLines : l \in Lines /\ l \in Nat /\ l < line /\ l # line
    BY PlacedAbove, <2>6
  <2>8. /\ \A l \in InstLines : Bytes(l) \cap here = {}
        /\ \A v \in VarLines : Bytes(v) \cap here = {} \/ \A m \in InstLines : ~(v < m)
    BY <2>4, <2>5, <2>7 DEF IInv, WaitingPlaceIsFree, Settled
  <2>9. Unplaced' /\ Marked' /\ InstructionsKept' /\ OnlyWaitingPlaceIsLost'
    BY <1>2, <2>1, <2>3, <2>4, <2>8, OccupyKeeps
  <2>10. /\ place' \in [Lines -> [kind : {"none", "inst", "var"}, pos : Addresses, size : 0..MemSize]]
         /\ arUsed' \subseteq Addresses
         /\ arMemory' \in [Addresses -> Lines \cup {0}]
    BY <1>2, <2>1, <2>2, <2>3, <2>4, Occupies
  <2>11. /\ place'[line].pos = pStart
         /\ \A l \in Lines : l # line => place'[l] = place[l]
    <3>1. place'[line] = [kind |-> "inst", pos |-> pStart, size |-> InstSize(argc)]
      BY <1>2, <2>1, <2>2, <2>3, <2>4, Occupies
    <3>2. \A l \in Lines : l # line => place'[l] = place[l]
      BY <1>2, <2>1, <2>2, <2>3, <2>4, Occupies
    <3> QED
      BY <3>1, <3>2
  <2>12. pStart' = -1 \/ (pStart' \in Addresses /\ Cells(pStart', InstSize(2)) \cap arUsed' = {})
    BY <2>1, FoundIsFree
  <2>13. WaitingPlaceIsFree'
    <3> SUFFICES ASSUME pStart' # -1, NEW l \in Lines, l \in InstLines' \cup VarLines'
                 PROVE  BytesAfter(l) \cap Cells(pStart', InstSize(2)) = {}
      BY <2>6 DEF WaitingPlaceIsFree, Settled, Bytes, BytesAfter, Cells, InstSize
    <3>1. BytesAfter(l) \subseteq arUsed'
      BY <2>9 DEF Marked, Bytes, BytesAfter, Cells
    <3> QED
      BY <2>12, <3>1
  <2>14. code' = [l \in DOMAIN code |->
                    CASE l = line -> instr
                      [] l = pLastInst -> [code[l] EXCEPT !.next = SetNext(pStart - place[l].pos)]
                      [] OTHER -> code[l]]
    BY <2>1 DEF Chained
  <2>15. CodeOK'
    BY <2>6, <2>14 DEF IInv, CodeOK
  <2>16. LastIsKept'
    <3>1. \A k \in InstLines' : k <= line
      BY <2>2, <2>6, <2>7, SourceLines
    <3>2. \A l \in InstLines' : (\A k \in InstLines' : k <= l) => l = line
      BY <2>2, <2>6, <2>7, SourceLines
    <3>3. pLastInst' = IF source[line].op = "ret" THEN 0 ELSE line
      BY <2>1 DEF Current
    <3> QED
      BY <2>1, <2>6, <3>1, <3>2, <3>3 DEF LastIsKept
  <2>17. ChainFollowsSource'
    <3> SUFFICES ASSUME NEW l \in InstLines', NEW m \in InstLines', IsNextInstAfter(l, m),
                        source[l].op # "ret"
                 PROVE  place'[l].pos + GetNext(code'[l].next) = place'[m].pos
      BY <2>1, <2>6 DEF ChainFollowsSource, IsNextInst, IsNextInstAfter
    <3>1. l < m /\ \A k \in InstLines' : ~(l < k /\ k < m)
      BY DEF IsNextInstAfter
    <3>2. l \in InstLines /\ l \in DOMAIN code /\ "next" \in DOMAIN code[l] /\ l # line
      BY <2>2, <2>6, <2>7, <3>1, SourceLines DEF IInv, CodeOK
    <3>3. CASE m = line
      <4>1. \A k \in InstLines : k <= l
        BY <2>2, <2>6, <2>7, <3>1, <3>2, <3>3, SourceLines
      <4>2. l = pLastInst
        BY <3>2, <4>1 DEF IInv, LastIsKept
      <4>3. code'[l].next = SetNext(pStart - place[l].pos)
        BY <2>14, <3>2, <4>2
      <4>4. place[l].pos \in Addresses
        BY <2>2, <2>7, <3>2 DEF TypeOK
      <4>5. /\ pStart - place[l].pos \in Int
            /\ -NextMod < pStart - place[l].pos /\ pStart - place[l].pos < NextMod
        BY <2>4, <4>4, SizesAssumption DEF Addresses
      <4>6. GetNext(code'[l].next) = pStart - place[l].pos
        BY <4>3, <4>5, NextRoundTrip
      <4> QED
        BY <2>4, <2>7, <2>11, <3>2, <3>3, <4>4, <4>6 DEF Addresses
    <3>4. CASE m # line
      <4>1. m \in InstLines
        BY <2>6, <3>4
      <4>2. IsNextInst(l, m)
        BY <2>6, <3>1, <4>1 DEF IsNextInst
      <4>3. l # pLastInst
        <5>1. l # 0 /\ l \in Nat /\ m \in Nat
          BY <2>2, <2>7, <3>2, <4>1, SourceLines
        <5>2. pLastInst # 0 => \A k \in InstLines : k <= pLastInst
          BY DEF IInv, LastIsKept
        <5> QED
          BY <3>1, <4>1, <5>1, <5>2
      <4>4. code'[l] = code[l]
        BY <2>14, <3>2, <4>3
      <4>5. place'[l] = place[l] /\ place'[m] = place[m]
        BY <2>7, <2>11, <3>2, <3>4, <4>1
      <4>6. place[l].pos + GetNext(code[l].next) = place[m].pos
        BY <3>2, <4>1, <4>2 DEF IInv, ChainFollowsSource
      <4> QED
        BY <4>4, <4>5, <4>6
    <3> QED
      BY <3>3, <3>4
  <2>18. line' \in 1..(Len(source) + 1) /\ line \in Lines /\ 0 \notin Lines
    BY <2>1, <2>2, SourceLines
  <2>19. ImportsOK'
    BY <2>1, <2>2, SourceLines DEF IInv, ImportsOK
  <2>20. iImports' \in 0..Len(source)
    BY <2>1, <2>2, <2>18, <2>19, SourceLines DEF ImportsOK
  <2>21. pLastInst' \in Lines \cup {0}
    BY <2>1
  <2>22. TypeOK'
    BY <2>1, <2>2, <2>6, <2>10, <2>12, <2>18, <2>20, <2>21 DEF TypeOK, Lines
  <2>23. IsList(vecSymbols)'
    BY <2>1 DEF IsList
  <2> QED
    BY <2>9, <2>13, <2>15, <2>16, <2>17, <2>19, <2>22, <2>23 DEF IInv
<1> QED
  BY <1>1, <1>2
----------------------------------------------------------------------------
(* The actions *)

\* An instruction that is made holds a next offset.
LEMMA MakesNext ==
    \A op, a, b, next : /\ "next" \in DOMAIN Make2(op, a, b, next)
                        /\ "next" \in DOMAIN Make1(op, a, next)
                        /\ "next" \in DOMAIN Make0(op, next)
BY DEF Make2, Make1, Make0

\* Reads of some mnemonics is a line of the source in hand.
LEMMA ReadsLine ==
    ASSUME TypeOK, NEW ops, Reads(ops)
    PROVE  phase = "read" /\ line \in Lines /\ Current.op \in ops
BY SourceLines DEF Reads

\* An instruction that keeps the chain.
LEMMA PlainStep ==
    ASSUME IInv, NEW ops, Reads(ops), "ret" \notin ops,
           NEW argc \in 0..2, NEW instr, "next" \in DOMAIN instr,
           NEW symbols, IsList(symbols), AssemblePlain(argc, instr, symbols)
    PROVE  IInv'
<1>1. phase = "read" /\ line \in Lines /\ Current.op # "ret"
  BY ReadsLine DEF IInv
<1>2. Assemble(argc, instr, symbols, line, vecIAT, iImports)
  BY DEF AssemblePlain
<1> QED
  BY <1>1, <1>2, AssembleStep

\* The value of dv takes a number of bytes.
LEMMA ArgSize ==
    ASSUME IInv, line \in Lines
    PROVE  /\ Args \in Nat /\ (Args > 1 => Arg(2).size \in Nat)
           /\ IntSize \in Nat /\ (Args > 1 => IntSize * (Args - 1) \in Nat)
<1>1. source \in Programs
  BY DEF IInv, TypeOK
<1>2. /\ Len(Current.args) \in Nat /\ DOMAIN Current.args = 1..Len(Current.args)
      /\ \A k \in DOMAIN Current.args : Current.args[k].size \in Nat
  BY <1>1, ProgramsAssumption DEF Current, Lines
<1>3. Args \in Nat /\ (Args > 1 => Arg(2).size \in Nat)
  BY <1>2 DEF Args, Arg
<1>4. IntSize \in Nat /\ \A a, b \in Nat : a * b \in Nat
  BY SizesAssumption
<1>5. Args > 1 => Args - 1 \in Nat
  BY <1>3
<1> QED
  BY <1>3, <1>4, <1>5

\* dv keeps the invariant.
LEMMA DefineVariableStep == ASSUME IInv, DefineVariable PROVE IInv'
<1>1. phase = "read" /\ line \in Lines
  BY ReadsLine DEF DefineVariable, IInv
<1>2. CASE Args = 0 /\ Undefined
  BY <1>2, UndefinedStep
<1>3. CASE NameProblem(2) # "none" /\ Refuse(NameProblem(2))
  BY <1>3, RefuseStep
<1>4. ASSUME Args > 1,
             CASE Exists(Registered, Arg(1).text, SYM_VAR) -> Refuse("exists")
               [] OTHER ->
                    CASE Arg(2).num # None -> Allocate(IntSize, "none")
                      [] Arg(2).str = "unterminated" -> Refuse("string")
                      [] Arg(2).str = "escape" -> Allocate(Arg(2).size, "escape")
                      [] Arg(2).str = "ok" -> Allocate(Arg(2).size, "none")
                      [] OTHER ->
                           Allocate(IntSize, IF Exists(Registered, Arg(2).text, AnyType)
                                             THEN "none" ELSE "does not exist")
      PROVE  IInv'
  <2>1. \/ \E why : Refuse(why)
        \/ \E problem : Allocate(IntSize, problem)
        \/ \E problem : Allocate(Arg(2).size, problem)
    BY <1>4, Zenon
  <2> QED
    BY <1>1, <1>4, <2>1, ArgSize, RefuseStep, AllocateStep
<1> QED
  BY <1>2, <1>3, <1>4 DEF DefineVariable

\* da keeps the invariant.
LEMMA DefineArrayStep == ASSUME IInv, DefineArray PROVE IInv'
<1>1. phase = "read" /\ line \in Lines
  BY ReadsLine DEF DefineArray, IInv
<1>2. CASE Args = 0 /\ Undefined
  BY <1>2, UndefinedStep
<1>3. CASE NameProblem(2) # "none" /\ Refuse(NameProblem(2))
  BY <1>3, RefuseStep
<1>4. ASSUME Args > 1,
             CASE Exists(Registered, Arg(1).text, SYM_VAR) -> Refuse("exists")
               [] ~Exists(Registered, Arg(1).text, SYM_VAR)
                    /\ \E k \in 2..Args : Arg(k).num = None -> Refuse("does not exist")
               [] OTHER -> Allocate(IntSize * (Args - 1), "none")
      PROVE  IInv'
  <2>1. (\E why : Refuse(why)) \/ \E problem : Allocate(IntSize * (Args - 1), problem)
    BY <1>4, Zenon
  <2> QED
    BY <1>1, <1>4, <2>1, ArgSize, RefuseStep, AllocateStep
<1> QED
  BY <1>2, <1>3, <1>4 DEF DefineArray

\* proc keeps the invariant.
LEMMA ProcStep == ASSUME IInv, Proc PROVE IInv'
<1> DEFINE longer == Append(Registered, Symbol(Arg(1).text, SYM_FUNC, 0))
<1>1. line \in Lines
  BY ReadsLine DEF Proc, IInv
<1>2. CASE Args = 0 /\ Undefined
  BY <1>2, UndefinedStep
<1>3. CASE \E why : Refuse(why)
  BY <1>3, RefuseStep
<1>4. CASE Skip(longer, TRUE, 0)
  <2>1. IsList(longer)
    BY RegisteredList, ListAppend DEF IInv
  <2> QED
    BY <1>1, <1>4, <2>1, SkipStep
<1> QED
  BY <1>2, <1>3, <1>4 DEF Proc

\* lbl keeps the invariant: the pending label is one of the symbols.
LEMMA LblStep == ASSUME IInv, Lbl PROVE IInv'
<1> DEFINE name == Arg(1).text
           longer == Append(Registered, Symbol(name, SYM_LBL, 0))
<1>1. line \in Lines
  BY ReadsLine DEF Lbl, IInv
<1>2. IsList(Registered) /\ DOMAIN Registered = DOMAIN vecSymbols /\ Len(Registered) = Len(vecSymbols)
  BY RegisteredList, ListDomain DEF IInv
<1>3. CASE Args = 0 /\ Undefined
  BY <1>3, UndefinedStep
<1>4. CASE \E why : Refuse(why)
  BY <1>4, RefuseStep
<1>5. CASE Exists(Registered, name, SYM_LBL)
           /\ Skip(Registered, FALSE, FindSymbol(Registered, name, SYM_LBL))
  <2>1. FindSymbol(Registered, name, SYM_LBL) \in DOMAIN Registered
    BY <1>2, <1>5, FindSymbolFinds
  <2> QED
    BY <1>1, <1>2, <1>5, <2>1, SkipStep
<1>6. CASE Skip(longer, FALSE, Len(vecSymbols) + 1)
  <2>1. IsList(longer) /\ DOMAIN longer = 1..(Len(vecSymbols) + 1)
    BY <1>2, ListAppend
  <2>2. Len(vecSymbols) \in Nat
    BY ListDomain DEF IInv
  <2>3. Len(vecSymbols) + 1 \in DOMAIN longer
    BY <2>1, <2>2
  <2> QED
    BY <1>1, <1>6, <2>1, <2>3, SkipStep
<1> QED
  BY <1>3, <1>4, <1>5, <1>6 DEF Lbl

\* Comments, empty lines and jle keep the invariant.
LEMMA PlainLineStep == ASSUME IInv, Comment \/ Dropped PROVE IInv'
<1>1. IsList(Registered) /\ IsList(vecSymbols)
  BY RegisteredList DEF IInv
<1>2. line \in Lines
  <2>1. line \in Nat \ {0} /\ Len(source) \in Nat /\ Lines = 1..Len(source)
    BY SourceLines DEF IInv
  <2>2. line <= Len(source)
    BY DEF Comment, Dropped, Reads
  <2> QED
    BY <2>1, <2>2
<1>3. CASE Comment
  BY <1>1, <1>2, <1>3, SkipStep DEF Comment
<1>4. CASE Dropped
  <2>1. bFirst \in BOOLEAN /\ iLabel \in DOMAIN vecSymbols \cup {0}
    BY DEF IInv, TypeOK
  <2> QED
    BY <1>1, <1>2, <1>4, <2>1, SkipStep DEF Dropped
<1> QED
  BY <1>3, <1>4

\* nop keeps the invariant.
LEMMA NopStep == ASSUME IInv, Nop PROVE IInv'
<1>1. IsList(Registered)
  BY RegisteredList DEF IInv
<1> QED
  BY <1>1, MakesNext, PlainStep DEF Nop

\* ret keeps the invariant, although nothing is chained behind it.
LEMMA RetStep == ASSUME IInv, Ret PROVE IInv'
<1>1. IsList(Registered)
  BY RegisteredList DEF IInv
<1>2. phase = "read" /\ line \in Lines /\ Current.op = "ret"
  BY ReadsLine DEF Ret, IInv
<1>3. Assemble(0, Make0("ret", SetNext(0)), Registered, 0, vecIAT, iImports)
  BY DEF Ret
<1> QED
  BY <1>1, <1>2, <1>3, MakesNext, AssembleStep

\* call and crth keep the invariant.
LEMMA CallOrCrthStep == ASSUME IInv, CallOrCrth PROVE IInv'
<1>1. IsList(Registered)
  BY RegisteredList DEF IInv
<1>2. Reads({"call", "crth"}) /\ "ret" \notin {"call", "crth"}
  BY DEF CallOrCrth
<1>3. CASE Refuse("arguments")
  BY <1>3, RefuseStep
<1>4. CASE Undefined
  BY <1>4, UndefinedStep
<1>5. CASE AssemblePlain(1, Make1(Current.op, Register(Arg(1), Arg(1).tail), SetNext(0)), Registered)
  BY <1>1, <1>2, <1>5, MakesNext, PlainStep
<1>6. CASE AssemblePlain(1, Make1(Current.op, Constant(Arg(1), 0), SetNext(0)),
                         Linked(Registered, FindSymbol(Registered, Arg(1).text, SYM_FUNC),
                                SymLink(0, FALSE)))
  <2> DEFINE symbols == Linked(Registered, FindSymbol(Registered, Arg(1).text, SYM_FUNC),
                               SymLink(0, FALSE))
             instr == Make1(Current.op, Constant(Arg(1), 0), SetNext(0))
  <2>1. IsList(symbols) /\ "next" \in DOMAIN instr
    BY <1>1, LinkedList, MakesNext
  <2>2. AssemblePlain(1, instr, symbols)
    BY <1>6
  <2> HIDE DEF symbols, instr
  <2> QED
    BY <1>2, <2>1, <2>2, PlainStep
<1> QED
  BY <1>3, <1>4, <1>5, <1>6 DEF CallOrCrth

\* natv keeps the invariant, with a new import or without.
LEMMA NatvStep == ASSUME IInv, Natv PROVE IInv'
<1>1. IsList(Registered)
  BY RegisteredList DEF IInv
<1>2. phase = "read" /\ line \in Lines /\ Current.op = "natv"
  BY ReadsLine DEF Natv, IInv
<1>3. CASE Refuse("arguments") \/ Refuse("convention")
  BY <1>3, RefuseStep
<1>4. ASSUME NEW instr, "next" \in DOMAIN instr, NEW iat, NEW imports \in {iImports, iImports + 1},
             Assemble(1, instr, Registered, line, iat, imports)
      PROVE  IInv'
  BY <1>1, <1>2, <1>4, AssembleStep
<1>5. \/ Refuse("arguments") \/ Refuse("convention")
      \/ \E operand, iat : Assemble(1, Make1("natv", operand, SetNext(0)), Registered, line,
                                    iat, iImports + 1)
      \/ \E operand : AssemblePlain(1, Make1("natv", operand, SetNext(0)), Registered)
  BY Zenon DEF Natv
<1>6. \A operand : "next" \in DOMAIN Make1("natv", operand, SetNext(0))
  BY MakesNext
<1> QED
  BY <1>3, <1>4, <1>5, <1>6 DEF AssemblePlain

\* pop keeps the invariant.
LEMMA PopStep == ASSUME IInv, Pop PROVE IInv'
<1>1. IsList(Registered)
  BY RegisteredList DEF IInv
<1>2. CASE \E why : Refuse(why)
  BY <1>2, RefuseStep
<1>3. CASE AssemblePlain(1, Make1("pop", [reg |-> TRUE, deref |-> FALSE, val |-> PopTail(Arg(1)) % 8],
                                  SetNext(0)), Registered)
  BY <1>1, <1>3, MakesNext, PlainStep DEF Pop
<1> QED
  BY <1>2, <1>3 DEF Pop

\* push keeps the invariant.
LEMMA PushStep == ASSUME IInv, Push PROVE IInv'
<1>1. IsList(Registered)
  BY RegisteredList DEF IInv
<1>2. CASE \E why : Refuse(why)
  BY <1>2, RefuseStep
<1>3. CASE \E operand : AssemblePlain(1, Make1("push", operand, SetNext(0)), Registered)
  BY <1>1, <1>3, MakesNext, PlainStep DEF Push
<1> QED
  BY <1>2, <1>3 DEF Push

\* The jumps keep the invariant, with the symbol they may add.
LEMMA JumpStep == ASSUME IInv, Jump PROVE IInv'
<1>1. IsList(Registered) /\ IsList(vecSymbols)
  BY RegisteredList DEF IInv
<1>2. Reads(JumpOps) /\ "ret" \notin JumpOps
  BY DEF Jump, JumpOps
<1>3. CASE \E why : Refuse(why)
  BY <1>3, RefuseStep
<1>4. CASE \E operand : AssemblePlain(1, Make1(Current.op, operand, SetNext(0)), Registered)
  BY <1>1, <1>2, <1>4, MakesNext, PlainStep
<1>5. CASE JumpToName(Arg(1))
  <2>1. \E symbols, i, link, operand :
           /\ IsList(symbols)
           /\ AssemblePlain(1, Make1(Current.op, operand, SetNext(0)), Linked(symbols, i, link))
    <3>1. IsList(Append(Registered, Symbol(Arg(1).text, SYM_LBL, 0)))
      BY <1>1, ListAppend
    <3> QED
      BY <1>1, <1>5, <3>1, Zenon DEF JumpToName
  <2>2. PICK symbols, i, link, operand :
           /\ IsList(symbols)
           /\ AssemblePlain(1, Make1(Current.op, operand, SetNext(0)), Linked(symbols, i, link))
    BY <2>1
  <2>3. IsList(Linked(symbols, i, link))
    BY <2>2, LinkedList
  <2> QED
    BY <1>2, <2>2, <2>3, MakesNext, PlainStep
<1> QED
  BY <1>3, <1>4, <1>5 DEF Jump

\* Instructions with two operands keep the invariant.
LEMMA TwoOperandStep == ASSUME IInv, TwoOperand PROVE IInv'
<1>1. \A t, argNum, symbols : IsList(symbols) => IsList(WithLink(symbols, t, argNum))
  BY LinkedList DEF WithLink
<1>2. IsList(WithLink(WithLink(Registered, Arg(1), 0), Arg(2), 1))
  BY <1>1, RegisteredList DEF IInv
<1>3. CASE \E why : Refuse(why)
  BY <1>3, RefuseStep
<1>4. CASE \E a, b : AssemblePlain(2, Make2(Current.op, a, b, SetNext(0)),
                                   WithLink(WithLink(Registered, Arg(1), 0), Arg(2), 1))
  <2>1. "ret" \notin TwoOps
    BY OpsAssumption DEF OtherWords
  <2>2. Reads(TwoOps)
    BY DEF TwoOperand
  <2> QED
    BY <1>2, <1>4, <2>1, <2>2, MakesNext, PlainStep
<1> QED
  BY <1>3, <1>4, Zenon DEF TwoOperand

\* The links go to the constants, not to the offsets of the next instructions.
LEMMA WriteImageStep == ASSUME IInv, WriteImage PROVE IInv'
<1>1. /\ UNCHANGED <<source, line, pStart, arUsed, arMemory, place, vecSymbols, pLastInst,
                     bFirst, iLabel, iImports>>
      /\ phase' = "written"
      /\ code' = [l \in DOMAIN code |->
                   [code[l] EXCEPT !.arg0 = Patched(l, 0, @), !.arg1 = Patched(l, 1, @)]]
  BY DEF WriteImage
<1>2. Lines' = Lines /\ InstLines' = InstLines /\ VarLines' = VarLines
  BY <1>1 DEF Lines, InstLines, VarLines
<1>3. DOMAIN code = Lines /\ \A l \in Lines : "next" \in DOMAIN code[l]
  BY DEF IInv, CodeOK
<1>4. DOMAIN code' = Lines /\ \A l \in Lines : "next" \in DOMAIN code'[l] /\ code'[l].next = code[l].next
  BY <1>1, <1>3
<1>5. TypeOK' /\ CodeOK'
  BY <1>1, <1>2, <1>4 DEF IInv, TypeOK, CodeOK, Lines
<1>6. IsList(vecSymbols)' /\ ImportsOK' /\ Unplaced' /\ Marked' /\ WaitingPlaceIsFree' /\ LastIsKept'
  BY <1>1, <1>2 DEF IInv, IsList, ImportsOK, Unplaced, Marked, WaitingPlaceIsFree, Settled, LastIsKept, Bytes
<1>7. InstructionsKept' /\ OnlyWaitingPlaceIsLost'
  BY <1>1, <1>2 DEF IInv, InstructionsKept, OnlyWaitingPlaceIsLost, Bytes, IsNextInst
<1>8. ChainFollowsSource'
  <2>1. InstLines \subseteq Lines
    BY DEF InstLines
  <2> QED
    BY <1>1, <1>2, <1>4, <2>1 DEF IInv, ChainFollowsSource, IsNextInst
<1> QED
  BY <1>5, <1>6, <1>7, <1>8 DEF IInv
----------------------------------------------------------------------------
(* The theorems *)

\* The invariant holds before the first line.
LEMMA InitIInv == Init => IInv
<1> SUFFICES ASSUME Init PROVE IInv
  OBVIOUS
<1>1. /\ source \in Programs /\ phase = "read" /\ line = 1 /\ pStart \in Addresses
      /\ arUsed = {} /\ arMemory = [a \in Addresses |-> 0]
      /\ place = [l \in 1..Len(source) |-> Nothing]
      /\ code = [l \in 1..Len(source) |-> NoCode]
      /\ vecSymbols = <<>> /\ pLastInst = 0 /\ bFirst = FALSE /\ iLabel = 0 /\ iImports = 0
  BY DEF Init
<1>2. Len(source) \in Nat /\ Lines = 1..Len(source)
  BY <1>1, ProgramsAssumption DEF Lines
<1>3. \A l \in Lines : place[l] = Nothing /\ code[l] = NoCode
  BY <1>1, <1>2
<1>4. InstLines = {} /\ VarLines = {}
  BY <1>3 DEF Nothing, InstLines, VarLines
<1>5. Nothing \in [kind : {"none", "inst", "var"}, pos : Addresses, size : 0..MemSize]
  BY InstSizes DEF Nothing, Addresses
<1>6. TypeOK
  <2>1. arMemory \in [Addresses -> Lines \cup {0}] /\ pLastInst \in Lines \cup {0}
    BY <1>1
  <2>2. place \in [Lines -> [kind : {"none", "inst", "var"}, pos : Addresses, size : 0..MemSize]]
    BY <1>1, <1>2, <1>5
  <2>3. line \in 1..(Len(source) + 1) /\ iImports \in 0..Len(source)
    BY <1>1, <1>2
  <2> QED
    BY <1>1, <2>1, <2>2, <2>3 DEF TypeOK
<1>7. IsList(vecSymbols)
  <2>1. vecSymbols \in Seq({}) /\ Len(vecSymbols) = 0
    BY <1>1
  <2>2. vecSymbols \in [1..0 -> {vecSymbols[i] : i \in DOMAIN vecSymbols}]
    BY <1>1
  <2> QED
    BY <2>2 DEF IsList
<1>8. CodeOK
  BY <1>1, <1>2, <1>3, MakesNext DEF CodeOK, NoCode
<1>9. ImportsOK /\ Unplaced /\ Marked /\ WaitingPlaceIsFree /\ LastIsKept
  <2>1. ImportsOK /\ Unplaced
    <3>1. iImports = 0 /\ line = 1
      BY <1>1
    <3> QED
      BY <1>3, <3>1 DEF ImportsOK, Unplaced
  <2>2. Marked /\ LastIsKept
    BY <1>1, <1>4 DEF Marked, LastIsKept
  <2>3. WaitingPlaceIsFree
    BY <1>4 DEF WaitingPlaceIsFree, Settled
  <2> QED
    BY <2>1, <2>2, <2>3
<1>10. InstructionsKept /\ OnlyWaitingPlaceIsLost /\ ChainFollowsSource
  BY <1>4 DEF InstructionsKept, OnlyWaitingPlaceIsLost, ChainFollowsSource
<1> QED
  BY <1>6, <1>7, <1>8, <1>9, <1>10 DEF IInv

\* A step in which nothing changes.
LEMMA StutterStep == ASSUME IInv, UNCHANGED vars PROVE IInv'
<1>1. Lines' = Lines /\ InstLines' = InstLines /\ VarLines' = VarLines
  BY DEF vars, Lines, InstLines, VarLines
<1>2. TypeOK' /\ CodeOK' /\ IsList(vecSymbols)'
  BY <1>1 DEF vars, IInv, TypeOK, CodeOK, IsList, Lines
<1>3. ImportsOK' /\ Unplaced' /\ Marked' /\ WaitingPlaceIsFree' /\ LastIsKept'
  BY <1>1 DEF vars, IInv, ImportsOK, Unplaced, Marked, WaitingPlaceIsFree, Settled, LastIsKept, Bytes
<1>4. InstructionsKept' /\ OnlyWaitingPlaceIsLost' /\ ChainFollowsSource'
  BY <1>1 DEF vars, IInv, InstructionsKept, OnlyWaitingPlaceIsLost, ChainFollowsSource, Bytes, IsNextInst
<1> QED
  BY <1>2, <1>3, <1>4 DEF IInv

\* Every step of Compile keeps the invariant.
LEMMA NextIInv == IInv /\ [Next]_vars => IInv'
<1> SUFFICES ASSUME IInv, [Next]_vars PROVE IInv'
  OBVIOUS
<1>1. CASE WriteInstruction
  BY <1>1, DefineVariableStep, DefineArrayStep, ProcStep, LblStep, PlainLineStep, NopStep, RetStep,
     CallOrCrthStep, NatvStep, PopStep, PushStep, JumpStep, TwoOperandStep DEF WriteInstruction
<1>2. CASE WriteImage
  BY <1>2, WriteImageStep
<1>3. CASE Exited \/ UNCHANGED vars
  BY <1>3, StutterStep DEF Exited
<1> QED
  BY <1>1, <1>2, <1>3 DEF Next

\* The strengthening of all the invariants below.
THEOREM InductiveInvariant == Spec => []IInv
<1> QED
  BY InitIInv, NextIInv, PTL DEF Spec

\* The assembler's variables keep their types; the pending label is a symbol.
\* This does not say that Compile writes inside of arMemory: where it writes
\* outside, the model's run ends in phase "undefined" with everything as it is.
THEOREM TypeCorrect == Spec => []TypeOK
<1>1. IInv => TypeOK
  BY DEF IInv
<1> QED
  BY <1>1, InductiveInvariant, PTL

\* No instruction is overwritten, although MakeInstruction does not look at
\* arUsed and the place it writes to is not marked while it waits.
THEOREM NoInstructionIsOverwritten == Spec => []InstructionsKept
<1>1. IInv => InstructionsKept
  BY DEF IInv
<1> QED
  BY <1>1, InductiveInvariant, PTL

\* A variable loses bytes to the instruction that follows it and to nothing
\* else.
THEOREM VariablesLoseToNextOnly == Spec => []OnlyWaitingPlaceIsLost
<1>1. IInv => OnlyWaitingPlaceIsLost
  BY DEF IInv
<1> QED
  BY <1>1, InductiveInvariant, PTL

\* However the instructions are scattered, the chain of their offsets is the
\* order of the source.
THEOREM InstructionsAreChained == Spec => []ChainFollowsSource
<1>1. IInv => ChainFollowsSource
  BY DEF IInv
<1> QED
  BY <1>1, InductiveInvariant, PTL
----------------------------------------------------------------------------
(* How full memory is when no place is found *)

\* The places where a block of this size fits between what is used.
RoomFor(size) == {pos \in 0..Last(size) : ValidLocation(arUsed, pos, size)}

\* pStart is -1, which MakeInstruction takes for an address (in front of
\* arMemory), only when at most two places have room for the largest
\* instruction, which the search may skip: it never overlooks more, from
\* wherever rand() has it start.
NoPlaceMeansFull == pStart = -1 => \E a, b \in Int : RoomFor(InstSize(2)) \subseteq {a, b}

\* A remainder of something less than twice the divisor.
LEMMA WrapsOnce ==
    ASSUME NEW n \in Nat \ {0}, NEW pos \in 0..(n - 1)
    PROVE  pos % n = pos /\ (pos + n) % n = pos
BY SMT

\* Every place but two at most is visited, wherever the search begins.
LEMMA FewPlacesMissed ==
    ASSUME NEW size \in Nat, size <= MemSize, NEW start \in Addresses
    PROVE  \E a, b \in Int : \A pos \in 0..Last(size) :
              pos \notin {a, b} => \E k \in 0..(Last(size) - 1) : Visit(start, size, k) = pos
<1> DEFINE n == Last(size) + 1
<1>1. Last(size) \in Nat /\ n \in Nat \ {0} /\ start \in Nat
  BY InstSizes DEF Last, Addresses
<1>2. CASE start <= Last(size)
  <2>1. PICK a \in Int : a = IF start = 0 THEN Last(size) ELSE start - 1
    BY <1>1
  <2>2. ASSUME NEW pos \in 0..Last(size), pos # a
        PROVE  \E k \in 0..(Last(size) - 1) : Visit(start, size, k) = pos
    <3>1. pos % n = pos /\ (pos + n) % n = pos
      <4>1. PICK m : m = n
        OBVIOUS
      <4>2. m \in Nat \ {0} /\ pos \in 0..(m - 1)
        BY <1>1, <4>1
      <4> QED
        BY <4>1, <4>2, WrapsOnce, Zenon
    <3>2. CASE start <= pos
      <4>1. PICK k : k = pos - start
        OBVIOUS
      <4>2. k \in 0..(Last(size) - 1) /\ start + k = pos
        BY <1>1, <2>1, <2>2, <3>2, <4>1
      <4> QED
        BY <1>2, <3>1, <4>2 DEF Visit
    <3>3. CASE pos < start
      <4>1. PICK k : k = pos - start + n
        OBVIOUS
      <4>2. k \in 0..(Last(size) - 1) /\ start + k = pos + n
        BY <1>1, <1>2, <2>1, <2>2, <3>3, <4>1
      <4> QED
        BY <1>2, <3>1, <4>2 DEF Visit
    <3> QED
      BY <1>1, <3>2, <3>3
  <2> QED
    BY <2>2
<1>3. CASE Last(size) < start
  <2>1. ASSUME NEW pos \in 0..Last(size), pos # Last(size) - 1, pos # Last(size)
        PROVE  \E k \in 0..(Last(size) - 1) : Visit(start, size, k) = pos
    <3>1. PICK k : k = pos + 1
      OBVIOUS
    <3>2. k \in 1..(Last(size) - 1) /\ k # 0 /\ k - 1 = pos /\ ~(start <= Last(size))
      BY <1>1, <1>3, <2>1, <3>1
    <3> QED
      BY <3>2 DEF Visit
  <2>2. Last(size) - 1 \in Int /\ Last(size) \in Int
    BY <1>1
  <2> QED
    BY <2>1, <2>2
<1> QED
  BY <1>1, <1>2, <1>3

\* A search that finds nothing has looked at all the others.
LEMMA FailureMeansFull ==
    ASSUME NEW used, NEW size \in Nat, size <= MemSize, MayFail(used, size)
    PROVE  \E a, b \in Int : {pos \in 0..Last(size) : ValidLocation(used, pos, size)} \subseteq {a, b}
<1>1. PICK start \in Addresses : \A k \in 0..(Last(size) - 1) :
        Visit(start, size, k) > Last(size) \/ ~ValidLocation(used, Visit(start, size, k), size)
  BY DEF MayFail
<1>2. PICK a \in Int, b \in Int : \A pos \in 0..Last(size) :
        pos \notin {a, b} => \E k \in 0..(Last(size) - 1) : Visit(start, size, k) = pos
  BY FewPlacesMissed
<1>3. ASSUME NEW pos \in 0..Last(size), ValidLocation(used, pos, size), pos \notin {a, b} PROVE FALSE
  <2>1. PICK k \in 0..(Last(size) - 1) : Visit(start, size, k) = pos
    BY <1>2, <1>3
  <2>2. ~(pos > Last(size))
    BY InstSizes DEF Last
  <2> QED
    BY <1>1, <1>3, <2>1, <2>2
<1> QED
  BY <1>3

\* Marks are never taken back, and pStart is drawn behind the marks.
KeepsMarks ==
    /\ arUsed \subseteq arUsed'
    /\ pStart' = pStart \/ pStart' \in FindNewLocation(arUsed', InstSize(2))

LEMMA StopsKeepMarks == ASSUME NEW why, Refuse(why) \/ Undefined PROVE KeepsMarks
BY DEF Refuse, Undefined, KeepsMarks

LEMMA SkipKeepsMarks ==
    ASSUME NEW symbols, NEW first, NEW label, Skip(symbols, first, label) PROVE KeepsMarks
BY DEF Skip, KeepsMarks

LEMMA AllocateKeepsMarks == ASSUME NEW size, NEW problem, Allocate(size, problem) PROVE KeepsMarks
<1>1. ASSUME NEW pos, Occupy("var", pos, size), UNCHANGED pStart PROVE KeepsMarks
  BY <1>1 DEF Occupy, KeepsMarks
<1> QED
  BY <1>1, StopsKeepMarks, Zenon DEF Allocate

LEMMA AssembleKeepsMarks ==
    ASSUME NEW argc, NEW instr, NEW symbols, NEW last, NEW iat, NEW imports,
           Assemble(argc, instr, symbols, last, iat, imports)
    PROVE  KeepsMarks
<1>1. CASE Undefined
  BY <1>1, StopsKeepMarks
<1>2. CASE Occupy("inst", pStart, InstSize(argc)) /\ pStart' \in FindNewLocation(arUsed', InstSize(2))
  BY <1>2 DEF Occupy, KeepsMarks
<1> QED
  BY <1>1, <1>2 DEF Assemble

LEMMA LineKeepsMarks == ASSUME WriteInstruction PROVE KeepsMarks
<1> USE StopsKeepMarks, SkipKeepsMarks, AllocateKeepsMarks, AssembleKeepsMarks
<1>1. CASE DefineVariable
  BY <1>1, Zenon DEF DefineVariable
<1>2. CASE DefineArray
  BY <1>2, Zenon DEF DefineArray
<1>3. CASE Proc \/ Lbl \/ Comment \/ Dropped
  BY <1>3, Zenon DEF Proc, Lbl, Comment, Dropped
<1>4. CASE Nop \/ Ret \/ CallOrCrth
  BY <1>4, Zenon DEF Nop, Ret, CallOrCrth, AssemblePlain
<1>5. CASE Natv
  BY <1>5, Zenon DEF Natv, AssemblePlain
<1>6. CASE Pop \/ Push
  BY <1>6, Zenon DEF Pop, Push, AssemblePlain
<1>7. CASE Jump
  BY <1>7, Zenon DEF Jump, JumpToName, AssemblePlain
<1>8. CASE TwoOperand
  BY <1>8, Zenon DEF TwoOperand, AssemblePlain
<1> QED
  BY <1>1, <1>2, <1>3, <1>4, <1>5, <1>6, <1>7, <1>8 DEF WriteInstruction

\* However the source and the draws fall, the next instruction has no place only
\* when memory is as good as full.
THEOREM NoPlaceOnlyWhenFull == Spec => []NoPlaceMeansFull
<1>1. InstSize(2) \in Nat /\ InstSize(2) <= MemSize /\ -1 \notin Addresses
  BY InstSizes DEF Addresses
<1>2. Init => NoPlaceMeansFull
  BY <1>1 DEF Init, NoPlaceMeansFull
<1>3. NoPlaceMeansFull /\ [Next]_vars => NoPlaceMeansFull'
  <2> SUFFICES ASSUME NoPlaceMeansFull, KeepsMarks, pStart' = -1
               PROVE  \E a, b \in Int : RoomFor(InstSize(2))' \subseteq {a, b}
    <3>1. [Next]_vars => KeepsMarks
      BY LineKeepsMarks DEF Next, WriteImage, Exited, vars, KeepsMarks
    <3> QED
      BY <3>1 DEF NoPlaceMeansFull
  <2>1. RoomFor(InstSize(2))' \subseteq RoomFor(InstSize(2))
    BY DEF RoomFor, ValidLocation, KeepsMarks, InstSize, Last
  <2>2. CASE pStart = -1
    BY <2>1, <2>2 DEF NoPlaceMeansFull
  <2>3. CASE pStart' \in FindNewLocation(arUsed', InstSize(2))
    <3>1. MayFail(arUsed', InstSize(2))
      BY <1>1, <2>3 DEF FindNewLocation
    <3>2. \E a, b \in Int :
            {pos \in 0..Last(InstSize(2)) : ValidLocation(arUsed', pos, InstSize(2))} \subseteq {a, b}
      BY <1>1, <3>1, FailureMeansFull
    <3> QED
      BY <3>2 DEF RoomFor, ValidLocation, InstSize, Last
  <2> QED
    BY <2>2, <2>3 DEF KeepsMarks
<1> QED
  BY <1>2, <1>3, PTL DEF Spec
----------------------------------------------------------------------------
(* Symbols: that the compiler resolves what the operands refer to, and     *)
(* finds the entry.                                                        *)
(*                                                                         *)
(* SymInv relates the symbols to the lines that declare them and to the    *)
(* instructions that refer to them.  A symbol that is pending has no       *)
(* instruction behind the line that declares it, so that the next one,     *)
(* which goes to pStart, is the one it has to point to; and a symbol that  *)
(* is not pending keeps the position it has.                               *)

\* Nothing has ended the run early.
Going == phase \in {"read", "written"}

Types == {SYM_FUNC, SYM_VAR, SYM_LBL}
DeclOps(type) ==
    IF type = SYM_VAR THEN {"dv", "da"} ELSE IF type = SYM_FUNC THEN {"proc"} ELSE {"lbl"}

\* Line d declares name, and no line below it that has been read does.
Declares(d, name, type) ==
    /\ source[d].op \in DeclOps(type)
    /\ 1 \in DOMAIN source[d].args
    /\ source[d].args[1].text = name
Latest(d, name, type) == \A e \in Lines : d < e /\ e < line => ~Declares(e, name, type)

\* The symbols that the next line places at pStart.
Pending(i) == (bFirst /\ i = Len(vecSymbols)) \/ i = iLabel
NoneBehind(d) == \A m \in InstLines : ~(d < m)

IsSymbol(s) ==
    /\ s = [name |-> s.name, type |-> s.type, pos |-> s.pos, links |-> s.links]
    /\ s.type \in Types
SymbolsOK == \A i \in DOMAIN vecSymbols : IsSymbol(vecSymbols[i])

\* Symbols and the lines that declare them.
Unique ==
    \A i, j \in DOMAIN vecSymbols :
        vecSymbols[i].name = vecSymbols[j].name /\ vecSymbols[i].type = vecSymbols[j].type => i = j
Declared ==
    \A d \in Lines : \A type \in Types :
        d < line /\ source[d].op \in DeclOps(type) =>
            /\ 1 \in DOMAIN source[d].args
            /\ \E i \in DOMAIN vecSymbols :
                  vecSymbols[i].name = source[d].args[1].text /\ vecSymbols[i].type = type
HasLine ==
    \A i \in DOMAIN vecSymbols :
        vecSymbols[i].type # SYM_LBL =>
            \E d \in Lines : d < line /\ Declares(d, vecSymbols[i].name, vecSymbols[i].type)
OneProc ==
    \A d, e \in Lines :
        d < line /\ source[d].op = "proc" /\ e < line /\ source[e].op = "proc" =>
            (source[d].args[1].text = source[e].args[1].text => d = e)

\* Where the symbols are.
Placed ==
    \A d \in Lines : \A i \in DOMAIN vecSymbols :
        LET name == vecSymbols[i].name  type == vecSymbols[i].type
        IN  d < line /\ Declares(d, name, type) /\ Latest(d, name, type) =>
                /\ IsPosition(d, vecSymbols[i].pos)
                /\ type # SYM_VAR /\ NoneBehind(d) => Pending(i) \/ vecSymbols[i].pos = pStart
PendingIsFresh ==
    \A i \in DOMAIN vecSymbols :
        LET name == vecSymbols[i].name  type == vecSymbols[i].type
        IN  Pending(i) =>
                /\ type # SYM_VAR
                /\ \A d \in Lines :
                      d < line /\ Declares(d, name, type) /\ Latest(d, name, type) => NoneBehind(d)

\* Links.
LinksOK ==
    \A i \in DOMAIN vecSymbols : \A link \in vecSymbols[i].links :
        link.inst \in InstLines /\ Slot(link) \in {0, 1}
OneTarget ==
    \A i, j \in DOMAIN vecSymbols : \A a \in vecSymbols[i].links, b \in vecSymbols[j].links :
        a.inst = b.inst /\ Slot(a) = Slot(b) => i = j
RefName(l, k) == IF source[l].op \in TwoOps THEN source[l].args[k].name ELSE source[l].args[k].text
Linking(l, k, i) ==
    /\ \E link \in vecSymbols[i].links : link.inst = l /\ Slot(link) = SlotOf(l, k)
    /\ vecSymbols[i].name = RefName(l, k)
    /\ source[l].op \notin JumpOps => vecSymbols[i].type # SYM_LBL
Targeted ==
    \A l \in InstLines : \A k \in DOMAIN source[l].args :
        Refers(l, k, RefName(l, k)) => \E i \in DOMAIN vecSymbols : Linking(l, k, i)

\* A label that no line declares was made by a jump that found no symbol.
JumpMakes(l, name) ==
    /\ source[l].op \in JumpOps /\ 1 \in DOMAIN source[l].args /\ Refers(l, 1, name)
    /\ \A d \in Lines : \A type \in {SYM_FUNC, SYM_VAR} : d < l => ~Declares(d, name, type)
LabelOrigin ==
    \A i \in DOMAIN vecSymbols :
        vecSymbols[i].type = SYM_LBL =>
            \/ \E d \in Lines : d < line /\ Declares(d, vecSymbols[i].name, SYM_LBL)
            \/ \E l \in InstLines : JumpMakes(l, vecSymbols[i].name)

\* The image.
ImageOK ==
    phase = "written" =>
        /\ line = Len(source) + 1
        /\ \A i \in DOMAIN vecSymbols :
              /\ \A link \in vecSymbols[i].links :
                    ConstantOf(link.inst, Slot(link)) = vecSymbols[i].pos
              /\ vecSymbols[i].name = "main" /\ vecSymbols[i].type = SYM_FUNC =>
                    ulOffMain = vecSymbols[i].pos

CodeShape == \A l \in Lines : {"arg0", "arg1"} \subseteq DOMAIN code[l]

SymbolParts ==
    /\ SymbolsOK /\ Unique /\ Declared /\ HasLine /\ OneProc
    /\ Placed /\ PendingIsFresh
    /\ LinksOK /\ OneTarget /\ Targeted /\ LabelOrigin
    /\ ImageOK /\ CodeShape

SymInv == Going => SymbolParts
----------------------------------------------------------------------------
(* What a line does to the symbols *)

\* A line adds one symbol at most, of a new name or type, and keeps the others:
\* only what is pending goes to pStart.
Grows ==
    /\ line \in Lines /\ line' = line + 1 /\ source' = source
    /\ phase = "read" /\ phase' = "read"
    /\ DOMAIN vecSymbols \subseteq DOMAIN vecSymbols'
    /\ \A i \in DOMAIN vecSymbols :
          /\ vecSymbols'[i].name = vecSymbols[i].name
          /\ vecSymbols'[i].type = vecSymbols[i].type
          /\ vecSymbols[i].links \subseteq vecSymbols'[i].links
          /\ \/ Pending(i) /\ vecSymbols'[i].pos = pStart
             \/ (Pending(i) => Pending(i)') /\ vecSymbols'[i].pos = vecSymbols[i].pos
    /\ \A i \in DOMAIN vecSymbols' : IsSymbol(vecSymbols'[i])
    /\ \A i, j \in DOMAIN vecSymbols' \ DOMAIN vecSymbols : i = j
    /\ \A i \in DOMAIN vecSymbols' \ DOMAIN vecSymbols : \A j \in DOMAIN vecSymbols :
          ~(vecSymbols'[i].name = vecSymbols[j].name /\ vecSymbols'[i].type = vecSymbols[j].type)

\* A declaration has its symbol afterwards, and only a declaration makes one of
\* a procedure or a variable.
DeclarationNames ==
    /\ \A type \in Types : source[line].op \in DeclOps(type) =>
          /\ 1 \in DOMAIN source[line].args
          /\ \E i \in DOMAIN vecSymbols' :
                vecSymbols'[i].name = source[line].args[1].text /\ vecSymbols'[i].type = type
    /\ \A i \in DOMAIN vecSymbols' \ DOMAIN vecSymbols :
          vecSymbols'[i].type # SYM_LBL => Declares(line, vecSymbols'[i].name, vecSymbols'[i].type)
    /\ source[line].op = "proc" =>
          \A i \in DOMAIN vecSymbols :
             ~(vecSymbols[i].name = source[line].args[1].text /\ vecSymbols[i].type = SYM_FUNC)

\* Where a new label comes from.
NewLabelOrigin ==
    \A i \in DOMAIN vecSymbols' \ DOMAIN vecSymbols :
        vecSymbols'[i].type = SYM_LBL =>
            \/ Declares(line, vecSymbols'[i].name, SYM_LBL)
            \/ line \in InstLines' /\ JumpMakes(line, vecSymbols'[i].name)

\* The links are those of before and those of the instruction in the line, of
\* which no two are about the same slot, and each operand has one.
LinkingAfter(l, k, i) ==
    /\ \E link \in vecSymbols'[i].links : link.inst = l /\ Slot(link) = SlotOf(l, k)
    /\ vecSymbols'[i].name = RefName(l, k)
    /\ source[l].op \notin JumpOps => vecSymbols'[i].type # SYM_LBL
NewLinks ==
    /\ \A i \in DOMAIN vecSymbols' : \A link \in vecSymbols'[i].links :
          \/ i \in DOMAIN vecSymbols /\ link \in vecSymbols[i].links
          \/ link.inst = line /\ Slot(link) \in {0, 1} /\ line \in InstLines'
    /\ \A i, j \in DOMAIN vecSymbols' : \A a \in vecSymbols'[i].links, b \in vecSymbols'[j].links :
          a.inst = line /\ b.inst = line /\ Slot(a) = Slot(b) => i = j
    /\ line \in InstLines' =>
          \A k \in DOMAIN source[line].args : Refers(line, k, RefName(line, k)) =>
             \E i \in DOMAIN vecSymbols' : LinkingAfter(line, k, i)

\* Symbols keep their lines.
LEMMA NamesStep ==
    ASSUME TypeOK, SymbolParts, Grows, DeclarationNames
    PROVE  SymbolsOK' /\ Unique' /\ Declared' /\ HasLine' /\ OneProc'
<1>1. /\ Lines' = Lines /\ Lines \subseteq Nat /\ line \in Nat /\ line' = line + 1 /\ line \in Lines
      /\ source' = source
  BY SourceLines DEF Grows, Lines
<1>2. \A d \in Lines : d < line' <=> d < line \/ d = line
  BY <1>1
<1>3. SymbolsOK'
  BY DEF Grows, SymbolsOK
<1>4. Unique'
  <2> SUFFICES ASSUME NEW i \in DOMAIN vecSymbols', NEW j \in DOMAIN vecSymbols',
                      vecSymbols'[i].name = vecSymbols'[j].name,
                      vecSymbols'[i].type = vecSymbols'[j].type
               PROVE  i = j
    BY DEF Unique
  <2> QED
    BY DEF Grows, Unique, SymbolParts
<1>5. Declared'
  <2> SUFFICES ASSUME NEW d \in Lines, NEW type \in Types, d < line', source[d].op \in DeclOps(type)
               PROVE  /\ 1 \in DOMAIN source[d].args
                      /\ \E i \in DOMAIN vecSymbols' :
                            vecSymbols'[i].name = source[d].args[1].text /\ vecSymbols'[i].type = type
    BY <1>1 DEF Declared, Types, DeclOps
  <2>1. CASE d = line
    BY <2>1 DEF DeclarationNames
  <2>2. CASE d < line
    BY <2>2 DEF Grows, Declared, SymbolParts
  <2> QED
    BY <1>2, <2>1, <2>2
<1>6. HasLine'
  <2> SUFFICES ASSUME NEW i \in DOMAIN vecSymbols', vecSymbols'[i].type # SYM_LBL
               PROVE  \E d \in Lines : d < line' /\ Declares(d, vecSymbols'[i].name, vecSymbols'[i].type)
    BY <1>1 DEF HasLine, Declares, DeclOps, SYM_LBL
  <2>1. CASE i \in DOMAIN vecSymbols
    BY <1>2, <2>1 DEF Grows, HasLine, SymbolParts
  <2>2. CASE i \notin DOMAIN vecSymbols
    BY <1>1, <1>2, <2>2 DEF DeclarationNames
  <2> QED
    BY <2>1, <2>2
<1>7. OneProc'
  <2>1. \A d \in Lines : d < line /\ source[d].op = "proc" /\ source[line].op = "proc" =>
           source[d].args[1].text # source[line].args[1].text
    <3> SUFFICES ASSUME NEW d \in Lines, d < line, source[d].op = "proc", source[line].op = "proc"
                 PROVE  source[d].args[1].text # source[line].args[1].text
      OBVIOUS
    <3>1. SYM_FUNC \in Types /\ source[d].op \in DeclOps(SYM_FUNC)
      BY DEF Types, DeclOps, SYM_FUNC, SYM_VAR
    <3>2. \E i \in DOMAIN vecSymbols :
             vecSymbols[i].name = source[d].args[1].text /\ vecSymbols[i].type = SYM_FUNC
      BY <3>1 DEF Declared, SymbolParts
    <3> QED
      BY <3>2 DEF DeclarationNames
  <2> SUFFICES ASSUME NEW d \in Lines, NEW e \in Lines, d < line', e < line',
                      source[d].op = "proc", source[e].op = "proc",
                      source[d].args[1].text = source[e].args[1].text
               PROVE  d = e
    BY <1>1 DEF OneProc
  <2> QED
    BY <1>2, <2>1 DEF OneProc, SymbolParts
<1> QED
  BY <1>3, <1>4, <1>5, <1>6, <1>7

\* Labels keep their origin.
LEMMA OriginStep ==
    ASSUME TypeOK, SymbolParts, Grows, NewLabelOrigin, InstLines \subseteq InstLines'
    PROVE  LabelOrigin'
<1>1. /\ Lines' = Lines /\ Lines \subseteq Nat /\ line \in Nat /\ line' = line + 1 /\ line \in Lines
      /\ source' = source
  BY SourceLines DEF Grows, Lines
<1>2. \A d \in Lines : d < line' <=> d < line \/ d = line
  BY <1>1
<1> SUFFICES ASSUME NEW i \in DOMAIN vecSymbols', vecSymbols'[i].type = SYM_LBL
             PROVE  \/ \E d \in Lines : d < line' /\ Declares(d, vecSymbols'[i].name, SYM_LBL)
                    \/ \E l \in InstLines' : JumpMakes(l, vecSymbols'[i].name)
  BY <1>1 DEF LabelOrigin, JumpMakes, Declares, Refers
<1>3. CASE i \in DOMAIN vecSymbols
  <2>1. vecSymbols'[i].name = vecSymbols[i].name /\ vecSymbols[i].type = SYM_LBL
    BY <1>3 DEF Grows
  <2>2. \/ \E d \in Lines : d < line /\ Declares(d, vecSymbols[i].name, SYM_LBL)
        \/ \E l \in InstLines : JumpMakes(l, vecSymbols[i].name)
    BY <1>3, <2>1 DEF LabelOrigin, JumpMakes, SymbolParts
  <2> QED
    BY <1>2, <2>1, <2>2
<1>4. CASE i \notin DOMAIN vecSymbols
  BY <1>1, <1>2, <1>4 DEF NewLabelOrigin
<1> QED
  BY <1>3, <1>4

\* Links stay, and each operand of a new instruction has one.
LEMMA LinksStep ==
    ASSUME TypeOK, SymbolParts, Grows, NewLinks,
           InstLines \subseteq InstLines', InstLines' \subseteq InstLines \cup {line}, line \notin InstLines
    PROVE  LinksOK' /\ OneTarget' /\ Targeted'
<1>1. Lines' = Lines /\ source' = source
  BY DEF Grows, Lines
<1>2. LinksOK'
  BY DEF LinksOK, NewLinks, SymbolParts
<1>3. OneTarget'
  <2> SUFFICES ASSUME NEW i \in DOMAIN vecSymbols', NEW j \in DOMAIN vecSymbols',
                      NEW a \in vecSymbols'[i].links, NEW b \in vecSymbols'[j].links,
                      a.inst = b.inst, Slot(a) = Slot(b)
               PROVE  i = j
    BY DEF OneTarget, Slot
  <2>1. CASE a.inst = line
    BY <2>1 DEF NewLinks
  <2>2. CASE a.inst # line
    <3>1. i \in DOMAIN vecSymbols /\ a \in vecSymbols[i].links
      BY <2>2 DEF NewLinks
    <3>2. j \in DOMAIN vecSymbols /\ b \in vecSymbols[j].links
      BY <2>2 DEF NewLinks
    <3> QED
      BY <3>1, <3>2 DEF OneTarget, SymbolParts
  <2> QED
    BY <2>1, <2>2
<1>4. Targeted'
  <2>5. \A l, k, i : LinkingAfter(l, k, i) <=> Linking(l, k, i)'
    BY <1>1 DEF LinkingAfter, Linking, RefName, SlotOf, Slot
  <2>3. \A l, k : Refers(l, k, RefName(l, k))' => Refers(l, k, RefName(l, k))
    BY <1>1, SMTT(30) DEF Refers, RefName
  <2>4. \A l : source'[l].args = source[l].args
    BY <1>1
  <2> SUFFICES ASSUME NEW l \in InstLines', NEW k \in DOMAIN source[l].args,
                      Refers(l, k, RefName(l, k))
               PROVE  \E i \in DOMAIN vecSymbols' : LinkingAfter(l, k, i)
    BY <2>3, <2>4, <2>5, Zenon DEF Targeted
  <2>1. CASE l = line
    BY <2>1 DEF NewLinks
  <2>2. CASE l # line
    <3>1. PICK i \in DOMAIN vecSymbols : Linking(l, k, i)
      BY <2>2 DEF Targeted, SymbolParts
    <3>2. i \in DOMAIN vecSymbols' /\ vecSymbols'[i].name = vecSymbols[i].name
          /\ vecSymbols'[i].type = vecSymbols[i].type /\ vecSymbols[i].links \subseteq vecSymbols'[i].links
      BY DEF Grows
    <3>3. LinkingAfter(l, k, i)
      BY <3>1, <3>2 DEF Linking, LinkingAfter
    <3> QED
      BY <3>2, <3>3
  <2> QED
    BY <2>1, <2>2
<1> QED
  BY <1>2, <1>3, <1>4
\* Declaring, before and after a line, of the names before and after it.
LEMMA DeclaresAfter ==
    ASSUME TypeOK, SymbolParts, Grows,
           NEW i \in DOMAIN vecSymbols', NEW d \in Lines, d < line,
           Declares(d, vecSymbols'[i].name, vecSymbols'[i].type)
    PROVE  /\ i \in DOMAIN vecSymbols
           /\ Declares(d, vecSymbols[i].name, vecSymbols[i].type)
<1>1. vecSymbols'[i].type \in Types
  BY DEF Grows, IsSymbol
<1>2. PICK j \in DOMAIN vecSymbols : vecSymbols[j].name = vecSymbols'[i].name
                                    /\ vecSymbols[j].type = vecSymbols'[i].type
  BY <1>1 DEF Declared, Declares, SymbolParts
<1>3. i \in DOMAIN vecSymbols
  BY <1>2 DEF Grows
<1> QED
  BY <1>3 DEF Grows

\* Latest in the next state.
LatestAfter(d, name, type) == \A e \in Lines : d < e /\ e < line' => ~Declares(e, name, type)

LEMMA LatestBefore ==
    ASSUME TypeOK, Grows, NEW d \in Lines, NEW name, NEW type, LatestAfter(d, name, type)
    PROVE  /\ d < line => Latest(d, name, type) /\ ~Declares(line, name, type)
           /\ d < line' => d < line \/ d = line
<1>1. /\ Lines' = Lines /\ Lines \subseteq Nat /\ line \in Nat /\ line' = line + 1 /\ line \in Lines
      /\ source' = source
  BY SourceLines DEF Grows, Lines
<1> QED
  BY <1>1 DEF Latest, LatestAfter

\* Of two instructions behind a line, the new one is not the next.
LEMMA NextInstAfter ==
    ASSUME IInv, line \in Lines, InstLines' = InstLines \cup {line}, NEW d \in Lines, d < line,
           NEW m, IsNextInstAfter(d, m)
    PROVE  IF NoneBehind(d) THEN m = line ELSE m \in InstLines /\ m # line /\ IsNextInst(d, m)
<1>1. \A l \in InstLines : l \in Nat /\ l < line
  BY PlacedAbove
<1>2. line \in Nat /\ d \in Nat
  BY SourceLines DEF IInv
<1>3. m \in InstLines' /\ d < m /\ \A k \in InstLines' : ~(d < k /\ k < m)
  BY DEF IsNextInstAfter
<1>4. CASE NoneBehind(d)
  BY <1>3, <1>4 DEF NoneBehind
<1>5. CASE ~NoneBehind(d)
  <2>1. PICK k \in InstLines : d < k
    BY <1>5 DEF NoneBehind
  <2>2. m # line
    BY <1>1, <1>3, <2>1
  <2> QED
    BY <1>3, <1>5, <2>2 DEF IsNextInst
<1> QED
  BY <1>4, <1>5

\* The position of a line's symbol, in the next state.
IsPositionAfter(d, pos) ==
    /\ source[d].op \in {"dv", "da"} => pos = place'[d].pos
    /\ source[d].op \notin {"dv", "da"} =>
          \A m \in InstLines' : IsNextInstAfter(d, m) => pos = place'[m].pos

\* Placed and PendingIsFresh in the next state.
LEMMA PlacedAfter ==
    ASSUME Grows,
           \A d \in Lines : \A i \in DOMAIN vecSymbols' :
              LET name == vecSymbols'[i].name  type == vecSymbols'[i].type
              IN  d < line' /\ Declares(d, name, type) /\ LatestAfter(d, name, type) =>
                     /\ IsPositionAfter(d, vecSymbols'[i].pos)
                     /\ type # SYM_VAR /\ NoneBehind(d)' =>
                           Pending(i)' \/ vecSymbols'[i].pos = pStart'
    PROVE  Placed'
<1>1. Lines' = Lines /\ source' = source
  BY DEF Grows, Lines
<1>2. \A d, name, type : /\ Declares(d, name, type)' <=> Declares(d, name, type)
                         /\ Latest(d, name, type)' <=> LatestAfter(d, name, type)
  BY <1>1 DEF Declares, Latest, LatestAfter
<1>3. \A d, pos : IsPositionAfter(d, pos) => IsPosition(d, pos)'
  BY <1>1 DEF IsPosition, IsPositionAfter, IsNextInst, IsNextInstAfter
<1> QED
  BY <1>1, <1>2, <1>3 DEF Placed

\* An instruction is what all that is pending waits for.
LEMMA PlacedAssembleStep ==
    ASSUME IInv, SymbolParts, Grows, source[line].op \notin {"dv", "da", "proc", "lbl"},
           InstLines' = InstLines \cup {line}, place'[line].pos = pStart,
           \A l \in Lines : l # line => place'[l] = place[l],
           \A i \in DOMAIN vecSymbols' : ~Pending(i)'
    PROVE  Placed' /\ PendingIsFresh'
<1>1. TypeOK /\ line \in Lines /\ line \in Nat /\ Lines \subseteq Nat /\ source' = source
  BY SourceLines DEF IInv, Grows
<1>2. PendingIsFresh'
  BY DEF PendingIsFresh
<1>3. \A l \in InstLines : l \in Lines /\ l \in Nat /\ l < line
  BY PlacedAbove
<1>4. ASSUME NEW d \in Lines, NEW i \in DOMAIN vecSymbols',
             d < line', Declares(d, vecSymbols'[i].name, vecSymbols'[i].type),
             LatestAfter(d, vecSymbols'[i].name, vecSymbols'[i].type)
      PROVE  /\ IsPositionAfter(d, vecSymbols'[i].pos)
             /\ ~(NoneBehind(d)')
  <2>1. d # line
    BY <1>4 DEF Declares, DeclOps
  <2>2. PICK name, type : name = vecSymbols'[i].name /\ type = vecSymbols'[i].type
    OBVIOUS
  <2>3. d < line /\ Latest(d, name, type)
    BY <1>1, <1>4, <2>1, <2>2, LatestBefore
  <2>4. i \in DOMAIN vecSymbols /\ Declares(d, vecSymbols[i].name, vecSymbols[i].type)
    BY <1>1, <1>4, <2>3, DeclaresAfter
  <2>5. vecSymbols[i].name = name /\ vecSymbols[i].type = type
    BY <2>2, <2>4 DEF Grows
  <2>6. /\ IsPosition(d, vecSymbols[i].pos)
        /\ type # SYM_VAR /\ NoneBehind(d) => Pending(i) \/ vecSymbols[i].pos = pStart
    BY <2>3, <2>4, <2>5 DEF Placed, SymbolParts
  <2>7. Pending(i) => type # SYM_VAR /\ NoneBehind(d)
    BY <2>3, <2>4, <2>5 DEF PendingIsFresh, SymbolParts
  <2>8. vecSymbols'[i].pos = IF Pending(i) THEN pStart ELSE vecSymbols[i].pos
    BY <2>4 DEF Grows
  <2>9. type # SYM_VAR <=> source[d].op \notin {"dv", "da"}
    BY <1>4, <2>2 DEF Declares, DeclOps
  <2>10. IsPositionAfter(d, vecSymbols'[i].pos)
    <3>1. CASE type = SYM_VAR
      BY <2>1, <2>6, <2>7, <2>8, <2>9, <3>1 DEF IsPositionAfter, IsPosition
    <3>2. CASE type # SYM_VAR
      <4> SUFFICES ASSUME NEW m \in InstLines', IsNextInstAfter(d, m)
                   PROVE  vecSymbols'[i].pos = place'[m].pos
        BY <2>9, <3>2 DEF IsPositionAfter
      <4>1. IF NoneBehind(d) THEN m = line ELSE m \in InstLines /\ m # line /\ IsNextInst(d, m)
        BY <1>1, <2>3, NextInstAfter
      <4>2. CASE NoneBehind(d)
        BY <2>6, <2>8, <3>2, <4>1, <4>2
      <4>3. CASE ~NoneBehind(d)
        <5>1. vecSymbols[i].pos = place[m].pos
          BY <2>6, <2>9, <3>2, <4>1, <4>3 DEF IsPosition
        <5> QED
          BY <1>3, <2>7, <2>8, <4>1, <4>3, <5>1
      <4> QED
        BY <4>2, <4>3
    <3> QED
      BY <3>1, <3>2
  <2>11. ~(NoneBehind(d)')
    BY <2>3 DEF NoneBehind
  <2> QED
    BY <2>10, <2>11
<1>5. Placed'
  BY <1>4, PlacedAfter
<1> QED
  BY <1>2, <1>5

\* What is declared in a line that assembles nothing is pending, or a variable
\* in its place, and what was pending stays so or goes to pStart.
PendingFollows ==
    \A i \in DOMAIN vecSymbols' :
        LET name == vecSymbols'[i].name  type == vecSymbols'[i].type
        IN  /\ Declares(line, name, type) /\ type = SYM_VAR => vecSymbols'[i].pos = place'[line].pos
            /\ Declares(line, name, type) /\ type # SYM_VAR => Pending(i)'
            /\ Pending(i)' =>
                  /\ type # SYM_VAR
                  /\ Declares(line, name, type) \/ (i \in DOMAIN vecSymbols /\ Pending(i))

LEMMA PlacedQuietStep ==
    ASSUME IInv, SymbolParts, Grows, PendingFollows,
           InstLines' = InstLines, pStart' = pStart,
           \A l \in Lines : l # line => place'[l] = place[l]
    PROVE  Placed' /\ PendingIsFresh'
<1>1. TypeOK /\ line \in Lines /\ line \in Nat /\ Lines \subseteq Nat /\ source' = source /\ Lines' = Lines
  BY SourceLines DEF IInv, Grows, Lines
<1>2. \A l \in InstLines : l \in Lines /\ l \in Nat /\ l < line
  BY PlacedAbove
<1>3. NoneBehind(line) /\ \A d : NoneBehind(d)' <=> NoneBehind(d)
  BY <1>1, <1>2 DEF NoneBehind
<1>4. \A d, m : IsNextInstAfter(d, m) <=> IsNextInst(d, m)
  BY DEF IsNextInst, IsNextInstAfter
<1>5. ASSUME NEW d \in Lines, NEW i \in DOMAIN vecSymbols', d < line,
             Declares(d, vecSymbols'[i].name, vecSymbols'[i].type),
             LatestAfter(d, vecSymbols'[i].name, vecSymbols'[i].type)
      PROVE  /\ i \in DOMAIN vecSymbols /\ ~Declares(line, vecSymbols'[i].name, vecSymbols'[i].type)
             /\ IsPosition(d, vecSymbols[i].pos)
             /\ vecSymbols'[i].type # SYM_VAR /\ NoneBehind(d) =>
                   Pending(i) \/ vecSymbols[i].pos = pStart
             /\ Pending(i) => vecSymbols'[i].type # SYM_VAR /\ NoneBehind(d)
             /\ vecSymbols'[i].type # SYM_VAR <=> source[d].op \notin {"dv", "da"}
  <2>1. PICK name, type : name = vecSymbols'[i].name /\ type = vecSymbols'[i].type
    OBVIOUS
  <2>2. Latest(d, name, type) /\ ~Declares(line, name, type)
    BY <1>1, <1>5, <2>1, LatestBefore
  <2>3. i \in DOMAIN vecSymbols /\ Declares(d, vecSymbols[i].name, vecSymbols[i].type)
    BY <1>1, <1>5, DeclaresAfter
  <2>4. vecSymbols[i].name = name /\ vecSymbols[i].type = type
    BY <2>1, <2>3 DEF Grows
  <2>5. /\ IsPosition(d, vecSymbols[i].pos)
        /\ type # SYM_VAR /\ NoneBehind(d) => Pending(i) \/ vecSymbols[i].pos = pStart
    BY <1>5, <2>2, <2>3, <2>4 DEF Placed, SymbolParts
  <2>6. Pending(i) => type # SYM_VAR /\ NoneBehind(d)
    BY <1>5, <2>2, <2>3, <2>4 DEF PendingIsFresh, SymbolParts
  <2>7. type # SYM_VAR <=> source[d].op \notin {"dv", "da"}
    BY <1>5, <2>1 DEF Declares, DeclOps
  <2> QED
    BY <2>1, <2>2, <2>3, <2>5, <2>6, <2>7
<1>6. ASSUME NEW d \in Lines, NEW i \in DOMAIN vecSymbols',
             d < line', Declares(d, vecSymbols'[i].name, vecSymbols'[i].type),
             LatestAfter(d, vecSymbols'[i].name, vecSymbols'[i].type)
      PROVE  /\ IsPositionAfter(d, vecSymbols'[i].pos)
             /\ vecSymbols'[i].type # SYM_VAR /\ NoneBehind(d)' =>
                   Pending(i)' \/ vecSymbols'[i].pos = pStart'
  <2>1. PICK name, type : name = vecSymbols'[i].name /\ type = vecSymbols'[i].type
    OBVIOUS
  <2>2. d < line \/ d = line
    BY <1>1, <1>6, <2>1, LatestBefore
  <2>3. CASE d = line
    <3>1. \A m \in InstLines' : ~IsNextInstAfter(line, m)
      BY <1>3 DEF IsNextInstAfter, NoneBehind
    <3>2. type = SYM_VAR <=> source[line].op \in {"dv", "da"}
      BY <1>6, <2>1, <2>3 DEF Declares, DeclOps
    <3>3. /\ type = SYM_VAR => vecSymbols'[i].pos = place'[line].pos
          /\ type # SYM_VAR => Pending(i)'
      BY <1>6, <2>1, <2>3 DEF PendingFollows
    <3> QED
      BY <2>1, <2>3, <3>1, <3>2, <3>3 DEF IsPositionAfter
  <2>4. CASE d < line
    <3>1. /\ i \in DOMAIN vecSymbols
          /\ IsPosition(d, vecSymbols[i].pos)
          /\ type # SYM_VAR /\ NoneBehind(d) => Pending(i) \/ vecSymbols[i].pos = pStart
          /\ Pending(i) => type # SYM_VAR /\ NoneBehind(d)
          /\ type # SYM_VAR <=> source[d].op \notin {"dv", "da"}
      BY <1>5, <1>6, <2>1, <2>4
    <3>2. \/ Pending(i) /\ vecSymbols'[i].pos = pStart
          \/ (Pending(i) => Pending(i)') /\ vecSymbols'[i].pos = vecSymbols[i].pos
      BY <3>1 DEF Grows
    <3>3. IsPositionAfter(d, vecSymbols'[i].pos)
      <4>1. CASE Pending(i)
        BY <1>4, <3>1, <4>1 DEF IsPositionAfter, IsNextInst, NoneBehind
      <4>2. CASE ~Pending(i)
        <5>1. place'[d] = place[d] /\ \A m \in InstLines : place'[m] = place[m]
          BY <1>1, <1>2, <2>4
        <5>2. vecSymbols'[i].pos = vecSymbols[i].pos
          BY <3>2, <4>2
        <5> QED
          BY <1>4, <3>1, <5>1, <5>2 DEF IsPositionAfter, IsPosition
      <4> QED
        BY <4>1, <4>2
    <3>4. type # SYM_VAR /\ NoneBehind(d)' => Pending(i)' \/ vecSymbols'[i].pos = pStart'
      BY <1>3, <3>1, <3>2
    <3> QED
      BY <2>1, <3>3, <3>4
  <2> QED
    BY <2>2, <2>3, <2>4
<1>7. Placed'
  BY <1>6, PlacedAfter
<1>8. PendingIsFresh'
  <2>1. \A d, name, type : /\ Declares(d, name, type)' <=> Declares(d, name, type)
                           /\ Latest(d, name, type)' <=> LatestAfter(d, name, type)
    BY <1>1 DEF Declares, Latest, LatestAfter
  <2> SUFFICES ASSUME NEW i \in DOMAIN vecSymbols', Pending(i)'
               PROVE  /\ vecSymbols'[i].type # SYM_VAR
                      /\ \A d \in Lines :
                            /\ d < line'
                            /\ Declares(d, vecSymbols'[i].name, vecSymbols'[i].type)
                            /\ LatestAfter(d, vecSymbols'[i].name, vecSymbols'[i].type)
                            => NoneBehind(d)
    BY <1>1, <1>3, <2>1 DEF PendingIsFresh
  <2>2. vecSymbols'[i].type # SYM_VAR
    BY DEF PendingFollows
  <2>3. ASSUME NEW d \in Lines, d < line',
               Declares(d, vecSymbols'[i].name, vecSymbols'[i].type),
               LatestAfter(d, vecSymbols'[i].name, vecSymbols'[i].type)
        PROVE  NoneBehind(d)
    <3>1. PICK name, type : name = vecSymbols'[i].name /\ type = vecSymbols'[i].type
      OBVIOUS
    <3>2. d < line \/ d = line
      BY <1>1, <2>3, <3>1, LatestBefore
    <3>3. CASE d < line
      BY <1>5, <2>3, <3>3 DEF PendingFollows
    <3> QED
      BY <1>3, <3>2, <3>3
  <2> QED
    BY <2>2, <2>3
<1> QED
  BY <1>7, <1>8
----------------------------------------------------------------------------
(* Lists of symbols that a line makes *)

\* The list of before, after FunctionRegisterCheck, with new links from the
\* line and one new symbol at most.
Grown(symbols) ==
    /\ IsList(symbols)
    /\ DOMAIN vecSymbols \subseteq DOMAIN symbols
    /\ \A i \in DOMAIN vecSymbols :
          /\ symbols[i].name = vecSymbols[i].name
          /\ symbols[i].type = vecSymbols[i].type
          /\ symbols[i].pos = IF Pending(i) THEN pStart ELSE vecSymbols[i].pos
          /\ vecSymbols[i].links \subseteq symbols[i].links
    /\ \A i \in DOMAIN symbols :
          /\ IsSymbol(symbols[i])
          /\ \A link \in symbols[i].links :
                \/ i \in DOMAIN vecSymbols /\ link \in vecSymbols[i].links
                \/ link.inst = line /\ Slot(link) \in {0, 1}
    /\ \A i, j \in DOMAIN symbols \ DOMAIN vecSymbols : i = j
    /\ \A i \in DOMAIN symbols \ DOMAIN vecSymbols : \A j \in DOMAIN vecSymbols :
          ~(symbols[i].name = vecSymbols[j].name /\ symbols[i].type = vecSymbols[j].type)

\* No link is new.
SameLinks(symbols) ==
    \A i \in DOMAIN symbols : \A link \in symbols[i].links :
        i \in DOMAIN vecSymbols /\ link \in vecSymbols[i].links

\* A symbol with another position, or with one link more, is a symbol.
LEMMA SymbolMoved ==
    ASSUME NEW s, IsSymbol(s), NEW pos, NEW t, t = [s EXCEPT !.pos = pos]
    PROVE  IsSymbol(t) /\ t.name = s.name /\ t.type = s.type /\ t.links = s.links /\ t.pos = pos
<1>1. PICK name, type, at, links : s = [name |-> name, type |-> type, pos |-> at, links |-> links]
  BY DEF IsSymbol
<1>2. type \in Types
  BY <1>1 DEF IsSymbol
<1>3. t = [name |-> name, type |-> type, pos |-> pos, links |-> links]
  BY <1>1
<1> QED
  BY <1>1, <1>2, <1>3 DEF IsSymbol

LEMMA SymbolLinked ==
    ASSUME NEW s, IsSymbol(s), NEW more, NEW t, t = [s EXCEPT !.links = more]
    PROVE  IsSymbol(t) /\ t.name = s.name /\ t.type = s.type /\ t.links = more /\ t.pos = s.pos
<1>1. PICK name, type, at, links : s = [name |-> name, type |-> type, pos |-> at, links |-> links]
  BY DEF IsSymbol
<1>2. type \in Types
  BY <1>1 DEF IsSymbol
<1>3. t = [name |-> name, type |-> type, pos |-> at, links |-> more]
  BY <1>1
<1> QED
  BY <1>1, <1>2, <1>3 DEF IsSymbol

\* FunctionRegisterCheck.
LEMMA GrownRegistered ==
    ASSUME IsList(vecSymbols), SymbolsOK
    PROVE  /\ Grown(Registered) /\ SameLinks(Registered) /\ DOMAIN Registered = DOMAIN vecSymbols
           /\ \A i \in DOMAIN vecSymbols : Registered[i].links = vecSymbols[i].links
<1>1. IsList(Registered) /\ DOMAIN Registered = DOMAIN vecSymbols
  BY RegisteredList
<1>2. ASSUME NEW i \in DOMAIN vecSymbols
      PROVE  /\ IsSymbol(Registered[i])
             /\ Registered[i].name = vecSymbols[i].name /\ Registered[i].type = vecSymbols[i].type
             /\ Registered[i].links = vecSymbols[i].links
             /\ Registered[i].pos = IF Pending(i) THEN pStart ELSE vecSymbols[i].pos
  <2>1. IsSymbol(vecSymbols[i])
    BY DEF SymbolsOK
  <2>2. Registered[i] = IF Pending(i) THEN [vecSymbols[i] EXCEPT !.pos = pStart] ELSE vecSymbols[i]
    BY DEF Registered, Pending
  <2>3. CASE Pending(i)
    BY <2>1, <2>2, <2>3, SymbolMoved
  <2>4. CASE ~Pending(i)
    BY <2>1, <2>2, <2>4
  <2> QED
    BY <2>3, <2>4
<1> QED
  BY <1>1, <1>2 DEF Grown, SameLinks

\* A symbol behind the others.
LEMMA AppendedSymbol ==
    ASSUME NEW symbols, IsList(symbols), NEW symbol
    PROVE  LET longer == Append(symbols, symbol)
           IN  /\ IsList(longer) /\ DOMAIN longer = DOMAIN symbols \cup {Len(symbols) + 1}
               /\ Len(symbols) + 1 \notin DOMAIN symbols
               /\ \A i \in DOMAIN symbols : longer[i] = symbols[i]
               /\ longer[Len(symbols) + 1] = symbol /\ Len(longer) = Len(symbols) + 1
<1> DEFINE S == {symbols[i] : i \in DOMAIN symbols} \cup {symbol}
           longer == Append(symbols, symbol)
<1>1. IsList(longer) /\ DOMAIN longer = 1..(Len(symbols) + 1)
  BY ListAppend
<1>2. /\ symbols \in Seq({symbols[i] : i \in DOMAIN symbols})
      /\ Len(symbols) \in Nat /\ DOMAIN symbols = 1..Len(symbols)
  BY ListDomain
<1>3. symbols \in Seq(S) /\ symbol \in S
  <2>1. {symbols[i] : i \in DOMAIN symbols} \subseteq S
    OBVIOUS
  <2> QED
    BY <1>2, <2>1, SeqMonotonic
<1>4. /\ \A i \in 1..Len(symbols) : longer[i] = symbols[i]
      /\ longer[Len(symbols) + 1] = symbol /\ Len(longer) = Len(symbols) + 1
  <2> HIDE DEF S
  <2> QED
    BY <1>2, <1>3, AppendProperties
<1>5. 1..(Len(symbols) + 1) = DOMAIN symbols \cup {Len(symbols) + 1} /\ Len(symbols) + 1 \notin DOMAIN symbols
  BY <1>2
<1> QED
  BY <1>1, <1>2, <1>4, <1>5

\* Exists, before and after FunctionRegisterCheck and new links.
LEMMA GrownExists ==
    ASSUME NEW symbols, Grown(symbols), DOMAIN symbols = DOMAIN vecSymbols, NEW name, NEW type \in Types
    PROVE  Exists(symbols, name, type) <=>
              \E i \in DOMAIN vecSymbols : vecSymbols[i].name = name /\ vecSymbols[i].type = type
<1>1. type # -1
  BY DEF Types, SYM_FUNC, SYM_VAR, SYM_LBL
<1>2. Matching(symbols, name, type)
        = {i \in DOMAIN vecSymbols : vecSymbols[i].name = name /\ vecSymbols[i].type = type}
  BY <1>1 DEF Matching, Grown
<1> QED
  BY <1>2 DEF Exists

LEMMA GrownAppend ==
    ASSUME IsList(vecSymbols), SymbolsOK, NEW name, NEW type \in Types, NEW pos,
           ~Exists(Registered, name, type)
    PROVE  LET longer == Append(Registered, Symbol(name, type, pos))
           IN  /\ Grown(longer) /\ SameLinks(longer)
               /\ DOMAIN longer = DOMAIN vecSymbols \cup {Len(vecSymbols) + 1}
               /\ Len(vecSymbols) + 1 \notin DOMAIN vecSymbols
               /\ longer[Len(vecSymbols) + 1] = Symbol(name, type, pos)
               /\ Len(longer) = Len(vecSymbols) + 1
<1> DEFINE longer == Append(Registered, Symbol(name, type, pos))
           t == Len(vecSymbols) + 1
<1>1. Grown(Registered) /\ SameLinks(Registered) /\ DOMAIN Registered = DOMAIN vecSymbols
  BY GrownRegistered
<1>2. Len(Registered) = Len(vecSymbols)
  BY <1>1, ListDomain DEF Grown
<1>3. /\ IsList(longer) /\ DOMAIN longer = DOMAIN vecSymbols \cup {t}
      /\ t \notin DOMAIN vecSymbols
      /\ \A i \in DOMAIN vecSymbols : longer[i] = Registered[i]
      /\ longer[t] = Symbol(name, type, pos) /\ Len(longer) = t
  BY <1>1, <1>2, AppendedSymbol DEF Grown
<1>4. /\ IsSymbol(longer[t]) /\ longer[t].links = {}
      /\ longer[t].name = name /\ longer[t].type = type
  <2>1. \A s : s = Symbol(name, type, pos) =>
                 IsSymbol(s) /\ s.links = {} /\ s.name = name /\ s.type = type
    BY DEF Symbol, IsSymbol
  <2> QED
    BY <1>3, <2>1, Zenon
<1>5. \A j \in DOMAIN vecSymbols : ~(vecSymbols[j].name = name /\ vecSymbols[j].type = type)
  BY <1>1, GrownExists
<1> HIDE DEF longer, t
<1>6. Grown(longer) /\ SameLinks(longer)
  BY <1>1, <1>3, <1>4, <1>5 DEF Grown, SameLinks
<1> QED
  BY <1>3, <1>6 DEF longer, t

LEMMA SlotOfLink ==
    ASSUME NEW argNum \in {0, 1}, NEW reversed \in BOOLEAN, NEW link, link = SymLink(argNum, reversed)
    PROVE  /\ link.inst = line /\ Slot(link) \in {0, 1}
           /\ Slot(link) = IF reversed THEN 1 - argNum ELSE argNum
<1>1. link.inst = line /\ link.argNum = argNum /\ link.reversed = reversed
  BY DEF SymLink
<1>2. Slot(link) = IF reversed THEN 1 - argNum ELSE argNum
  BY <1>1, Zenon DEF Slot
<1> QED
  BY <1>1, <1>2

\* A list with one link more.
OneMore(more, symbols, i, link) ==
    /\ Grown(more) /\ DOMAIN more = DOMAIN symbols
    /\ \A j \in DOMAIN symbols : more[j].name = symbols[j].name /\ more[j].type = symbols[j].type
    /\ \A j \in DOMAIN symbols :
          more[j].links = IF j = i THEN symbols[j].links \cup {link} ELSE symbols[j].links

LEMMA GrownLinked ==
    ASSUME NEW symbols, Grown(symbols), NEW i \in DOMAIN symbols,
           NEW link, link.inst = line, Slot(link) \in {0, 1},
           NEW more, more = Linked(symbols, i, link)
    PROVE  OneMore(more, symbols, i, link)
<1>1. link.inst = line /\ Slot(link) \in {0, 1}
  OBVIOUS
<1>2. IsList(more) /\ DOMAIN more = DOMAIN symbols
  BY LinkedList DEF Grown
<1>3. \A j \in DOMAIN symbols :
         more[j] = IF j = i THEN [symbols[j] EXCEPT !.links = symbols[j].links \cup {link}]
                            ELSE symbols[j]
  BY DEF Linked
<1>4. ASSUME NEW j \in DOMAIN symbols
      PROVE  /\ IsSymbol(more[j]) /\ more[j].name = symbols[j].name /\ more[j].type = symbols[j].type
             /\ more[j].pos = symbols[j].pos
             /\ more[j].links = IF j = i THEN symbols[j].links \cup {link} ELSE symbols[j].links
  <2>1. IsSymbol(symbols[j])
    BY DEF Grown
  <2>2. CASE j = i
    <3>1. more[j] = [symbols[j] EXCEPT !.links = symbols[j].links \cup {link}]
      BY <1>3, <2>2
    <3>2. PICK s, t, links : s = symbols[j] /\ t = more[j] /\ links = symbols[j].links \cup {link}
      OBVIOUS
    <3>3. IsSymbol(s) /\ t = [s EXCEPT !.links = links]
      BY <2>1, <3>1, <3>2
    <3>4. IsSymbol(t) /\ t.name = s.name /\ t.type = s.type /\ t.links = links /\ t.pos = s.pos
      BY <3>3, SymbolLinked
    <3> QED
      BY <2>2, <3>2, <3>4
  <2>3. CASE j # i
    BY <1>3, <2>1, <2>3
  <2> QED
    BY <2>2, <2>3
<1>5. Grown(more)
  <2>1. \A j \in DOMAIN more : \A other \in more[j].links :
           \/ j \in DOMAIN vecSymbols /\ other \in vecSymbols[j].links
           \/ other.inst = line /\ Slot(other) \in {0, 1}
    <3>1. \A j \in DOMAIN symbols : \A other \in symbols[j].links :
             \/ j \in DOMAIN vecSymbols /\ other \in vecSymbols[j].links
             \/ other.inst = line /\ Slot(other) \in {0, 1}
      BY DEF Grown
    <3>2. \A j \in DOMAIN symbols : \A other \in more[j].links : other \in symbols[j].links \/ other = link
      BY <1>4
    <3> QED
      BY <1>1, <1>2, <3>1, <3>2, Zenon
  <2>2. DOMAIN vecSymbols \subseteq DOMAIN symbols
    BY DEF Grown
  <2>3. \A j \in DOMAIN vecSymbols :
           /\ more[j].name = vecSymbols[j].name
           /\ more[j].type = vecSymbols[j].type
           /\ more[j].pos = IF Pending(j) THEN pStart ELSE vecSymbols[j].pos
           /\ vecSymbols[j].links \subseteq more[j].links
    BY <1>4, <2>2, ZenonT(30) DEF Grown
  <2>4. /\ \A j, k \in DOMAIN more \ DOMAIN vecSymbols : j = k
        /\ \A j \in DOMAIN more \ DOMAIN vecSymbols : \A k \in DOMAIN vecSymbols :
              ~(more[j].name = vecSymbols[k].name /\ more[j].type = vecSymbols[k].type)
    <3>1. /\ \A j, k \in DOMAIN symbols \ DOMAIN vecSymbols : j = k
          /\ \A j \in DOMAIN symbols \ DOMAIN vecSymbols : \A k \in DOMAIN vecSymbols :
                ~(symbols[j].name = vecSymbols[k].name /\ symbols[j].type = vecSymbols[k].type)
      BY DEF Grown
    <3>2. \A j \in DOMAIN symbols : more[j].name = symbols[j].name /\ more[j].type = symbols[j].type
      BY <1>4
    <3> QED
      BY <1>2, <3>1, <3>2
  <2>5. \A j \in DOMAIN more : IsSymbol(more[j])
    BY <1>2, <1>4
  <2> QED
    BY <1>2, <2>1, <2>2, <2>3, <2>4, <2>5 DEF Grown
<1> QED
  BY <1>2, <1>4, <1>5 DEF OneMore

\* Such a list is how the symbols grow.
LEMMA GrowsFrom ==
    ASSUME Grown(vecSymbols'), line \in Lines, line' = line + 1, source' = source,
           phase = "read", phase' = "read"
    PROVE  Grows
BY DEF Grown, Grows
----------------------------------------------------------------------------
(* The three ways of a line that is assembled or passed over *)

\* Nothing is assembled.
LEMMA QuietStep ==
    ASSUME IInv, SymbolParts, Grows, DeclarationNames, PendingFollows, SameLinks(vecSymbols'),
           \A i \in DOMAIN vecSymbols' \ DOMAIN vecSymbols :
              Declares(line, vecSymbols'[i].name, vecSymbols'[i].type),
           InstLines' = InstLines, pStart' = pStart, code' = code,
           \A l \in Lines : l # line => place'[l] = place[l]
    PROVE  SymbolParts'
<1>1. TypeOK /\ line \in Lines /\ line \in Nat /\ Lines' = Lines
  BY SourceLines DEF IInv, Grows, Lines
<1>2. line \notin InstLines
  BY <1>1, PlacedAbove
<1>3. NewLabelOrigin
  BY DEF NewLabelOrigin
<1>4. NewLinks
  BY <1>2 DEF NewLinks, SameLinks, LinksOK, SymbolParts
<1>5. SymbolsOK' /\ Unique' /\ Declared' /\ HasLine' /\ OneProc'
  BY <1>1, NamesStep
<1>6. Placed' /\ PendingIsFresh'
  BY PlacedQuietStep
<1>7. LinksOK' /\ OneTarget' /\ Targeted'
  BY <1>1, <1>2, <1>4, LinksStep
<1>8. LabelOrigin'
  BY <1>1, <1>3, OriginStep
<1>9. ImageOK' /\ CodeShape'
  BY <1>1 DEF ImageOK, CodeShape, Grows, SymbolParts
<1> QED
  BY <1>5, <1>6, <1>7, <1>8, <1>9 DEF SymbolParts

\* A declaration: its symbol is t.
LEMMA DeclarationStep ==
    ASSUME IInv, SymbolParts, Grown(vecSymbols'), line \in Lines, line' = line + 1, source' = source,
           phase = "read", phase' = "read",
           InstLines' = InstLines, pStart' = pStart, code' = code,
           \A l \in Lines : l # line => place'[l] = place[l],
           NEW type \in Types, Current.op \in DeclOps(type), 1 \in DOMAIN Current.args,
           NEW t \in DOMAIN vecSymbols',
           vecSymbols'[t].name = Arg(1).text, vecSymbols'[t].type = type,
           SameLinks(vecSymbols'), \A i \in DOMAIN vecSymbols' : i \in DOMAIN vecSymbols \/ i = t,
           type = SYM_VAR => vecSymbols'[t].pos = place'[line].pos,
           \A i \in DOMAIN vecSymbols' : Pending(i)' <=> type # SYM_VAR /\ i = t,
           type = SYM_FUNC => \A i \in DOMAIN vecSymbols :
              ~(vecSymbols[i].name = Arg(1).text /\ vecSymbols[i].type = SYM_FUNC)
    PROVE  SymbolParts'
<1>1. Grows
  BY GrowsFrom
<1>2. /\ source[line].op \in DeclOps(type) /\ 1 \in DOMAIN source[line].args
      /\ source[line].args[1].text = vecSymbols'[t].name
  BY DEF Current, Arg
<1>3. Declares(line, vecSymbols'[t].name, vecSymbols'[t].type)
  BY <1>2 DEF Declares
<1>4. \A other \in Types : source[line].op \in DeclOps(other) => other = type
  BY <1>2 DEF DeclOps, Types, SYM_FUNC, SYM_VAR, SYM_LBL
<1>5. DeclarationNames
  <2>1. source[line].op = "proc" => type = SYM_FUNC
    BY <1>2, <1>4 DEF DeclOps, Types, SYM_FUNC, SYM_VAR, SYM_LBL
  <2> QED
    BY <1>2, <1>3, <1>4, <2>1 DEF DeclarationNames
<1>6. Unique'
  BY <1>1, <1>5, NamesStep DEF IInv
<1>7. ASSUME NEW i \in DOMAIN vecSymbols', Declares(line, vecSymbols'[i].name, vecSymbols'[i].type)
      PROVE  i = t
  <2>1. vecSymbols'[i].type \in Types
    BY <1>1 DEF Grows, IsSymbol
  <2>2. vecSymbols'[i].type = type /\ vecSymbols'[i].name = vecSymbols'[t].name
    BY <1>2, <1>4, <1>7, <2>1 DEF Declares
  <2> QED
    BY <1>6, <2>2 DEF Unique
<1>8. PendingFollows
  BY <1>3, <1>7 DEF PendingFollows
<1> QED
  BY <1>1, <1>3, <1>5, <1>8, QuietStep

\* A line that declares nothing.
LEMMA DeclaresNothing ==
    ASSUME Current.op \notin {"dv", "da", "proc", "lbl"}
    PROVE  /\ \A type : source[line].op \notin DeclOps(type)
           /\ \A name, type : ~Declares(line, name, type)
BY DEF Current, DeclOps, Declares

\* An instruction.
LEMMA InstructionStep ==
    ASSUME IInv, SymbolParts, phase = "read", line \in Lines, phase' # "undefined",
           Current.op \notin {"dv", "da", "proc", "lbl"},
           NEW argc \in 0..2, NEW instr, {"arg0", "arg1"} \subseteq DOMAIN instr,
           NEW symbols, Grown(symbols),
           NEW last, NEW iat, NEW imports, Assemble(argc, instr, symbols, last, iat, imports),
           \A i \in DOMAIN symbols \ DOMAIN vecSymbols :
              symbols[i].type = SYM_LBL /\ JumpMakes(line, symbols[i].name),
           \A i, j \in DOMAIN symbols : \A a \in symbols[i].links, b \in symbols[j].links :
              a.inst = line /\ b.inst = line /\ Slot(a) = Slot(b) => i = j,
           \A k \in DOMAIN Current.args : Refers(line, k, RefName(line, k)) =>
              \E i \in DOMAIN symbols :
                 /\ \E link \in symbols[i].links : link.inst = line /\ Slot(link) = SlotOf(line, k)
                 /\ symbols[i].name = RefName(line, k)
                 /\ Current.op \notin JumpOps => symbols[i].type # SYM_LBL
    PROVE  SymbolParts'
<1>1. Cells(pStart, InstSize(argc)) \subseteq Addresses
  BY DEF Assemble, Undefined
<1>2. /\ Occupy("inst", pStart, InstSize(argc))
      /\ code' = Chained(instr)
      /\ vecSymbols' = symbols
      /\ bFirst' = FALSE /\ iLabel' = 0 /\ line' = line + 1
      /\ source' = source /\ phase' = "read"
  BY <1>1 DEF Assemble
<1>3. TypeOK /\ Lines' = Lines /\ line \in Nat
  BY <1>2, SourceLines DEF IInv, Lines
<1>4. InstSize(argc) \in Nat \ {0}
  BY InstSizes
<1>5. pStart \in Addresses
  <2>1. pStart \in Addresses \cup {-1}
    BY <1>3 DEF TypeOK
  <2>2. pStart \in Cells(pStart, InstSize(argc))
    BY <1>4, <2>1 DEF Cells, Addresses
  <2> QED
    BY <1>1, <2>2
<1>6. InstLines' = InstLines \cup {line} /\ line \notin InstLines
  BY <1>1, <1>2, <1>4, <1>5, OccupiedLines
<1>7. place'[line].pos = pStart /\ \A l \in Lines : l # line => place'[l] = place[l]
  <2>1. place'[line] = [kind |-> "inst", pos |-> pStart, size |-> InstSize(argc)]
    BY <1>1, <1>2, <1>3, <1>4, <1>5, Occupies
  <2>2. \A l \in Lines : l # line => place'[l] = place[l]
    BY <1>1, <1>2, <1>3, <1>4, <1>5, Occupies
  <2> QED
    BY <2>1, <2>2
<1>8. Grows
  BY <1>2, GrowsFrom
<1>9. \A i \in DOMAIN vecSymbols' : ~Pending(i)'
  <2>1. DOMAIN symbols = 1..Len(symbols) /\ Len(symbols) \in Nat
    BY ListDomain DEF Grown
  <2> QED
    BY <1>2, <2>1 DEF Pending
<1>10. source[line].op \notin {"dv", "da", "proc", "lbl"}
  BY DEF Current
<1>11. DeclarationNames
  BY <1>2, <1>10, DeclaresNothing DEF DeclarationNames
<1>12. NewLabelOrigin
  BY <1>2, <1>6 DEF NewLabelOrigin
<1>13. NewLinks
  BY <1>2, <1>6 DEF NewLinks, LinkingAfter, Grown, Current
<1>14. SymbolsOK' /\ Unique' /\ Declared' /\ HasLine' /\ OneProc'
  BY <1>3, <1>8, <1>11, NamesStep
<1>15. Placed' /\ PendingIsFresh'
  BY <1>6, <1>7, <1>8, <1>9, <1>10, PlacedAssembleStep
<1>16. LinksOK' /\ OneTarget' /\ Targeted'
  BY <1>3, <1>6, <1>8, <1>13, LinksStep
<1>17. LabelOrigin'
  BY <1>3, <1>6, <1>8, <1>12, OriginStep
<1>18. CodeShape'
  <2>1. DOMAIN code = Lines
    BY DEF IInv, CodeOK
  <2>2. code' = [l \in DOMAIN code |->
                   CASE l = line -> instr
                     [] l = pLastInst -> [code[l] EXCEPT !.next = SetNext(pStart - place[l].pos)]
                     [] OTHER -> code[l]]
    BY <1>2 DEF Chained
  <2> QED
    BY <1>3, <2>1, <2>2 DEF CodeShape, SymbolParts
<1>19. ImageOK'
  BY <1>2 DEF ImageOK
<1> QED
  BY <1>14, <1>15, <1>16, <1>17, <1>18, <1>19 DEF SymbolParts
----------------------------------------------------------------------------
(* The actions *)

\* The run goes on.
Continues == phase' \notin {"refused", "undefined"}

\* What the lemmas about the actions begin with.
LEMMA AtLine ==
    ASSUME IInv, SymbolParts, line \in Lines
    PROVE  /\ TypeOK /\ IsList(vecSymbols) /\ SymbolsOK
           /\ Args \in Nat /\ DOMAIN Current.args = 1..Args /\ (Args > 0 => 1 \in DOMAIN Current.args)
           /\ Grown(Registered) /\ SameLinks(Registered) /\ DOMAIN Registered = DOMAIN vecSymbols
           /\ Len(Registered) = Len(vecSymbols) /\ Len(vecSymbols) \in Nat
           /\ DOMAIN vecSymbols = 1..Len(vecSymbols)
<1>1. TypeOK /\ IsList(vecSymbols) /\ SymbolsOK
  BY DEF IInv, SymbolParts
<1>2. /\ Args \in Nat /\ DOMAIN Current.args = 1..Args
      /\ (Args > 0 => 1 \in DOMAIN Current.args)
  BY <1>1, SourceLines DEF Args, Current
<1>3. Grown(Registered) /\ SameLinks(Registered) /\ DOMAIN Registered = DOMAIN vecSymbols
  BY <1>1, GrownRegistered
<1>4. /\ Len(vecSymbols) \in Nat /\ DOMAIN vecSymbols = 1..Len(vecSymbols)
      /\ Len(Registered) = Len(vecSymbols)
  BY <1>1, <1>3, ListDomain, RegisteredList
<1> QED
  BY <1>1, <1>2, <1>3, <1>4

\* A comment ends what is pending.
LEMMA CommentSymbols == ASSUME IInv, SymbolParts, Comment PROVE SymbolParts'
<1>1. phase = "read" /\ line \in Lines
  <2>1. line \in Nat \ {0} /\ Len(source) \in Nat /\ Lines = 1..Len(source)
    BY SourceLines DEF IInv
  <2>2. phase = "read" /\ line <= Len(source)
    BY DEF Comment
  <2> QED
    BY <2>1, <2>2
<1>2. /\ vecSymbols' = Registered /\ bFirst' = FALSE /\ iLabel' = 0 /\ line' = line + 1
      /\ UNCHANGED <<source, phase, pStart, place, code>>
  BY DEF Comment, Skip
<1>3. Grown(vecSymbols') /\ SameLinks(vecSymbols') /\ DOMAIN vecSymbols' = DOMAIN vecSymbols
      /\ DOMAIN vecSymbols = 1..Len(vecSymbols)
  BY <1>1, <1>2, AtLine
<1>4. Grows
  BY <1>1, <1>2, <1>3, GrowsFrom
<1>5. Current.op \notin {"dv", "da", "proc", "lbl"} /\ source[line].op # "proc"
  BY DEF Comment, Current
<1>6. DeclarationNames
  BY <1>3, <1>5, DeclaresNothing DEF DeclarationNames
<1>7. PendingFollows
  <2>1. \A i \in DOMAIN vecSymbols' : ~Pending(i)'
    BY <1>2, <1>3 DEF Pending
  <2> QED
    BY <1>5, <2>1, DeclaresNothing DEF PendingFollows
<1>8. InstLines' = InstLines
  BY <1>2 DEF InstLines, Lines
<1> QED
  BY <1>2, <1>3, <1>4, <1>6, <1>7, <1>8, QuietStep

\* A line without a word, and jle, leave everything pending.
LEMMA DroppedSymbols == ASSUME IInv, SymbolParts, Dropped PROVE SymbolParts'
<1>1. phase = "read" /\ line \in Lines /\ Current.op \in {"", "jle"}
  BY ReadsLine DEF Dropped, IInv
<1>2. /\ vecSymbols' = vecSymbols /\ bFirst' = bFirst /\ iLabel' = iLabel /\ line' = line + 1
      /\ UNCHANGED <<source, phase, pStart, place, code>>
  BY DEF Dropped, Skip
<1>3. \A i : Pending(i)' <=> Pending(i)
  BY <1>2 DEF Pending
<1>4. Grows
  BY <1>1, <1>2, <1>3 DEF Grows, SymbolsOK, SymbolParts
<1>5. Current.op \notin {"dv", "da", "proc", "lbl"} /\ source[line].op # "proc"
  BY <1>1 DEF Current
<1>6. DeclarationNames
  BY <1>2, <1>5, DeclaresNothing DEF DeclarationNames
<1>7. PendingFollows
  <2>1. \A i \in DOMAIN vecSymbols : Pending(i) => vecSymbols[i].type # SYM_VAR
    BY DEF PendingIsFresh, SymbolParts
  <2> QED
    BY <1>2, <1>3, <1>5, <2>1, DeclaresNothing DEF PendingFollows
<1>8. InstLines' = InstLines
  BY <1>2 DEF InstLines, Lines
<1> QED
  BY <1>2, <1>4, <1>6, <1>7, <1>8, QuietStep DEF SameLinks

\* proc adds a procedure that is pending.
LEMMA ProcSymbols == ASSUME IInv, SymbolParts, Proc, Continues PROVE SymbolParts'
<1> DEFINE name == Arg(1).text
           longer == Append(Registered, Symbol(name, SYM_FUNC, 0))
           t == Len(vecSymbols) + 1
<1>1. phase = "read" /\ line \in Lines /\ Current.op = "proc"
  BY ReadsLine DEF Proc, IInv
<1>2. Args > 0 /\ ~Exists(Registered, name, SYM_FUNC) /\ Skip(longer, TRUE, 0)
  BY DEF Proc, Continues, Refuse, Undefined
<1>3. SYM_FUNC \in Types /\ SYM_FUNC # SYM_VAR /\ "proc" \in DeclOps(SYM_FUNC)
  BY DEF Types, DeclOps, SYM_FUNC, SYM_VAR
<1>4. /\ Grown(longer) /\ SameLinks(longer) /\ DOMAIN longer = DOMAIN vecSymbols \cup {t}
      /\ longer[t] = Symbol(name, SYM_FUNC, 0) /\ Len(longer) = t
  BY <1>1, <1>2, <1>3, AtLine, GrownAppend
<1>5. longer[t].name = name /\ longer[t].type = SYM_FUNC
  BY <1>4 DEF Symbol
<1> HIDE DEF longer
<1>6. /\ vecSymbols' = longer /\ bFirst' = TRUE /\ iLabel' = 0 /\ line' = line + 1
      /\ UNCHANGED <<source, phase, pStart, place, code>>
  BY <1>2 DEF Skip
<1>7. InstLines' = InstLines
  BY <1>6 DEF InstLines, Lines
<1>8. \A i \in DOMAIN vecSymbols' : Pending(i)' <=> i = t
  <2>1. DOMAIN longer = 1..Len(longer) /\ Len(longer) \in Nat
    BY <1>4, ListDomain DEF Grown
  <2> QED
    BY <1>4, <1>6, <2>1 DEF Pending
<1>9. \A i \in DOMAIN vecSymbols : ~(vecSymbols[i].name = name /\ vecSymbols[i].type = SYM_FUNC)
  BY <1>1, <1>2, <1>3, AtLine, GrownExists
<1>10. 1 \in DOMAIN Current.args
  BY <1>1, <1>2, AtLine
<1>11. t \in DOMAIN vecSymbols'
  BY <1>4, <1>6
<1> QED
  BY <1>1, <1>3, <1>4, <1>5, <1>6, <1>7, <1>8, <1>9, <1>10, <1>11, DeclarationStep

\* lbl makes a label pending, which may be there already.
LEMMA LblSymbols == ASSUME IInv, SymbolParts, Lbl, Continues PROVE SymbolParts'
<1> DEFINE name == Arg(1).text
           longer == Append(Registered, Symbol(name, SYM_LBL, 0))
           old == FindSymbol(Registered, name, SYM_LBL)
<1>1. phase = "read" /\ line \in Lines /\ Current.op = "lbl"
  BY ReadsLine DEF Lbl, IInv
<1>2. /\ Args > 0
      /\ \/ Exists(Registered, name, SYM_LBL) /\ Skip(Registered, FALSE, old)
         \/ ~Exists(Registered, name, SYM_LBL) /\ Skip(longer, FALSE, Len(vecSymbols) + 1)
  BY DEF Lbl, Continues, Refuse, Undefined
<1>3. /\ SYM_LBL \in Types /\ SYM_LBL # SYM_VAR /\ SYM_LBL # SYM_FUNC /\ SYM_LBL # -1
      /\ "lbl" \in DeclOps(SYM_LBL)
  BY DEF Types, DeclOps, SYM_FUNC, SYM_VAR, SYM_LBL
<1>4. 1 \in DOMAIN Current.args
  BY <1>1, <1>2, AtLine
<1>5. ASSUME NEW symbols, NEW t, Skip(symbols, FALSE, t), Grown(symbols), SameLinks(symbols),
             t \in DOMAIN symbols, symbols[t].name = name, symbols[t].type = SYM_LBL,
             \A i \in DOMAIN symbols : i \in DOMAIN vecSymbols \/ i = t
      PROVE  SymbolParts'
  <2>1. /\ vecSymbols' = symbols /\ bFirst' = FALSE /\ iLabel' = t /\ line' = line + 1
        /\ UNCHANGED <<source, phase, pStart, place, code>>
    BY <1>5 DEF Skip
  <2>2. InstLines' = InstLines
    BY <2>1 DEF InstLines, Lines
  <2>3. \A i \in DOMAIN vecSymbols' : Pending(i)' <=> i = t
    BY <2>1 DEF Pending
  <2> QED
    BY <1>1, <1>3, <1>4, <1>5, <2>1, <2>2, <2>3, DeclarationStep
<1>6. CASE Exists(Registered, name, SYM_LBL) /\ Skip(Registered, FALSE, old)
  <2>1. /\ Grown(Registered) /\ SameLinks(Registered) /\ DOMAIN Registered = DOMAIN vecSymbols
        /\ IsList(Registered)
    BY <1>1, AtLine DEF Grown
  <2>2. old \in Matching(Registered, name, SYM_LBL) /\ old \in DOMAIN Registered
    BY <1>6, <2>1, FindSymbolFinds
  <2>3. Registered[old].name = name /\ Registered[old].type = SYM_LBL
    BY <1>3, <2>2 DEF Matching
  <2> HIDE DEF old
  <2> QED
    BY <1>5, <1>6, <2>1, <2>2, <2>3
<1>7. CASE ~Exists(Registered, name, SYM_LBL) /\ Skip(longer, FALSE, Len(vecSymbols) + 1)
  <2>1. /\ Grown(longer) /\ SameLinks(longer)
        /\ DOMAIN longer = DOMAIN vecSymbols \cup {Len(vecSymbols) + 1}
        /\ longer[Len(vecSymbols) + 1] = Symbol(name, SYM_LBL, 0)
    BY <1>1, <1>3, <1>7, AtLine, GrownAppend
  <2>2. longer[Len(vecSymbols) + 1].name = name /\ longer[Len(vecSymbols) + 1].type = SYM_LBL
    BY <2>1, SMTT(30) DEF Symbol
  <2> HIDE DEF longer
  <2> QED
    BY <1>5, <1>7, <2>1, <2>2
<1> QED
  BY <1>2, <1>6, <1>7

\* dv and da add a variable where its bytes are.
LEMMA AllocateSymbols ==
    ASSUME IInv, SymbolParts, Continues, phase = "read", line \in Lines,
           Current.op \in {"dv", "da"}, Args > 1, ~Exists(Registered, Arg(1).text, SYM_VAR),
           NEW size \in Nat, NEW problem, Allocate(size, problem)
    PROVE  SymbolParts'
<1> DEFINE name == Arg(1).text
           t == Len(vecSymbols) + 1
<1>1. PICK pos \in FindNewLocation(arUsed, size) :
        CASE pos = -1 -> Refuse("memory")
          [] pos # -1 /\ problem # "none" -> Refuse(problem)
          [] pos # -1 /\ problem = "none" /\ ~(Cells(pos, size) \subseteq Addresses) -> Undefined
          [] OTHER ->
               /\ Occupy("var", pos, size)
               /\ vecSymbols' = Append(Registered, Symbol(Arg(1).text, SYM_VAR, pos))
               /\ bFirst' = FALSE
               /\ iLabel' = 0
               /\ line' = line + 1
               /\ UNCHANGED <<source, phase, pStart, code, pLastInst, vecIAT, iImports,
                              ulOffMain, message>>
  BY DEF Allocate
<1>2. \A why : ~Refuse(why)
  BY DEF Continues, Refuse
<1>3. ~Undefined
  BY DEF Continues, Undefined
<1>4. pos # -1 /\ problem = "none" /\ Cells(pos, size) \subseteq Addresses
  BY <1>1, <1>2, <1>3
<1> DEFINE longer == Append(Registered, Symbol(name, SYM_VAR, pos))
<1>5. /\ Occupy("var", pos, size)
      /\ vecSymbols' = longer /\ bFirst' = FALSE /\ iLabel' = 0 /\ line' = line + 1
      /\ UNCHANGED <<source, phase, pStart, code>>
  BY <1>1, <1>4
<1>6. pos \in Addresses
  BY <1>1, <1>4, FoundIsFree
<1>7. InstLines' = InstLines
  BY <1>4, <1>5, <1>6, OccupiedLines
<1>8. place'[line].pos = pos /\ \A l \in Lines : l # line => place'[l] = place[l]
  <2>1. TypeOK
    BY DEF IInv
  <2>2. place'[line] = [kind |-> "var", pos |-> pos, size |-> size]
    BY <1>4, <1>5, <1>6, <2>1, Occupies
  <2>3. \A l \in Lines : l # line => place'[l] = place[l]
    BY <1>4, <1>5, <1>6, <2>1, Occupies
  <2> QED
    BY <2>2, <2>3
<1>9. /\ SYM_VAR \in Types /\ SYM_VAR # SYM_FUNC /\ SYM_VAR = SYM_VAR
      /\ Current.op \in DeclOps(SYM_VAR)
  BY DEF Types, DeclOps, SYM_FUNC, SYM_VAR
<1>10. /\ Grown(longer) /\ SameLinks(longer) /\ DOMAIN longer = DOMAIN vecSymbols \cup {t}
       /\ longer[t] = Symbol(name, SYM_VAR, pos)
  BY <1>9, AtLine, GrownAppend
<1>11. longer[t].name = name /\ longer[t].type = SYM_VAR /\ longer[t].pos = pos
  BY <1>10 DEF Symbol
<1> HIDE DEF longer
<1>12. \A i \in DOMAIN vecSymbols' : ~Pending(i)'
  <2>1. DOMAIN longer = 1..Len(longer) /\ Len(longer) \in Nat
    BY <1>10, ListDomain DEF Grown
  <2> QED
    BY <1>5, <2>1 DEF Pending
<1>13. Args \in Nat /\ 1 \in DOMAIN Current.args
  BY AtLine
<1>14. t \in DOMAIN vecSymbols' /\ \A i \in DOMAIN vecSymbols' : i \in DOMAIN vecSymbols \/ i = t
  BY <1>5, <1>10
<1> QED
  BY <1>5, <1>7, <1>8, <1>9, <1>10, <1>11, <1>12, <1>13, <1>14, DeclarationStep

LEMMA VariableSymbols == ASSUME IInv, SymbolParts, DefineVariable \/ DefineArray, Continues PROVE SymbolParts'
<1>1. phase = "read" /\ line \in Lines /\ Current.op \in {"dv", "da"}
  BY ReadsLine DEF DefineVariable, DefineArray, IInv
<1>2. (\A why : ~Refuse(why)) /\ ~Undefined
  BY DEF Continues, Refuse, Undefined
<1>3. CASE DefineVariable
  <2>1. /\ Args > 1 /\ ~Exists(Registered, Arg(1).text, SYM_VAR)
        /\ \E problem : Allocate(IntSize, problem) \/ Allocate(Arg(2).size, problem)
    BY <1>2, <1>3, Zenon DEF DefineVariable
  <2> QED
    BY <1>1, <2>1, ArgSize, AllocateSymbols
<1>4. CASE DefineArray
  <2>1. /\ Args > 1 /\ ~Exists(Registered, Arg(1).text, SYM_VAR)
        /\ \E problem : Allocate(IntSize * (Args - 1), problem)
    BY <1>2, <1>4, Zenon DEF DefineArray
  <2> QED
    BY <1>1, <2>1, ArgSize, AllocateSymbols
<1> QED
  BY <1>3, <1>4
\* Instructions have room for two constants.
LEMMA MakesArgs ==
    \A op, a, b, next : /\ {"arg0", "arg1"} \subseteq DOMAIN Make2(op, a, b, next)
                        /\ {"arg0", "arg1"} \subseteq DOMAIN Make1(op, a, next)
                        /\ {"arg0", "arg1"} \subseteq DOMAIN Make0(op, next)
BY DEF Make2, Make1, Make0

\* The links of before are of other lines.
LEMMA OldLinks ==
    ASSUME IInv, SymbolParts, line \in Lines
    PROVE  \A i \in DOMAIN vecSymbols : \A link \in vecSymbols[i].links : link.inst # line
<1>1. \A l \in InstLines : l # line
  BY PlacedAbove, SourceLines DEF IInv
<1> QED
  BY <1>1 DEF LinksOK, SymbolParts

\* An instruction that refers to nothing.
LEMMA UnlinkedStep ==
    ASSUME IInv, SymbolParts, Continues, phase = "read", line \in Lines,
           Current.op \notin {"dv", "da", "proc", "lbl"},
           NEW argc \in 0..2, NEW instr, {"arg0", "arg1"} \subseteq DOMAIN instr,
           NEW last, NEW iat, NEW imports, Assemble(argc, instr, Registered, last, iat, imports),
           \A k, name : ~Refers(line, k, name)
    PROVE  SymbolParts'
<1>1. Grown(Registered) /\ SameLinks(Registered) /\ DOMAIN Registered = DOMAIN vecSymbols
  BY AtLine
<1>2. \A i \in DOMAIN Registered : \A a \in Registered[i].links : a.inst # line
  BY <1>1, OldLinks DEF SameLinks
<1>3. phase' # "undefined"
  BY DEF Continues
<1>4. /\ \A i \in DOMAIN Registered \ DOMAIN vecSymbols :
            Registered[i].type = SYM_LBL /\ JumpMakes(line, Registered[i].name)
      /\ \A i, j \in DOMAIN Registered : \A a \in Registered[i].links, b \in Registered[j].links :
            a.inst = line /\ b.inst = line /\ Slot(a) = Slot(b) => i = j
  BY <1>1, <1>2
<1> QED
  BY <1>1, <1>3, <1>4, InstructionStep

\* What an instruction with less than two operands refers to.
LEMMA RefersOnce ==
    ASSUME Current.op \notin TwoOps, NEW k, NEW name, Refers(line, k, name)
    PROVE  /\ k = 1 /\ name = Arg(1).text /\ RefName(line, k) = Arg(1).text
           /\ \/ Current.op \in JumpOps /\ ~TakesRegister(Arg(1)) /\ ~TakesNumber(Arg(1))
              \/ Current.op \in {"call", "crth"} /\ Arg(1).tail = None
BY DEF Refers, RefName, Current, Arg

\* An instruction with one link.
LEMMA OneLinkStep ==
    ASSUME IInv, SymbolParts, Continues, phase = "read", line \in Lines,
           Current.op \notin {"dv", "da", "proc", "lbl"} \cup TwoOps,
           NEW instr, {"arg0", "arg1"} \subseteq DOMAIN instr,
           NEW symbols, Grown(symbols), SameLinks(symbols), NEW i \in DOMAIN symbols,
           symbols[i].name = Arg(1).text, Current.op \notin JumpOps => symbols[i].type # SYM_LBL,
           \A j \in DOMAIN symbols \ DOMAIN vecSymbols :
              symbols[j].type = SYM_LBL /\ JumpMakes(line, symbols[j].name),
           AssemblePlain(1, instr, Linked(symbols, i, SymLink(0, FALSE)))
    PROVE  SymbolParts'
<1>9. PICK link, more : link = SymLink(0, FALSE) /\ more = Linked(symbols, i, link)
  OBVIOUS
<1>2. link.inst = line /\ Slot(link) = 0
  <2>1. 0 \in {0, 1} /\ FALSE \in BOOLEAN
    OBVIOUS
  <2> QED
    BY <1>9, <2>1, SlotOfLink, Zenon
<1>1. /\ Grown(more) /\ DOMAIN more = DOMAIN symbols
      /\ \A j \in DOMAIN symbols : more[j].name = symbols[j].name /\ more[j].type = symbols[j].type
      /\ \A j \in DOMAIN symbols :
            more[j].links = IF j = i THEN symbols[j].links \cup {link} ELSE symbols[j].links
  <2>1. Slot(link) \in {0, 1}
    BY <1>2
  <2> QED
    <3>1. OneMore(more, symbols, i, link)
      BY <1>2, <1>9, <2>1, GrownLinked
    <3> QED
      BY <3>1 DEF OneMore
<1>3. Assemble(1, instr, more, line, vecIAT, iImports)
  BY <1>9 DEF AssemblePlain
<1>4. \A j \in DOMAIN symbols : \A a \in symbols[j].links : a.inst # line
  BY OldLinks DEF SameLinks
<1>5. \A j, k \in DOMAIN more : \A a \in more[j].links, b \in more[k].links :
         a.inst = line /\ b.inst = line /\ Slot(a) = Slot(b) => j = k
  <2>1. \A j \in DOMAIN more : \A a \in more[j].links : a.inst = line => j = i
    BY <1>1, <1>4
  <2> QED
    BY <2>1
<1>6. \A k \in DOMAIN Current.args : Refers(line, k, RefName(line, k)) =>
         \E j \in DOMAIN more :
            /\ \E a \in more[j].links : a.inst = line /\ Slot(a) = SlotOf(line, k)
            /\ more[j].name = RefName(line, k)
            /\ Current.op \notin JumpOps => more[j].type # SYM_LBL
  <2> SUFFICES ASSUME NEW k \in DOMAIN Current.args, Refers(line, k, RefName(line, k))
               PROVE  /\ i \in DOMAIN more /\ link \in more[i].links /\ link.inst = line
                      /\ Slot(link) = SlotOf(line, k)
                      /\ more[i].name = RefName(line, k)
                      /\ Current.op \notin JumpOps => more[i].type # SYM_LBL
    OBVIOUS
  <2>1. k = 1 /\ RefName(line, k) = Arg(1).text
    BY RefersOnce
  <2>2. SlotOf(line, k) = 0
    BY <2>1 DEF SlotOf, Current
  <2> QED
    BY <1>1, <1>2, <2>1, <2>2
<1>7. \A j \in DOMAIN more \ DOMAIN vecSymbols :
         more[j].type = SYM_LBL /\ JumpMakes(line, more[j].name)
  BY <1>1
<1>8. phase' # "undefined" /\ 1 \in 0..2 /\ Current.op \notin {"dv", "da", "proc", "lbl"}
  BY DEF Continues
<1> QED
  BY <1>1, <1>3, <1>5, <1>6, <1>7, <1>8, InstructionStep

\* The mnemonics are apart.
LEMMA OpsApart ==
    ASSUME Current.op \in JumpOps \cup {"nop", "ret", "natv", "pop", "push", "call", "crth"}
    PROVE  Current.op \notin {"dv", "da", "proc", "lbl"} \cup TwoOps
BY OpsAssumption DEF JumpOps, OtherWords

\* The instructions that never refer to a symbol.
LEMMA SimpleSymbols ==
    ASSUME IInv, SymbolParts, Nop \/ Ret \/ Natv \/ Pop \/ Push, Continues PROVE SymbolParts'
<1>1. /\ phase = "read" /\ line \in Lines
      /\ Current.op \in {"nop", "ret", "natv", "pop", "push"}
  BY ReadsLine DEF Nop, Ret, Natv, Pop, Push, IInv
<1>2. Current.op \notin {"dv", "da", "proc", "lbl"} /\ Current.op \notin TwoOps
      /\ Current.op \notin JumpOps
  BY <1>1, OpsApart DEF JumpOps
<1>3. \A k, name : ~Refers(line, k, name)
  BY <1>1, <1>2, RefersOnce
<1>4. (\A why : ~Refuse(why)) /\ ~Undefined
  BY DEF Continues, Refuse, Undefined
<1>5. \E argc \in 0..2 : \E op, operand, last, iat, imports :
         \/ Assemble(argc, Make1(op, operand, SetNext(0)), Registered, last, iat, imports)
         \/ Assemble(argc, Make0(op, SetNext(0)), Registered, last, iat, imports)
  <2>1. 0 \in 0..2 /\ 1 \in 0..2
    OBVIOUS
  <2>2. CASE Nop \/ Ret
    BY <2>1, <2>2, Zenon DEF Nop, Ret, AssemblePlain
  <2>3. CASE Natv
    BY <1>4, <2>1, <2>3, Zenon DEF Natv, AssemblePlain
  <2>4. CASE Pop \/ Push
    BY <1>4, <2>1, <2>4, Zenon DEF Pop, Push, AssemblePlain
  <2> QED
    BY <2>2, <2>3, <2>4
<1> QED
  BY <1>1, <1>2, <1>3, <1>5, MakesArgs, UnlinkedStep

\* A call links the procedure it calls.
LEMMA CallSymbols == ASSUME IInv, SymbolParts, CallOrCrth, Continues PROVE SymbolParts'
<1>1. phase = "read" /\ line \in Lines /\ Current.op \in {"call", "crth"}
  BY ReadsLine DEF CallOrCrth, IInv
<1>2. Current.op \notin {"dv", "da", "proc", "lbl"} \cup TwoOps /\ Current.op \notin JumpOps
  BY <1>1, OpsApart DEF JumpOps
<1> DEFINE i == FindSymbol(Registered, Arg(1).text, SYM_FUNC)
<1>3. \/ /\ Arg(1).tail # None
         /\ AssemblePlain(1, Make1(Current.op, Register(Arg(1), Arg(1).tail), SetNext(0)), Registered)
      \/ /\ Exists(Registered, Arg(1).text, SYM_FUNC)
         /\ AssemblePlain(1, Make1(Current.op, Constant(Arg(1), 0), SetNext(0)),
                          Linked(Registered, i, SymLink(0, FALSE)))
  <2>1. (\A why : ~Refuse(why)) /\ ~Undefined
    BY DEF Continues, Refuse, Undefined
  <2> QED
    BY <2>1, Zenon DEF CallOrCrth
<1>4. CASE /\ Arg(1).tail # None
           /\ AssemblePlain(1, Make1(Current.op, Register(Arg(1), Arg(1).tail), SetNext(0)), Registered)
  <2>1. \A k, name : ~Refers(line, k, name)
    BY <1>2, <1>4, RefersOnce
  <2> QED
    BY <1>1, <1>2, <1>4, <2>1, MakesArgs, UnlinkedStep DEF AssemblePlain
<1>5. CASE /\ Exists(Registered, Arg(1).text, SYM_FUNC)
           /\ AssemblePlain(1, Make1(Current.op, Constant(Arg(1), 0), SetNext(0)),
                            Linked(Registered, i, SymLink(0, FALSE)))
  <2>1. Grown(Registered) /\ SameLinks(Registered) /\ DOMAIN Registered = DOMAIN vecSymbols
    BY <1>1, AtLine
  <2>2. i \in Matching(Registered, Arg(1).text, SYM_FUNC) /\ i \in DOMAIN Registered
    BY <1>5, <2>1, FindSymbolFinds DEF Grown
  <2>3. Registered[i].name = Arg(1).text /\ Registered[i].type # SYM_LBL
    BY <2>2 DEF Matching, SYM_FUNC, SYM_LBL
  <2>4. PICK t, instr : /\ t = i /\ instr = Make1(Current.op, Constant(Arg(1), 0), SetNext(0))
    OBVIOUS
  <2> HIDE DEF i
  <2>5. {"arg0", "arg1"} \subseteq DOMAIN instr
    BY <2>4, MakesArgs
  <2>6. AssemblePlain(1, instr, Linked(Registered, t, SymLink(0, FALSE)))
    BY <1>5, <2>4
  <2> QED
    BY <1>1, <1>2, <2>1, <2>2, <2>3, <2>4, <2>5, <2>6, OneLinkStep
<1> QED
  BY <1>3, <1>4, <1>5

\* FindFirst finds a symbol of one of the types.
LEMMA FindFirstFinds ==
    ASSUME NEW symbols, IsList(symbols), NEW name, NEW types,
           \E k \in DOMAIN types : /\ Exists(symbols, name, types[k])
                                   /\ \A j \in 1..(k - 1) : ~Exists(symbols, name, types[j]),
           \A k \in DOMAIN types : types[k] \in Types
    PROVE  LET i == FindFirst(symbols, name, types)
           IN  /\ i \in DOMAIN symbols /\ symbols[i].name = name
               /\ \E k \in DOMAIN types : symbols[i].type = types[k]
<1> DEFINE P(k) == /\ Exists(symbols, name, types[k])
                   /\ \A j \in 1..(k - 1) : ~Exists(symbols, name, types[j])
           first == CHOOSE k \in DOMAIN types : P(k)
           i == FindFirst(symbols, name, types)
<1>1. first \in DOMAIN types /\ P(first)
  <2> HIDE DEF P
  <2>1. \E k \in DOMAIN types : P(k)
    BY DEF P
  <2> QED
    BY <2>1
<1>2. i = FindSymbol(symbols, name, types[first])
  BY DEF FindFirst
<1>3. Exists(symbols, name, types[first]) /\ types[first] \in Types /\ first \in DOMAIN types
  BY <1>1
<1> HIDE DEF first, P, i
<1>4. i \in Matching(symbols, name, types[first]) /\ i \in DOMAIN symbols
  BY <1>2, <1>3, FindSymbolFinds
<1>5. types[first] # -1
  BY <1>3 DEF Types, SYM_FUNC, SYM_VAR, SYM_LBL
<1>6. symbols[i].name = name /\ symbols[i].type = types[first]
  BY <1>4, <1>5 DEF Matching
<1> QED
  BY <1>3, <1>4, <1>6 DEF i

LEMMA FindTarget ==
    ASSUME NEW symbols, IsList(symbols), NEW name, ExistsOf(symbols, name, JumpTypes)
    PROVE  FindFirst(symbols, name, JumpTypes) \in DOMAIN symbols
           /\ symbols[FindFirst(symbols, name, JumpTypes)].name = name
<1>1. /\ DOMAIN JumpTypes = {1, 2, 3}
      /\ JumpTypes[1] = SYM_LBL /\ JumpTypes[2] = SYM_FUNC /\ JumpTypes[3] = SYM_VAR
  BY DEF JumpTypes
<1>2. \A k \in DOMAIN JumpTypes : JumpTypes[k] \in Types
  BY <1>1 DEF Types
<1>3. 1..(1 - 1) = {} /\ 1..(2 - 1) = {1} /\ 1..(3 - 1) = {1, 2}
  OBVIOUS
<1>4. \E k \in DOMAIN JumpTypes : /\ Exists(symbols, name, JumpTypes[k])
                                 /\ \A j \in 1..(k - 1) : ~Exists(symbols, name, JumpTypes[j])
  <2>1. \/ Exists(symbols, name, JumpTypes[1]) \/ Exists(symbols, name, JumpTypes[2])
        \/ Exists(symbols, name, JumpTypes[3])
    BY <1>1 DEF ExistsOf
  <2> QED
    BY <1>1, <1>3, <2>1
<1> QED
  BY <1>2, <1>4, FindFirstFinds

LEMMA FindOperand ==
    ASSUME NEW symbols, IsList(symbols), NEW name, ExistsOf(symbols, name, OperandTypes)
    PROVE  LET i == FindFirst(symbols, name, OperandTypes)
           IN  i \in DOMAIN symbols /\ symbols[i].name = name /\ symbols[i].type # SYM_LBL
<1>1. DOMAIN OperandTypes = {1, 2} /\ OperandTypes[1] = SYM_VAR /\ OperandTypes[2] = SYM_FUNC
  BY DEF OperandTypes
<1>2. \A k \in DOMAIN OperandTypes : OperandTypes[k] \in Types /\ OperandTypes[k] # SYM_LBL
  BY <1>1 DEF Types, SYM_FUNC, SYM_VAR, SYM_LBL
<1>3. 1..(1 - 1) = {} /\ 1..(2 - 1) = {1}
  OBVIOUS
<1>4. \E k \in DOMAIN OperandTypes :
         /\ Exists(symbols, name, OperandTypes[k])
         /\ \A j \in 1..(k - 1) : ~Exists(symbols, name, OperandTypes[j])
  <2>1. Exists(symbols, name, OperandTypes[1]) \/ Exists(symbols, name, OperandTypes[2])
    BY <1>1 DEF ExistsOf
  <2> QED
    BY <1>1, <1>3, <2>1
<1>5. PICK i : i = FindFirst(symbols, name, OperandTypes)
  OBVIOUS
<1>6. /\ i \in DOMAIN symbols /\ symbols[i].name = name
      /\ \E k \in DOMAIN OperandTypes : symbols[i].type = OperandTypes[k]
  BY <1>2, <1>4, <1>5, FindFirstFinds
<1> QED
  BY <1>2, <1>5, <1>6
\* A jump links what it finds, or makes the label it expects.
LEMMA JumpSymbols == ASSUME IInv, SymbolParts, Jump, Continues PROVE SymbolParts'
<1>1. phase = "read" /\ line \in Lines /\ Current.op \in JumpOps
  BY ReadsLine DEF Jump, IInv
<1>2. Current.op \notin {"dv", "da", "proc", "lbl"} \cup TwoOps
  BY <1>1, OpsApart
<1>3. \A why : ~Refuse(why)
  BY DEF Continues, Refuse
<1>4. Args > 0
      /\ \/ (\E operand : AssemblePlain(1, Make1(Current.op, operand, SetNext(0)), Registered))
             /\ (TakesRegister(Arg(1)) \/ TakesNumber(Arg(1)))
         \/ ~TakesRegister(Arg(1)) /\ ~TakesNumber(Arg(1)) /\ JumpToName(Arg(1))
  BY <1>3, Zenon DEF Jump
<1>5. CASE (\E operand : AssemblePlain(1, Make1(Current.op, operand, SetNext(0)), Registered))
           /\ (TakesRegister(Arg(1)) \/ TakesNumber(Arg(1)))
  <2>1. Current.op \notin {"call", "crth"}
    BY <1>1 DEF JumpOps
  <2>2. \A k, name : ~Refers(line, k, name)
    BY <1>2, <1>5, <2>1, RefersOnce
  <2> QED
    BY <1>1, <1>2, <1>5, <2>2, MakesArgs, UnlinkedStep DEF AssemblePlain
<1>6. CASE ~TakesRegister(Arg(1)) /\ ~TakesNumber(Arg(1)) /\ JumpToName(Arg(1))
  <2> DEFINE name == Arg(1).text
             longer == Append(Registered, Symbol(name, SYM_LBL, 0))
             found == FindFirst(Registered, name, JumpTypes)
  <2>1. PICK instr : instr = Make1(Current.op, [reg |-> FALSE, deref |-> FALSE, val |-> 0], SetNext(0))
    OBVIOUS
  <2>2. \/ /\ ExistsOf(Registered, name, JumpTypes)
           /\ AssemblePlain(1, instr, Linked(Registered, found, SymLink(0, FALSE)))
        \/ /\ ~ExistsOf(Registered, name, JumpTypes)
           /\ AssemblePlain(1, instr, Linked(longer, Len(vecSymbols) + 1, SymLink(0, FALSE)))
    BY <1>6, <2>1, Zenon DEF JumpToName
  <2>3. {"arg0", "arg1"} \subseteq DOMAIN instr
    BY <2>1, MakesArgs
  <2>4. Grown(Registered) /\ SameLinks(Registered) /\ DOMAIN Registered = DOMAIN vecSymbols
    BY <1>1, AtLine
  <2>5. CASE /\ ExistsOf(Registered, name, JumpTypes)
             /\ AssemblePlain(1, instr, Linked(Registered, found, SymLink(0, FALSE)))
    <3>1. PICK i : i = found
      OBVIOUS
    <3>2. i \in DOMAIN Registered /\ Registered[i].name = name
      BY <2>4, <2>5, <3>1, FindTarget DEF Grown
    <3>3. AssemblePlain(1, instr, Linked(Registered, i, SymLink(0, FALSE)))
      BY <2>5, <3>1
    <3> QED
      BY <1>1, <1>2, <2>3, <2>4, <3>2, <3>3, OneLinkStep
  <2>6. CASE /\ ~ExistsOf(Registered, name, JumpTypes)
             /\ AssemblePlain(1, instr, Linked(longer, Len(vecSymbols) + 1, SymLink(0, FALSE)))
    <3>1. \A type \in Types : ~Exists(Registered, name, type)
      <4>1. /\ DOMAIN JumpTypes = {1, 2, 3}
            /\ JumpTypes[1] = SYM_LBL /\ JumpTypes[2] = SYM_FUNC /\ JumpTypes[3] = SYM_VAR
        BY DEF JumpTypes
      <4> QED
        BY <2>6, <4>1 DEF ExistsOf, Types
    <3>2. SYM_LBL \in Types /\ SYM_FUNC \in Types /\ SYM_VAR \in Types
      BY DEF Types
    <3>3. PICK t : t = Len(vecSymbols) + 1
      OBVIOUS
    <3>4. PICK symbols : symbols = longer
      OBVIOUS
    <3>5. /\ Grown(symbols) /\ SameLinks(symbols) /\ DOMAIN symbols = DOMAIN vecSymbols \cup {t}
          /\ symbols[t] = Symbol(name, SYM_LBL, 0)
      BY <1>1, <3>1, <3>2, <3>3, <3>4, AtLine, GrownAppend
    <3>6. symbols[t].name = name /\ symbols[t].type = SYM_LBL
      BY <3>5 DEF Symbol
    <3>7. \A d \in Lines : \A type \in {SYM_FUNC, SYM_VAR} : d < line => ~Declares(d, name, type)
      <4> SUFFICES ASSUME NEW d \in Lines, NEW type \in {SYM_FUNC, SYM_VAR}, d < line,
                          Declares(d, name, type)
                   PROVE  FALSE
        OBVIOUS
      <4>1. type \in Types
        BY <3>2
      <4>2. \E i \in DOMAIN vecSymbols : vecSymbols[i].name = name /\ vecSymbols[i].type = type
        BY <4>1 DEF Declared, Declares, SymbolParts
      <4> QED
        BY <2>4, <3>1, <4>1, <4>2, GrownExists
    <3>8. JumpMakes(line, name)
      <4>1. 1 \in DOMAIN source[line].args
        BY <1>1, <1>4, AtLine DEF Current
      <4>2. Refers(line, 1, name)
        BY <1>1, <1>6 DEF Refers, Current, Arg
      <4> QED
        BY <1>1, <3>7, <4>1, <4>2 DEF JumpMakes, Current
    <3>9. AssemblePlain(1, instr, Linked(symbols, t, SymLink(0, FALSE)))
      BY <2>6, <3>3, <3>4
    <3>10. \A j \in DOMAIN symbols \ DOMAIN vecSymbols :
              symbols[j].type = SYM_LBL /\ JumpMakes(line, symbols[j].name)
      BY <3>5, <3>6, <3>8
    <3>11. t \in DOMAIN symbols
      BY <3>5
    <3> QED
      BY <1>1, <1>2, <2>3, <3>5, <3>6, <3>9, <3>10, <3>11, OneLinkStep
  <2> QED
    BY <2>2, <2>5, <2>6
<1> QED
  BY <1>4, <1>5, <1>6

\* What a named operand adds: one link, to a variable or procedure of the name.
LinkOf(argNum) == SymLink(argNum, Current.op \in OrderRev)
OperandMore(result, symbols, t, new) ==
    /\ Grown(result) /\ DOMAIN result = DOMAIN symbols
    /\ \E i : /\ \A j \in DOMAIN result : \A link \in result[j].links :
                    link \in symbols[j].links \/ (j = i /\ link = new)
              /\ \A j \in DOMAIN result : symbols[j].links \subseteq result[j].links
              /\ IsName(t) => /\ i \in DOMAIN result /\ new \in result[i].links
                              /\ result[i].name = t.name /\ result[i].type # SYM_LBL

LEMMA OperandLinked ==
    ASSUME NEW symbols, Grown(symbols), DOMAIN symbols = DOMAIN vecSymbols, DOMAIN Registered = DOMAIN vecSymbols,
           Grown(Registered), NEW t, NEW argNum \in {0, 1}, OperandProblem(t) = "none",
           NEW result, result = WithLink(symbols, t, argNum), NEW new, new = LinkOf(argNum)
    PROVE  OperandMore(result, symbols, t, new)
<1>1. CASE ~IsName(t)
  <2>1. result = symbols
    BY <1>1 DEF WithLink
  <2> QED
    BY <1>1, <2>1 DEF OperandMore
<1>2. CASE IsName(t)
  <2>1. ExistsOf(Registered, t.name, OperandTypes)
    BY <1>2 DEF OperandProblem, IsName
  <2>2. \A type \in Types : Exists(Registered, t.name, type) <=> Exists(symbols, t.name, type)
    BY GrownExists
  <2>3. ExistsOf(symbols, t.name, OperandTypes)
    <3>1. DOMAIN OperandTypes = {1, 2} /\ OperandTypes[1] = SYM_VAR /\ OperandTypes[2] = SYM_FUNC
      BY DEF OperandTypes
    <3>2. \A k \in DOMAIN OperandTypes : OperandTypes[k] \in Types
      BY <3>1 DEF Types
    <3> QED
      BY <2>1, <2>2, <3>2 DEF ExistsOf
  <2>4. PICK i : i = FindFirst(symbols, t.name, OperandTypes)
    OBVIOUS
  <2>5. i \in DOMAIN symbols /\ symbols[i].name = t.name /\ symbols[i].type # SYM_LBL
    BY <2>3, <2>4, FindOperand DEF Grown
  <2>6. PICK reversed \in BOOLEAN : reversed = (Current.op \in OrderRev)
    <3>1. (Current.op \in OrderRev) \in BOOLEAN
      OBVIOUS
    <3> QED
      BY <3>1, Zenon
  <2>7. PICK link, more : link = SymLink(argNum, reversed) /\ more = Linked(symbols, i, link)
    OBVIOUS
  <2>8. result = more /\ new = link
    BY <1>2, <2>4, <2>6, <2>7, Zenon DEF WithLink, LinkOf
  <2>9. /\ Grown(more) /\ DOMAIN more = DOMAIN symbols
        /\ \A j \in DOMAIN symbols : more[j].name = symbols[j].name /\ more[j].type = symbols[j].type
        /\ \A j \in DOMAIN symbols :
              more[j].links = IF j = i THEN symbols[j].links \cup {link} ELSE symbols[j].links
    <3>1. link.inst = line /\ Slot(link) \in {0, 1}
      BY <2>7, SlotOfLink
    <3> QED
      <4>1. OneMore(more, symbols, i, link)
        BY <2>5, <2>7, <3>1, GrownLinked
      <4> QED
        BY <4>1 DEF OneMore
  <2> QED
    BY <2>5, <2>8, <2>9 DEF OperandMore
<1> QED
  BY <1>1, <1>2

\* The slots of the two operands are apart, and each is the one its operand is
\* in.
LEMMA OperandSlots ==
    ASSUME line \in Lines, Current.op \in TwoOps
    PROVE  /\ Slot(LinkOf(0)) # Slot(LinkOf(1))
           /\ LinkOf(0).inst = line /\ LinkOf(1).inst = line
           /\ Slot(LinkOf(0)) = SlotOf(line, 1) /\ Slot(LinkOf(1)) = SlotOf(line, 2)
<1>1. PICK reversed \in BOOLEAN : reversed = (Current.op \in OrderRev)
  <2>1. (Current.op \in OrderRev) \in BOOLEAN
    OBVIOUS
  <2> QED
    BY <2>1, Zenon
<1>2. LinkOf(0) = SymLink(0, reversed) /\ LinkOf(1) = SymLink(1, reversed)
  BY <1>1, Zenon DEF LinkOf
<1>3. PICK L0, L1 : L0 = LinkOf(0) /\ L1 = LinkOf(1)
  OBVIOUS
<1>4. L0.inst = line /\ Slot(L0) = IF reversed THEN 1 ELSE 0
  <2>1. 0 \in {0, 1} /\ 1 - 0 = 1
    OBVIOUS
  <2> QED
    BY <1>2, <1>3, <2>1, SlotOfLink
<1>5. L1.inst = line /\ Slot(L1) = IF reversed THEN 0 ELSE 1
  <2>1. 1 \in {0, 1} /\ 1 - 1 = 0
    OBVIOUS
  <2> QED
    BY <1>2, <1>3, <2>1, SlotOfLink
<1>6. /\ SlotOf(line, 1) = IF reversed THEN 1 ELSE 0
      /\ SlotOf(line, 2) = IF reversed THEN 0 ELSE 1
  <2>1. 2 - 1 = 1 /\ 2 - 2 = 0 /\ 1 - 1 = 0
    OBVIOUS
  <2> QED
    BY <1>1, <2>1 DEF SlotOf, Current
<1> QED
  BY <1>3, <1>4, <1>5, <1>6

LEMMA TwoOperandSymbols == ASSUME IInv, SymbolParts, TwoOperand, Continues PROVE SymbolParts'
<1>1. phase = "read" /\ line \in Lines /\ Current.op \in TwoOps
  BY ReadsLine DEF TwoOperand, IInv
<1>2. Current.op \notin {"dv", "da", "proc", "lbl"} /\ Current.op \notin JumpOps
      /\ Current.op \notin {"call", "crth"}
  BY <1>1, OpsAssumption DEF JumpOps, OtherWords
<1>3. \A why : ~Refuse(why)
  BY DEF Continues, Refuse
<1>4. /\ OperandProblem(Arg(1)) = "none" /\ OperandProblem(Arg(2)) = "none"
      /\ \E a, b : AssemblePlain(2, Make2(Current.op, a, b, SetNext(0)),
                                 WithLink(WithLink(Registered, Arg(1), 0), Arg(2), 1))
  BY <1>3, Zenon DEF TwoOperand
<1>5. PICK s1, s2 : s1 = WithLink(Registered, Arg(1), 0) /\ s2 = WithLink(s1, Arg(2), 1)
  OBVIOUS
<1>6. PICK instr : {"arg0", "arg1"} \subseteq DOMAIN instr /\ AssemblePlain(2, instr, s2)
  BY <1>4, <1>5, MakesArgs
<1>7. Grown(Registered) /\ SameLinks(Registered) /\ DOMAIN Registered = DOMAIN vecSymbols
  BY <1>1, AtLine
<1>8. PICK L0, L1 : L0 = LinkOf(0) /\ L1 = LinkOf(1)
  OBVIOUS
<1>9. OperandMore(s1, Registered, Arg(1), L0)
  <2>1. 0 \in {0, 1}
    OBVIOUS
  <2> QED
    BY <1>4, <1>5, <1>7, <1>8, <2>1, OperandLinked
<1>10. OperandMore(s2, s1, Arg(2), L1) /\ Grown(s1) /\ DOMAIN s1 = DOMAIN vecSymbols
  <2>1. 1 \in {0, 1} /\ Grown(s1) /\ DOMAIN s1 = DOMAIN vecSymbols
    BY <1>7, <1>9 DEF OperandMore
  <2> QED
    BY <1>4, <1>5, <1>7, <1>8, <2>1, OperandLinked
<1>19. Grown(s2) /\ DOMAIN s2 = DOMAIN vecSymbols
  BY <1>10 DEF OperandMore
<1>11. PICK i0 : /\ \A j \in DOMAIN s1 : \A link \in s1[j].links :
                       link \in Registered[j].links \/ (j = i0 /\ link = L0)
                 /\ IsName(Arg(1)) => /\ i0 \in DOMAIN s1 /\ L0 \in s1[i0].links
                                      /\ s1[i0].name = Arg(1).name /\ s1[i0].type # SYM_LBL
  BY <1>9 DEF OperandMore
<1>12. PICK i1 : /\ \A j \in DOMAIN s2 : \A link \in s2[j].links :
                       link \in s1[j].links \/ (j = i1 /\ link = L1)
                 /\ \A j \in DOMAIN s2 : s1[j].links \subseteq s2[j].links
                 /\ IsName(Arg(2)) => /\ i1 \in DOMAIN s2 /\ L1 \in s2[i1].links
                                      /\ s2[i1].name = Arg(2).name /\ s2[i1].type # SYM_LBL
  BY <1>10 DEF OperandMore
<1>13. /\ Slot(L0) # Slot(L1) /\ L0.inst = line /\ L1.inst = line
       /\ Slot(L0) = SlotOf(line, 1) /\ Slot(L1) = SlotOf(line, 2)
  BY <1>1, <1>8, OperandSlots
<1>14. ASSUME NEW j \in DOMAIN s2, NEW link \in s2[j].links, link.inst = line
       PROVE  (j = i0 /\ link = L0) \/ (j = i1 /\ link = L1)
  <2>1. \A k \in DOMAIN Registered : \A a \in Registered[k].links : a.inst # line
    BY <1>1, <1>7, OldLinks DEF SameLinks
  <2> QED
    BY <1>7, <1>10, <1>19, <1>11, <1>12, <1>14, <2>1
<1>15. \A i, j \in DOMAIN s2 : \A a \in s2[i].links, b \in s2[j].links :
          a.inst = line /\ b.inst = line /\ Slot(a) = Slot(b) => i = j
  BY <1>13, <1>14
<1>16. ASSUME NEW k \in DOMAIN Current.args, Refers(line, k, RefName(line, k))
       PROVE  \E i \in DOMAIN s2 :
                 /\ \E link \in s2[i].links : link.inst = line /\ Slot(link) = SlotOf(line, k)
                 /\ s2[i].name = RefName(line, k)
                 /\ Current.op \notin JumpOps => s2[i].type # SYM_LBL
  <2>1. k <= 2 /\ IsName(Arg(k)) /\ RefName(line, k) = Arg(k).name
    BY <1>1, <1>2, <1>16 DEF Refers, RefName, Current, Arg
  <2>2. k = 1 \/ k = 2
    <3>1. k \in 1..Args /\ Args \in Nat
      BY <1>1, AtLine
    <3> QED
      BY <2>1, <3>1
  <2>3. CASE k = 1
    <3>1. i0 \in DOMAIN s2 /\ L0 \in s2[i0].links
      BY <1>10, <1>19, <1>11, <1>12, <2>1, <2>3
    <3>2. s2[i0].name = s1[i0].name /\ s2[i0].type = s1[i0].type
      BY <1>10, <1>19, <3>1 DEF Grown
    <3> QED
      BY <1>11, <1>13, <2>1, <2>3, <3>1, <3>2
  <2>4. CASE k = 2
    BY <1>12, <1>13, <2>1, <2>4
  <2> QED
    BY <2>2, <2>3, <2>4
<1>17. Assemble(2, instr, s2, line, vecIAT, iImports) /\ phase' # "undefined" /\ 2 \in 0..2
  BY <1>6 DEF AssemblePlain, Continues
<1>18. \A i \in DOMAIN s2 \ DOMAIN vecSymbols : s2[i].type = SYM_LBL /\ JumpMakes(line, s2[i].name)
  BY <1>19
<1> QED
  BY <1>1, <1>2, <1>6, <1>19, <1>15, <1>16, <1>17, <1>18, InstructionStep
\* What does not touch the symbols and the lines keeps what relates them.
LEMMA SymbolsFrame ==
    ASSUME SymbolParts, UNCHANGED <<source, line, pStart, place, vecSymbols, bFirst, iLabel>>
    PROVE  /\ SymbolsOK' /\ Unique' /\ Declared' /\ HasLine' /\ OneProc'
           /\ Placed' /\ PendingIsFresh'
           /\ LinksOK' /\ OneTarget' /\ Targeted' /\ LabelOrigin'
<1>1. /\ source' = source /\ line' = line /\ pStart' = pStart /\ place' = place
      /\ vecSymbols' = vecSymbols /\ bFirst' = bFirst /\ iLabel' = iLabel
  OBVIOUS
<1>2. Lines' = Lines /\ InstLines' = InstLines
  BY <1>1 DEF Lines, InstLines
<1>3. \A d, name, type : Declares(d, name, type)' <=> Declares(d, name, type)
  BY <1>1 DEF Declares, DeclOps, SYM_FUNC, SYM_VAR
<1>4. SymbolsOK'
  BY <1>1 DEF SymbolsOK, IsSymbol, Types, SymbolParts
<1>5. Unique'
  BY <1>1 DEF Unique, SymbolParts
<1>6. Declared'
  BY <1>1, <1>2 DEF Declared, DeclOps, Types, SYM_FUNC, SYM_VAR, SYM_LBL, SymbolParts
<1>7. HasLine'
  BY <1>1, <1>2, <1>3, Zenon DEF HasLine, SymbolParts
<1>8. OneProc'
  BY <1>1, <1>2 DEF OneProc, SymbolParts
<1>9. Placed' /\ PendingIsFresh'
  <2>1. /\ \A d, name, type : Latest(d, name, type)' <=> Latest(d, name, type)
        /\ \A d, pos : IsPosition(d, pos)' <=> IsPosition(d, pos)
        /\ \A d : NoneBehind(d)' <=> NoneBehind(d)
        /\ \A i : Pending(i)' <=> Pending(i)
    BY <1>1, <1>2 DEF Declares, Latest, IsPosition, IsNextInst, NoneBehind, Pending
  <2>2. Placed'
    BY <1>1, <1>2, <1>3, <2>1 DEF Placed, SymbolParts
  <2>3. PendingIsFresh'
    BY <1>1, <1>2, <1>3, <2>1 DEF PendingIsFresh, SymbolParts
  <2> QED
    BY <2>2, <2>3
<1>10. LinksOK'
  BY <1>1, <1>2, Zenon DEF LinksOK, Slot, SymbolParts
<1>11. OneTarget'
  BY <1>1, Zenon DEF OneTarget, Slot, SymbolParts
<1>12. \A l, k, name : Refers(l, k, name)' => Refers(l, k, name)
  <2>1. source' = source
    BY <1>1
  <2> QED
    BY <2>1, SMTT(30) DEF Refers
<1>13. \A l, k, name : Refers(l, k, name) => Refers(l, k, name)'
  <2>1. source' = source
    BY <1>1
  <2> QED
    BY <2>1, SMTT(30) DEF Refers
<1>14. /\ \A l, k : Refers(l, k, RefName(l, k))' => Refers(l, k, RefName(l, k))
       /\ \A l, k, i : Linking(l, k, i) => Linking(l, k, i)'
  <2>1. source' = source /\ vecSymbols' = vecSymbols
    BY <1>1
  <2>2. \A l, k : Refers(l, k, RefName(l, k))' => Refers(l, k, RefName(l, k))
    BY <2>1, SMTT(30) DEF Refers, RefName
  <2>3. \A l, k, i : Linking(l, k, i) => Linking(l, k, i)'
    BY <2>1 DEF Linking, RefName, SlotOf, Slot
  <2> QED
    BY <2>2, <2>3
<1>15. Targeted'
  BY <1>1, <1>2, <1>14, Zenon DEF Targeted, SymbolParts
<1>16. \A l, name : JumpMakes(l, name)' <=> JumpMakes(l, name)
  BY <1>1, <1>2, <1>3, <1>12, <1>13, Zenon DEF JumpMakes
<1>17. LabelOrigin'
  BY <1>1, <1>2, <1>3, <1>16, Zenon DEF LabelOrigin, SymbolParts
<1> QED
  BY <1>4, <1>5, <1>6, <1>7, <1>8, <1>9, <1>10, <1>11, <1>15, <1>17

\* The end of the run puts each symbol's position where its links lead.
LEMMA ImageSymbols == ASSUME IInv, SymbolParts, WriteImage PROVE SymbolParts'
<1>1. /\ phase = "read" /\ line > Len(source) /\ phase' = "written"
      /\ UNCHANGED <<source, line, pStart, place, vecSymbols, bFirst, iLabel>>
      /\ code' = [l \in DOMAIN code |->
                   [code[l] EXCEPT !.arg0 = Patched(l, 0, @), !.arg1 = Patched(l, 1, @)]]
      /\ ulOffMain' = IF Exists(vecSymbols, "main", SYM_FUNC)
                      THEN vecSymbols[FindSymbol(vecSymbols, "main", SYM_FUNC)].pos
                      ELSE DefaultEntry
  BY DEF WriteImage
<1>2. Lines' = Lines /\ InstLines' = InstLines
  BY <1>1 DEF Lines, InstLines
<1>3. DOMAIN code = Lines /\ \A l \in Lines : {"arg0", "arg1"} \subseteq DOMAIN code[l]
  BY DEF IInv, CodeOK, CodeShape, SymbolParts
<1>4. /\ line' = Len(source') + 1
      /\ \A i \in DOMAIN vecSymbols :
            vecSymbols[i].name = "main" /\ vecSymbols[i].type = SYM_FUNC => ulOffMain' = vecSymbols[i].pos
  <2>1. line \in 1..(Len(source) + 1) /\ Len(source) \in Nat
    BY SourceLines DEF IInv, TypeOK
  <2>5. line > Len(source)
    BY <1>1
  <2>4. line = Len(source) + 1
    BY <2>1, <2>5
  <2>2. line' = Len(source') + 1
    BY <1>1, <2>4
  <2>3. ASSUME NEW i \in DOMAIN vecSymbols, vecSymbols[i].name = "main", vecSymbols[i].type = SYM_FUNC
        PROVE  ulOffMain' = vecSymbols[i].pos
    <3>1. i \in Matching(vecSymbols, "main", SYM_FUNC)
      BY <2>3 DEF Matching
    <3>2. Exists(vecSymbols, "main", SYM_FUNC)
      BY <3>1 DEF Exists
    <3>3. PICK j : j = FindSymbol(vecSymbols, "main", SYM_FUNC)
      OBVIOUS
    <3>4. j \in Matching(vecSymbols, "main", SYM_FUNC)
      BY <3>2, <3>3, FindSymbolFinds DEF IInv
    <3>5. j \in DOMAIN vecSymbols /\ vecSymbols[j].name = "main" /\ vecSymbols[j].type = SYM_FUNC
      BY <3>4 DEF Matching, SYM_FUNC
    <3>6. i = j
      BY <2>3, <3>5 DEF Unique, SymbolParts
    <3> QED
      BY <1>1, <3>2, <3>3, <3>6
  <2> QED
    BY <2>2, <2>3
<1>5. ASSUME NEW i \in DOMAIN vecSymbols, NEW link \in vecSymbols[i].links
      PROVE  (IF Slot(link) = 0 THEN code'[link.inst].arg0 ELSE code'[link.inst].arg1) = vecSymbols[i].pos
  <2>1. PICK l, slot : l = link.inst /\ slot = Slot(link)
    OBVIOUS
  <2>2. l \in Lines /\ slot \in {0, 1}
    BY <2>1 DEF LinksOK, InstLines, SymbolParts
  <2>3. \A value : Patched(l, slot, value) = vecSymbols[i].pos
    <3> DEFINE to == {j \in DOMAIN vecSymbols :
                        \E other \in vecSymbols[j].links : other.inst = l /\ Slot(other) = slot}
    <3>1. to = {i}
      BY <2>1 DEF OneTarget, SymbolParts
    <3>2. (CHOOSE j \in to : TRUE) = i
      BY <3>1
    <3>3. \A value : Patched(l, slot, value)
                       = IF to = {} THEN value ELSE vecSymbols[CHOOSE j \in to : TRUE].pos
      BY DEF Patched
    <3> HIDE DEF to
    <3> QED
      BY <3>1, <3>2, <3>3
  <2>4. code'[l] = [code[l] EXCEPT !.arg0 = Patched(l, 0, code[l].arg0),
                                   !.arg1 = Patched(l, 1, code[l].arg1)]
    BY <1>1, <1>3, <2>2
  <2>5. /\ code'[l].arg0 = Patched(l, 0, code[l].arg0)
        /\ code'[l].arg1 = Patched(l, 1, code[l].arg1)
    BY <1>3, <2>2, <2>4
  <2> QED
    BY <2>1, <2>2, <2>3, <2>5
<1>6. ImageOK'
  BY <1>1, <1>4, <1>5 DEF ImageOK, ConstantOf, Slot
<1>7. CodeShape'
  BY <1>1, <1>2, <1>3 DEF CodeShape
<1> QED
  BY <1>1, <1>6, <1>7, SymbolsFrame DEF SymbolParts

\* Nothing changes.
LEMMA SymbolsStutter == ASSUME SymInv, UNCHANGED vars PROVE SymInv'
<1> SUFFICES ASSUME SymbolParts PROVE SymbolParts'
  BY DEF SymInv, Going, vars
<1>1. /\ UNCHANGED <<source, line, pStart, place, vecSymbols, bFirst, iLabel>>
      /\ code' = code /\ phase' = phase /\ ulOffMain' = ulOffMain /\ vecSymbols' = vecSymbols
      /\ line' = line /\ source' = source /\ Lines' = Lines
  BY DEF vars, Lines
<1>2. ImageOK'
  BY <1>1, Zenon DEF ImageOK, ConstantOf, Slot, SymbolParts
<1>3. CodeShape'
  BY <1>1 DEF CodeShape, SymbolParts
<1> QED
  BY <1>1, <1>2, <1>3, SymbolsFrame DEF SymbolParts
----------------------------------------------------------------------------
(* The theorems *)

LEMMA InitSymInv == Init => SymInv
<1> SUFFICES ASSUME Init PROVE SymbolParts
  BY DEF SymInv
<1>1. /\ phase = "read" /\ line = 1 /\ vecSymbols = <<>> /\ source \in Programs
      /\ place = [l \in 1..Len(source) |-> Nothing]
      /\ code = [l \in 1..Len(source) |-> NoCode]
  BY DEF Init
<1>2. DOMAIN vecSymbols = {}
  BY <1>1
<1>3. Lines = 1..Len(source) /\ Len(source) \in Nat
  BY <1>1, ProgramsAssumption DEF Lines
<1>4. \A d \in Lines : ~(d < line)
  BY <1>1, <1>3
<1>5. InstLines = {}
  BY <1>1, <1>3 DEF InstLines, Nothing
<1>6. CodeShape
  BY <1>1, <1>3, MakesArgs DEF CodeShape, NoCode
<1>7. SymbolsOK /\ Unique /\ Declared /\ HasLine /\ OneProc
  BY <1>2, <1>4 DEF SymbolsOK, Unique, Declared, HasLine, OneProc
<1>8. Placed /\ PendingIsFresh /\ LinksOK /\ OneTarget /\ Targeted /\ LabelOrigin
  BY <1>2, <1>5 DEF Placed, PendingIsFresh, LinksOK, OneTarget, Targeted, LabelOrigin
<1>9. ImageOK
  BY <1>1 DEF ImageOK
<1> QED
  BY <1>6, <1>7, <1>8, <1>9 DEF SymbolParts

LEMMA NextSymInv == IInv /\ SymInv /\ [Next]_vars => SymInv'
<1> SUFFICES ASSUME IInv, SymInv, [Next]_vars PROVE SymInv'
  OBVIOUS
<1>1. CASE WriteInstruction
  <2>1. phase = "read"
    BY <1>1 DEF WriteInstruction, DefineVariable, DefineArray, Proc, Lbl, Comment, Dropped, Nop, Ret,
                CallOrCrth, Natv, Pop, Push, Jump, TwoOperand, Reads
  <2>2. SymbolParts
    BY <2>1 DEF SymInv, Going
  <2> SUFFICES ASSUME Continues PROVE SymbolParts'
    BY DEF SymInv, Going, Continues
  <2> QED
    BY <1>1, <2>2, VariableSymbols, ProcSymbols, LblSymbols, CommentSymbols, DroppedSymbols,
       SimpleSymbols, CallSymbols, JumpSymbols, TwoOperandSymbols DEF WriteInstruction
<1>2. CASE WriteImage
  <2>1. SymbolParts
    BY <1>2 DEF WriteImage, SymInv, Going
  <2> QED
    BY <1>2, <2>1, ImageSymbols DEF SymInv
<1>3. CASE Exited \/ UNCHANGED vars
  BY <1>3, SymbolsStutter DEF Exited
<1> QED
  BY <1>1, <1>2, <1>3 DEF Next

\* As long as the source is not refused, the symbols fit the lines that declare
\* them and the instructions that refer to them.
THEOREM SymbolInvariant == Spec => [](IInv /\ SymInv)
<1>1. Init => IInv /\ SymInv
  BY InitIInv, InitSymInv
<1>2. (IInv /\ SymInv) /\ [Next]_vars => (IInv /\ SymInv)'
  BY NextIInv, NextSymInv
<1> QED
  BY <1>1, <1>2, PTL DEF Spec

\* The entry of the file is the first instruction of main, wherever main is
\* declared and however the instructions are scattered.
THEOREM EntryIsFirstOfMain == Spec => []EntryIsMain
<1>1. IInv /\ SymInv => EntryIsMain
  <2> SUFFICES ASSUME IInv, SymInv, phase = "written",
                      NEW d \in Lines, source[d].op = "proc", source[d].args[1].text = "main"
               PROVE  IsPosition(d, ulOffMain)
    BY DEF EntryIsMain
  <2>1. SymbolParts
    BY DEF SymInv, Going
  <2>2. \A l \in Lines : l < line
    BY <2>1, SourceLines DEF IInv, ImageOK, SymbolParts
  <2>3. SYM_FUNC \in Types /\ DeclOps(SYM_FUNC) = {"proc"} /\ SYM_FUNC # SYM_VAR
    BY DEF Types, DeclOps, SYM_FUNC, SYM_VAR
  <2>4. 1 \in DOMAIN source[d].args
        /\ \E i \in DOMAIN vecSymbols : vecSymbols[i].name = "main" /\ vecSymbols[i].type = SYM_FUNC
    BY <2>1, <2>2, <2>3 DEF Declared, SymbolParts
  <2>5. PICK i \in DOMAIN vecSymbols : vecSymbols[i].name = "main" /\ vecSymbols[i].type = SYM_FUNC
    BY <2>4
  <2>6. Declares(d, "main", SYM_FUNC)
    BY <2>3, <2>4 DEF Declares
  <2>7. Latest(d, "main", SYM_FUNC)
    <3>1. \A e \in Lines : Declares(e, "main", SYM_FUNC) => e = d
      BY <2>1, <2>2, <2>3 DEF OneProc, Declares, SymbolParts
    <3> QED
      BY <3>1, SourceLines DEF Latest, IInv
  <2>8. IsPosition(d, vecSymbols[i].pos)
    BY <2>1, <2>2, <2>5, <2>6, <2>7 DEF Placed, SymbolParts
  <2>9. ulOffMain = vecSymbols[i].pos
    BY <2>1, <2>5 DEF ImageOK, SymbolParts
  <2> QED
    BY <2>8, <2>9
<1> QED
  BY <1>1, SymbolInvariant, PTL

\* The operands hold the addresses of what they name, in the slots that the
\* handlers read, under the conditions of ReferencesResolved.
THEOREM OperandsAreResolved == Spec => []ReferencesResolved
<1>1. IInv /\ SymInv => ReferencesResolved
  <2> SUFFICES ASSUME IInv, SymInv, phase = "written",
                      NEW l \in InstLines, NEW k \in DOMAIN source[l].args, NEW d \in Lines,
                      NEW name, name = source[d].args[1].text,
                      source[d].op \in {"dv", "da", "proc", "lbl"}, Declarations(name) = {d},
                      Refers(l, k, name),
                      \/ source[d].op = "lbl"
                      \/ d < l /\ \A j \in InstLines :
                                     j < d /\ source[j].op \in JumpOps => ~Refers(j, 1, name)
               PROVE  IsPosition(d, ConstantOf(l, SlotOf(l, k)))
    BY DEF ReferencesResolved
  <2>1. SymbolParts /\ TypeOK
    BY DEF SymInv, Going, IInv
  <2>2. /\ \A m \in Lines : m < line /\ m \in Nat
        /\ \A m \in InstLines : m \in Lines
        /\ \A m \in Lines : Len(source[m].args) > 0 <=> 1 \in DOMAIN source[m].args
    BY <2>1, SourceLines DEF ImageOK, SymbolParts, InstLines
  <2>3. RefName(l, k) = name
    BY OpsAssumption DEF Refers, RefName, OtherWords, JumpOps
  <2>4. PICK i \in DOMAIN vecSymbols : Linking(l, k, i)
    BY <2>1, <2>3 DEF Targeted, SymbolParts
  <2>5. PICK type : type = vecSymbols[i].type
    OBVIOUS
  <2>6. vecSymbols[i].name = name /\ type \in Types
    BY <2>1, <2>3, <2>4, <2>5 DEF Linking, SymbolsOK, IsSymbol, SymbolParts
  <2>7. \A e \in Lines : \A other \in Types : Declares(e, name, other) => e = d
    <3> SUFFICES ASSUME NEW e \in Lines, NEW other \in Types, Declares(e, name, other)
                 PROVE  e \in Declarations(name)
      OBVIOUS
    <3> QED
      BY <2>2 DEF Declares, DeclOps, Declarations
  <2>8. d \in Declarations(name)
    OBVIOUS
  <2>9. 1 \in DOMAIN source[d].args
    BY <2>2, <2>8 DEF Declarations
  <2>10. Declares(d, name, type)
    <3>1. CASE type # SYM_LBL
      <4>1. PICK e \in Lines : Declares(e, name, type)
        BY <2>1, <2>5, <2>6, <3>1 DEF HasLine, SymbolParts
      <4> QED
        BY <2>6, <2>7, <4>1
    <3>2. CASE type = SYM_LBL
      <4>1. \/ \E e \in Lines : Declares(e, name, SYM_LBL)
            \/ \E j \in InstLines : JumpMakes(j, name)
        BY <2>1, <2>5, <2>6, <3>2 DEF LabelOrigin, SymbolParts
      <4>2. CASE \E e \in Lines : Declares(e, name, SYM_LBL)
        BY <2>6, <2>7, <3>2, <4>2
      <4>3. CASE \E j \in InstLines : JumpMakes(j, name)
        <5>1. PICK j \in InstLines : JumpMakes(j, name)
          BY <4>3
        <5>2. CASE source[d].op = "lbl"
          BY <2>9, <3>2, <5>2 DEF Declares, DeclOps, SYM_LBL, SYM_VAR, SYM_FUNC
        <5>3. CASE source[d].op # "lbl"
          <6>1. ~(j < d)
            BY <5>1, <5>3 DEF JumpMakes
          <6>2. j # d
            BY <5>1 DEF JumpMakes, JumpOps
          <6>3. d < j
            BY <2>2, <6>1, <6>2
          <6>4. ~Declares(d, name, SYM_FUNC) /\ ~Declares(d, name, SYM_VAR)
            BY <5>1, <6>3 DEF JumpMakes
          <6>5. Declares(d, name, SYM_FUNC) \/ Declares(d, name, SYM_VAR)
            BY <2>9, <5>3 DEF Declares, DeclOps, SYM_VAR, SYM_FUNC
          <6> QED
            BY <6>4, <6>5
        <5> QED
          BY <5>2, <5>3
      <4> QED
        BY <4>1, <4>2, <4>3
    <3> QED
      BY <3>1, <3>2
  <2>11. Latest(d, name, type)
    BY <2>2, <2>6, <2>7 DEF Latest
  <2>12. IsPosition(d, vecSymbols[i].pos)
    BY <2>1, <2>2, <2>5, <2>6, <2>10, <2>11 DEF Placed, SymbolParts
  <2>13. ConstantOf(l, SlotOf(l, k)) = vecSymbols[i].pos
    <3>1. PICK link \in vecSymbols[i].links : link.inst = l /\ Slot(link) = SlotOf(l, k)
      BY <2>4 DEF Linking
    <3> QED
      BY <2>1, <3>1 DEF ImageOK, SymbolParts
  <2> QED
    BY <2>12, <2>13
<1> QED
  BY <1>1, SymbolInvariant, PTL
=============================================================================
