-------------------------- MODULE VxInstSetProofs --------------------------
(***************************************************************************)
(* Proofs about VxInstSet, for any number of instructions and ids: types,  *)
(* that the ids of an instruction set are unique, and that the virtual     *)
(* machine decodes with the instruction set the compiler encoded with.     *)
(***************************************************************************)
EXTENDS VxInstSet, TLAPS

\* Entry k is in the file as WriteInstructionSetToFile leaves it ...
Written(k) ==
    /\ arInstSet[IdAt(k)] = instructionSet[k].m_bId
    /\ arInstSet[CountAt(k)] = instructionSet[k].m_bParamCount
    /\ arInstSet[OrderAt(k)] = Digit + instructionSet[k].m_order

\* ... and in the table as the loader's loop leaves it.
Loaded(k) ==
    /\ arInstSet[IdAt(k)] = instructionSet[k].m_bId
    /\ arInstSet[CountAt(k)] = instructionSet[k].m_bParamCount
    /\ arInstSet[OrderAt(k)] = instructionSet[k].m_order

\* The draw in hand differs from the j ids it was compared with.
DrawInv ==
    /\ phase = "generate" => i < Count /\ n = 0
    /\ phase # "generate" => i = Count /\ bId = NoId
    /\ bId # NoId => j <= i /\ \A k \in 0..(j - 1) : instructionSet[k].m_bId # bId

\* How far writing and loading have come.
FileInv ==
    /\ phase \in {"write", "load"} => n \in Entries
    /\ phase = "write" => \A k \in 0..(n - 1) : Written(k)
    /\ phase = "load" => /\ \A k \in 0..(n - 1) : Loaded(k)
                         /\ \A k \in n..(Count - 1) : Written(k)
    /\ phase = "done" => \A k \in Entries : Loaded(k)
    /\ \A a \in DOMAIN beside : arInstSet[a] = beside[a]

IInv == TypeOK /\ IdsUnique /\ DrawInv /\ FileInv

LEMMA SmallMod ==
    ASSUME NEW m \in Nat \ {0}, NEW x \in 0..(m - 1)
    PROVE  x % m = x
OBVIOUS

\* The loader's four-byte subtraction changes one byte when that byte is large
\* enough: it borrows nothing from the bytes above it.
LEMMA NoBorrow ==
    ASSUME NEW bytes \in [Reach -> Bytes], NEW a \in Reach, bytes[a] >= Digit
    PROVE  SubtractDigit(bytes, a) = [bytes EXCEPT ![a] = bytes[a] - Digit]
<1>1. bytes[a] \in Bytes /\ Digit \in Nat /\ ByteMod \in Nat \ {0}
  BY ByteAssumption
<1>2. (bytes[a] - Digit) % ByteMod = bytes[a] - Digit
  <2>1. bytes[a] - Digit \in 0..(ByteMod - 1)
    BY <1>1 DEF Bytes
  <2> QED
    BY <1>1, <2>1, SmallMod
<1>3. \A k : ~Borrows(bytes, a, k)
  BY <1>1 DEF Borrows, Bytes
<1>4. ASSUME NEW x \in Reach
      PROVE  SubtractDigit(bytes, a)[x] = IF x = a THEN bytes[a] - Digit ELSE bytes[x]
  BY <1>2, <1>3 DEF SubtractDigit
<1> QED
  BY <1>4 DEF SubtractDigit

\* Bytes of different entries are at different places, all within reach.
LEMMA Layout ==
    ASSUME NEW k \in Entries
    PROVE  /\ {IdAt(k), CountAt(k), OrderAt(k), OrderAt(k) + 1} \subseteq TableBytes
           /\ TableBytes \subseteq Reach
           /\ \A l \in Entries \ {k} :
                 {IdAt(k), CountAt(k), OrderAt(k), OrderAt(k) + 1}
                   \cap {IdAt(l), CountAt(l), OrderAt(l)} = {}
<1>1. Count \in Nat /\ k \in Nat /\ k <= Count - 1
  BY CountAssumption DEF Entries
<1>2. ASSUME NEW l \in Entries, l # k
      PROVE  {IdAt(k), CountAt(k), OrderAt(k), OrderAt(k) + 1}
               \cap {IdAt(l), CountAt(l), OrderAt(l)} = {}
  <2>1. l \in Nat
    BY <1>1, <1>2 DEF Entries
  <2> QED
    BY <1>1, <1>2, <2>1 DEF IdAt, CountAt, OrderAt
<1> QED
  BY <1>1, <1>2 DEF TableBytes, Reach, IdAt, CountAt, OrderAt

LEMMA InitInv == Init => IInv
<1> SUFFICES ASSUME Init PROVE IInv
  OBVIOUS
<1>1. /\ Count \in Nat \ {0} /\ ByteMod \in Nat /\ ByteMod > 2
      /\ JunkBytes \subseteq Bytes /\ IdRange \in Nat \ {0}
  BY CountAssumption, ByteAssumption DEF Bytes
<1>2. beside \in [{4 * Count, 4 * Count + 1} -> Bytes]
  BY <1>1 DEF Init
<1>3. arInstSet \in [Reach -> Bytes]
  <2>1. ASSUME NEW a \in Reach, a \notin TableBytes PROVE a \in {4 * Count, 4 * Count + 1}
    BY <1>1, <2>1 DEF Reach, TableBytes
  <2>2. 0 \in Bytes
    BY <1>1 DEF Bytes
  <2> QED
    BY <1>2, <2>1, <2>2 DEF Init
<1>4. instructionSet \in [Entries -> Instruction]
  <2>1. Blank \in Instruction
    BY <1>1 DEF Blank, Instruction, Orders, Bytes
  <2> QED
    BY <2>1 DEF Init
<1>5. TypeOK
  BY <1>1, <1>2, <1>3, <1>4 DEF Init, TypeOK
<1>6. IdsUnique
  BY DEF Init, IdsUnique
<1>7. DrawInv
  BY <1>1 DEF Init, DrawInv
<1>8. FileInv
  <2>1. \A a \in DOMAIN beside : a \in Reach /\ a \notin TableBytes
    BY <1>1, <1>2 DEF Reach, TableBytes
  <2> QED
    BY <2>1 DEF Init, FileInv
<1> QED
  BY <1>5, <1>6, <1>7, <1>8 DEF IInv

LEMMA DrawStep ==
    ASSUME IInv, NEW id \in Ids, Draw(id) \/ Redraw(id)
    PROVE  IInv'
<1>1. /\ bId' = id /\ j' = 0
      /\ UNCHANGED <<instructionSet, i, arInstSet, beside, n, phase>>
      /\ phase = "generate"
  BY DEF Draw, Redraw
<1> QED
  BY <1>1, CountAssumption
     DEF IInv, TypeOK, IdsUnique, DrawInv, FileInv, Written, Loaded, Ids, NoId

LEMMA CompareStep ==
    ASSUME IInv, Compare
    PROVE  IInv'
<1>1. DrawInv'
  BY DEF Compare, IInv, TypeOK, DrawInv
<1> QED
  BY <1>1, CountAssumption
     DEF Compare, IInv, TypeOK, IdsUnique, DrawInv, FileInv, Written, Loaded

LEMMA AcceptStep ==
    ASSUME IInv, Accept
    PROVE  IInv'
<1>1. /\ phase = "generate" /\ bId # NoId /\ j = i /\ i \in Entries /\ i < Count
      /\ i' = i + 1 /\ bId' = NoId
      /\ UNCHANGED <<j, arInstSet, beside, n>>
      /\ Count \in Nat \ {0} /\ i \in Nat /\ n = 0
  BY CountAssumption DEF Accept, IInv, TypeOK, DrawInv, Entries
<1>2. bId \in Ids /\ Ids \subseteq Bytes
  BY <1>1, ByteAssumption DEF IInv, TypeOK, Ids, Bytes
<1>3. PICK order \in Orders :
        LET filled == [instructionSet EXCEPT ![i] =
                         [m_bId |-> bId, m_bParamCount |-> ParamCount(i),
                          m_order |-> order]]
        IN  instructionSet' = IF i + 1 < Count THEN filled
                              ELSE [filled EXCEPT ![IdStk] = [@ EXCEPT !.m_bParamCount = 2]]
  BY DEF Accept
<1> DEFINE new == [m_bId |-> bId, m_bParamCount |-> ParamCount(i), m_order |-> order]
<1> DEFINE filled == [instructionSet EXCEPT ![i] = new]
<1>4. new \in Instruction
  BY <1>2 DEF Instruction, ParamCount
<1>5. /\ filled \in [Entries -> Instruction]
      /\ \A k \in Entries :
            filled[k].m_bId = IF k = i THEN bId ELSE instructionSet[k].m_bId
  BY <1>1, <1>4 DEF IInv, TypeOK
<1>6. /\ instructionSet' \in [Entries -> Instruction]
      /\ \A k \in Entries : instructionSet'[k].m_bId = filled[k].m_bId
  <2>1. CASE i + 1 < Count
    BY <1>3, <1>5, <2>1
  <2>2. CASE ~(i + 1 < Count)
    <3>1. filled[IdStk] \in Instruction /\ IdStk \in Entries
      BY <1>5, CountAssumption DEF Entries
    <3>2. [filled[IdStk] EXCEPT !.m_bParamCount = 2] \in Instruction
      BY <3>1 DEF Instruction
    <3>3. instructionSet' = [filled EXCEPT ![IdStk] =
                               [filled[IdStk] EXCEPT !.m_bParamCount = 2]]
      BY <1>3, <2>2
    <3>4. [filled[IdStk] EXCEPT !.m_bParamCount = 2].m_bId = filled[IdStk].m_bId
      BY <3>1 DEF Instruction
    <3> HIDE DEF filled
    <3> QED
      BY <1>5, <3>1, <3>2, <3>3, <3>4
  <2> QED
    BY <2>1, <2>2
<1>7. \A k \in Entries :
         instructionSet'[k].m_bId = IF k = i THEN bId ELSE instructionSet[k].m_bId
  BY <1>5, <1>6
<1> HIDE DEF new, filled
<1>8. phase' = IF i + 1 < Count THEN "generate" ELSE "write"
  BY DEF Accept
<1>9. TypeOK'
  BY <1>1, <1>6, <1>8 DEF IInv, TypeOK
<1>10. IdsUnique'
  <2> SUFFICES ASSUME NEW k \in 0..i, NEW l \in 0..i, k # l
               PROVE  instructionSet'[k].m_bId # instructionSet'[l].m_bId
    BY <1>1 DEF IdsUnique
  <2>1. k \in Entries /\ l \in Entries
    BY <1>1 DEF Entries
  <2>2. \A x \in 0..(i - 1) : instructionSet[x].m_bId # bId
    BY <1>1 DEF IInv, DrawInv
  <2>3. \A x, y \in 0..(i - 1) : x # y => instructionSet[x].m_bId # instructionSet[y].m_bId
    BY DEF IInv, IdsUnique
  <2>4. /\ k # i => k \in 0..(i - 1)
        /\ l # i => l \in 0..(i - 1)
    BY <1>1
  <2> QED
    BY <1>7, <2>1, <2>2, <2>3, <2>4
<1>11. DrawInv'
  BY <1>1, <1>8 DEF DrawInv
<1>12. FileInv'
  <2>1. \A a \in DOMAIN beside : arInstSet[a] = beside[a]
    BY DEF IInv, FileInv
  <2> QED
    BY <1>1, <1>8, <2>1 DEF FileInv, Entries
<1> QED
  BY <1>9, <1>10, <1>11, <1>12 DEF IInv

LEMMA WriteStep ==
    ASSUME IInv, Write
    PROVE  IInv'
<1>1. /\ phase = "write" /\ n \in Entries /\ n \in Nat /\ Count \in Nat \ {0} /\ n < Count
      /\ n' = IF n + 1 < Count THEN n + 1 ELSE 0
      /\ phase' = IF n + 1 < Count THEN "write" ELSE "load"
      /\ UNCHANGED <<instructionSet, i, j, bId, beside>>
  BY CountAssumption DEF Write, IInv, TypeOK, FileInv, Entries
<1>2. PICK junk \in JunkBytes :
        arInstSet' = [arInstSet EXCEPT ![IdAt(n)] = instructionSet[n].m_bId,
                                       ![CountAt(n)] = instructionSet[n].m_bParamCount,
                                       ![OrderAt(n)] = Digit + instructionSet[n].m_order,
                                       ![OrderAt(n) + 1] = junk]
  BY DEF Write
<1>3. /\ instructionSet[n] \in Instruction
      /\ instructionSet[n].m_bId \in Bytes
      /\ instructionSet[n].m_bParamCount \in Bytes
      /\ Digit + instructionSet[n].m_order \in Bytes
      /\ junk \in Bytes
  BY <1>1, ByteAssumption DEF IInv, TypeOK, Instruction, Bytes, Orders
<1>4. {IdAt(n), CountAt(n), OrderAt(n), OrderAt(n) + 1} \subseteq TableBytes
      /\ TableBytes \subseteq Reach
  BY <1>1, Layout
<1>5. arInstSet' \in [Reach -> Bytes]
  BY <1>2, <1>3, <1>4 DEF IInv, TypeOK
<1>6. \A a \in Reach : a \notin {IdAt(n), CountAt(n), OrderAt(n), OrderAt(n) + 1} =>
         arInstSet'[a] = arInstSet[a]
  BY <1>2 DEF IInv, TypeOK
<1>7. /\ arInstSet'[IdAt(n)] = instructionSet[n].m_bId
      /\ arInstSet'[CountAt(n)] = instructionSet[n].m_bParamCount
      /\ arInstSet'[OrderAt(n)] = Digit + instructionSet[n].m_order
  <2>1. /\ IdAt(n) # CountAt(n) /\ IdAt(n) # OrderAt(n) /\ CountAt(n) # OrderAt(n)
        /\ IdAt(n) # OrderAt(n) + 1 /\ CountAt(n) # OrderAt(n) + 1
        /\ OrderAt(n) # OrderAt(n) + 1
    BY <1>1 DEF IdAt, CountAt, OrderAt
  <2> QED
    BY <1>2, <1>4, <2>1 DEF IInv, TypeOK
<1>8. \A k \in 0..n :
         /\ arInstSet'[IdAt(k)] = instructionSet[k].m_bId
         /\ arInstSet'[CountAt(k)] = instructionSet[k].m_bParamCount
         /\ arInstSet'[OrderAt(k)] = Digit + instructionSet[k].m_order
  <2> SUFFICES ASSUME NEW k \in 0..n, k # n
               PROVE  /\ arInstSet'[IdAt(k)] = instructionSet[k].m_bId
                      /\ arInstSet'[CountAt(k)] = instructionSet[k].m_bParamCount
                      /\ arInstSet'[OrderAt(k)] = Digit + instructionSet[k].m_order
    BY <1>7
  <2>1. k \in 0..(n - 1) /\ k \in Entries
    BY <1>1 DEF Entries
  <2>2. Written(k)
    BY <1>1, <2>1 DEF IInv, FileInv
  <2>3. /\ {IdAt(k), CountAt(k), OrderAt(k)} \subseteq Reach
        /\ {IdAt(n), CountAt(n), OrderAt(n), OrderAt(n) + 1}
             \cap {IdAt(k), CountAt(k), OrderAt(k)} = {}
    BY <1>1, <2>1, Layout
  <2> QED
    BY <1>6, <2>2, <2>3 DEF Written
<1>9. TypeOK'
  BY <1>1, <1>5 DEF IInv, TypeOK
<1>10. IdsUnique' /\ DrawInv'
  BY <1>1 DEF IInv, IdsUnique, DrawInv
<1>11. FileInv'
  <2>1. \A a \in DOMAIN beside : arInstSet'[a] = beside[a]
    <3>1. \A a \in DOMAIN beside : a \in Reach /\ a \notin TableBytes
      BY <1>1 DEF IInv, TypeOK, Reach, TableBytes
    <3> QED
      BY <1>4, <1>6, <3>1 DEF IInv, FileInv
  <2>2. CASE n + 1 < Count
    <3>1. n' = n + 1 /\ n' \in Entries /\ 0..(n' - 1) = 0..n
      BY <1>1, <2>2 DEF Entries
    <3> QED
      BY <1>1, <1>8, <2>1, <2>2, <3>1 DEF FileInv, Written, IdAt, CountAt, OrderAt
  <2>3. CASE ~(n + 1 < Count)
    <3>1. n' = 0 /\ n' \in Entries /\ n'..(Count - 1) = 0..n /\ phase' = "load"
      BY <1>1, <2>3 DEF Entries
    <3>2. \A k \in 0..(n' - 1) : FALSE
      BY <3>1
    <3> QED
      BY <1>1, <1>8, <2>1, <3>1, <3>2 DEF FileInv, Written, IdAt, CountAt, OrderAt
  <2> QED
    BY <2>2, <2>3
<1> QED
  BY <1>9, <1>10, <1>11 DEF IInv

LEMMA LoadStep ==
    ASSUME IInv, Load
    PROVE  IInv'
<1>1. /\ phase = "load" /\ n \in Entries /\ n \in Nat /\ Count \in Nat \ {0} /\ n < Count
      /\ n' = n + 1
      /\ phase' = IF n + 1 < Count THEN "load" ELSE "done"
      /\ UNCHANGED <<instructionSet, i, j, bId, beside>>
  BY CountAssumption DEF Load, IInv, TypeOK, FileInv, Entries
<1>2. {IdAt(n), CountAt(n), OrderAt(n), OrderAt(n) + 1} \subseteq TableBytes
      /\ TableBytes \subseteq Reach
  BY <1>1, Layout
<1>3. /\ Written(n)
      /\ instructionSet[n] \in Instruction
      /\ instructionSet[n].m_order \in Nat
      /\ instructionSet[n].m_order \in Bytes
  BY <1>1, ByteAssumption DEF IInv, TypeOK, FileInv, Instruction, Orders, Bytes
<1>4. /\ arInstSet[OrderAt(n)] >= Digit
      /\ arInstSet[OrderAt(n)] - Digit = instructionSet[n].m_order
  BY <1>3, ByteAssumption DEF Written
<1>5. arInstSet' = [arInstSet EXCEPT ![OrderAt(n)] = instructionSet[n].m_order]
  BY <1>2, <1>4, NoBorrow DEF Load, IInv, TypeOK
<1>6. /\ arInstSet' \in [Reach -> Bytes]
      /\ arInstSet'[OrderAt(n)] = instructionSet[n].m_order
      /\ \A a \in Reach : a # OrderAt(n) => arInstSet'[a] = arInstSet[a]
  BY <1>2, <1>3, <1>5 DEF IInv, TypeOK
<1>7. \A k \in 0..n :
         /\ arInstSet'[IdAt(k)] = instructionSet[k].m_bId
         /\ arInstSet'[CountAt(k)] = instructionSet[k].m_bParamCount
         /\ arInstSet'[OrderAt(k)] = instructionSet[k].m_order
  <2> TAKE k \in 0..n
  <2>1. CASE k = n
    <3>1. IdAt(n) # OrderAt(n) /\ CountAt(n) # OrderAt(n)
      BY <1>1 DEF IdAt, CountAt, OrderAt
    <3> QED
      BY <1>2, <1>3, <1>6, <2>1, <3>1 DEF Written
  <2>2. CASE k # n
    <3>1. k \in 0..(n - 1) /\ k \in Entries
      BY <1>1, <2>2 DEF Entries
    <3>2. Loaded(k)
      BY <1>1, <3>1 DEF IInv, FileInv
    <3>3. /\ {IdAt(k), CountAt(k), OrderAt(k)} \subseteq Reach
          /\ OrderAt(n) \notin {IdAt(k), CountAt(k), OrderAt(k)}
      BY <1>1, <2>2, <3>1, Layout
    <3> QED
      BY <1>6, <3>2, <3>3 DEF Loaded
  <2> QED
    BY <2>1, <2>2
<1>8. \A k \in (n + 1)..(Count - 1) :
         /\ arInstSet'[IdAt(k)] = instructionSet[k].m_bId
         /\ arInstSet'[CountAt(k)] = instructionSet[k].m_bParamCount
         /\ arInstSet'[OrderAt(k)] = Digit + instructionSet[k].m_order
  <2> TAKE k \in (n + 1)..(Count - 1)
  <2>1. k \in n..(Count - 1) /\ k \in Entries /\ k # n
    BY <1>1 DEF Entries
  <2>2. Written(k)
    BY <1>1, <2>1 DEF IInv, FileInv
  <2>3. /\ {IdAt(k), CountAt(k), OrderAt(k)} \subseteq Reach
        /\ OrderAt(n) \notin {IdAt(k), CountAt(k), OrderAt(k)}
    BY <1>1, <2>1, Layout
  <2> QED
    BY <1>6, <2>2, <2>3 DEF Written
<1>9. TypeOK'
  BY <1>1, <1>6 DEF IInv, TypeOK
<1>10. IdsUnique' /\ DrawInv'
  BY <1>1 DEF IInv, IdsUnique, DrawInv
<1>11. FileInv'
  <2>1. \A a \in DOMAIN beside : arInstSet'[a] = beside[a]
    <3>1. \A a \in DOMAIN beside : a \in Reach /\ a \notin TableBytes
      BY <1>1 DEF IInv, TypeOK, Reach, TableBytes
    <3> QED
      BY <1>2, <1>6, <3>1 DEF IInv, FileInv
  <2>2. CASE n + 1 < Count
    <3>1. n' \in Entries /\ 0..(n' - 1) = 0..n /\ phase' = "load"
      BY <1>1, <2>2 DEF Entries
    <3> QED
      BY <1>1, <1>7, <1>8, <2>1, <3>1
         DEF FileInv, Loaded, Written, IdAt, CountAt, OrderAt
  <2>3. CASE ~(n + 1 < Count)
    <3>1. Entries = 0..n /\ phase' = "done"
      BY <1>1, <2>3 DEF Entries
    <3> QED
      BY <1>1, <1>7, <2>1, <3>1 DEF FileInv, Loaded, IdAt, CountAt, OrderAt
  <2> QED
    BY <2>2, <2>3
<1> QED
  BY <1>9, <1>10, <1>11 DEF IInv

LEMMA StutterStep ==
    ASSUME IInv, UNCHANGED vars
    PROVE  IInv'
BY DEF vars, IInv, TypeOK, IdsUnique, DrawInv, FileInv, Written, Loaded

LEMMA NextInv ==
    ASSUME IInv, [Next]_vars
    PROVE  IInv'
<1>1. CASE \E id \in Ids : Draw(id) \/ Redraw(id)
  BY <1>1, DrawStep
<1>2. CASE Compare
  BY <1>2, CompareStep
<1>3. CASE Accept
  BY <1>3, AcceptStep
<1>4. CASE Write
  BY <1>4, WriteStep
<1>5. CASE Load
  BY <1>5, LoadStep
<1>6. CASE Done \/ UNCHANGED vars
  BY <1>6, StutterStep DEF Done
<1> QED
  BY <1>1, <1>2, <1>3, <1>4, <1>5, <1>6 DEF Next

\* The inductive invariant that the theorems below are read off.
THEOREM Inductive == Spec => []IInv
BY InitInv, NextInv, PTL DEF Spec

\* The compiler's and the loader's variables keep their types: every byte the
\* loader's wider subtractions touch is still a byte, and no index leaves the
\* tables.
THEOREM TypeCorrect == Spec => []TypeOK
<1>1. IInv => TypeOK
  BY DEF IInv
<1> QED
  BY <1>1, Inductive, PTL

\* GenerateInstructionSet never gives two instructions the same id, however
\* often and whatever it redraws.
THEOREM UniqueIds == Spec => []IdsUnique
<1>1. IInv => IdsUnique
  BY DEF IInv
<1> QED
  BY <1>1, Inductive, PTL

\* Once BeginExecution has turned the digits back, the virtual machine decodes
\* with the ids, parameter counts and orders that the compiler encoded with,
\* for any number of instructions: no subtraction borrows from the next entry.
THEOREM LoadedSetIsGenerated == Spec => []LoadedAsGenerated
<1>1. IInv => LoadedAsGenerated
  BY DEF IInv, FileInv, Loaded, LoadedAsGenerated
<1> QED
  BY <1>1, Inductive, PTL
=============================================================================
