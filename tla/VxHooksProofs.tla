---------------------------- MODULE VxHooksProofs ----------------------------
(***************************************************************************)
(* Proof that the last patch of a function decides where control goes that *)
(* enters it, for any number of functions and patches, wherever they lie.  *)
(*                                                                         *)
(* LastPatchDecides says where control lands; HookInv says which bytes are *)
(* at the start of each function, whatever earlier patches left behind     *)
(* them, and that its last byte is still the ret that GetFuncSize stops at *)
(* at the latest.                                                          *)
(***************************************************************************)
EXTENDS VxHooks, SequenceTheorems, WellFoundedInduction, TLAPS

\* A jump at the start of f whose distance is the word w.
JumpsBy(f, w) == mem[f] = JMP /\ WordAt(mem, f + 1) = w
NopsToRet(f) ==
    \E n \in 0..(FuncSize - 1) : IsRet(mem[f + n]) /\ \A k \in 0..(n - 1) : mem[f + k] = NOP

AsIntended(f) ==
    /\ intent[f].to \in {"self", "hook", "tramp", "ret"}
    /\ intent[f].to = "self" => mem[f] = BODY
    /\ intent[f].to = "hook" =>
          intent[f].hook \in Hooks /\ JumpsBy(f, (intent[f].hook - f - 5) % WordMod)
    /\ intent[f].to = "ret" => NopsToRet(f)

HookInv ==
    /\ DOMAIN intent = Functions
    /\ \A f \in Functions : AsIntended(f) /\ mem[f + FuncSize - 1] = RET
----------------------------------------------------------------------------
(* Bytes and words *)

LEMMA WordPositive == WordMod \in Nat /\ WordMod > 0
BY SMT DEF WordMod, ByteMod

LEMMA ModWord == ASSUME NEW d \in Int PROVE d % WordMod \in 0..(WordMod - 1)
BY WordPositive, SMT

\* Words are natural numbers.
LEMMA WordIsNat == ASSUME NEW w \in 0..(WordMod - 1) PROVE w \in Nat
BY SMT

\* A word is read as it was written.
LEMMA WordOfBytes ==
    ASSUME NEW w \in 0..(WordMod - 1)
    PROVE  /\ Len(BytesOf(w)) = 4
           /\ BytesOf(w)[1] + ByteMod * (BytesOf(w)[2] + ByteMod * (BytesOf(w)[3]
                 + ByteMod * BytesOf(w)[4])) = w
<1>1. /\ w \in Nat
      /\ BytesOf(w) = <<w % 16, (w \div 16) % 16, (w \div 256) % 16, w \div 4096>>
  BY WordIsNat DEF BytesOf, ByteMod
<1>2. PICK b1, b2, b3, b4 : /\ b1 = w % 16 /\ b2 = (w \div 16) % 16 /\ b3 = (w \div 256) % 16
                            /\ b4 = w \div 4096
  OBVIOUS
<1>3. b1 + 16 * (b2 + 16 * (b3 + 16 * b4)) = w
  BY <1>1, <1>2
<1> QED
  BY <1>1, <1>2, <1>3 DEF ByteMod

LEMMA Remainder ==
    ASSUME NEW d \in Int, NEW q \in Int, NEW r \in Int, 0 <= r, r < WordMod, d = WordMod * q + r
    PROVE  d % WordMod = r
BY SMT DEF WordMod, ByteMod

LEMMA Quotient ==
    ASSUME NEW d \in Int, NEW m \in Int, m = d % WordMod
    PROVE  \E q \in Int : d = WordMod * q + m
BY SMT DEF WordMod, ByteMod

\* A distance is undone by going it, although both wrap.
LEMMA GoesTo ==
    ASSUME NEW f \in Int, NEW to \in 0..(WordMod - 1)
    PROVE  (f + 5 + ((to - f - 5) % WordMod)) % WordMod = to
<1>1. PICK d \in Int : d = to - f - 5
  BY WordIsNat, SMT
<1>2. PICK m \in Int : m = d % WordMod
  BY WordPositive, SMT
<1>3. PICK q \in Int : d = WordMod * q + m
  BY <1>2, Quotient, SMT
<1>4. PICK p \in Int : p = 0 - q
  BY SMT
<1>5. PICK e \in Int : e = f + 5 + m
  BY SMT
<1>6. to \in Int /\ 0 <= to /\ to < WordMod
  BY WordPositive, SMT
<1>7. e = WordMod * p + to
  <2>1. PICK v \in Int : v = WordMod * q
    BY WordPositive, SMT
  <2>2. WordMod * p = 0 - v
    BY <1>4, <2>1, WordPositive, SMT
  <2> QED
    BY <1>1, <1>3, <1>4, <1>5, <1>6, <2>1, <2>2, SMT
<1>8. e % WordMod = to
  BY <1>6, <1>7, Remainder, SMT
<1> QED
  BY <1>1, <1>2, <1>5, <1>8, Zenon

\* A sequence of bytes after another.
LEMMA ConcatBytes ==
    ASSUME NEW s \in Seq(Int), NEW t \in Seq(Int)
    PROVE  /\ Len(s \o t) = Len(s) + Len(t)
           /\ \A k \in 1..Len(s) : (s \o t)[k] = s[k]
           /\ \A k \in 1..Len(t) : (s \o t)[Len(s) + k] = t[k]
<1>1. Len(s) \in Nat /\ Len(t) \in Nat
  OBVIOUS
<1>2. PICK st : st = s \o t
  OBVIOUS
<1>3. /\ Len(st) = Len(s) + Len(t)
      /\ \A k \in 1..(Len(s) + Len(t)) : st[k] = IF k <= Len(s) THEN s[k] ELSE t[k - Len(s)]
  BY <1>2, ConcatProperties, Zenon
<1>4. ASSUME NEW k \in 1..Len(s) PROVE st[k] = s[k]
  BY <1>1, <1>3
<1>5. ASSUME NEW k \in 1..Len(t) PROVE st[Len(s) + k] = t[k]
  <2>1. PICK j : j = Len(s) + k
    OBVIOUS
  <2>2. j \in 1..(Len(s) + Len(t)) /\ ~(j <= Len(s)) /\ j - Len(s) = k
    BY <1>1, <2>1
  <2> QED
    BY <1>3, <2>1, <2>2
<1> QED
  BY <1>2, <1>3, <1>4, <1>5

\* The bytes of a jump.
LEMMA JumpBytes ==
    ASSUME NEW f \in Int, NEW to \in Int
    PROVE  /\ Len(Jump(f, to)) = 5 /\ Jump(f, to)[1] = JMP
           /\ Jump(f, to)[2] + ByteMod * (Jump(f, to)[3] + ByteMod * (Jump(f, to)[4]
                 + ByteMod * Jump(f, to)[5])) = (to - f - 5) % WordMod
<1>1. PICK w : w = (to - f - 5) % WordMod
  OBVIOUS
<1>2. w \in 0..(WordMod - 1)
  <2>1. PICK d : d = to - f - 5
    OBVIOUS
  <2>2. d \in Int /\ w = d % WordMod
    BY <1>1, <2>1
  <2> QED
    BY <2>2, ModWord
<1>3. PICK bytes : bytes = BytesOf(w)
  OBVIOUS
<1>4. bytes \in Seq(Int) /\ Len(bytes) = 4
  BY <1>2, <1>3, WordIsNat DEF BytesOf, ByteMod
<1>5. Jump(f, to) = <<JMP>> \o bytes /\ <<JMP>> \in Seq(Int) /\ Len(<<JMP>>) = 1
  BY <1>1, <1>3 DEF Jump, JMP
<1>6. /\ Len(Jump(f, to)) = 5 /\ Jump(f, to)[1] = JMP
      /\ Jump(f, to)[2] = bytes[1] /\ Jump(f, to)[3] = bytes[2]
      /\ Jump(f, to)[4] = bytes[3] /\ Jump(f, to)[5] = bytes[4]
  <2>1. PICK first : first = <<JMP>>
    OBVIOUS
  <2>2. first \in Seq(Int) /\ Len(first) = 1 /\ first[1] = JMP
    BY <2>1 DEF JMP
  <2>3. /\ Len(Jump(f, to)) = 5
        /\ \A k \in 1..1 : Jump(f, to)[k] = first[k]
        /\ \A k \in 1..4 : Jump(f, to)[1 + k] = bytes[k]
    <3>1. Jump(f, to) = first \o bytes
      BY <1>5, <2>1
    <3>2. /\ Len(Jump(f, to)) = Len(first) + Len(bytes)
          /\ \A k \in 1..Len(first) : Jump(f, to)[k] = first[k]
          /\ \A k \in 1..Len(bytes) : Jump(f, to)[Len(first) + k] = bytes[k]
      <4>1. /\ Len(first \o bytes) = Len(first) + Len(bytes)
            /\ \A k \in 1..Len(first) : (first \o bytes)[k] = first[k]
            /\ \A k \in 1..Len(bytes) : (first \o bytes)[Len(first) + k] = bytes[k]
        BY <1>4, <2>2, ConcatBytes, Zenon
      <4> QED
        BY <3>1, <4>1, Zenon
    <3> QED
      BY <1>4, <2>2, <3>2
  <2>4. 1 \in 1..4 /\ 2 \in 1..4 /\ 3 \in 1..4 /\ 4 \in 1..4 /\ 1 \in 1..1
    OBVIOUS
  <2> QED
    BY <2>2, <2>3, <2>4
<1> QED
  BY <1>1, <1>2, <1>3, <1>6, WordOfBytes

\* What is written at the start of a function, and that nothing else changes.
LEMMA WrittenAt ==
    ASSUME NEW f \in Functions, NEW memory, NEW bytes, Len(bytes) \in 0..(FuncSize - 1)
    PROVE  /\ \A k \in 0..(Len(bytes) - 1) : Written(memory, f, bytes)[f + k] = bytes[k + 1]
           /\ \A k \in Len(bytes)..(FuncSize - 1) : Written(memory, f, bytes)[f + k] = memory[f + k]
           /\ \A g \in Functions : g # f =>
                 \A k \in 0..(FuncSize - 1) : Written(memory, f, bytes)[g + k] = memory[g + k]
<1>1. /\ FuncSize \in Nat /\ Functions \subseteq Nat
      /\ \A g \in Functions : f # g => f + FuncSize <= g \/ g + FuncSize <= f
  BY HooksAssumption
<1>2. \A g \in Functions : \A k \in 0..(FuncSize - 1) : g + k \in Mapped
  <2> SUFFICES ASSUME NEW g \in Functions, NEW k \in 0..(FuncSize - 1) PROVE g + k \in Cells(g, Room(g))
    BY DEF Mapped
  <2> QED
    BY <1>1 DEF Cells, Room
<1>3. \A a \in Mapped : Written(memory, f, bytes)[a]
                           = IF a \in Cells(f, Len(bytes)) THEN bytes[a - f + 1] ELSE memory[a]
  BY DEF Written
<1>4. ASSUME NEW k \in 0..(Len(bytes) - 1) PROVE Written(memory, f, bytes)[f + k] = bytes[k + 1]
  <2>1. k \in 0..(FuncSize - 1) /\ k \in Int /\ f \in Int
    BY <1>1
  <2>2. f + k \in Mapped /\ f + k \in Cells(f, Len(bytes)) /\ (f + k) - f + 1 = k + 1
    BY <1>2, <2>1 DEF Cells
  <2> QED
    BY <1>3, <2>2
<1>5. ASSUME NEW k \in Len(bytes)..(FuncSize - 1)
      PROVE  Written(memory, f, bytes)[f + k] = memory[f + k]
  <2>2. k \in 0..(FuncSize - 1) /\ k \in Int /\ f \in Int /\ Len(bytes) \in Int /\ k >= Len(bytes)
    BY <1>1
  <2>1. f + k \in Mapped /\ f + k \notin Cells(f, Len(bytes))
    BY <1>2, <2>2 DEF Cells
  <2> QED
    BY <1>3, <2>1
<1>6. ASSUME NEW g \in Functions, g # f, NEW k \in 0..(FuncSize - 1)
      PROVE  Written(memory, f, bytes)[g + k] = memory[g + k]
  <2>1. g + k \in Mapped /\ g + k \notin Cells(f, Len(bytes))
    BY <1>1, <1>2, <1>6, SMTT(30) DEF Cells
  <2> QED
    BY <1>3, <2>1
<1> QED
  BY <1>4, <1>5, <1>6

\* Writing to a block leaves the functions alone.
LEMMA WrittenBlock ==
    ASSUME NEW at \in Blocks, NEW memory, NEW bytes, Len(bytes) \in 0..(FuncSize + 6)
    PROVE  \A g \in Functions : \A k \in 0..(FuncSize - 1) :
              Written(memory, at, bytes)[g + k] = memory[g + k]
<1> SUFFICES ASSUME NEW g \in Functions, NEW k \in 0..(FuncSize - 1)
             PROVE  Written(memory, at, bytes)[g + k] = memory[g + k]
  OBVIOUS
<1>1. /\ FuncSize \in Nat /\ g \in Nat /\ at \in Nat
      /\ g + FuncSize <= at \/ at + FuncSize + 6 <= g
  BY HooksAssumption
<1>2. g + k \in Cells(g, Room(g)) /\ g + k \notin Cells(at, Len(bytes))
  BY <1>1 DEF Cells, Room
<1>3. g + k \in Mapped
  BY <1>2 DEF Mapped
<1> QED
  BY <1>2, <1>3 DEF Written

\* The bytes before the first ret, which is there.
LEMMA FirstRet ==
    ASSUME NEW f \in Functions, mem[f + FuncSize - 1] = RET
    PROVE  /\ GetFuncSize(f) \in 0..(FuncSize - 1)
           /\ IsRet(mem[f + GetFuncSize(f)])
<1>1. FuncSize \in Nat /\ FuncSize > 5 /\ f \in Nat
  BY HooksAssumption
<1> DEFINE T == {n \in 0..(FuncSize - 1) : IsRet(mem[f + n])}
<1>2. FuncSize - 1 \in T /\ T \subseteq Nat
  BY <1>1 DEF IsRet
<1>3. \E n \in T : \A k \in T : ~(<<k, n>> \in OpToRel(<, Nat))
  <2> HIDE DEF T
  <2> QED
    BY <1>2, WFMin, NatLessThanWellFounded
<1>4. PICK n \in T : \A k \in T : ~(k < n)
  BY <1>2, <1>3 DEF OpToRel
<1>5. n \in 0..(FuncSize - 1) /\ IsRet(mem[f + n]) /\ \A k \in 0..(n - 1) : ~IsRet(mem[f + k])
  BY <1>1, <1>4
<1> QED
  BY <1>5 DEF GetFuncSize
----------------------------------------------------------------------------
(* What is intended of a function, when it is patched and when others are *)

\* The other functions keep their bytes.
LEMMA OthersStay ==
    ASSUME HookInv, NEW f \in Functions, NEW wanted, intent' = [intent EXCEPT ![f] = wanted],
           NEW g \in Functions, g # f,
           \A k \in 0..(FuncSize - 1) : mem'[g + k] = mem[g + k]
    PROVE  AsIntended(g)' /\ mem'[g + FuncSize - 1] = RET
<1>1. FuncSize \in Nat /\ FuncSize > 5 /\ g \in Nat
  BY HooksAssumption
<1>2. intent'[g] = intent[g]
  BY DEF HookInv
<1>3. AsIntended(g) /\ mem[g + FuncSize - 1] = RET
  BY DEF HookInv
<1>4. /\ mem'[g] = mem[g] /\ mem'[g + 1] = mem[g + 1]
      /\ mem'[g + 1 + 1] = mem[g + 1 + 1] /\ mem'[g + 1 + 2] = mem[g + 1 + 2]
      /\ mem'[g + 1 + 3] = mem[g + 1 + 3]
  <2>1. 0 \in 0..(FuncSize - 1) /\ 1 \in 0..(FuncSize - 1) /\ 2 \in 0..(FuncSize - 1)
        /\ 3 \in 0..(FuncSize - 1) /\ 4 \in 0..(FuncSize - 1)
    BY <1>1
  <2>2. g + 0 = g /\ g + 1 + 1 = g + 2 /\ g + 1 + 2 = g + 3 /\ g + 1 + 3 = g + 4
    BY <1>1
  <2> QED
    BY <2>1, <2>2
<1>5. \A w : JumpsBy(g, w) => mem'[g] = JMP /\ WordAt(mem', g + 1) = w
  BY <1>4 DEF JumpsBy, WordAt
<1>6. NopsToRet(g) => NopsToRet(g)'
  <2> SUFFICES ASSUME NopsToRet(g) PROVE NopsToRet(g)'
    OBVIOUS
  <2>1. PICK n \in 0..(FuncSize - 1) : IsRet(mem[g + n]) /\ \A k \in 0..(n - 1) : mem[g + k] = NOP
    BY DEF NopsToRet
  <2>2. IsRet(mem'[g + n]) /\ \A k \in 0..(n - 1) : mem'[g + k] = NOP
    BY <1>1, <2>1
  <2> QED
    BY <2>2 DEF NopsToRet, IsRet
<1>7. mem'[g + FuncSize - 1] = RET
  <2>1. FuncSize - 1 \in 0..(FuncSize - 1) /\ g + (FuncSize - 1) = g + FuncSize - 1
    BY <1>1
  <2> QED
    BY <1>3, <2>1
<1>8. \A w : JumpsBy(g, w) => JumpsBy(g, w)'
  BY <1>5 DEF JumpsBy, WordAt
<1>9. mem'[g] = mem[g]
  BY <1>4
<1>10. AsIntended(g)'
  BY <1>2, <1>3, <1>6, <1>8, <1>9 DEF AsIntended
<1> QED
  BY <1>7, <1>10

\* A jump and nops are put at the start of f.
HasJump(after, memory, f, w) ==
    /\ after[f] = JMP /\ WordAt(after, f + 1) = w
    /\ after[f + FuncSize - 1] = RET
    /\ \A g \in Functions : g # f => \A k \in 0..(FuncSize - 1) : after[g + k] = memory[g + k]
LEMMA JumpPlaced ==
    ASSUME NEW f \in Functions, NEW from \in Int, NEW to \in Int, NEW n \in 0..(FuncSize - 6), NEW memory,
           memory[f + FuncSize - 1] = RET
    PROVE  HasJump(Written(memory, f, Jump(from, to) \o Nops(n)), memory, f, (to - from - 5) % WordMod)
<1>1. FuncSize \in Nat /\ FuncSize > 5 /\ f \in Nat
  BY HooksAssumption
<1>2. PICK jump : jump = Jump(from, to)
  OBVIOUS
<1>3. /\ Len(jump) = 5 /\ jump[1] = JMP /\ jump \in Seq(Int)
      /\ jump[2] + ByteMod * (jump[3] + ByteMod * (jump[4] + ByteMod * jump[5])) = (to - from - 5) % WordMod
  <2>1. jump \in Seq(Int)
    BY <1>2 DEF Jump, BytesOf, JMP, ByteMod, WordMod
  <2> QED
    BY <1>2, <2>1, JumpBytes
<1>4. Nops(n) \in Seq(Int) /\ Len(Nops(n)) = n
  BY <1>1 DEF Nops, NOP
<1>5. PICK bytes : bytes = jump \o Nops(n)
  OBVIOUS
<1>6. /\ Len(bytes) = 5 + n /\ bytes[1] = jump[1] /\ bytes[2] = jump[2] /\ bytes[3] = jump[3]
      /\ bytes[4] = jump[4] /\ bytes[5] = jump[5]
  <2>1. /\ Len(bytes) = Len(jump) + Len(Nops(n))
        /\ \A k \in 1..Len(jump) : bytes[k] = jump[k]
    <3>1. /\ Len(jump \o Nops(n)) = Len(jump) + Len(Nops(n))
          /\ \A k \in 1..Len(jump) : (jump \o Nops(n))[k] = jump[k]
      BY <1>3, <1>4, ConcatBytes, Zenon
    <3> QED
      BY <1>5, <3>1, Zenon
  <2>2. 1 \in 1..Len(jump) /\ 2 \in 1..Len(jump) /\ 3 \in 1..Len(jump) /\ 4 \in 1..Len(jump)
        /\ 5 \in 1..Len(jump) /\ Len(jump) + Len(Nops(n)) = 5 + n
    BY <1>3, <1>4
  <2> QED
    BY <2>1, <2>2
<1>7. Len(bytes) \in 0..(FuncSize - 1)
  BY <1>1, <1>6
<1>8. PICK after : after = Written(memory, f, bytes)
  OBVIOUS
<1>9. /\ \A k \in 0..(Len(bytes) - 1) : after[f + k] = bytes[k + 1]
      /\ \A k \in Len(bytes)..(FuncSize - 1) : after[f + k] = memory[f + k]
      /\ \A g \in Functions : g # f => \A k \in 0..(FuncSize - 1) : after[g + k] = memory[g + k]
  BY <1>7, <1>8, WrittenAt
<1>10. /\ after[f] = jump[1] /\ after[f + 1] = jump[2] /\ after[f + 1 + 1] = jump[3]
       /\ after[f + 1 + 2] = jump[4] /\ after[f + 1 + 3] = jump[5]
  <2>1. /\ 0 \in 0..(Len(bytes) - 1) /\ 1 \in 0..(Len(bytes) - 1) /\ 2 \in 0..(Len(bytes) - 1)
        /\ 3 \in 0..(Len(bytes) - 1) /\ 4 \in 0..(Len(bytes) - 1)
    BY <1>1, <1>6
  <2>2. f + 0 = f /\ f + 1 + 1 = f + 2 /\ f + 1 + 2 = f + 3 /\ f + 1 + 3 = f + 4
    BY <1>1
  <2>3. /\ after[f + 0] = bytes[1] /\ after[f + 1] = bytes[2] /\ after[f + 2] = bytes[3]
        /\ after[f + 3] = bytes[4] /\ after[f + 4] = bytes[5]
    BY <1>9, <2>1
  <2> QED
    BY <1>6, <2>2, <2>3
<1>11. after[f + FuncSize - 1] = RET
  <2>1. FuncSize - 1 \in Len(bytes)..(FuncSize - 1) /\ f + (FuncSize - 1) = f + FuncSize - 1
    BY <1>1, <1>6
  <2> QED
    BY <1>9, <2>1
<1>12. WordAt(after, f + 1) = (to - from - 5) % WordMod
  BY <1>3, <1>10 DEF WordAt
<1>13. HasJump(after, memory, f, (to - from - 5) % WordMod)
  BY <1>3, <1>9, <1>10, <1>11, <1>12 DEF HasJump
<1> QED
  BY <1>2, <1>5, <1>8, <1>13
----------------------------------------------------------------------------
(* The inductive invariant *)

\* A patch of f that does as intended, and leaves the others alone.
LEMMA OnePatched ==
    ASSUME HookInv, NEW f \in Functions, NEW wanted, intent' = [intent EXCEPT ![f] = wanted],
           AsIntended(f)', mem'[f + FuncSize - 1] = RET,
           \A g \in Functions : g # f => \A k \in 0..(FuncSize - 1) : mem'[g + k] = mem[g + k]
    PROVE  HookInv'
<1>1. DOMAIN intent' = Functions
  BY DEF HookInv
<1>2. \A g \in Functions : g # f => AsIntended(g)' /\ mem'[g + FuncSize - 1] = RET
  BY OthersStay
<1>3. \A g \in Functions : AsIntended(g)' /\ mem'[g + FuncSize - 1] = RET
  BY <1>2
<1> QED
  BY <1>1, <1>3 DEF HookInv

LEMMA InitHookInv == Init => HookInv
<1> SUFFICES ASSUME Init PROVE HookInv
  OBVIOUS
<1>1. /\ FuncSize \in Nat /\ FuncSize > 5 /\ Functions \subseteq Nat
      /\ \A f, g \in Functions : f # g => f + FuncSize <= g \/ g + FuncSize <= f
  BY HooksAssumption
<1>2. ASSUME NEW f \in Functions PROVE AsIntended(f) /\ mem[f + FuncSize - 1] = RET
  <2>1. f \in Cells(f, Room(f)) /\ f + FuncSize - 1 \in Cells(f, Room(f))
    BY <1>1 DEF Cells, Room
  <2>2. f \in Mapped /\ f + FuncSize - 1 \in Mapped
    BY <2>1 DEF Mapped
  <2>3. \A g \in Functions : f # g + FuncSize - 1
    BY <1>1
  <2>4. intent[f].to = "self"
    BY DEF Init
  <2>5. mem[f] = BODY /\ mem[f + FuncSize - 1] = RET
    BY <2>2, <2>3 DEF Init
  <2> QED
    BY <2>4, <2>5 DEF AsIntended
<1>3. DOMAIN intent = Functions
  BY DEF Init
<1> QED
  BY <1>2, <1>3 DEF HookInv

\* Hotpatch and Detour.
LEMMA JumpKeeps ==
    ASSUME HookInv, NEW f \in Functions, NEW h \in Hooks, NEW n \in 0..(FuncSize - 6),
           Patched(Written(mem, f, Jump(f, h) \o Nops(n)), f, To(h))
    PROVE  HookInv'
<1>1. /\ FuncSize \in Nat /\ f \in Int /\ h \in Int
      /\ mem[f + FuncSize - 1] = RET /\ f \in DOMAIN intent
  BY HooksAssumption DEF HookInv
<1>2. /\ mem' = Written(mem, f, Jump(f, h) \o Nops(n))
      /\ intent' = [intent EXCEPT ![f] = To(h)]
  BY DEF Patched
<1>3. /\ mem'[f] = JMP /\ WordAt(mem', f + 1) = (h - f - 5) % WordMod
      /\ mem'[f + FuncSize - 1] = RET
      /\ \A g \in Functions : g # f => \A k \in 0..(FuncSize - 1) : mem'[g + k] = mem[g + k]
  <2>1. HasJump(mem', mem, f, (h - f - 5) % WordMod)
    BY <1>1, <1>2, JumpPlaced
  <2> QED
    BY <2>1 DEF HasJump
<1>4. intent'[f].to = "hook" /\ intent'[f].hook = h
  BY <1>1, <1>2 DEF To
<1>5. JumpsBy(f, (intent[f].hook - f - 5) % WordMod)'
  BY <1>3, <1>4 DEF JumpsBy
<1>6. AsIntended(f)'
  BY <1>4, <1>5 DEF AsIntended
<1> QED
  BY <1>2, <1>3, <1>6, OnePatched

LEMMA HotpatchKeeps == ASSUME HookInv, NEW f \in Functions, NEW h \in Hooks, Hotpatch(f, h) PROVE HookInv'
<1>1. FuncSize \in Nat /\ FuncSize > 5 /\ f \in Int /\ h \in Int /\ 0 \in 0..(FuncSize - 6)
  BY HooksAssumption
<1>2. Nops(0) = <<>>
  BY DEF Nops
<1>3. Jump(f, h) \in Seq(Int)
  <2>1. PICK jump : jump = Jump(f, h)
    OBVIOUS
  <2>2. jump \in Seq(Int)
    BY <1>1, <2>1 DEF Jump, BytesOf, JMP, ByteMod, WordMod
  <2> QED
    BY <2>1, <2>2
<1>4. Jump(f, h) \o Nops(0) = Jump(f, h)
  BY <1>2, <1>3, ConcatEmptySeq, Zenon
<1>5. Patched(Written(mem, f, Jump(f, h) \o Nops(0)), f, To(h))
  BY <1>4 DEF Hotpatch
<1> QED
  BY <1>1, <1>5, JumpKeeps

LEMMA DetourKeeps ==
    ASSUME HookInv, NEW f \in Functions, NEW h \in Hooks, NEW size \in Sizes, Detour(f, h, size)
    PROVE  HookInv'
<1>1. FuncSize \in Nat /\ size \in 0..(FuncSize - 1) /\ size >= 5
  BY HooksAssumption DEF Detour
<1>2. size - 5 \in 0..(FuncSize - 6)
  BY <1>1
<1>3. Patched(Written(mem, f, Jump(f, h) \o Nops(size - 5)), f, To(h))
  BY DEF Detour
<1> QED
  BY <1>2, <1>3, JumpKeeps

LEMMA DetourTrampKeeps ==
    ASSUME HookInv, NEW f \in Functions, NEW h \in Hooks, NEW size \in Sizes, DetourTramp(f, h, size)
    PROVE  HookInv'
<1>1. /\ FuncSize \in Nat /\ size \in 0..(FuncSize - 1) /\ size >= 5 /\ f \in Int /\ h \in Int
      /\ mem[f + FuncSize - 1] = RET /\ f \in DOMAIN intent
  BY HooksAssumption DEF DetourTramp, HookInv
<1>2. size - 5 \in 0..(FuncSize - 6)
  BY <1>1
<1>13. PICK hooked : hooked = Written(mem, f, Jump(h, f) \o Nops(size - 5))
  OBVIOUS
<1>14. PICK prologue : prologue = [k \in 1..size |-> mem[f + k - 1]]
  OBVIOUS
<1>15. PICK at \in Blocks :
         /\ mem' = Written(hooked, at, prologue \o FARJMP \o BytesOf((f + 5) % WordMod))
         /\ intent' = [intent EXCEPT ![f] = [to |-> "tramp", hook |-> h]]
  BY <1>13, <1>14 DEF DetourTramp, Patched
<1>3. /\ hooked = Written(mem, f, Jump(h, f) \o Nops(size - 5))
      /\ prologue = [k \in 1..size |-> mem[f + k - 1]]
      /\ mem' = Written(hooked, at, prologue \o FARJMP \o BytesOf((f + 5) % WordMod))
      /\ intent' = [intent EXCEPT ![f] = [to |-> "tramp", hook |-> h]]
  BY <1>13, <1>14, <1>15
<1>4. /\ hooked[f + FuncSize - 1] = RET
      /\ \A g \in Functions : g # f => \A k \in 0..(FuncSize - 1) : hooked[g + k] = mem[g + k]
  <2>1. HasJump(hooked, mem, f, (f - h - 5) % WordMod)
    BY <1>1, <1>2, <1>3, JumpPlaced
  <2> QED
    BY <2>1 DEF HasJump
<1>5. PICK bytes : bytes = prologue \o FARJMP \o BytesOf((f + 5) % WordMod)
  OBVIOUS
<1>6. Len(bytes) \in 0..(FuncSize + 6)
  <2>1. PICK S : S = {mem[f + k - 1] : k \in 1..size} \cup Int
    OBVIOUS
  <2>13. size \in Nat
    BY <1>1
  <2>2. prologue \in Seq(S) /\ Len(prologue) = size
    BY <1>14, <2>1, <2>13
  <2>3. FARJMP \in Seq(S) /\ Len(FARJMP) = 2
    BY <2>1 DEF FARJMP
  <2>4. PICK w : w = (f + 5) % WordMod
    OBVIOUS
  <2>5. w \in Nat
    <3>1. f + 5 \in Int
      BY <1>1
    <3> QED
      BY <2>4, <3>1, ModWord, WordIsNat
  <2>12. PICK word : word = BytesOf(w)
    OBVIOUS
  <2>6. word \in Seq(S) /\ Len(word) = 4
    BY <2>1, <2>5, <2>12 DEF BytesOf, ByteMod
  <2>7. PICK front : front = prologue \o FARJMP
    OBVIOUS
  <2>8. front \in Seq(S) /\ Len(front) = Len(prologue) + Len(FARJMP)
    BY <2>2, <2>3, <2>7, ConcatProperties, Zenon
  <2>9. Len(front \o word) = Len(front) + Len(word)
    BY <2>6, <2>8, ConcatProperties, Zenon
  <2>10. bytes = front \o word
    BY <1>5, <2>4, <2>7, <2>12
  <2>11. Len(bytes) = size + 2 + 4
    BY <2>2, <2>3, <2>6, <2>8, <2>9, <2>10
  <2> QED
    BY <1>1, <2>11
<1>7. \A g \in Functions : \A k \in 0..(FuncSize - 1) : mem'[g + k] = hooked[g + k]
  <2>1. mem' = Written(hooked, at, bytes)
    BY <1>3, <1>5, Zenon
  <2>2. \A g \in Functions : \A k \in 0..(FuncSize - 1) : Written(hooked, at, bytes)[g + k] = hooked[g + k]
    BY <1>6, WrittenBlock
  <2> QED
    BY <2>1, <2>2, Zenon
<1>8. mem'[f + FuncSize - 1] = RET
  <2>1. FuncSize - 1 \in 0..(FuncSize - 1) /\ f + FuncSize - 1 = f + (FuncSize - 1)
    BY <1>1
  <2> QED
    BY <1>4, <1>7, <2>1
<1>9. intent'[f].to = "tramp"
  BY <1>1, <1>3
<1>11. AsIntended(f)'
  BY <1>9 DEF AsIntended
<1>12. \A g \in Functions : g # f => \A k \in 0..(FuncSize - 1) : mem'[g + k] = mem[g + k]
  BY <1>4, <1>7
<1> QED
  BY <1>3, <1>8, <1>11, <1>12, OnePatched

LEMMA NopKeeps == ASSUME HookInv, NEW f \in Functions, NopFunction(f) PROVE HookInv'
<1>1. FuncSize \in Nat /\ FuncSize > 5 /\ f \in Nat /\ mem[f + FuncSize - 1] = RET /\ f \in DOMAIN intent
  BY HooksAssumption DEF HookInv
<1>2. PICK n : n = GetFuncSize(f)
  OBVIOUS
<1>3. n \in 0..(FuncSize - 1) /\ IsRet(mem[f + n])
  BY <1>1, <1>2, FirstRet
<1>4. PICK bytes : bytes = Nops(n)
  OBVIOUS
<1>5. Len(bytes) = n /\ \A k \in 1..n : bytes[k] = NOP
  BY <1>3, <1>4 DEF Nops
<1>6. /\ mem' = Written(mem, f, bytes) /\ intent' = [intent EXCEPT ![f] = [to |-> "ret", hook |-> 0]]
  BY <1>2, <1>4 DEF NopFunction, Patched
<1>7. /\ \A k \in 0..(n - 1) : mem'[f + k] = bytes[k + 1]
      /\ \A k \in n..(FuncSize - 1) : mem'[f + k] = mem[f + k]
      /\ \A g \in Functions : g # f => \A k \in 0..(FuncSize - 1) : mem'[g + k] = mem[g + k]
  BY <1>3, <1>5, <1>6, WrittenAt
<1>8. IsRet(mem'[f + n])
  BY <1>3, <1>7 DEF IsRet
<1>9. \A k \in 0..(n - 1) : mem'[f + k] = NOP
  BY <1>3, <1>5, <1>7
<1>10. mem'[f + FuncSize - 1] = RET
  <2>1. FuncSize - 1 \in n..(FuncSize - 1) /\ f + (FuncSize - 1) = f + FuncSize - 1
    BY <1>1, <1>3
  <2> QED
    BY <1>1, <1>7, <2>1
<1>11. NopsToRet(f)'
  BY <1>3, <1>8, <1>9 DEF NopsToRet, IsRet
<1>12. intent'[f].to = "ret"
  BY <1>1, <1>6
<1>13. AsIntended(f)'
  BY <1>11, <1>12 DEF AsIntended
<1> QED
  BY <1>6, <1>7, <1>10, <1>13, OnePatched

LEMMA NextHookInv == HookInv /\ [Next]_vars => HookInv'
<1> SUFFICES ASSUME HookInv, [Next]_vars PROVE HookInv'
  OBVIOUS
<1>1. CASE Next
  BY <1>1, NopKeeps, HotpatchKeeps, DetourKeeps, DetourTrampKeeps DEF Next
<1>2. CASE UNCHANGED vars
  BY <1>2 DEF vars, HookInv, AsIntended, JumpsBy, WordAt, NopsToRet, IsRet
<1> QED
  BY <1>1, <1>2
----------------------------------------------------------------------------
(* Where control goes *)

\* The first byte that is no nop is found.
LEMMA FirstRealIs ==
    ASSUME NEW f \in Functions, NEW n \in 0..(FuncSize - 1), mem[f + n] # NOP,
           \A k \in 0..(n - 1) : mem[f + k] = NOP
    PROVE  FirstReal(f) = f + n
<1>1. FuncSize \in Nat /\ f \in Nat /\ n \in Nat
  BY HooksAssumption
<1>2. \A b \in Cells(f, n) : mem[b] = NOP
  <2> SUFFICES ASSUME NEW b \in f..(f + n - 1) PROVE mem[b] = NOP
    BY DEF Cells
  <2>1. PICK k : k = b - f
    OBVIOUS
  <2>2. k \in 0..(n - 1) /\ b = f + k
    BY <1>1, <2>1
  <2> QED
    BY <2>2
<1>3. PICK a : a = f + n
  OBVIOUS
<1>4. a \in Cells(f, FuncSize) /\ a - f = n
  BY <1>1, <1>3 DEF Cells
<1>5. ASSUME NEW c \in Cells(f, FuncSize), mem[c] # NOP, \A b \in Cells(f, c - f) : mem[b] = NOP
      PROVE  c = a
  <2>1. c \in Int /\ c >= f
    BY <1>1 DEF Cells
  <2>2. ~(c < a)
    <3>1. c < a => c \in Cells(f, n)
      BY <1>1, <1>3, <2>1 DEF Cells
    <3> QED
      BY <1>2, <1>5, <3>1
  <2>3. ~(a < c)
    <3>1. a < c => a \in Cells(f, c - f)
      BY <1>1, <1>3, <2>1 DEF Cells
    <3> QED
      BY <1>3, <1>5, <3>1
  <2> QED
    BY <1>1, <1>3, <2>1, <2>2, <2>3
<1>6. mem[a] # NOP /\ \A b \in Cells(f, a - f) : mem[b] = NOP
  BY <1>2, <1>3, <1>4
<1> QED
  BY <1>3, <1>4, <1>5, <1>6 DEF FirstReal

THEOREM HookInvariant == Spec => []HookInv
<1> QED
  BY InitHookInv, NextHookInv, PTL DEF Spec

\* Whatever was patched before, and wherever the functions and the hooks lie,
\* control that enters a function goes where the last Hotpatch or Detour sends
\* it, or to a ret after NopFunction.
THEOREM LastPatchWins == Spec => []LastPatchDecides
<1>1. HookInv => LastPatchDecides
  <2> SUFFICES ASSUME HookInv, NEW f \in Functions
               PROVE  /\ intent[f].to = "self" => Lands(f) = f
                      /\ intent[f].to = "hook" => Lands(f) = intent[f].hook
                      /\ intent[f].to = "ret" => Lands(f) \in Cells(f, FuncSize) /\ IsRet(mem[Lands(f)])
    BY DEF LastPatchDecides
  <2>1. FuncSize \in Nat /\ FuncSize > 5 /\ f \in Nat /\ Hooks \subseteq 0..(WordMod - 1)
    BY HooksAssumption
  <2>2. AsIntended(f)
    BY DEF HookInv
  <2>3. mem[f] # NOP => FirstReal(f) = f
    <3>1. 0 \in 0..(FuncSize - 1) /\ f + 0 = f /\ \A k \in 0..(0 - 1) : mem[f + k] = NOP
      BY <2>1
    <3> QED
      BY <3>1, FirstRealIs
  <2>4. ASSUME intent[f].to = "self" PROVE Lands(f) = f
    <3>1. mem[f] = BODY
      BY <2>2, <2>4 DEF AsIntended
    <3> QED
      BY <2>3, <3>1 DEF Lands, BODY, NOP, JMP
  <2>5. ASSUME NEW w, JumpsBy(f, w) PROVE Lands(f) = (f + 5 + w) % WordMod
    <3>1. mem[f] = JMP /\ WordAt(mem, f + 1) = w
      BY <2>5 DEF JumpsBy
    <3>2. FirstReal(f) = f
      BY <2>3, <3>1 DEF JMP, NOP
    <3> QED
      BY <3>1, <3>2 DEF Lands
  <2>6. ASSUME intent[f].to = "hook" PROVE Lands(f) = intent[f].hook
    <3>1. PICK h : h = intent[f].hook
      OBVIOUS
    <3>2. h \in 0..(WordMod - 1) /\ JumpsBy(f, (h - f - 5) % WordMod)
      BY <2>1, <2>2, <2>6, <3>1 DEF AsIntended
    <3>3. (f + 5 + ((h - f - 5) % WordMod)) % WordMod = h
      <4>2. h \in 0..(WordMod - 1)
        BY <3>2
      <4>1. f \in Int
        BY <2>1
      <4> QED
        BY <4>1, <4>2, GoesTo, Zenon
    <3> QED
      BY <2>5, <3>1, <3>2, <3>3
  <2>8. ASSUME intent[f].to = "ret" PROVE Lands(f) \in Cells(f, FuncSize) /\ IsRet(mem[Lands(f)])
    <3>1. PICK n \in 0..(FuncSize - 1) : IsRet(mem[f + n]) /\ \A k \in 0..(n - 1) : mem[f + k] = NOP
      BY <2>2, <2>8 DEF AsIntended, NopsToRet
    <3>2. FirstReal(f) = f + n
      BY <3>1, FirstRealIs DEF IsRet, RET, RETN, NOP
    <3>3. Lands(f) = f + n
      BY <3>1, <3>2 DEF Lands, IsRet, RET, RETN, JMP
    <3> QED
      BY <2>1, <3>1, <3>3 DEF Cells
  <2> QED
    BY <2>4, <2>6, <2>8
<1> QED
  BY <1>1, HookInvariant, PTL
=============================================================================
